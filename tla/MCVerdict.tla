------------------------------ MODULE MCVerdict ------------------------------
EXTENDS Verdict
===============================================================================
