------------------------------- MODULE Manifest -------------------------------
(***************************************************************************)
(* pebble/src/manager/manifest.rs and verify.rs: the log of what was        *)
(* written to cold storage and removed from it.  Entries wait in a SpillRing*)
(* and reach the user's spout when the ring overflows or is flushed.        *)
(***************************************************************************)
EXTENDS Integers, Sequences, FiniteSets

CONSTANT LogCapacity   \* N of the manifest's ring

ASSUME ManifestAssumption == LogCapacity \in Nat \ {0}

VARIABLES
  seq,      \* number of the next entry
  entries,  \* the ring, oldest first
  journal   \* what the spout has received; it survives the manager

logVars == <<seq, entries, journal>>

LogInit == seq = 0 /\ entries = <<>> /\ journal = <<>>

LogPushed(es) ==
  LET full == entries \o es
      n    == IF Len(full) > LogCapacity THEN Len(full) - LogCapacity ELSE 0
  IN  /\ seq' = seq + Len(es)
      /\ journal' = journal \o SubSeq(full, 1, n)
      /\ entries' = SubSeq(full, n + 1, Len(full))

Entry(id, n, tombstone) == [id |-> id, seq |-> n, tombstone |-> tombstone]

Record(id)          == LogPushed(<<Entry(id, seq, FALSE)>>)
\* record, and the tombstone that follows when the write fails.
Undone(id)          == <<Entry(id, seq, FALSE), Entry(id, seq + 1, TRUE)>>
RecordUndone(id)    == LogPushed(Undone(id))
RecordTombstone(id) == LogPushed(<<Entry(id, seq, TRUE)>>)

\* Mutant of LogFlush: the ring is emptied only.
LogFlushDrops == entries' = <<>> /\ UNCHANGED <<seq, journal>>
LogFlush ==
  /\ journal' = journal \o entries
  /\ entries' = <<>>
  /\ UNCHANGED seq

\* A new manager numbers from 0 again; the ring of one that was killed is lost,
\* that of one that was dropped is flushed, es last.
LogLost        == seq' = 0 /\ entries' = <<>> /\ UNCHANGED journal
LogDropped(es) == seq' = 0 /\ entries' = <<>> /\ journal' = journal \o entries \o es

-------------------------------------------------------------------------------
(* verify() of the entries in es *)

Announced(es) == {es[i].id : i \in {j \in DOMAIN es : ~es[j].tombstone}}
LastSeq(es)   == CHOOSE m \in {es[i].seq : i \in DOMAIN es} :
                   \A i \in DOMAIN es : es[i].seq <= m
Gaps(es) ==
  IF es = <<>> \/ Len(es) > LastSeq(es) + 1 THEN 0 ELSE LastSeq(es) + 1 - Len(es)
Lost(nodes, inMemory, es) == nodes \ (inMemory \union Announced(es))
==============================================================================
