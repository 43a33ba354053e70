------------------------------- MODULE MCSpouts -------------------------------
EXTENDS Spouts, TLC

U8 == Prim(1)
None == Variant(1, <<>>)
Some(v) == Variant(2, <<v>>)
\* enum Job { Stop, Run(u8, NonZeroU8) = 3, Skip(bool) }
Job ==
  LET tag == Discriminants(<<Auto, 3, Auto>>)
  IN  Enum(1, <<Arm(tag[1], <<>>), Arm(tag[2], <<U8, NonZero(1)>>), Arm(tag[3], <<Bool>>)>>)
Long(c) == <<c, c, 1, 2, 3, 2, 1>>

Setup(modes, T, items, reduce) ==
  [i \in DOMAIN modes |-> [mode |-> modes[i], type |-> T, items |-> items, reduce |-> reduce]]

MCSetups ==
  Setup(<<"channel", "ring", "consumer">>, U8, <<1, 2, 3>>, FALSE)
  \o Setup(<<"mutex">>, U8, <<1, 2>>, FALSE)
  \o Setup(<<"channel">>, U8, <<1, 2, 3>>, TRUE)
  \o Setup(<<"channel">>, Option(Str), <<Some(Long(1)), Some(Long(2)), None>>, FALSE)
  \o Setup(<<"channel">>, Prod(<<Job, SetOf(U8), Skip(0)>>),
             <<<<Variant(2, <<7, 2>>), {5, 1}, 0>>,
               <<Variant(1, <<>>), {}, 0>>>>, FALSE)
  \o Setup(<<"channel">>, Outcome(MapOf(U8, Str), Usize),
             <<Variant(1, <<(2 :> <<1>>) @@ (1 :> <<>>)>>), Variant(2, <<63>>)>>, FALSE)
===============================================================================
