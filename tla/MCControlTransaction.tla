----------------------- MODULE MCControlTransaction -----------------------
(* Small instances of ControlTransaction for TLC.                          *)
EXTENDS ControlTransaction

\* The controls in the order of _build_controls, the last not approved.
AllKinds == <<"volatile", "exact", "priority", "power", "scheduler", "polling", "exact">>
FirstSix == {1..6}

\* A scheduler beside others.
WithScheduler == <<"volatile", "scheduler", "exact">>
Both == {{1, 2}}
\* What is approved differs from one start to the next.
Growing == {{1}, {1, 2}, {1, 2, 3}}

\* OriginalIsKnown, of the schedulers as well.
EveryOriginalIsKnown == \A c \in Controls : host[c] # "observe" => file = "whole"
===========================================================================
