----------------------------- MODULE MCAppLocks -----------------------------
(* AppLocks on small instances: two invocations over two lock names, like   *)
(* the lists the jobs pass.                                                 *)
EXTENDS AppLocks, TLC

CONSTANTS s1, s2, gate, worker

TwoSessions == {s1, s2}
TwoNames == {gate, worker}

\* Both take both names, in the same order.
SameOrder == [s \in TwoSessions |-> <<gate, worker>>]

\* They take them in opposite orders.
Pair == s1 :> <<gate, worker>> @@ s2 :> <<worker, gate>>
=============================================================================
