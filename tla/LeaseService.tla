---------------------------- MODULE LeaseService ----------------------------
(***************************************************************************)
(* What the lock table app_locks promises to the jobs that use it, with no *)
(* SQL, clock or timer in sight.  A session asks for a set of names, works *)
(* only once it has been granted all of them, and a name that is live is   *)
(* never granted to a second session.  A grant may lapse under a session   *)
(* that still works (its renewals came too late), and the last owner of a  *)
(* name nobody has taken since may revive it (a renewal that came late).   *)
(* AppLocks implements this module, and what Jobs does to its locks is one *)
(* of the things this module allows.                                       *)
(***************************************************************************)
CONSTANTS Session,     \* invocations of withAppLocks
          Name,        \* lock names
          Needs,       \* [Session -> SUBSET Name], the names each one asks for
          NoOwner,     \* the owner of a name never granted
          Process,     \* what ends as a whole
          ProcessOf    \* [Session -> Process], where each invocation runs

VARIABLES owner,       \* the session a name was last granted to
          live,        \* whether that grant is in force
          granted,     \* the names a session has been granted and not let go
          working      \* the sessions whose callback runs

vars == <<owner, live, granted, working>>

Init ==
  /\ owner = [n \in Name |-> NoOwner]
  /\ live = [n \in Name |-> FALSE]
  /\ granted = [s \in Session |-> {}]
  /\ working = {}

\* A name that is not live is granted; the last one starts the work.
Grant(s, n) ==
  /\ s \notin working
  /\ n \in Needs[s] \ granted[s]
  /\ ~live[n]
  /\ owner' = [owner EXCEPT ![n] = s]
  /\ live' = [live EXCEPT ![n] = TRUE]
  /\ granted' = [granted EXCEPT ![s] = @ \cup {n}]
  /\ working' = IF granted[s] \cup {n} = Needs[s] THEN working \cup {s} ELSE working

\* A name whose grant lapsed, but which nobody took, comes back to its owner.
Revive(n) ==
  /\ owner[n] # NoOwner
  /\ live' = [live EXCEPT ![n] = TRUE]
  /\ UNCHANGED <<owner, granted, working>>

\* Time passes: grants lapse, whoever works under them.
Lapse ==
  /\ UNCHANGED <<owner, granted, working>>
  /\ \E gone \in SUBSET Name : live' = [n \in Name |-> live[n] /\ n \notin gone]

\* The work is over; the names are let go one by one afterwards.
Leave(s) ==
  /\ s \in working
  /\ working' = working \ {s}
  /\ UNCHANGED <<owner, live, granted>>

\* A name is let go: the grant ends, unless it has passed to somebody else.
GiveBack(s, n) ==
  /\ s \notin working
  /\ n \in granted[s]
  /\ granted' = [granted EXCEPT ![s] = @ \ {n}]
  /\ live' = [live EXCEPT ![n] = @ /\ owner[n] # s]
  /\ UNCHANGED <<owner, working>>

\* A process dies or gives up without letting go, with every session it has; what
\* it was asking for or giving back at that moment may still have reached the
\* service.
Abandon(p) ==
  LET gone == {s \in Session : ProcessOf[s] = p} IN
  /\ granted' = [s \in Session |-> IF s \in gone THEN {} ELSE granted[s]]
  /\ working' = working \ gone
  /\ \/ UNCHANGED <<owner, live>>
     \/ \E s \in gone : \E n \in Needs[s] :
          /\ ~live[n]
          /\ owner' = [owner EXCEPT ![n] = s]
          /\ live' = [live EXCEPT ![n] = TRUE]
     \/ \E s \in gone : \E n \in granted[s] :
          /\ owner[n] = s
          /\ live' = [live EXCEPT ![n] = FALSE]
          /\ UNCHANGED owner

Next ==
  \/ Lapse
  \/ \E s \in Session : \E n \in Needs[s] : Grant(s, n) \/ GiveBack(s, n)
  \/ \E s \in Session : Leave(s)
  \/ \E p \in Process : Abandon(p)
  \/ \E n \in Name : Revive(n)

Spec == Init /\ [][Next]_vars
=============================================================================
