--------------------------- MODULE ReplicatedLog ---------------------------
(***************************************************************************)
(* What a shadow metadata server promises, without the protocol: while it  *)
(* is in service its metadata is the result of the first changes of the    *)
(* master's history, and it moves along that history one change at a time. *)
(* Out of service (replica = None) it promises nothing; it comes back by   *)
(* loading any initial part of the history.                                *)
(***************************************************************************)
EXTENDS Naturals, Sequences

CONSTANT None

VARIABLES log,      \* the changes the master has made, in order
          replica   \* the changes the shadow in service has applied, or None

vars == <<log, replica>>

Prefix(s, t) == Len(s) <= Len(t) /\ \A i \in 1..Len(s) : s[i] = t[i]

Init == log = <<>> /\ replica = None

\* The master makes a change.
Change == /\ log' \in Seq(Nat)
          /\ Len(log') = Len(log) + 1 /\ Prefix(log, log')
          /\ UNCHANGED replica

\* The shadow applies the next change of the history.
Apply == /\ replica # None
         /\ Len(replica) < Len(log)
         /\ replica' = Append(replica, log[Len(replica) + 1])
         /\ UNCHANGED log

\* The shadow goes out of service.
Leave == replica # None /\ replica' = None /\ UNCHANGED log

\* The shadow comes into service with some initial part of the history.
Join == /\ replica = None
        /\ replica' \in Seq(Nat)
        /\ Prefix(replica', log)
        /\ UNCHANGED log

\* The shadow in service replaces the master: its history is now the history.
Failover == replica # None /\ log' = replica /\ replica' = None

Next == Change \/ Apply \/ Leave \/ Join \/ Failover

Spec == Init /\ [][Next]_vars
=============================================================================
