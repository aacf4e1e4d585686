---------------------------- MODULE ServerLifecycle ----------------------------
(***************************************************************************)
(* What the server manager promises its caller, without tasks, stages or   *)
(* ports: the table of servers changes only as a whole.  It goes to exactly *)
(* Size hosts with one process each, or to empty, and to empty only when    *)
(* every server it named has ended or was killed.                           *)
(***************************************************************************)
EXTENDS Integers, FiniteSets

CONSTANTS
  Host,   \* hostnames
  Pid,    \* server processes
  NoPid,  \* the entry of a host without a server
  Size    \* the number of servers one start brings up

VARIABLES
  table,  \* the server of each host
  ended   \* processes that have ended, or were killed

vars == <<table, ended>>

Entries(t) == {h \in Host : t[h] # NoPid}

Init == table = [h \in Host |-> NoPid] /\ ended = {}

\* start_servers returns: Size hosts, one process each.
Publish ==
  /\ table' \in [Host -> Pid \cup {NoPid}]
  /\ Cardinality(Entries(table')) = Size
  /\ \A g, h \in Entries(table') : table'[g] = table'[h] => g = h
  /\ UNCHANGED ended

\* stop_servers reports success.
Clear ==
  /\ \A h \in Entries(table) : table[h] \in ended
  /\ table' = [h \in Host |-> NoPid]
  /\ UNCHANGED ended

\* Servers end, at any time and for any reason; none comes back.
End ==
  /\ ended \subseteq ended' /\ ended' \subseteq Pid
  /\ UNCHANGED table

Next == Publish \/ Clear \/ End
Spec == Init /\ [][Next]_vars
=============================================================================
