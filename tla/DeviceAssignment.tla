--------------------------- MODULE DeviceAssignment ---------------------------
(***************************************************************************)
(* What every way of giving MIG devices to YARN containers promises: while  *)
(* a container runs, the hardware it sees is its own, whole GPUs and MIG    *)
(* instances alike, and it is not changed under it.  MigPlugin and          *)
(* YarnMigPatch implement this specification.                               *)
(***************************************************************************)
EXTENDS MigDevices

CONSTANT Container

VARIABLE holds      \* the slices each running container sees

Apart(S, T) == \A s \in S, t \in T : ~Overlap(s, t)

Init == holds = [c \in Container |-> {}]

\* A container starts with slices nobody else has a part of.
Grant(c) ==
  /\ holds[c] = {} /\ holds'[c] # {}
  /\ \A d \in Container \ {c} : Apart(holds'[c], holds[d])
  /\ holds' = [holds EXCEPT ![c] = holds'[c]]

\* A container ends and gives back all of them.
Drop(c) ==
  /\ holds[c] # {}
  /\ holds' = [holds EXCEPT ![c] = {}]

Next == \E c \in Container : Grant(c) \/ Drop(c)

Spec == Init /\ [][Next]_holds

-----------------------------------------------------------------------------
\* No two running containers see hardware in common.
Disjoint == \A c, d \in Container : c # d => Apart(holds[c], holds[d])
=============================================================================
