------------------------------ MODULE MigDevices ------------------------------
(***************************************************************************)
(* The GPUs of a host as the YARN node manager may hand them out.  A GPU   *)
(* whose MIG mode is enabled is split into instances 0, 1, ...; any other  *)
(* GPU is handed out whole.  layout[g] is the number of instances of GPU g, *)
(* or NotSplit.                                                            *)
(***************************************************************************)
EXTENDS Integers, FiniteSets

CONSTANT GpuCount     \* GPUs of the host, numbered from 0 by nvidia-smi

ASSUME GpuCountAssumption == GpuCount \in Nat

Gpu == 0 .. GpuCount - 1
NotSplit == -1
Whole == -1           \* the instance number of a GPU that is handed out whole

Layouts(max) == [Gpu -> {NotSplit} \cup 0 .. max]

\* What can be handed out: one instance, or one whole GPU.
InstancesOf(n) == IF n = NotSplit THEN {Whole} ELSE 0 .. n - 1
Slices(layout) == UNION {{<<g, m>> : m \in InstancesOf(layout[g])} : g \in Gpu}

\* Slices share hardware when they are the same one, or one is the whole GPU.
Overlap(s, t) == s[1] = t[1] /\ (s[2] = t[2] \/ Whole \in {s[2], t[2]})

\* The order of nvidia-smi -L: by GPU, then by instance.
Precedes(s, t) == s[1] < t[1] \/ (s[1] = t[1] /\ s[2] < t[2])
RankIn(slices, s) == Cardinality({t \in slices : Precedes(t, s)})
=============================================================================
