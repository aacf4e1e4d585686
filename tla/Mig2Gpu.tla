------------------------------- MODULE Mig2Gpu -------------------------------
(***************************************************************************)
(* MIG on an unmodified YARN: scripts that stand in for nvidia-smi and      *)
(* nvidia-container-cli.  When the node manager starts, the nvidia-smi      *)
(* wrapper pipes the driver's XML through mig2gpu.sh, and YARN numbers the  *)
(* <gpu> elements it prints.  When a container is launched, the wrapper of  *)
(* nvidia-container-cli runs mig2gpu.sh again and turns YARN's numbers into *)
(* device ids.  The number is all that passes from one to the other: both   *)
(* must list the same devices in the same order.                           *)
(*                                                                         *)
(* External: the node manager assigns numbers to containers, and an         *)
(* administrator may split the GPUs anew while no container runs.           *)
(***************************************************************************)
EXTENDS MigDevices, SequencesExt

CONSTANTS
  MaxInstances,  \* bound: instances of one GPU
  Container,     \* containers that ask this host for devices
  MaxDevices     \* bound: devices of one container

ASSUME Mig2GpuAssumption == MaxInstances \in Nat /\ MaxDevices \in Nat \ {0}

Layout == Layouts(MaxInstances)

\* The environment of the scripts; the guide asks for the same one in
\* yarn-env.sh and in the container runtime's configuration.
Env == [MIG_AS_GPU_ENABLED : {"unset", "0", "1"},
        ENABLE_NON_MIG_GPUS : {"unset", "0", "1"}]

VARIABLES
  env,          \* the environment both wrappers run in
  layout,       \* how the GPUs are split now
  discovered,   \* how they were split when the node manager started
  assigned,     \* the numbers YARN assigned to each container
  visible       \* the device ids each container was launched with; {} before

vars == <<env, layout, discovered, assigned, visible>>

migAsGpu == env.MIG_AS_GPU_ENABLED = "1"
enableNonMigGpus == env.ENABLE_NON_MIG_GPUS \in {"unset", "1"}

\* One element for each instance of each GPU in MIG mode, in the driver's order.
MigGpuOut(l) ==
  FlattenSeq([i \in 1 .. GpuCount |->
    [m \in 1 .. (IF l[i - 1] = NotSplit THEN 0 ELSE l[i - 1]) |-> <<i - 1, m - 1>>]])

AllGpus == [i \in 1 .. GpuCount |-> <<i - 1, Whole>>]

\* Mutant: a GPU in MIG mode is printed beside its instances.
EveryGpuOut(l) == AllGpus

\* The elements of the GPUs that are not in MIG mode.
NonMigGpuOut(l) ==
  FlattenSeq([i \in 1 .. GpuCount |->
    IF l[i - 1] = NotSplit THEN <<<<i - 1, Whole>>>> ELSE <<>>])

\* mig2gpu.sh.
Mig2GpuMain(l) ==
  IF MigGpuOut(l) = <<>> \/ enableNonMigGpus
  THEN MigGpuOut(l) \o NonMigGpuOut(l) ELSE MigGpuOut(l)

\* What the nvidia-smi wrapper prints for -q -x.
NvidiaSmi(l) == IF migAsGpu THEN Mig2GpuMain(l) ELSE AllGpus

\* Mutant: elements are counted from 1.
NumberedFromOne(l) == [i \in 1 .. Len(Mig2GpuMain(l)) |-> Mig2GpuMain(l)[i]]

\* The container wrapper counts the elements it reads from 0.
Numbered(l) == [i \in 0 .. Len(Mig2GpuMain(l)) - 1 |-> Mig2GpuMain(l)[i + 1]]

\* --device=<numbers> as the wrapper passes it on: numbers it finds become device
\* ids, the others are dropped; when it finds none, the argument stays as it is,
\* and the driver takes the numbers for GPUs.
DeviceArgument(numbers, l) ==
  LET found == numbers \cap DOMAIN Numbered(l)
  IN IF migAsGpu /\ found # {}
     THEN {Numbered(l)[i] : i \in found}
     ELSE {<<i, Whole>> : i \in numbers}

-----------------------------------------------------------------------------
Init ==
  /\ env \in Env
  /\ layout \in Layout /\ discovered = layout
  /\ assigned = [c \in Container |-> {}]
  /\ visible = [c \in Container |-> {}]

\* YARN numbers the elements of the discovery from 0.
Known == 0 .. Len(NvidiaSmi(discovered)) - 1
Free == Known \ UNION {assigned[c] : c \in Container}

AssignGpus(c) ==
  /\ assigned[c] = {}
  /\ \E numbers \in SUBSET Free :
       /\ Cardinality(numbers) \in 1 .. MaxDevices
       /\ assigned' = [assigned EXCEPT ![c] = numbers]
  /\ UNCHANGED <<env, layout, discovered, visible>>

LaunchContainer(c) ==
  /\ assigned[c] # {} /\ visible[c] = {}
  /\ visible' = [visible EXCEPT ![c] = DeviceArgument(assigned[c], layout)]
  /\ UNCHANGED <<env, layout, discovered, assigned>>

EndContainer(c) ==
  /\ visible[c] # {}
  /\ assigned' = [assigned EXCEPT ![c] = {}]
  /\ visible' = [visible EXCEPT ![c] = {}]
  /\ UNCHANGED <<env, layout, discovered>>

\* The driver refuses to split a GPU anew while it is in use.
Reconfigure ==
  /\ \A c \in Container : visible[c] = {}
  /\ layout' \in Layout \ {layout}
  /\ UNCHANGED <<env, discovered, assigned, visible>>

RestartNodeManager ==
  /\ \A c \in Container : assigned[c] = {}
  /\ discovered # layout /\ discovered' = layout
  /\ UNCHANGED <<env, layout, assigned, visible>>

Next ==
  \/ \E c \in Container : AssignGpus(c) \/ LaunchContainer(c) \/ EndContainer(c)
  \/ Reconfigure \/ RestartNodeManager
Spec == Init /\ [][Next]_vars

-----------------------------------------------------------------------------
Running == {c \in Container : visible[c] # {}}

\* The GPUs are still split as the node manager found them.
UpToDate == layout = discovered

\* As long as the node manager's discovery is up to date, a container is given
\* the very devices YARN assigned to it: the reverse mapping by number agrees with
\* the discovery, in every environment and for every mix of GPUs.
VisibleIsAssigned ==
  UpToDate => \A c \in Running :
    visible[c] = {NvidiaSmi(discovered)[i + 1] : i \in assigned[c]}

\* What the containers hold as far as the discovery says.
Holds == [c \in Container |-> IF UpToDate THEN visible[c] ELSE {}]
Assignment == INSTANCE DeviceAssignment WITH holds <- Holds

\* As long as it is up to date, what a container was launched with is its own until
\* it ends.
AssignmentSpec == Assignment!Spec
=============================================================================
