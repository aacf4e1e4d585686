----------------------------- MODULE YarnMigPatch -----------------------------
(***************************************************************************)
(* The GPU resource plugin of YARN 3.1 and 3.2 with the MIG patches:        *)
(* GpuDiscoverer reads the configured list of allowed devices, or asks the  *)
(* driver, when the node manager starts; NvidiaDockerV2CommandPlugin names  *)
(* a container's devices when it is launched.  A device is                  *)
(* <<index, minor number, MIG index>>, with Whole for no MIG index.         *)
(*                                                                         *)
(* The three patches differ in what a malformed or repeated entry does: 3.1 *)
(* always fails, 3.1.2 accepts repeated ones, and 3.2.1 may be configured   *)
(* not to fail fast.                                                       *)
(*                                                                         *)
(* External: the node manager assigns devices to containers; it keeps them  *)
(* in maps ordered by GpuDevice.compareTo.                                  *)
(***************************************************************************)
EXTENDS MigDevices, Sequences

CONSTANTS
  MaxInstances,   \* bound: instances of one GPU
  AllowedLists,   \* values of allowed-gpu-devices: entries split at the colons
  Container,      \* containers that ask this host for devices
  EnvOf,          \* NVIDIA_MIG_PLUGIN_THROW_ON_MULTIPLE_GPUS of each container
  CountOf         \* devices each container asks for

NoNumber == -2    \* a part that does not parse as a number
Automatic == <<>>      \* the value "auto"

ASSUME YarnMigPatchAssumption ==
  /\ MaxInstances \in Nat
  /\ AllowedLists \subseteq Seq(Seq(Int) \ {<<>>})
  /\ EnvOf \in [Container -> {"unset", "true", "false"}]
  /\ CountOf \in [Container -> Nat \ {0}]

VARIABLES
  version,            \* which patch
  failFast,           \* 3.2.1: throwIfNecessary throws
  useMIGEnabledGPUs,
  layout,             \* what nvidia-smi -q -x reports
  allowed,            \* the configured list
  pc,                 \* discovering, ready or failed
  next,               \* the GPU, or the entry, the loop is at
  gpuDevices,         \* the devices announced to YARN, in order
  phase,              \* what became of each container
  assigned,           \* the devices assigned to each container
  visible             \* the slices its NVIDIA_VISIBLE_DEVICES names

confVars == <<version, failFast, useMIGEnabledGPUs, layout, allowed>>
containerVars == <<phase, assigned, visible>>
vars == <<confVars, pc, next, gpuDevices, containerVars>>

Devices == {gpuDevices[i] : i \in DOMAIN gpuDevices}

Init ==
  /\ version \in {"3.1.2", "3.1.3", "3.2.1"}
  /\ failFast \in BOOLEAN /\ (version # "3.2.1" => failFast)
  /\ useMIGEnabledGPUs \in BOOLEAN
  /\ layout \in Layouts(MaxInstances)
  /\ allowed \in AllowedLists \cup {Automatic}
  /\ pc = "discovering" /\ next = 0 /\ gpuDevices = <<>>
  /\ phase = [c \in Container |-> "requested"]
  /\ assigned = [c \in Container |-> {}]
  /\ visible = [c \in Container |-> {}]

-----------------------------------------------------------------------------
(* The discovery, one GPU at a time.                                        *)

\* Mutant: a GPU in MIG mode is added as a device too.
WithWholeGpu(g) ==
  <<<<g, g, Whole>>>> \o (IF useMIGEnabledGPUs /\ layout[g] # NotSplit
                          THEN [m \in 1 .. layout[g] |-> <<g, g, m - 1>>] ELSE <<>>)

\* The instances of a GPU in MIG mode, if MIG is to be used; else the GPU.
DevicesOfGpu(g) ==
  IF useMIGEnabledGPUs /\ layout[g] # NotSplit
  THEN [m \in 1 .. layout[g] |-> <<g, g, m - 1>>]
  ELSE <<<<g, g, Whole>>>>

DiscoverGpu ==
  /\ pc = "discovering" /\ allowed = Automatic /\ next \in Gpu
  /\ gpuDevices' = gpuDevices \o DevicesOfGpu(next)
  /\ next' = next + 1
  /\ UNCHANGED <<confVars, pc, containerVars>>

-----------------------------------------------------------------------------
(* The configured list, one entry at a time.                                *)

Entry == allowed[next + 1]
AtEntry == pc = "discovering" /\ allowed # Automatic /\ next < Len(allowed)

IsMig(e) == useMIGEnabledGPUs /\ Len(e) = 3
HasLegalLength(e) == Len(e) = 2 \/ IsMig(e)

\* Parts are parsed from the left, and there is an exception at the first that is
\* not a number or not there.
PartsRead(e) == IF IsMig(e) THEN 1 .. 3 ELSE 1 .. 2
NotANumber(e) ==
  \E i \in PartsRead(e) \cap DOMAIN e :
    e[i] = NoNumber /\ \A j \in 1 .. i - 1 : e[j] # NoNumber
PartMissing(e) == ~NotANumber(e) /\ Len(e) < 2
Parses(e) == ~NotANumber(e) /\ ~PartMissing(e)

\* A fourth part is never looked at.
DeviceOf(e) == <<e[1], e[2], IF IsMig(e) THEN e[3] ELSE Whole>>

\* Mutant: entries are compared as they are written.
IsRepeatedEntry(e) == \E i \in 1 .. next : allowed[i] = e

\* GpuDevice.equals compares all three numbers.
IsRepeated(e) == DeviceOf(e) \in Devices

\* Without fail-fast the patch for 3.2.1 logs that it ignores an entry of a wrong
\* length, and goes on with it; it ignores one that does not parse; it ignores
\* a repeated one unless MIG is used.
EntryRaises(e) ==
  \/ PartMissing(e)
  \/ failFast /\ (~HasLegalLength(e) \/ NotANumber(e))
  \/ Parses(e) /\ IsRepeated(e) /\ version # "3.1.2" /\ (failFast \/ useMIGEnabledGPUs)

AddEntry ==
  /\ AtEntry /\ ~EntryRaises(Entry)
  /\ gpuDevices' = IF NotANumber(Entry) \/ (IsRepeated(Entry) /\ version # "3.1.2")
                   THEN gpuDevices ELSE Append(gpuDevices, DeviceOf(Entry))
  /\ next' = next + 1
  /\ UNCHANGED <<confVars, pc, containerVars>>

\* The node manager does not start.
FailOnEntry ==
  /\ AtEntry /\ EntryRaises(Entry)
  /\ pc' = "failed"
  /\ UNCHANGED <<confVars, next, gpuDevices, containerVars>>

GpusUsableByYarn ==
  /\ pc = "discovering"
  /\ next = IF allowed = Automatic THEN GpuCount ELSE Len(allowed)
  /\ pc' = "ready"
  /\ UNCHANGED <<confVars, next, gpuDevices, containerVars>>

-----------------------------------------------------------------------------
(* Containers.                                                              *)

\* GpuDevice.compareTo is 0.
CompareEqual(d, e) == d[1] = e[1] /\ d[2] = e[2] /\ d[3] = e[3]

Used(d) == \E c \in Container : \E e \in assigned[c] : CompareEqual(d, e)

\* External: as many devices as asked for, none of them in use.
AssignGpus(c) ==
  /\ pc = "ready" /\ phase[c] = "requested"
  /\ \E S \in SUBSET {d \in Devices : ~Used(d)} :
       /\ Cardinality(S) = CountOf[c]
       /\ assigned' = [assigned EXCEPT ![c] = S]
  /\ phase' = [phase EXCEPT ![c] = "assigned"]
  /\ UNCHANGED <<confVars, pc, next, gpuDevices, visible>>

\* Mutant: without a setting there is no exception.
ThrowsIfSet(c) ==
  useMIGEnabledGPUs /\ Cardinality(assigned[c]) > 1 /\ EnvOf[c] = "true"

ThrowsOnMultipleGpus(c) ==
  /\ useMIGEnabledGPUs /\ Cardinality(assigned[c]) > 1
  /\ EnvOf[c] \in {"unset", "true"}

\* Mutant: the MIG index is left out.
IndexOf(d) == <<d[1], Whole>>

\* index:MIG index, or the index alone; never the minor number.
NameOf(d) == <<d[1], d[3]>>

UpdateDockerRunCommand(c) ==
  /\ phase[c] = "assigned" /\ ~ThrowsOnMultipleGpus(c)
  /\ visible' = [visible EXCEPT ![c] = {NameOf(d) : d \in assigned[c]}]
  /\ phase' = [phase EXCEPT ![c] = "running"]
  /\ UNCHANGED <<confVars, pc, next, gpuDevices, assigned>>

RefuseDockerRunCommand(c) ==
  /\ phase[c] = "assigned" /\ ThrowsOnMultipleGpus(c)
  /\ phase' = [phase EXCEPT ![c] = "refused"]
  /\ UNCHANGED <<confVars, pc, next, gpuDevices, assigned, visible>>

\* External: the container ends, and its devices are free again.
ReleaseGpus(c) ==
  /\ phase[c] \in {"running", "refused"}
  /\ phase' = [phase EXCEPT ![c] = "ended"]
  /\ assigned' = [assigned EXCEPT ![c] = {}]
  /\ UNCHANGED <<confVars, pc, next, gpuDevices, visible>>

Next ==
  \/ DiscoverGpu \/ AddEntry \/ FailOnEntry \/ GpusUsableByYarn
  \/ \E c \in Container :
       \/ AssignGpus(c) \/ UpdateDockerRunCommand(c)
       \/ RefuseDockerRunCommand(c) \/ ReleaseGpus(c)
Spec == Init /\ [][Next]_vars

-----------------------------------------------------------------------------
SliceOf(d) == <<d[1], d[3]>>

TypeOK ==
  /\ pc \in {"discovering", "ready", "failed"} /\ next \in Nat
  /\ phase \in [Container -> {"requested", "assigned", "running", "refused", "ended"}]
  /\ \A c \in Container : assigned[c] \subseteq Devices
  /\ \A c \in Container : visible[c] \subseteq {SliceOf(d) : d \in Devices}

\* What an administrator has to see to: entries the patch reads as devices are
\* equal, or name hardware that is apart.
ListNamesHardwareOnce ==
  \A e, f \in {allowed[i] : i \in DOMAIN allowed} :
    Parses(e) /\ Parses(f) =>
      DeviceOf(e) = DeviceOf(f) \/ ~Overlap(SliceOf(DeviceOf(e)), SliceOf(DeviceOf(f)))

\* The devices announced to YARN, and only the patch for 3.1.2 announces one of
\* them twice, are apart: automatic discovery never announces a GPU beside its
\* instances, and a list is kept to what it names.
AnnouncedIsApart ==
  ListNamesHardwareOnce =>
    \A i, j \in DOMAIN gpuDevices :
      i # j /\ Overlap(SliceOf(gpuDevices[i]), SliceOf(gpuDevices[j])) =>
        version = "3.1.2" /\ allowed # Automatic /\ gpuDevices[i] = gpuDevices[j]

\* What each container holds, for the abstract specification.
Holds == [c \in Container |->
           IF phase[c] = "running" /\ ListNamesHardwareOnce THEN visible[c] ELSE {}]

\* The patched YARN keeps the hardware of running containers apart, whatever the
\* configuration, as long as the list itself names no hardware twice.
Assignment == INSTANCE DeviceAssignment WITH holds <- Holds
AssignmentSpec == Assignment!Spec

\* A container is launched with several MIG devices, or refused them, by its own
\* setting and the default, whatever other containers come and go; and it sees as
\* many as it asked for.
OwnSettingDecides ==
  \A c \in Container :
    /\ phase[c] = "running" =>
         /\ Cardinality(visible[c]) = CountOf[c] \/ ~ListNamesHardwareOnce
         /\ useMIGEnabledGPUs /\ CountOf[c] > 1 => EnvOf[c] = "false"
    /\ phase[c] = "refused" => useMIGEnabledGPUs /\ CountOf[c] > 1 /\ EnvOf[c] # "false"
=============================================================================
