------------------------------- MODULE MigPlugin -------------------------------
(***************************************************************************)
(* The YARN device plugin NvidiaGPUMigPluginForRuntimeV2 as the node        *)
(* manager uses it: discovery when it starts (MigDiscovery), then the       *)
(* containers of many applications at once.  allocateDevices runs under the *)
(* node manager's device lock; the call of onDevicesAllocated that builds   *)
(* the container's NVIDIA_VISIBLE_DEVICES comes later, from the thread that *)
(* launches the container, so those of several containers interleave.  The  *)
(* node manager (external) keeps which device is assigned to which          *)
(* container.                                                               *)
(***************************************************************************)
EXTENDS MigDiscovery

CONSTANTS
  Container,    \* containers that ask this host for devices
  EnvOf,        \* NVIDIA_MIG_PLUGIN_THROW_ON_MULTIPLE_GPUS of each container
  CountOf,      \* devices each container asks for
  Docker,       \* the containers YARN runs with docker
  ConfThrows    \* throwOnMultipleGPUs of yarn-site.xml

ASSUME MigPluginAssumption ==
  /\ EnvOf \in [Container -> {"unset", "true", "false"}]
  /\ CountOf \in [Container -> Nat \ {0}]
  /\ Docker \subseteq Container /\ ConfThrows \in BOOLEAN

VARIABLES
  throwEnv,     \* shouldThrowOnMultipleGPUFromEnv; "unset" for null
  phase,        \* what became of each container
  assigned,     \* the devices assigned to each container
  visible       \* the slices its NVIDIA_VISIBLE_DEVICES names

vars == <<throwEnv, phase, assigned, visible, discoveryVars>>

Available == found \ UNION {assigned[c] : c \in Container}

\* Mutant: one device too many.
BasicScheduleOneMore(available, count) ==
  IF Cardinality(available) = count
  THEN available
  ELSE {d \in available : Cardinality({e \in available : e[1] < d[1]}) <= count}

\* The first count devices in the order of their ids.
BasicSchedule(available, count) ==
  IF Cardinality(available) = count
  THEN available
  ELSE {d \in available : Cardinality({e \in available : e[1] < d[1]}) < count}

\* Mutant: the default of the configuration is not to throw.
NeverThrow == throwEnv = "true"

ShouldThrowOnMultipleGPUs ==
  IF throwEnv # "unset" THEN throwEnv = "true" ELSE ConfThrows

\* Mutant: the MIG part of the device's name is left out.
NameOfGpu(d) == <<d[2], Whole>>

\* minor:mig for a device that migDevices knows, minor alone for any other.
NameOf(d) ==
  <<d[2], IF d[1] \in DOMAIN migDevices THEN migDevices[d[1]] ELSE Whole>>

Init ==
  /\ DiscoveryInit
  /\ throwEnv = "unset"
  /\ phase = [c \in Container |-> "requested"]
  /\ assigned = [c \in Container |-> {}]
  /\ visible = [c \in Container |-> {}]

\* The node manager discovers its devices before it takes containers.
Discover ==
  /\ \A c \in Container : phase[c] = "requested"
  /\ DiscoveryNext
  /\ UNCHANGED <<throwEnv, phase, assigned, visible>>

\* allocateDevices: a container's environment setting is kept in the plugin.
AllocateDevices(c) ==
  /\ pc = "done" /\ phase[c] = "requested"
  /\ CountOf[c] <= Cardinality(Available)
  /\ throwEnv' = IF EnvOf[c] # "unset" THEN EnvOf[c] ELSE throwEnv
  /\ assigned' = [assigned EXCEPT ![c] = BasicSchedule(Available, CountOf[c])]
  /\ phase' = [phase EXCEPT ![c] = "allocated"]
  /\ UNCHANGED <<visible, discoveryVars>>

\* Mutant: the check compares with 2.
RefuseMoreThanTwo(c) ==
  /\ phase[c] = "allocated"
  /\ Cardinality(assigned[c]) > 2 /\ ShouldThrowOnMultipleGPUs
  /\ phase' = [phase EXCEPT ![c] = "refused"]
  /\ UNCHANGED <<throwEnv, assigned, visible, discoveryVars>>

\* onDevicesAllocated throws: the container is not launched.
OnDevicesAllocatedThrows(c) ==
  /\ phase[c] = "allocated"
  /\ Cardinality(assigned[c]) > 1 /\ ShouldThrowOnMultipleGPUs
  /\ phase' = [phase EXCEPT ![c] = "refused"]
  /\ UNCHANGED <<throwEnv, assigned, visible, discoveryVars>>

\* onDevicesAllocated: NVIDIA_VISIBLE_DEVICES for a docker container, nothing
\* for any other.
OnDevicesAllocated(c) ==
  /\ phase[c] = "allocated"
  /\ ~(Cardinality(assigned[c]) > 1 /\ ShouldThrowOnMultipleGPUs)
  /\ visible' = [visible EXCEPT ![c] =
                   IF c \in Docker THEN {NameOf(d) : d \in assigned[c]} ELSE {}]
  /\ phase' = [phase EXCEPT ![c] = "running"]
  /\ UNCHANGED <<throwEnv, assigned, discoveryVars>>

\* The container ends; onDevicesReleased does nothing.
OnDevicesReleased(c) ==
  /\ phase[c] \in {"running", "refused"}
  /\ phase' = [phase EXCEPT ![c] = IF @ = "running" THEN "ended" ELSE "rejected"]
  /\ assigned' = [assigned EXCEPT ![c] = {}]
  /\ UNCHANGED <<throwEnv, visible, discoveryVars>>

Next ==
  \/ Discover
  \/ \E c \in Container :
       \/ AllocateDevices(c) \/ OnDevicesAllocatedThrows(c)
       \/ OnDevicesAllocated(c) \/ OnDevicesReleased(c)
Spec == Init /\ [][Next]_vars

\* getDevices runs until it returns or throws.
FairSpec == Spec /\ WF_vars(Discover /\ Loops)

-----------------------------------------------------------------------------
TypeOK ==
  /\ throwEnv \in {"unset", "true", "false"}
  /\ phase \in [Container ->
       {"requested", "allocated", "running", "refused", "ended", "rejected"}]
  /\ \A c \in Container : assigned[c] \subseteq found
  /\ \A c \in Container : visible[c] \subseteq HandedOut

\* The slices each running container sees.
Holds == [c \in Container |-> IF phase[c] = "running" THEN visible[c] ELSE {}]
Assignment == INSTANCE DeviceAssignment WITH holds <- Holds

\* Whatever the order in which containers come and go, and although some never get
\* to run, the hardware a running container sees is its own until it ends.
AssignmentSpec == Assignment!Spec

\* A running docker container sees exactly as many slices as it asked for.
SeesWhatItAskedFor ==
  \A c \in Container :
    phase[c] = "running" /\ c \in Docker => Cardinality(visible[c]) = CountOf[c]

\* The setting that lets a container have several devices, or refuses it, was
\* made by the configuration or by some container that came to this host: it
\* never comes from nowhere.
MultiGpuHasConsent ==
  \A c \in Container :
    /\ phase[c] = "running" /\ CountOf[c] > 1 =>
         ~ConfThrows \/ \E d \in Container : phase[d] # "requested" /\ EnvOf[d] = "false"
    /\ phase[c] \in {"refused", "rejected"} =>
         /\ CountOf[c] > 1
         /\ ConfThrows \/ \E d \in Container : phase[d] # "requested" /\ EnvOf[d] = "true"

\* The device plugin's README: "The environment variable will take precendence
\* if both are set", set per Spark application.  So a container's own setting,
\* and without one the configuration, decides about that container.
OwnSettingDecides ==
  \A c \in Container :
    phase[c] = "running" /\ CountOf[c] > 1 =>
      IF EnvOf[c] # "unset" THEN EnvOf[c] = "false" ELSE ~ConfThrows
=============================================================================
