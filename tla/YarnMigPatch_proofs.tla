-------------------------- MODULE YarnMigPatch_proofs --------------------------
(***************************************************************************)
(* Proofs about the patched YARN, for any number of GPUs, instances,        *)
(* configured lists and containers.                                        *)
(***************************************************************************)
EXTENDS YarnMigPatch, FiniteSetTheorems, SequenceTheorems, TLAPS

Device == Int \X Int \X Int

ConfInv ==
  /\ useMIGEnabledGPUs \in BOOLEAN
  /\ layout \in Layouts(MaxInstances)
  /\ allowed \in Seq(Seq(Int) \ {<<>>})

DiscoveryType ==
  /\ pc \in {"discovering", "ready", "failed"} /\ next \in Nat
  /\ gpuDevices \in Seq(Device)

\* What automatic discovery makes of a GPU: the GPU itself, or an instance of it.
IsPartOfGpu(d, g) ==
  /\ g \in Gpu /\ d[1] = g /\ d[2] = g
  /\ IF useMIGEnabledGPUs /\ layout[g] # NotSplit THEN d[3] \in Nat ELSE d[3] = Whole

AutoOrigin ==
  allowed = Automatic => \A d \in Devices : d[1] < next /\ IsPartOfGpu(d, d[1])

ListOrigin ==
  allowed # Automatic =>
    \A d \in Devices : \E e \in {allowed[i] : i \in DOMAIN allowed} : Parses(e) /\ d = DeviceOf(e)

\* Only the patch for 3.1.2 announces a device twice.
NoRepeats ==
  version # "3.1.2" \/ allowed = Automatic =>
    \A i, j \in DOMAIN gpuDevices : i # j => gpuDevices[i] # gpuDevices[j]

DiscoveryInv == ConfInv /\ DiscoveryType /\ AutoOrigin /\ ListOrigin /\ NoRepeats

Holding(c) == phase[c] \in {"assigned", "running", "refused"}

ContainerType ==
  /\ phase \in [Container -> {"requested", "assigned", "running", "refused", "ended"}]
  /\ assigned \in [Container -> SUBSET Devices]
  /\ visible \in [Container -> SUBSET {SliceOf(d) : d \in Devices}]

\* A device is assigned to one container at a time; a container has as many as it asked
\* for as long as it holds any, and sees those it was launched with.
ContainerInv ==
  /\ \A c, d \in Container : c # d => assigned[c] \cap assigned[d] = {}
  /\ \A c \in Container : IsFiniteSet(assigned[c])
  /\ \A c \in Container : Holding(c) => Cardinality(assigned[c]) = CountOf[c]
  /\ \A c \in Container : phase[c] = "running" => visible[c] = {SliceOf(d) : d \in assigned[c]}
  /\ \A c \in Container :
       /\ phase[c] = "running" => ~(useMIGEnabledGPUs /\ CountOf[c] > 1 /\ EnvOf[c] # "false")
       /\ phase[c] = "refused" => useMIGEnabledGPUs /\ CountOf[c] > 1 /\ EnvOf[c] # "false"

IInv == DiscoveryInv /\ ContainerType /\ ContainerInv

-----------------------------------------------------------------------------
(* The discovery.                                                           *)

LEMMA DevicesOfGpuType ==
  ASSUME ConfInv, NEW g \in Gpu
  PROVE  /\ DevicesOfGpu(g) \in Seq(Device)
         /\ \A i \in DOMAIN DevicesOfGpu(g) : IsPartOfGpu(DevicesOfGpu(g)[i], g)
         /\ \A i, j \in DOMAIN DevicesOfGpu(g) :
              i # j => DevicesOfGpu(g)[i] # DevicesOfGpu(g)[j]
<1>1. g \in Int
  BY GpuCountAssumption DEF Gpu
<1>2. CASE useMIGEnabledGPUs /\ layout[g] # NotSplit
  <2>1. layout[g] \in Nat
    BY <1>2, YarnMigPatchAssumption DEF ConfInv, Layouts
  <2>2. DevicesOfGpu(g) = [m \in 1 .. layout[g] |-> <<g, g, m - 1>>]
    BY <1>2 DEF DevicesOfGpu
  <2>3. \A m \in 1 .. layout[g] : <<g, g, m - 1>> \in Device /\ m - 1 \in Nat
    BY <1>1, <2>1 DEF Device
  <2>4. DevicesOfGpu(g) \in Seq(Device)
    BY <2>1, <2>2, <2>3
  <2>5. DOMAIN DevicesOfGpu(g) = 1 .. layout[g]
    BY <2>2
  <2>6. \A i \in 1 .. layout[g] : DevicesOfGpu(g)[i] = <<g, g, i - 1>>
    BY <2>2
  <2> QED
    BY <1>2, <2>1, <2>3, <2>4, <2>5, <2>6 DEF IsPartOfGpu
<1>3. CASE ~(useMIGEnabledGPUs /\ layout[g] # NotSplit)
  <2>1. DevicesOfGpu(g) = <<<<g, g, Whole>>>>
    BY <1>3, Zenon DEF DevicesOfGpu
  <2>2. <<g, g, Whole>> \in Device
    BY <1>1 DEF Device, Whole
  <2> QED
    BY <1>3, <2>1, <2>2 DEF IsPartOfGpu
<1> QED
  BY <1>2, <1>3

LEMMA EntryType ==
  ASSUME ConfInv, DiscoveryType, next < Len(allowed)
  PROVE  Entry \in {allowed[i] : i \in DOMAIN allowed} /\ Entry \in Seq(Int) \ {<<>>}
BY DEF ConfInv, DiscoveryType, Entry

LEMMA DeviceOfType ==
  ASSUME NEW e \in Seq(Int) \ {<<>>}, Parses(e)
  PROVE  DeviceOf(e) \in Device
<1>1. Len(e) >= 2
  BY DEF Parses, PartMissing
<1>2. IsMig(e) => Len(e) = 3
  BY DEF IsMig
<1> QED
  BY <1>1, <1>2 DEF DeviceOf, Device, Whole

LEMMA DiscoverGpuInv == DiscoveryInv /\ DiscoverGpu => DiscoveryInv'
<1> SUFFICES ASSUME DiscoveryInv, DiscoverGpu PROVE DiscoveryInv'
  OBVIOUS
<1> DEFINE new == DevicesOfGpu(next)
<1> USE DEF DiscoveryInv
<1>0. next \in Gpu /\ allowed = Automatic /\ ConfInv
  BY DEF DiscoverGpu
<1>1. /\ next \in Gpu /\ allowed = Automatic
      /\ new \in Seq(Device)
      /\ \A i \in DOMAIN new : IsPartOfGpu(new[i], next)
      /\ \A i, j \in DOMAIN new : i # j => new[i] # new[j]
  BY <1>0, DevicesOfGpuType, Zenon
<1>2. /\ gpuDevices' = gpuDevices \o new /\ next' = next + 1 /\ UNCHANGED <<confVars, pc>>
  BY DEF DiscoverGpu
<1> HIDE DEF new
<1>3. /\ gpuDevices' \in Seq(Device)
      /\ Len(gpuDevices') = Len(gpuDevices) + Len(new)
      /\ \A i \in 1 .. Len(gpuDevices) + Len(new) :
           gpuDevices'[i] = IF i <= Len(gpuDevices) THEN gpuDevices[i] ELSE new[i - Len(gpuDevices)]
  BY <1>1, <1>2, ConcatProperties DEF DiscoveryType
<1>4. /\ Len(gpuDevices) \in Nat /\ DOMAIN gpuDevices = 1 .. Len(gpuDevices)
      /\ Len(new) \in Nat /\ DOMAIN new = 1 .. Len(new)
      /\ DOMAIN gpuDevices' = 1 .. Len(gpuDevices) + Len(new)
  BY <1>1, <1>3, LenProperties DEF DiscoveryType
<1>5. \A i \in DOMAIN gpuDevices : gpuDevices[i][1] < next /\ IsPartOfGpu(gpuDevices[i], gpuDevices[i][1])
  BY <1>1 DEF AutoOrigin, Devices
<1>6. ConfInv' /\ DiscoveryType'
  BY <1>2, <1>3 DEF ConfInv, DiscoveryType, confVars
<1>7. \A i \in 1 .. Len(gpuDevices) + Len(new) :
        gpuDevices'[i][1] < next + 1 /\ IsPartOfGpu(gpuDevices'[i], gpuDevices'[i][1])
  <2> TAKE i \in 1 .. Len(gpuDevices) + Len(new)
  <2>1. next \in Int
    BY DEF DiscoveryType
  <2>2. CASE i <= Len(gpuDevices)
    <3>1. gpuDevices'[i] = gpuDevices[i] /\ i \in DOMAIN gpuDevices
      BY <1>3, <1>4, <2>2
    <3>2. gpuDevices[i][1] \in Int
      BY <1>5, <3>1, GpuCountAssumption DEF IsPartOfGpu, Gpu
    <3> QED
      BY <1>5, <2>1, <3>1, <3>2
  <2>3. CASE ~(i <= Len(gpuDevices))
    <3>1. gpuDevices'[i] = new[i - Len(gpuDevices)] /\ i - Len(gpuDevices) \in DOMAIN new
      BY <1>3, <1>4, <2>3
    <3>2. IsPartOfGpu(gpuDevices'[i], next)
      BY <1>1, <3>1
    <3> QED
      BY <2>1, <3>2 DEF IsPartOfGpu
  <2> QED
    BY <2>2, <2>3
<1>8. AutoOrigin' /\ ListOrigin'
  <2>1. \A d, g : IsPartOfGpu(d, g) => IsPartOfGpu(d, g)'
    BY <1>2 DEF IsPartOfGpu, confVars
  <2>2. \A d \in Devices' : d[1] < next' /\ IsPartOfGpu(d, d[1])
    BY <1>2, <1>4, <1>7 DEF Devices
  <2> QED
    BY <1>1, <1>2, <2>1, <2>2 DEF AutoOrigin, ListOrigin, confVars
<1>9. NoRepeats'
  <2> SUFFICES ASSUME NEW i \in 1 .. Len(gpuDevices) + Len(new),
                      NEW j \in 1 .. Len(gpuDevices) + Len(new), i < j
               PROVE  gpuDevices'[i] # gpuDevices'[j]
    BY <1>4 DEF NoRepeats
  <2>1. CASE j <= Len(gpuDevices)
    BY <1>1, <1>3, <1>4, <2>1 DEF NoRepeats
  <2>2. CASE i <= Len(gpuDevices) /\ ~(j <= Len(gpuDevices))
    <3>1. gpuDevices'[i][1] < next
      BY <1>3, <1>4, <1>5, <2>2
    <3>2. gpuDevices'[j] = new[j - Len(gpuDevices)] /\ j - Len(gpuDevices) \in DOMAIN new
      BY <1>3, <1>4, <2>2
    <3>3. gpuDevices'[j][1] = next
      BY <1>1, <3>2 DEF IsPartOfGpu
    <3> QED
      BY <3>1, <3>3 DEF DiscoveryType
  <2>3. CASE ~(i <= Len(gpuDevices))
    <3>1. /\ i - Len(gpuDevices) \in DOMAIN new /\ j - Len(gpuDevices) \in DOMAIN new
          /\ i - Len(gpuDevices) # j - Len(gpuDevices)
      BY <1>4, <2>3
    <3> QED
      BY <1>1, <1>3, <1>4, <2>3, <3>1
  <2> QED
    BY <1>4, <2>1, <2>2, <2>3
<1> QED
  BY <1>6, <1>8, <1>9

LEMMA AddEntryInv == DiscoveryInv /\ AddEntry => DiscoveryInv'
<1> SUFFICES ASSUME DiscoveryInv, AddEntry PROVE DiscoveryInv'
  OBVIOUS
<1> USE DEF DiscoveryInv
<1>1. /\ allowed # Automatic /\ next < Len(allowed)
      /\ next' = next + 1 /\ UNCHANGED <<confVars, pc>>
  BY DEF AddEntry, AtEntry
<1>2. ConfInv' /\ next' \in Nat /\ pc' \in {"discovering", "ready", "failed"}
  BY <1>1 DEF ConfInv, DiscoveryType, confVars
<1>3. CASE UNCHANGED gpuDevices
  <2>1. UNCHANGED <<version, useMIGEnabledGPUs, allowed>> /\ Devices' = Devices
    BY <1>1, <1>3 DEF confVars, Devices
  <2>2. \A e : (Parses(e) => Parses(e)') /\ DeviceOf(e)' = DeviceOf(e)
    BY <2>1 DEF Parses, NotANumber, PartMissing, PartsRead, DeviceOf, IsMig
  <2>3. DiscoveryType' /\ AutoOrigin'
    BY <1>1, <1>2, <1>3, <2>1 DEF DiscoveryType, AutoOrigin
  <2>4. ListOrigin'
    BY <2>1, <2>2 DEF ListOrigin
  <2>5. NoRepeats'
    BY <1>3, <2>1 DEF NoRepeats
  <2> QED
    BY <1>2, <2>3, <2>4, <2>5
<1>4. CASE ~UNCHANGED gpuDevices
  <2>1. /\ gpuDevices' = Append(gpuDevices, DeviceOf(Entry))
        /\ Parses(Entry) /\ (IsRepeated(Entry) => version = "3.1.2")
    BY <1>4 DEF AddEntry, EntryRaises, Parses
  <2>2. Entry \in {allowed[i] : i \in DOMAIN allowed} /\ DeviceOf(Entry) \in Device
    BY <1>1, <2>1, EntryType, DeviceOfType
  <2>3. /\ gpuDevices' \in Seq(Device) /\ Len(gpuDevices) \in Nat
        /\ DOMAIN gpuDevices = 1 .. Len(gpuDevices)
        /\ DOMAIN gpuDevices' = 1 .. Len(gpuDevices) + 1
        /\ \A i \in 1 .. Len(gpuDevices) : gpuDevices'[i] = gpuDevices[i]
        /\ gpuDevices'[Len(gpuDevices) + 1] = DeviceOf(Entry)
    <3>1. /\ Append(gpuDevices, DeviceOf(Entry)) \in Seq(Device)
          /\ Len(Append(gpuDevices, DeviceOf(Entry))) = Len(gpuDevices) + 1
          /\ \A i \in 1 .. Len(gpuDevices) : Append(gpuDevices, DeviceOf(Entry))[i] = gpuDevices[i]
          /\ Append(gpuDevices, DeviceOf(Entry))[Len(gpuDevices) + 1] = DeviceOf(Entry)
      BY <2>2, AppendProperties DEF DiscoveryType
    <3> QED
      BY <2>1, <3>1, LenProperties DEF DiscoveryType
  <2>4. Devices' = Devices \cup {DeviceOf(Entry)}
    BY <2>3 DEF Devices
  <2>5. \A e : (Parses(e) <=> Parses(e)') /\ DeviceOf(e)' = DeviceOf(e)
    BY <1>1 DEF confVars, Parses, NotANumber, PartMissing, PartsRead, DeviceOf, IsMig
  <2>6. ListOrigin' /\ AutoOrigin'
    BY <1>1, <2>1, <2>2, <2>4, <2>5 DEF ListOrigin, AutoOrigin, confVars
  <2>7. NoRepeats'
    <3> SUFFICES ASSUME version # "3.1.2", NEW i \in 1 .. Len(gpuDevices) + 1,
                        NEW j \in 1 .. Len(gpuDevices) + 1, i < j
                 PROVE  gpuDevices'[i] # gpuDevices'[j]
      BY <1>1, <2>3 DEF NoRepeats, confVars
    <3>1. CASE j <= Len(gpuDevices)
      BY <2>3, <3>1 DEF NoRepeats
    <3>2. CASE j = Len(gpuDevices) + 1
      <4>1. gpuDevices'[i] \in Devices
        BY <2>3, <3>2 DEF Devices
      <4> QED
        BY <2>1, <2>3, <3>2, <4>1 DEF IsRepeated
    <3> QED
      BY <2>3, <3>1, <3>2
  <2> QED
    BY <1>2, <2>3, <2>6, <2>7 DEF DiscoveryType
<1> QED
  BY <1>3, <1>4

LEMMA DiscoveryInvUnchanged ==
  DiscoveryInv /\ UNCHANGED <<confVars, next, gpuDevices>>
    /\ pc' \in {"discovering", "ready", "failed"} => DiscoveryInv'
BY DEF DiscoveryInv, ConfInv, DiscoveryType, AutoOrigin, ListOrigin, NoRepeats, Devices,
       IsPartOfGpu, confVars, Parses, NotANumber, PartMissing, PartsRead, DeviceOf, IsMig

\* Nothing is taken from the devices that were announced.
LEMMA DevicesGrow ==
  ASSUME DiscoveryInv, DiscoverGpu \/ AddEntry
  PROVE  Devices \subseteq Devices'
<1>1. gpuDevices \in Seq(Device)
  BY DEF DiscoveryInv, DiscoveryType
<1>2. CASE DiscoverGpu
  <2>1. DevicesOfGpu(next) \in Seq(Device)
    BY <1>2, DevicesOfGpuType DEF DiscoveryInv, DiscoverGpu
  <2>2. gpuDevices' = gpuDevices \o DevicesOfGpu(next)
    BY <1>2 DEF DiscoverGpu
  <2>3. \A i \in DOMAIN gpuDevices : i \in DOMAIN gpuDevices' /\ gpuDevices'[i] = gpuDevices[i]
    BY <1>1, <2>1, <2>2, ConcatProperties, LenProperties
  <2> QED
    BY <2>3 DEF Devices
<1>3. CASE AddEntry /\ ~UNCHANGED gpuDevices
  <2>1. gpuDevices' = Append(gpuDevices, DeviceOf(Entry)) /\ Parses(Entry) /\ next < Len(allowed)
    BY <1>3 DEF AddEntry, AtEntry, EntryRaises, Parses
  <2>2. DeviceOf(Entry) \in Device
    BY <2>1, EntryType, DeviceOfType DEF DiscoveryInv
  <2>3. \A i \in DOMAIN gpuDevices : i \in DOMAIN gpuDevices' /\ gpuDevices'[i] = gpuDevices[i]
    BY <1>1, <2>1, <2>2, AppendProperties, LenProperties
  <2> QED
    BY <2>3 DEF Devices
<1> QED
  BY <1>2, <1>3 DEF Devices

\* Devices that are announced are the same one, or are apart.
LEMMA DevicesApart ==
  ASSUME DiscoveryInv, ListNamesHardwareOnce, NEW d \in Devices, NEW e \in Devices, d # e
  PROVE  ~Overlap(SliceOf(d), SliceOf(e))
<1>1. d \in Device /\ e \in Device
  BY DEF DiscoveryInv, DiscoveryType, Devices
<1>2. CASE allowed = Automatic
  <2>1. IsPartOfGpu(d, d[1]) /\ IsPartOfGpu(e, e[1])
    BY <1>2 DEF DiscoveryInv, AutoOrigin
  <2> QED
    BY <1>1, <2>1 DEF IsPartOfGpu, Overlap, SliceOf, Device, Whole
<1>3. CASE allowed # Automatic
  BY <1>3 DEF DiscoveryInv, ListOrigin, ListNamesHardwareOnce
<1> QED
  BY <1>2, <1>3

-----------------------------------------------------------------------------
(* The containers.                                                          *)

LEMMA DevicesFinite == ASSUME DiscoveryInv PROVE IsFiniteSet(Devices)
<1>1. gpuDevices \in Surjection(1 .. Len(gpuDevices), Devices)
  BY LenProperties DEF DiscoveryInv, DiscoveryType, Devices, Surjection
<1>2. IsFiniteSet(1 .. Len(gpuDevices))
  BY FS_Interval, LenProperties DEF DiscoveryInv, DiscoveryType
<1> QED
  BY <1>1, <1>2, FS_Surjection

LEMMA IInvInit == Init => IInv
<1> SUFFICES ASSUME Init PROVE IInv
  OBVIOUS
<1>1. DiscoveryInv
  <2>1. ConfInv
    <3>1. allowed \in Seq(Seq(Int) \ {<<>>})
      BY YarnMigPatchAssumption, EmptySeq DEF Init, Automatic
    <3> QED
      BY <3>1 DEF Init, ConfInv
  <2>2. DiscoveryType
    BY DEF Init, DiscoveryType
  <2>3. DOMAIN gpuDevices = {}
    BY DEF Init
  <2>4. Devices = {}
    BY <2>3 DEF Devices
  <2> QED
    BY <2>1, <2>2, <2>3, <2>4 DEF DiscoveryInv, AutoOrigin, ListOrigin, NoRepeats
<1>2. ContainerType /\ ContainerInv
  BY FS_EmptySet DEF Init, ContainerType, ContainerInv, Holding
<1> QED
  BY <1>1, <1>2 DEF IInv

\* What a step of the discovery does not touch.
LEMMA ContainersKeep ==
  ASSUME IInv, DiscoveryInv', Devices \subseteq Devices', UNCHANGED <<confVars, containerVars>>
  PROVE  IInv'
BY DEF IInv, ContainerType, ContainerInv, Holding, containerVars, confVars, SliceOf

LEMMA AssignGpusInv == ASSUME IInv, NEW c \in Container, AssignGpus(c) PROVE IInv'
<1> USE DEF IInv
<1>1. DiscoveryInv' /\ Devices' = Devices /\ useMIGEnabledGPUs' = useMIGEnabledGPUs
  BY DiscoveryInvUnchanged DEF AssignGpus, DiscoveryInv, DiscoveryType, Devices, confVars
<1>2. PICK S \in SUBSET {d \in Devices : ~Used(d)} :
        Cardinality(S) = CountOf[c] /\ assigned' = [assigned EXCEPT ![c] = S]
  BY DEF AssignGpus
<1>3. phase[c] = "requested" /\ phase' = [phase EXCEPT ![c] = "assigned"] /\ visible' = visible
  BY DEF AssignGpus
<1>4. IsFiniteSet(S)
  BY DevicesFinite, FS_Subset
<1>5. \A d \in Container : S \cap assigned[d] = {}
  BY DEF Used, CompareEqual
<1>6. ContainerType'
  BY <1>1, <1>2, <1>3 DEF ContainerType, SliceOf
<1>7. ContainerInv'
  BY <1>1, <1>2, <1>3, <1>4, <1>5 DEF ContainerType, ContainerInv, Holding, SliceOf
<1> QED
  BY <1>1, <1>6, <1>7

LEMMA NameIsSlice == \A d : NameOf(d) = SliceOf(d)
BY DEF NameOf, SliceOf

LEMMA UpdateDockerRunCommandInv ==
  ASSUME IInv, NEW c \in Container, UpdateDockerRunCommand(c) PROVE IInv'
<1> USE DEF IInv
<1>1. /\ DiscoveryInv' /\ Devices' = Devices /\ useMIGEnabledGPUs' = useMIGEnabledGPUs
      /\ assigned' = assigned
  BY DiscoveryInvUnchanged DEF UpdateDockerRunCommand, DiscoveryInv, DiscoveryType, Devices, confVars
<1>2. /\ phase[c] = "assigned" /\ phase' = [phase EXCEPT ![c] = "running"]
      /\ visible' = [visible EXCEPT ![c] = {SliceOf(d) : d \in assigned[c]}]
  BY NameIsSlice DEF UpdateDockerRunCommand
<1>3. ~(useMIGEnabledGPUs /\ CountOf[c] > 1 /\ EnvOf[c] # "false")
  BY <1>2, YarnMigPatchAssumption
     DEF UpdateDockerRunCommand, ThrowsOnMultipleGpus, ContainerInv, Holding
<1>4. ContainerType'
  BY <1>1, <1>2 DEF ContainerType, SliceOf
<1>5. ContainerInv'
  BY <1>1, <1>2, <1>3 DEF ContainerType, ContainerInv, Holding, SliceOf
<1> QED
  BY <1>1, <1>4, <1>5

LEMMA RefuseDockerRunCommandInv ==
  ASSUME IInv, NEW c \in Container, RefuseDockerRunCommand(c) PROVE IInv'
<1> USE DEF IInv
<1>1. /\ DiscoveryInv' /\ Devices' = Devices /\ useMIGEnabledGPUs' = useMIGEnabledGPUs
      /\ UNCHANGED <<assigned, visible>>
  BY DiscoveryInvUnchanged DEF RefuseDockerRunCommand, DiscoveryInv, DiscoveryType, Devices, confVars
<1>2. phase[c] = "assigned" /\ phase' = [phase EXCEPT ![c] = "refused"]
  BY DEF RefuseDockerRunCommand
<1>3. useMIGEnabledGPUs /\ CountOf[c] > 1 /\ EnvOf[c] # "false"
  BY <1>2 DEF RefuseDockerRunCommand, ThrowsOnMultipleGpus, ContainerInv, Holding
<1>4. ContainerType'
  BY <1>1, <1>2 DEF ContainerType, SliceOf
<1>5. ContainerInv'
  BY <1>1, <1>2, <1>3 DEF ContainerType, ContainerInv, Holding, SliceOf
<1> QED
  BY <1>1, <1>4, <1>5

LEMMA ReleaseGpusInv == ASSUME IInv, NEW c \in Container, ReleaseGpus(c) PROVE IInv'
<1> USE DEF IInv
<1>1. /\ DiscoveryInv' /\ Devices' = Devices /\ useMIGEnabledGPUs' = useMIGEnabledGPUs
      /\ visible' = visible
  BY DiscoveryInvUnchanged DEF ReleaseGpus, DiscoveryInv, DiscoveryType, Devices, confVars
<1>2. /\ phase' = [phase EXCEPT ![c] = "ended"] /\ assigned' = [assigned EXCEPT ![c] = {}]
  BY DEF ReleaseGpus
<1>3. ContainerType'
  BY <1>1, <1>2 DEF ContainerType, SliceOf
<1>4. ContainerInv'
  BY <1>1, <1>2, FS_EmptySet DEF ContainerType, ContainerInv, Holding, SliceOf
<1> QED
  BY <1>1, <1>3, <1>4

LEMMA IInvStep == IInv /\ [Next]_vars => IInv'
<1> SUFFICES ASSUME IInv, [Next]_vars PROVE IInv'
  OBVIOUS
<1>1. CASE UNCHANGED vars
  <2>1. DiscoveryInv' /\ Devices' = Devices
    BY <1>1, DiscoveryInvUnchanged DEF vars, IInv, DiscoveryInv, DiscoveryType, Devices
  <2> QED
    BY <1>1, <2>1, ContainersKeep DEF vars
<1>2. CASE DiscoverGpu
  BY <1>2, DiscoverGpuInv, DevicesGrow, ContainersKeep DEF IInv, DiscoverGpu
<1>3. CASE AddEntry
  BY <1>3, AddEntryInv, DevicesGrow, ContainersKeep DEF IInv, AddEntry
<1>4. CASE FailOnEntry \/ GpusUsableByYarn
  <2>1. DiscoveryInv' /\ Devices' = Devices
    BY <1>4, DiscoveryInvUnchanged DEF FailOnEntry, GpusUsableByYarn, IInv, Devices
  <2> QED
    BY <1>4, <2>1, ContainersKeep DEF FailOnEntry, GpusUsableByYarn
<1>5. CASE \E c \in Container : AssignGpus(c)
  BY <1>5, AssignGpusInv
<1>6. CASE \E c \in Container : UpdateDockerRunCommand(c) \/ RefuseDockerRunCommand(c)
  BY <1>6, UpdateDockerRunCommandInv, RefuseDockerRunCommandInv
<1>7. CASE \E c \in Container : ReleaseGpus(c)
  BY <1>7, ReleaseGpusInv
<1> QED
  BY <1>1, <1>2, <1>3, <1>4, <1>5, <1>6, <1>7 DEF Next

LEMMA IInvHolds == Spec => []IInv
BY IInvInit, IInvStep, PTL DEF Spec

-----------------------------------------------------------------------------
\* Every variable of the patched YARN keeps its type, and what a container is given or
\* sees are devices that were announced.
THEOREM TypeCorrect == Spec => []TypeOK
<1>1. IInv => TypeOK
  BY DEF IInv, DiscoveryInv, DiscoveryType, ContainerType, TypeOK
<1> QED
  BY <1>1, IInvHolds, PTL

\* GpuDiscoverer announces no hardware under two names, from the driver or from a list
\* that names none twice.
THEOREM AnnouncesApart == Spec => []AnnouncedIsApart
<1>1. IInv => AnnouncedIsApart
  <2> SUFFICES ASSUME IInv, ListNamesHardwareOnce,
                      NEW i \in DOMAIN gpuDevices, NEW j \in DOMAIN gpuDevices, i # j,
                      Overlap(SliceOf(gpuDevices[i]), SliceOf(gpuDevices[j]))
               PROVE  version = "3.1.2" /\ allowed # Automatic /\ gpuDevices[i] = gpuDevices[j]
    BY DEF AnnouncedIsApart
  <2>1. gpuDevices[i] = gpuDevices[j]
    BY DevicesApart DEF IInv, Devices
  <2> QED
    BY <2>1 DEF IInv, DiscoveryInv, NoRepeats
<1> QED
  BY <1>1, IInvHolds, PTL

LEMMA SeesAsManyAsItHolds ==
  ASSUME IInv, ListNamesHardwareOnce, NEW c \in Container
  PROVE  Cardinality({SliceOf(d) : d \in assigned[c]}) = Cardinality(assigned[c])
<1> DEFINE T == {SliceOf(d) : d \in assigned[c]}
           f == [d \in assigned[c] |-> SliceOf(d)]
<1>1. assigned[c] \subseteq Devices /\ IsFiniteSet(assigned[c])
  BY DEF IInv, ContainerType, ContainerInv
<1>2. \A d, e \in assigned[c] : f[d] = f[e] => d = e
  <2> SUFFICES ASSUME NEW d \in assigned[c], NEW e \in assigned[c], d # e
               PROVE  SliceOf(d) # SliceOf(e)
    OBVIOUS
  <2>1. ~Overlap(SliceOf(d), SliceOf(e))
    BY <1>1, DevicesApart DEF IInv
  <2> QED
    BY <2>1 DEF Overlap
<1>3. f \in [assigned[c] -> T]
  OBVIOUS
<1>4. \A t \in T : \E d \in assigned[c] : f[d] = t
  OBVIOUS
<1> HIDE DEF T, f
<1>5. f \in Bijection(assigned[c], T)
  BY <1>2, <1>3, <1>4 DEF Bijection, Injection, Surjection, IsInjective
<1>6. Cardinality(T) = Cardinality(assigned[c])
  BY <1>1, <1>5, FS_Bijection DEF ExistsBijection
<1> QED
  BY <1>6 DEF T

\* NvidiaDockerV2CommandPlugin decides about several MIG devices by the container's own
\* setting, and names as many as the container asked for.
THEOREM DecidesByOwnSetting == Spec => []OwnSettingDecides
<1>1. IInv => OwnSettingDecides
  <2> SUFFICES ASSUME IInv PROVE OwnSettingDecides
    OBVIOUS
  <2>1. \A c \in Container : phase[c] = "running" /\ ListNamesHardwareOnce =>
          Cardinality(visible[c]) = CountOf[c]
    BY SeesAsManyAsItHolds DEF IInv, ContainerInv, Holding
  <2>2. \A c \in Container :
          /\ phase[c] = "running" => ~(useMIGEnabledGPUs /\ CountOf[c] > 1 /\ EnvOf[c] # "false")
          /\ phase[c] = "refused" => useMIGEnabledGPUs /\ CountOf[c] > 1 /\ EnvOf[c] # "false"
    BY DEF IInv, ContainerInv
  <2> QED
    BY <2>1, <2>2 DEF OwnSettingDecides
<1> QED
  BY <1>1, IInvHolds, PTL

-----------------------------------------------------------------------------
(* The refinement.                                                          *)

LEMMA SameOverlap == ASSUME NEW s, NEW t PROVE Assignment!Overlap(s, t) <=> Overlap(s, t)
BY DEF Assignment!Overlap, Overlap, Assignment!Whole, Whole

LEMMA AssignmentInit == Init => Assignment!Init
BY DEF Init, Assignment!Init, Holds

LEMMA HoldsSomething ==
  ASSUME IInv, NEW c \in Container, Holding(c) PROVE assigned[c] # {}
<1>1. Cardinality(assigned[c]) = CountOf[c]
  BY DEF IInv, ContainerInv
<1>2. CountOf[c] # 0
  BY YarnMigPatchAssumption
<1>3. Cardinality({}) = 0
  BY FS_EmptySet
<1> QED
  BY <1>1, <1>2, <1>3

\* A launch grants, the end of a running container drops, and nothing else matters.
LEMMA AssignmentStep == IInv /\ IInv' /\ [Next]_vars => [Assignment!Next]_Holds
<1> SUFFICES ASSUME IInv, IInv', [Next]_vars PROVE [Assignment!Next]_Holds
  OBVIOUS
<1>1. ListNamesHardwareOnce' <=> ListNamesHardwareOnce
  <2>1. UNCHANGED <<allowed, useMIGEnabledGPUs>>
    BY DEF Next, vars, confVars, DiscoverGpu, AddEntry, FailOnEntry, GpusUsableByYarn, AssignGpus,
           UpdateDockerRunCommand, RefuseDockerRunCommand, ReleaseGpus
  <2> QED
    BY <2>1 DEF ListNamesHardwareOnce, Parses, NotANumber, PartMissing, PartsRead, DeviceOf,
                IsMig, SliceOf
<1>2. ASSUME \A c \in Container :
               /\ phase'[c] = "running" <=> phase[c] = "running"
               /\ phase[c] = "running" => visible'[c] = visible[c]
      PROVE  UNCHANGED Holds
  BY <1>1, <1>2 DEF Holds
<1>3. CASE UNCHANGED containerVars
  BY <1>2, <1>3 DEF containerVars
<1>4. ASSUME NEW c \in Container, AssignGpus(c) PROVE UNCHANGED Holds
  BY <1>2, <1>4 DEF AssignGpus, IInv, ContainerType
<1>5. ASSUME NEW c \in Container, RefuseDockerRunCommand(c) PROVE UNCHANGED Holds
  BY <1>2, <1>5 DEF RefuseDockerRunCommand, IInv, ContainerType
<1>6. ASSUME NEW c \in Container, UpdateDockerRunCommand(c) PROVE [Assignment!Next]_Holds
  <2>1. /\ phase[c] = "assigned" /\ phase' = [phase EXCEPT ![c] = "running"]
        /\ visible' = [visible EXCEPT ![c] = {SliceOf(d) : d \in assigned[c]}]
        /\ phase \in [Container -> {"requested", "assigned", "running", "refused", "ended"}]
        /\ visible \in [Container -> SUBSET {SliceOf(d) : d \in Devices}]
    BY <1>6, NameIsSlice, ZenonT(40) DEF UpdateDockerRunCommand, IInv, ContainerType
  <2>2. CASE ~ListNamesHardwareOnce
    BY <1>1, <2>2 DEF Holds
  <2>3. CASE ListNamesHardwareOnce
    <3>1. Holds[c] = {} /\ Holds'[c] = {SliceOf(d) : d \in assigned[c]}
      BY <1>1, <2>1, <2>3 DEF Holds
    <3>2. Holds' = [Holds EXCEPT ![c] = Holds'[c]]
      BY <1>1, <2>1, <2>3 DEF Holds
    <3>3. Holds'[c] # {}
      BY <2>1, <3>1, HoldsSomething DEF Holding
    <3>4. \A d \in Container \ {c} : Assignment!Apart(Holds'[c], Holds[d])
      <4> SUFFICES ASSUME NEW d \in Container \ {c}, NEW s \in Holds'[c], NEW t \in Holds[d]
                   PROVE  ~Overlap(s, t)
        BY SameOverlap DEF Assignment!Apart
      <4>1. phase[d] = "running" /\ t \in visible[d]
        BY DEF Holds
      <4>2. PICK x \in assigned[c] : s = SliceOf(x)
        BY <3>1
      <4>3. PICK y \in assigned[d] : t = SliceOf(y)
        BY <4>1 DEF IInv, ContainerInv
      <4>4. x \in Devices /\ y \in Devices /\ x # y
        BY <4>2, <4>3 DEF IInv, ContainerType, ContainerInv
      <4> QED
        BY <2>3, <4>2, <4>3, <4>4, DevicesApart DEF IInv
    <3> QED
      BY <3>1, <3>2, <3>3, <3>4 DEF Assignment!Next, Assignment!Grant
  <2> QED
    BY <2>2, <2>3
<1>7. ASSUME NEW c \in Container, ReleaseGpus(c) PROVE [Assignment!Next]_Holds
  <2>1. /\ phase' = [phase EXCEPT ![c] = "ended"] /\ visible' = visible
        /\ phase \in [Container -> {"requested", "assigned", "running", "refused", "ended"}]
    BY <1>7 DEF ReleaseGpus, IInv, ContainerType
  <2>2. CASE phase[c] # "running" \/ ~ListNamesHardwareOnce
    BY <1>1, <1>2, <2>1, <2>2 DEF Holds
  <2>3. CASE phase[c] = "running" /\ ListNamesHardwareOnce
    <3>1. Holds' = [Holds EXCEPT ![c] = {}]
      BY <1>1, <2>1, <2>3 DEF Holds
    <3>2. assigned[c] # {}
      BY <2>3, HoldsSomething DEF Holding
    <3>3. Holds[c] # {}
      BY <2>3, <3>2 DEF Holds, IInv, ContainerInv
    <3> QED
      BY <3>1, <3>3 DEF Assignment!Next, Assignment!Drop
  <2> QED
    BY <2>2, <2>3
<1> QED
  BY <1>3, <1>4, <1>5, <1>6, <1>7
     DEF Next, vars, DiscoverGpu, AddEntry, FailOnEntry, GpusUsableByYarn, containerVars

\* The patched YARN implements DeviceAssignment: whatever the configuration and the
\* order in which containers come and go, running ones never share hardware.
THEOREM ImplementsAssignment == Spec => AssignmentSpec
<1>1. Spec => [][Assignment!Next]_Holds
  BY AssignmentStep, IInvHolds, PTL DEF Spec
<1> QED
  BY <1>1, AssignmentInit, PTL DEF Spec, AssignmentSpec, Assignment!Spec
=============================================================================
