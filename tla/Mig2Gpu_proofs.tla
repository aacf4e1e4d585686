----------------------------- MODULE Mig2Gpu_proofs -----------------------------
(***************************************************************************)
(* Proofs about the scripts for an unmodified YARN: the devices they list   *)
(* are the hardware, each once, and the reverse mapping by number gives a   *)
(* container what YARN assigned to it, for any number of GPUs, instances    *)
(* and containers and in every environment of the scripts.                  *)
(***************************************************************************)
EXTENDS Mig2Gpu, DataLemmas

\* Two elements of a list share no hardware.
ListsApart(list) ==
  /\ Len(list) \in Nat
  /\ \A i, j \in 0 .. Len(list) - 1 : i # j => ~Overlap(list[i + 1], list[j + 1])

Device == Gpu \X (Whole .. MaxInstances)

-----------------------------------------------------------------------------
(* What mig2gpu.sh prints.                                                  *)

InstancesAt(l, i) == IF l[i - 1] = NotSplit THEN 0 ELSE l[i - 1]
MigRow(l, i) == [m \in 1 .. InstancesAt(l, i) |-> <<i - 1, m - 1>>]
MigRows(l) == [i \in 1 .. GpuCount |-> MigRow(l, i)]
NonMigRow(l, i) == IF l[i - 1] = NotSplit THEN <<<<i - 1, Whole>>>> ELSE <<>>
NonMigRows(l) == [i \in 1 .. GpuCount |-> NonMigRow(l, i)]

LEMMA GpuOfRow ==
  ASSUME NEW i \in 1 .. GpuCount
  PROVE  i - 1 \in Gpu /\ i \in Nat
BY GpuCountAssumption DEF Gpu

LEMMA LayoutAt ==
  ASSUME NEW l \in Layout, NEW g \in Gpu
  PROVE  l[g] = NotSplit \/ l[g] \in 0 .. MaxInstances
BY DEF Layout, Layouts

LEMMA MigRowsType ==
  ASSUME NEW l \in Layout
  PROVE  MigRows(l) \in Seq(Seq(Device)) /\ Len(MigRows(l)) = GpuCount
<1>1. ASSUME NEW i \in 1 .. GpuCount PROVE MigRow(l, i) \in Seq(Device)
  <2> DEFINE n == InstancesAt(l, i)
  <2>1. i - 1 \in Gpu /\ n \in 0 .. MaxInstances
    BY GpuOfRow, LayoutAt, Mig2GpuAssumption DEF InstancesAt, NotSplit
  <2> HIDE DEF n
  <2>2. \A m \in 1 .. n : m - 1 \in Whole .. MaxInstances
    BY <2>1, Mig2GpuAssumption DEF Whole
  <2>3. \A m \in 1 .. n : <<i - 1, m - 1>> \in Device
    BY <2>1, <2>2 DEF Device
  <2>4. [m \in 1 .. n |-> <<i - 1, m - 1>>] \in Seq(Device)
    BY <2>1, <2>3, Mig2GpuAssumption
  <2> QED
    BY <2>4 DEF MigRow, n
<1> QED
  BY <1>1, GpuCountAssumption DEF MigRows

LEMMA NonMigRowsType ==
  ASSUME NEW l \in Layout
  PROVE  NonMigRows(l) \in Seq(Seq(Device)) /\ Len(NonMigRows(l)) = GpuCount
<1>1. ASSUME NEW i \in 1 .. GpuCount PROVE NonMigRow(l, i) \in Seq(Device)
  <2>1. <<i - 1, Whole>> \in Device
    BY GpuOfRow, Mig2GpuAssumption DEF Device, Whole
  <2> QED
    BY <2>1 DEF NonMigRow
<1> QED
  BY <1>1, GpuCountAssumption DEF NonMigRows

\* The instances of the GPUs in MIG mode, each once.
LEMMA MigGpuOutIs ==
  ASSUME NEW l \in Layout
  PROVE  /\ MigGpuOut(l) \in Seq(Device) /\ Len(MigGpuOut(l)) \in Nat
         /\ \A p \in 1 .. Len(MigGpuOut(l)) :
              MigGpuOut(l)[p][2] \in Nat /\ l[MigGpuOut(l)[p][1]] # NotSplit
         /\ \A p, q \in 1 .. Len(MigGpuOut(l)) : MigGpuOut(l)[p] = MigGpuOut(l)[q] => p = q
<1> DEFINE rows == MigRows(l)
           out == MigGpuOut(l)
<1>1. rows \in Seq(Seq(Device)) /\ Len(rows) = GpuCount
  BY MigRowsType
<1>2. out = FlattenSeq(rows)
  BY DEF MigGpuOut, MigRows, MigRow, InstancesAt
<1>3. ASSUME NEW i \in 1 .. GpuCount, NEW a \in 1 .. Len(rows[i])
      PROVE  /\ rows[i][a] = <<i - 1, a - 1>> /\ a - 1 \in Nat /\ l[i - 1] # NotSplit
             /\ i \in Nat /\ a \in Nat
  <2>1. InstancesAt(l, i) \in Nat
    BY GpuOfRow, LayoutAt, Mig2GpuAssumption DEF InstancesAt, NotSplit
  <2>2. rows[i] = MigRow(l, i) /\ Len(rows[i]) = InstancesAt(l, i)
    BY <2>1 DEF MigRows, MigRow
  <2> QED
    BY <2>1, <2>2, GpuOfRow DEF MigRow, InstancesAt
<1> HIDE DEF rows, out
<1>4. Scattered(rows)
  BY <1>1, <1>3 DEF Scattered
<1>5. /\ out \in Seq(Device) /\ Len(out) \in Nat
      /\ \A p \in 1 .. Len(out) :
           \E i \in 1 .. Len(rows) : \E a \in 1 .. Len(rows[i]) : out[p] = rows[i][a]
      /\ \A p, q \in 1 .. Len(out) : out[p] = out[q] => p = q
  BY <1>1, <1>2, <1>4, FlattenElements, SMTT(30)
<1>6. ASSUME NEW p \in 1 .. Len(out) PROVE out[p][2] \in Nat /\ l[out[p][1]] # NotSplit
  <2>1. PICK i \in 1 .. GpuCount : \E a \in 1 .. Len(rows[i]) : out[p] = rows[i][a]
    BY <1>1, <1>5
  <2> QED
    BY <1>3, <2>1
<1> QED
  BY <1>5, <1>6 DEF out

\* The GPUs that are not in MIG mode, each once.
LEMMA NonMigGpuOutIs ==
  ASSUME NEW l \in Layout
  PROVE  /\ NonMigGpuOut(l) \in Seq(Device) /\ Len(NonMigGpuOut(l)) \in Nat
         /\ \A p \in 1 .. Len(NonMigGpuOut(l)) : l[NonMigGpuOut(l)[p][1]] = NotSplit
         /\ \A p, q \in 1 .. Len(NonMigGpuOut(l)) :
              NonMigGpuOut(l)[p][1] = NonMigGpuOut(l)[q][1] => p = q
<1> DEFINE rows == NonMigRows(l)
           out == NonMigGpuOut(l)
<1>1. rows \in Seq(Seq(Device)) /\ Len(rows) = GpuCount
  BY NonMigRowsType
<1>2. out = FlattenSeq(rows)
  BY DEF NonMigGpuOut, NonMigRows, NonMigRow
<1>3. ASSUME NEW i \in 1 .. GpuCount, NEW a \in 1 .. Len(rows[i])
      PROVE  rows[i][a] = <<i - 1, Whole>> /\ a = 1 /\ l[i - 1] = NotSplit /\ i \in Nat
  <2>1. rows[i] = NonMigRow(l, i)
    BY DEF NonMigRows
  <2> QED
    BY <2>1, GpuOfRow DEF NonMigRow
<1> HIDE DEF rows, out
<1>4. Scattered(rows)
  BY <1>1, <1>3 DEF Scattered
<1>5. /\ out \in Seq(Device) /\ Len(out) \in Nat
      /\ \A p \in 1 .. Len(out) :
           \E i \in 1 .. Len(rows) : \E a \in 1 .. Len(rows[i]) : out[p] = rows[i][a]
      /\ \A p, q \in 1 .. Len(out) : out[p] = out[q] => p = q
  BY <1>1, <1>2, <1>4, FlattenElements, SMTT(30)
<1>6. ASSUME NEW p \in 1 .. Len(out)
      PROVE  l[out[p][1]] = NotSplit /\ out[p] = <<out[p][1], Whole>>
  <2>1. PICK i \in 1 .. GpuCount : \E a \in 1 .. Len(rows[i]) : out[p] = rows[i][a]
    BY <1>1, <1>5
  <2> QED
    BY <1>3, <2>1
<1>7. ASSUME NEW p \in 1 .. Len(out), NEW q \in 1 .. Len(out), out[p][1] = out[q][1]
      PROVE  p = q
  <2>1. out[p] = <<out[p][1], Whole>> /\ out[q] = <<out[q][1], Whole>>
    BY <1>6
  <2>2. out[p] = out[q]
    BY <1>7, <2>1
  <2> QED
    BY <1>5, <2>2
<1> QED
  BY <1>5, <1>6, <1>7 DEF out

\* Whatever the environment, the elements the nvidia-smi wrapper prints share no
\* hardware: an instance is never listed beside its own GPU.
LEMMA ListedApart == ASSUME NEW l \in Layout PROVE ListsApart(NvidiaSmi(l))
<1> DEFINE mig == MigGpuOut(l)
           non == NonMigGpuOut(l)
<1>1. /\ mig \in Seq(Device) /\ Len(mig) \in Nat
      /\ \A p \in 1 .. Len(mig) : mig[p][2] \in Nat /\ l[mig[p][1]] # NotSplit
      /\ \A p, q \in 1 .. Len(mig) : mig[p] = mig[q] => p = q
  BY MigGpuOutIs
<1>2. /\ non \in Seq(Device) /\ Len(non) \in Nat
      /\ \A p \in 1 .. Len(non) : l[non[p][1]] = NotSplit
      /\ \A p, q \in 1 .. Len(non) : non[p][1] = non[q][1] => p = q
  BY NonMigGpuOutIs
<1>3. Mig2GpuMain(l) \in {mig, mig \o non} /\ NvidiaSmi(l) \in {Mig2GpuMain(l), AllGpus}
  BY DEF Mig2GpuMain, NvidiaSmi
<1> HIDE DEF mig, non
<1>4. ASSUME NEW p \in 1 .. Len(mig), NEW q \in 1 .. Len(mig), p # q
      PROVE  ~Overlap(mig[p], mig[q])
  <2>1. mig[p] \in Device /\ mig[q] \in Device
    BY <1>1, ElementOfSeq
  <2>2. mig[p][2] # Whole /\ mig[q][2] # Whole
    BY <1>1 DEF Whole
  <2>3. mig[p] = <<mig[p][1], mig[p][2]>> /\ mig[q] = <<mig[q][1], mig[q][2]>>
    BY <2>1 DEF Device
  <2>4. mig[p] # mig[q]
    BY <1>1, <1>4
  <2> QED
    BY <2>2, <2>3, <2>4 DEF Overlap
<1>5. ListsApart(mig)
  BY <1>1, <1>4 DEF ListsApart
<1>6. ListsApart(mig \o non)
  <2> DEFINE both == mig \o non
  <2>1. /\ Len(both) = Len(mig) + Len(non)
        /\ \A i \in 1 .. Len(mig) : both[i] = mig[i]
        /\ \A j \in 1 .. Len(non) : both[Len(mig) + j] = non[j]
    BY <1>1, <1>2, ConcatAt
  <2> HIDE DEF both
  <2>2. ASSUME NEW p \in 1 .. Len(both)
        PROVE  \/ p \in 1 .. Len(mig) /\ both[p] = mig[p]
               \/ \E j \in 1 .. Len(non) : p = Len(mig) + j /\ both[p] = non[j]
    <3>1. CASE p <= Len(mig)
      BY <1>1, <2>1, <3>1
    <3>2. CASE ~(p <= Len(mig))
      <4>1. p - Len(mig) \in 1 .. Len(non) /\ p = Len(mig) + (p - Len(mig))
        BY <1>1, <1>2, <2>1, <3>2
      <4> QED
        BY <2>1, <4>1
    <3> QED
      BY <3>1, <3>2
  <2>3. ASSUME NEW p \in 1 .. Len(both), NEW q \in 1 .. Len(both), p # q
        PROVE  ~Overlap(both[p], both[q])
    <3>1. CASE p \in 1 .. Len(mig) /\ q \in 1 .. Len(mig)
      BY <1>4, <2>1, <2>3, <3>1
    <3>2. CASE \E j, k \in 1 .. Len(non) :
                 p = Len(mig) + j /\ both[p] = non[j] /\ q = Len(mig) + k /\ both[q] = non[k]
      BY <1>2, <2>3, <3>2 DEF Overlap
    <3>3. ASSUME both[p][1] # both[q][1] PROVE ~Overlap(both[p], both[q])
      BY <3>3 DEF Overlap
    <3>4. CASE p \in 1 .. Len(mig) /\ both[p] = mig[p] /\ \E k \in 1 .. Len(non) : both[q] = non[k]
      BY <1>1, <1>2, <3>3, <3>4
    <3>5. CASE q \in 1 .. Len(mig) /\ both[q] = mig[q] /\ \E j \in 1 .. Len(non) : both[p] = non[j]
      BY <1>1, <1>2, <3>3, <3>5
    <3> QED
      BY <2>2, <3>1, <3>2, <3>4, <3>5
  <2>4. Len(both) \in Nat
    BY <1>1, <1>2, <2>1
  <2>5. ListsApart(both)
    BY <2>3, <2>4 DEF ListsApart
  <2> QED
    BY <2>5 DEF both
<1>7. ListsApart(AllGpus)
  <2>1. Len(AllGpus) = GpuCount /\ GpuCount \in Nat
    BY GpuCountAssumption DEF AllGpus
  <2>2. \A i \in 0 .. GpuCount - 1 : AllGpus[i + 1][1] = i
    BY GpuCountAssumption DEF AllGpus
  <2> QED
    BY <2>1, <2>2 DEF ListsApart, Overlap
<1> QED
  BY <1>3, <1>5, <1>6, <1>7

-----------------------------------------------------------------------------
(* The reverse mapping.                                                     *)

\* A container that was launched still has its numbers, and nothing has been split
\* anew since.
LaunchedInv ==
  /\ layout \in Layout /\ discovered \in Layout
  /\ assigned \in [Container -> SUBSET Known]
  /\ DOMAIN visible = Container
  /\ \A c, d \in Container : c # d => assigned[c] \cap assigned[d] = {}
  /\ \A c \in Container :
       visible[c] # {} =>
         assigned[c] # {} /\ visible[c] = DeviceArgument(assigned[c], layout)

LEMMA LaunchedInvInit == Init => LaunchedInv
BY DEF Init, LaunchedInv, Layout

LEMMA DeviceArgumentNotEmpty ==
  ASSUME NEW numbers, numbers # {}, NEW l PROVE DeviceArgument(numbers, l) # {}
BY DEF DeviceArgument

LEMMA LaunchedInvStep == LaunchedInv /\ [Next]_vars => LaunchedInv'
<1> SUFFICES ASSUME LaunchedInv, [Next]_vars PROVE LaunchedInv'
  OBVIOUS
<1> USE DEF LaunchedInv
<1>1. ASSUME UNCHANGED <<env, discovered>> PROVE Known' = Known
  BY <1>1 DEF Known, NvidiaSmi, migAsGpu, Mig2GpuMain, enableNonMigGpus
<1>2. ASSUME env' = env
      PROVE  \A numbers, l : DeviceArgument(numbers, l)' = DeviceArgument(numbers, l)
  BY <1>2 DEF DeviceArgument, Numbered, migAsGpu, Mig2GpuMain, enableNonMigGpus
<1>3. ASSUME UNCHANGED <<env, layout>>
      PROVE  \A numbers : DeviceArgument(numbers, layout)' = DeviceArgument(numbers, layout)
  BY <1>3 DEF DeviceArgument, Numbered, migAsGpu, Mig2GpuMain, enableNonMigGpus
<1>4. CASE UNCHANGED vars
  BY <1>1, <1>3, <1>4 DEF vars
<1>5. ASSUME NEW c \in Container, AssignGpus(c) PROVE LaunchedInv'
  <2>1. PICK numbers \in SUBSET Free : assigned' = [assigned EXCEPT ![c] = numbers]
    BY <1>5 DEF AssignGpus
  <2>2. UNCHANGED <<env, layout, discovered, visible>> /\ assigned[c] = {}
    BY <1>5 DEF AssignGpus
  <2>3. numbers \subseteq Known /\ \A d \in Container : numbers \cap assigned[d] = {}
    BY DEF Free
  <2>4. visible[c] = {}
    BY <2>2
  <2> QED
    BY <1>1, <1>3, <2>1, <2>2, <2>3, <2>4
<1>6. ASSUME NEW c \in Container, LaunchContainer(c) PROVE LaunchedInv'
  <2>1. /\ assigned[c] # {} /\ UNCHANGED <<env, layout, discovered, assigned>>
        /\ visible' = [visible EXCEPT ![c] = DeviceArgument(assigned[c], layout)]
    BY <1>6 DEF LaunchContainer
  <2> QED
    BY <1>1, <1>3, <2>1
<1>7. ASSUME NEW c \in Container, EndContainer(c) PROVE LaunchedInv'
  <2>1. /\ UNCHANGED <<env, layout, discovered>>
        /\ assigned' = [assigned EXCEPT ![c] = {}] /\ visible' = [visible EXCEPT ![c] = {}]
    BY <1>7 DEF EndContainer
  <2> QED
    BY <1>1, <1>3, <2>1
<1>8. CASE Reconfigure
  <2>1. /\ UNCHANGED <<env, discovered, assigned, visible>> /\ layout' \in Layout
        /\ \A c \in Container : visible[c] = {}
    BY <1>8 DEF Reconfigure
  <2> QED
    BY <1>1, <2>1
<1>9. CASE RestartNodeManager
  <2>1. /\ UNCHANGED <<env, layout, assigned, visible>> /\ discovered' = layout
        /\ \A c \in Container : assigned[c] = {}
    BY <1>9 DEF RestartNodeManager
  <2> QED
    BY <2>1
<1> QED
  BY <1>4, <1>5, <1>6, <1>7, <1>8, <1>9 DEF Next

LEMMA LaunchedInvHolds == Spec => []LaunchedInv
BY LaunchedInvInit, LaunchedInvStep, PTL DEF Spec

\* For numbers the node manager knows, the container's wrapper reads the list that the
\* discovery printed.
LEMMA ReverseMapping ==
  ASSUME layout = discovered, NEW numbers \in SUBSET Known, numbers # {}
  PROVE  DeviceArgument(numbers, layout) = {NvidiaSmi(discovered)[i + 1] : i \in numbers}
<1>1. CASE migAsGpu
  <2> DEFINE main == Mig2GpuMain(layout)
  <2>1. Known = 0 .. Len(main) - 1 /\ NvidiaSmi(discovered) = main
    BY <1>1 DEF Known, NvidiaSmi
  <2>2. Numbered(layout) = [i \in 0 .. Len(main) - 1 |-> main[i + 1]]
    BY DEF Numbered
  <2> HIDE DEF main
  <2>3. numbers \cap DOMAIN Numbered(layout) = numbers
    BY <2>1, <2>2
  <2>4. \A i \in numbers : Numbered(layout)[i] = main[i + 1]
    BY <2>1, <2>2
  <2>5. DeviceArgument(numbers, layout) = {Numbered(layout)[i] : i \in numbers}
    BY <1>1, <2>3 DEF DeviceArgument
  <2> QED
    BY <2>1, <2>4, <2>5
<1>2. CASE ~migAsGpu
  <2>1. NvidiaSmi(discovered) = AllGpus /\ Known = 0 .. GpuCount - 1
    BY <1>2, GpuCountAssumption DEF NvidiaSmi, Known, AllGpus
  <2>2. \A i \in numbers : AllGpus[i + 1] = <<i, Whole>>
    BY <2>1, GpuCountAssumption DEF AllGpus
  <2>3. DeviceArgument(numbers, layout) = {<<i, Whole>> : i \in numbers}
    BY <1>2 DEF DeviceArgument
  <2> QED
    BY <2>1, <2>2, <2>3
<1> QED
  BY <1>1, <1>2

LEMMA LaunchedIsAssigned == LaunchedInv => VisibleIsAssigned
<1> SUFFICES ASSUME LaunchedInv, UpToDate, NEW c \in Container, visible[c] # {}
             PROVE  visible[c] = {NvidiaSmi(discovered)[i + 1] : i \in assigned[c]}
  BY DEF VisibleIsAssigned, Running
<1>1. visible[c] = DeviceArgument(assigned[c], layout) /\ assigned[c] # {}
      /\ assigned[c] \in SUBSET Known
  BY DEF LaunchedInv
<1> QED
  BY <1>1, ReverseMapping DEF UpToDate

\* The wrapper of nvidia-container-cli gives a container the devices the node manager
\* assigned to it, as long as nobody splits the GPUs anew after the discovery: in every
\* environment, for every mix of GPUs.
THEOREM ReverseMappingAgrees == Spec => []VisibleIsAssigned
BY LaunchedInvHolds, LaunchedIsAssigned, PTL

-----------------------------------------------------------------------------
(* The refinement.                                                          *)

LEMMA SameOverlap == ASSUME NEW s, NEW t PROVE Assignment!Overlap(s, t) <=> Overlap(s, t)
BY DEF Assignment!Overlap, Overlap, Assignment!Whole, Whole

\* A launch grants and an end drops while the discovery is up to date; the GPUs are
\* split anew, and the node manager restarts, only while no container runs.
LEMMA AssignmentStep ==
  ASSUME LaunchedInv, [Next]_vars
  PROVE  [Assignment!Next]_Holds
<1>1. CASE UNCHANGED vars
  BY <1>1 DEF vars, Holds, UpToDate
<1>2. ASSUME NEW c \in Container, AssignGpus(c) PROVE UNCHANGED Holds
  BY <1>2 DEF AssignGpus, Holds, UpToDate
<1>3. ASSUME NEW c \in Container, LaunchContainer(c) PROVE [Assignment!Next]_Holds
  <2> DEFINE new == DeviceArgument(assigned[c], layout)
  <2>1. /\ assigned[c] # {} /\ visible[c] = {} /\ UNCHANGED <<env, layout, discovered, assigned>>
        /\ visible' = [visible EXCEPT ![c] = new]
    BY <1>3 DEF LaunchContainer
  <2>2. UpToDate' <=> UpToDate
    BY <2>1 DEF UpToDate
  <2>3. new # {}
    BY <2>1, DeviceArgumentNotEmpty
  <2> HIDE DEF new
  <2>4. CASE ~UpToDate
    <3>1. Holds' = Holds
      BY <2>2, <2>4 DEF Holds
    <3> QED
      BY <3>1
  <2>5. CASE UpToDate
    <3>1. Holds[c] = {} /\ Holds'[c] = new /\ Holds' = [Holds EXCEPT ![c] = Holds'[c]]
      BY <2>1, <2>2, <2>5 DEF Holds, LaunchedInv
    <3>2. assigned[c] \subseteq Known /\ new = {NvidiaSmi(discovered)[i + 1] : i \in assigned[c]}
      BY <2>1, <2>5, ReverseMapping DEF LaunchedInv, UpToDate, new
    <3>3. \A d \in Container \ {c} : Assignment!Apart(Holds'[c], Holds[d])
      <4> SUFFICES ASSUME NEW d \in Container \ {c}, NEW s \in Holds'[c], NEW t \in Holds[d]
                   PROVE  ~Overlap(s, t)
        BY SameOverlap DEF Assignment!Apart
      <4>1. PICK i \in assigned[c] : s = NvidiaSmi(discovered)[i + 1]
        BY <3>1, <3>2
      <4>2. visible[d] # {} /\ t \in visible[d]
        BY DEF Holds
      <4>3. PICK j \in assigned[d] : t = NvidiaSmi(discovered)[j + 1]
        BY <2>5, <4>2, LaunchedIsAssigned DEF VisibleIsAssigned, Running
      <4>4. i \in Known /\ j \in Known /\ i # j
        BY <3>2, <4>1, <4>3 DEF LaunchedInv
      <4>5. ListsApart(NvidiaSmi(discovered))
        BY ListedApart DEF LaunchedInv
      <4> QED
        BY <4>1, <4>3, <4>4, <4>5 DEF ListsApart, Known
    <3> QED
      BY <2>3, <3>1, <3>3 DEF Assignment!Next, Assignment!Grant
  <2> QED
    BY <2>4, <2>5
<1>4. ASSUME NEW c \in Container, EndContainer(c) PROVE [Assignment!Next]_Holds
  <2>1. /\ visible[c] # {} /\ UNCHANGED <<layout, discovered>>
        /\ visible' = [visible EXCEPT ![c] = {}]
    BY <1>4 DEF EndContainer
  <2>2. UpToDate' <=> UpToDate
    BY <2>1 DEF UpToDate
  <2>3. CASE ~UpToDate
    <3>1. Holds' = Holds
      BY <2>2, <2>3 DEF Holds
    <3> QED
      BY <3>1
  <2>4. CASE UpToDate
    <3>1. Holds[c] # {} /\ Holds' = [Holds EXCEPT ![c] = {}]
      BY <2>1, <2>2, <2>4 DEF Holds, LaunchedInv
    <3> QED
      BY <3>1 DEF Assignment!Next, Assignment!Drop
  <2> QED
    BY <2>3, <2>4
<1>5. ASSUME \A c \in Container : visible[c] = {} /\ visible'[c] = {}
      PROVE  UNCHANGED Holds
  BY <1>5 DEF Holds
<1>6. CASE Reconfigure
  BY <1>5, <1>6 DEF Reconfigure
<1>7. CASE RestartNodeManager
  <2>1. visible' = visible /\ \A c \in Container : assigned[c] = {}
    BY <1>7 DEF RestartNodeManager
  <2> QED
    BY <1>5, <2>1 DEF LaunchedInv
<1> QED
  BY <1>1, <1>2, <1>3, <1>4, <1>6, <1>7 DEF Next

\* The scripts implement DeviceAssignment as long as the discovery is up to date: what a
\* container was launched with is its own until it ends.
THEOREM ImplementsAssignment == Spec => AssignmentSpec
<1>1. Init => Assignment!Init
  BY DEF Init, Assignment!Init, Holds
<1>2. Spec => [][Assignment!Next]_Holds
  BY AssignmentStep, LaunchedInvHolds, PTL DEF Spec
<1> QED
  BY <1>1, <1>2, PTL DEF Spec, AssignmentSpec, Assignment!Spec
=============================================================================
