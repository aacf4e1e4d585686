---------------------------- MODULE MigPlugin_proofs ----------------------------
(***************************************************************************)
(* Proofs about which devices the plugin finds, how it schedules them and   *)
(* whom it asks before a container gets several, for any number of GPUs,    *)
(* instances, containers and calls of getDevices.                           *)
(***************************************************************************)
EXTENDS MigPlugin, DataLemmas

\* getDevices numbers the devices it finds.
Numbered(devices) ==
  /\ IsFiniteSet(devices)
  /\ \A d \in devices : d[1] \in Nat
  /\ \A d, e \in devices : d[1] = e[1] => d = e

FoundInv ==
  /\ id \in Nat /\ Numbered(found)
  /\ \A d \in found : d[1] < id

Holding(c) == phase[c] \in {"allocated", "running", "refused"}

\* Every device has one container at most, and a container has as many as it asked for
\* from when they are allocated until they are released.
AssignedInv ==
  /\ assigned \in [Container -> SUBSET found]
  /\ phase \in [Container ->
       {"requested", "allocated", "running", "refused", "ended", "rejected"}]
  /\ \A c \in Container : phase[c] = "requested" => assigned[c] = {}
  /\ \A c, d \in Container : c # d => assigned[c] \cap assigned[d] = {}
  /\ \A c \in Container : Holding(c) => Cardinality(assigned[c]) = CountOf[c]

\* The setting the plugin keeps is that of a container that came here.
SettingHasOwner ==
  throwEnv # "unset" => \E d \in Container : phase[d] # "requested" /\ EnvOf[d] = throwEnv

SettingType == throwEnv \in {"unset", "true", "false"}

IInv == FoundInv /\ AssignedInv /\ SettingType /\ SettingHasOwner /\ MultiGpuHasConsent

-----------------------------------------------------------------------------
(* What getDevices has found when it is half way.                           *)

Instances(g) == IF layout[g] = NotSplit THEN 0 ELSE layout[g]
Lines == ListGpus(layout)

\* Line i, counted from 0, begins the section of GPU g: its instances follow, and then
\* the next GPU if any; all lines before it are of lower GPUs.
SectionAt(i, g) ==
  /\ i \in Nat /\ i + Instances(g) < Len(Lines)
  /\ Lines[i + 1] = GpuLine(g)
  /\ \A m \in 0 .. Instances(g) - 1 : Lines[i + 2 + m] = MigLine(g, m)
  /\ i + 1 + Instances(g) < Len(Lines) => Lines[i + 2 + Instances(g)].kind = "GPU"
  /\ \A j \in 1 .. i : Lines[j].kind # "GPU" \/ Lines[j].n < g

\* The slices getDevices has come past: those of lower GPUs, and the instances of this
\* one that it has counted.
Seen ==
  {s \in HandedOut :
     Precedes(s, <<gpu, IF pc \in {"scan", "section"} THEN migDevCount ELSE Whole>>)}

Rank(s) == RankIn(HandedOut, s)

HostInv ==
  /\ layout \in Layouts(MaxInstances) /\ present \in SUBSET Gpu
  /\ migInfoOutput \in {<<>>, Lines}

\* The scan of nvidia-smi -L comes to the section of the GPU it is for, and to no other.
ScanInv ==
  /\ pc \in {"idle", "gpu", "scan", "section", "done", "failed"} /\ idmig \in Nat
  /\ pc \in {"gpu", "scan", "section", "done"} =>
       gpu \in 0 .. GpuCount /\ \A g \in present : g < gpu => layout[g] # 0
  /\ pc \in {"scan", "section"} =>
       /\ gpu \in present /\ layout[gpu] # NotSplit
       /\ migInfoOutput = Lines /\ migDevCount \in 0 .. layout[gpu]
  /\ pc = "scan" =>
       \/ migDevCount = 0 /\ \E i \in 0 .. LineCount : SectionAt(i, gpu) /\ idmig <= i
       \/ migDevCount = layout[gpu] /\ idmig >= LineCount
  /\ pc = "section" =>
       \E i \in 0 .. LineCount : SectionAt(i, gpu) /\ idmig = i + 1 + migDevCount
  /\ pc = "done" => gpu = GpuCount
  /\ pc = "failed" => gpu \in present /\ layout[gpu] = 0

\* Every slice it has come past is a device, numbered by its rank, and migDevices, from
\* this call or an earlier one, says which instance it is.
CountInv ==
  /\ \A s \in HandedOut :
       Rank(s) \in DOMAIN migDevices => s[2] # Whole /\ migDevices[Rank(s)] = s[2]
  /\ pc \in {"gpu", "scan", "section", "done"} =>
       /\ id = Cardinality(Seen) /\ found = {<<Rank(s), s[1]>> : s \in Seen}
       /\ \A s \in Seen : s[2] # Whole => Rank(s) \in DOMAIN migDevices

DiscoveryInv == HostInv /\ ScanInv /\ CountInv

-----------------------------------------------------------------------------
(* The lines of nvidia-smi -L.                                              *)

Line == [kind : {"GPU", "MIG", "unmatched"}, n : Nat]
MigLines(g, k) == [m \in 1 .. k |-> MigLine(g, m - 1)]
Section(g) == <<GpuLine(g)>> \o MigLines(g, Instances(g))
Sections == [i \in 1 .. GpuCount |-> Section(i - 1)]

LEMMA InstancesType == ASSUME HostInv, NEW g \in Gpu PROVE Instances(g) \in Nat
BY MigDiscoveryAssumption DEF HostInv, Layouts, Instances, NotSplit

LEMMA SectionIs ==
  ASSUME HostInv, NEW g \in Gpu
  PROVE  /\ Section(g) \in Seq(Line) /\ Len(Section(g)) = 1 + Instances(g)
         /\ Section(g)[1] = GpuLine(g)
         /\ \A m \in 0 .. Instances(g) - 1 : Section(g)[2 + m] = MigLine(g, m)
<1> DEFINE k == Instances(g)
           head == <<GpuLine(g)>>
           tail == MigLines(g, k)
<1>1. k \in Nat /\ g \in Nat
  BY InstancesType, GpuCountAssumption DEF Gpu
<1> HIDE DEF k
<1>2. tail \in Seq(Line) /\ Len(tail) = k /\ \A m \in 1 .. k : tail[m] = MigLine(g, m - 1)
  BY <1>1 DEF Line, MigLine, MigLines
<1>3. head \in Seq(Line) /\ Len(head) = 1 /\ head[1] = GpuLine(g)
  BY <1>1 DEF Line, GpuLine
<1> HIDE DEF head, tail
<1>4. /\ head \o tail \in Seq(Line) /\ Len(head \o tail) = 1 + k
      /\ \A i \in 1 .. 1 + k : (head \o tail)[i] = IF i <= 1 THEN head[i] ELSE tail[i - 1]
  <2>1. /\ head \o tail \in Seq(Line) /\ Len(head \o tail) = Len(head) + Len(tail)
        /\ \A i \in 1 .. Len(head) + Len(tail) :
             (head \o tail)[i] = IF i <= Len(head) THEN head[i] ELSE tail[i - Len(head)]
    BY <1>2, <1>3, ConcatProperties
  <2> QED
    BY <1>2, <1>3, <2>1
<1>5. (head \o tail)[1] = GpuLine(g)
  BY <1>1, <1>3, <1>4
<1>6. ASSUME NEW m \in 0 .. k - 1 PROVE (head \o tail)[2 + m] = MigLine(g, m)
  <2>1. 2 + m \in 1 .. 1 + k /\ ~(2 + m <= 1) /\ 2 + m - 1 = m + 1 /\ m + 1 \in 1 .. k /\ m + 1 - 1 = m
    BY <1>1
  <2>2. (head \o tail)[2 + m] = tail[m + 1]
    BY <1>4, <2>1
  <2>3. tail[m + 1] = MigLine(g, m)
    BY <1>2, <2>1
  <2> QED
    BY <2>2, <2>3
<1> QED
  BY <1>4, <1>5, <1>6 DEF Section, head, tail, k

LEMMA LinesAreSections ==
  ASSUME HostInv
  PROVE  /\ Sections \in Seq(Seq(Line)) /\ Len(Sections) = GpuCount
         /\ Lines = FlattenSeq(Sections)
<1>1. \A i \in 1 .. GpuCount : Section(i - 1) \in Seq(Line)
  <2> TAKE i \in 1 .. GpuCount
  <2>1. i - 1 \in Gpu
    BY GpuCountAssumption DEF Gpu
  <2> QED
    BY <2>1, SectionIs
<1>2. Sections \in Seq(Seq(Line)) /\ Len(Sections) = GpuCount
  BY <1>1, GpuCountAssumption DEF Sections
<1>3. Lines = FlattenSeq(Sections)
  BY DEF Lines, ListGpus, Sections, Section, MigLines, Instances
<1> QED
  BY <1>2, <1>3

\* Every GPU has a section.
LEMMA SectionExists ==
  ASSUME HostInv, NEW g \in Gpu
  PROVE  \E i \in 0 .. Len(Lines) : SectionAt(i, g)
<1>1. /\ Sections \in Seq(Seq(Line)) /\ Len(Sections) = GpuCount /\ Lines = FlattenSeq(Sections)
      /\ GpuCount \in Nat
  BY LinesAreSections, GpuCountAssumption
<1>2. PICK off : LaidOut(Sections, Lines, off)
  BY <1>1, FlattenLaidOut
<1>3. ASSUME NEW h \in Gpu
      PROVE  /\ Sections[h + 1] = Section(h) /\ Instances(h) \in Nat
             /\ off[h] \in Nat /\ off[h + 1] \in Nat /\ off[h + 1] = off[h] + 1 + Instances(h)
             /\ Lines[off[h] + 1] = GpuLine(h)
             /\ \A m \in 0 .. Instances(h) - 1 : Lines[off[h] + 2 + m] = MigLine(h, m)
  <2>1. h + 1 \in 1 .. GpuCount /\ h + 1 - 1 = h /\ h \in 0 .. GpuCount /\ h + 1 \in 0 .. GpuCount
    BY <1>1 DEF Gpu
  <2>2. Sections[h + 1] = Section(h)
    BY <2>1 DEF Sections
  <2>3. Instances(h) \in Nat /\ Len(Section(h)) = 1 + Instances(h)
    BY InstancesType, SectionIs
  <2>4. off[h] \in Nat /\ off[h + 1] \in Nat
    BY <1>1, <1>2, <2>1 DEF LaidOut, Laid
  <2>5. off[h + 1] = off[h + 1 - 1] + Len(Sections[h + 1])
    BY <1>1, <1>2, <2>1 DEF LaidOut, Laid
  <2>6. ASSUME NEW j \in 1 .. Len(Section(h)) PROVE Lines[off[h] + j] = Section(h)[j]
    <3>1. \A x \in 1 .. Len(Sections[h + 1]) : Lines[off[h + 1 - 1] + x] = Sections[h + 1][x]
      BY <1>1, <1>2, <2>1 DEF LaidOut
    <3> QED
      BY <2>1, <2>2, <3>1
  <2>7. Lines[off[h] + 1] = GpuLine(h)
    BY <2>3, <2>6, SectionIs
  <2>8. ASSUME NEW m \in 0 .. Instances(h) - 1 PROVE Lines[off[h] + 2 + m] = MigLine(h, m)
    <3>1. 2 + m \in 1 .. Len(Section(h)) /\ off[h] + (2 + m) = off[h] + 2 + m
      BY <2>3, <2>4, SMTT(30)
    <3>2. Lines[off[h] + (2 + m)] = Section(h)[2 + m]
      BY <2>6, <3>1
    <3> QED
      BY <3>1, <3>2, SectionIs
  <2>9. off[h + 1] = off[h] + 1 + Instances(h)
    BY <2>1, <2>2, <2>3, <2>4, <2>5, SMTT(30)
  <2> QED
    BY <2>2, <2>3, <2>4, <2>7, <2>8, <2>9
<1>4. Len(Lines) = off[GpuCount] /\ off[GpuCount] \in Nat
  BY <1>1, <1>2 DEF LaidOut, Laid
<1>5. ASSUME NEW a \in 0 .. GpuCount, NEW b \in a .. GpuCount PROVE off[a] <= off[b]
  BY <1>1, <1>2, OffsetsGrow DEF LaidOut
<1> DEFINE i == off[g]
           n == Instances(g)
<1>6. i \in Nat /\ n \in Nat /\ i + n < Len(Lines)
  <2>1. g + 1 \in 0 .. GpuCount /\ GpuCount \in g + 1 .. GpuCount
    BY <1>1 DEF Gpu
  <2>2. off[g + 1] <= off[GpuCount]
    BY <1>5, <2>1
  <2> QED
    BY <1>3, <1>4, <2>2
<1>7. i + 1 + n < Len(Lines) => Lines[i + 2 + n].kind = "GPU"
  <2> SUFFICES ASSUME i + 1 + n < Len(Lines) PROVE Lines[i + 2 + n].kind = "GPU"
    OBVIOUS
  <2>1. g + 1 # GpuCount
    BY <1>3, <1>4
  <2>2. g + 1 \in Gpu
    BY <1>1, <2>1 DEF Gpu
  <2>3. off[g + 1] + 1 = i + 2 + n /\ Lines[off[g + 1] + 1] = GpuLine(g + 1)
    BY <1>3, <2>2
  <2> QED
    BY <2>3 DEF GpuLine
<1>8. ASSUME NEW j \in 1 .. i PROVE Lines[j].kind # "GPU" \/ Lines[j].n < g
  <2>1. j \in 1 .. off[GpuCount]
    BY <1>4, <1>6
  <2>2. PICK a \in 1 .. GpuCount : \E b \in 1 .. Len(Sections[a]) : j = off[a - 1] + b
    <3>1. Laid(Sections, off) /\ j \in 1 .. off[Len(Sections)]
      BY <1>1, <1>2, <2>1 DEF LaidOut
    <3>2. \E a \in 1 .. Len(Sections) : \E b \in 1 .. Len(Sections[a]) : j = off[a - 1] + b
      BY <1>1, <3>1, FlattenOnto
    <3> QED
      BY <1>1, <3>2
  <2>3. PICK b \in 1 .. Len(Sections[a]) : j = off[a - 1] + b
    BY <2>2
  <2> DEFINE h == a - 1
  <2>4. h \in Gpu /\ h + 1 = a
    BY <1>1 DEF Gpu
  <2> HIDE DEF h
  <2>5. Len(Sections[a]) = 1 + Instances(h)
    BY <1>3, <2>4, SectionIs
  <2>6. j = off[h] + b /\ b \in 1 .. 1 + Instances(h)
    BY <2>3, <2>5 DEF h
  <2>7. h < g
    <3> SUFFICES ASSUME g <= h PROVE FALSE
      BY <1>1, <2>4 DEF Gpu
    <3>1. g \in 0 .. GpuCount /\ h \in g .. GpuCount
      BY <1>1, <2>4 DEF Gpu
    <3>2. off[g] <= off[h]
      BY <1>5, <3>1
    <3> QED
      BY <1>3, <1>6, <2>4, <2>6, <3>2, SMTT(30)
  <2>8. CASE b = 1
    <3>1. Lines[off[h] + 1] = GpuLine(h)
      BY <1>3, <2>4
    <3>2. Lines[j].n = h
      BY <2>6, <2>8, <3>1 DEF GpuLine
    <3> QED
      BY <2>7, <3>2
  <2>9. CASE b # 1
    <3>1. b - 2 \in 0 .. Instances(h) - 1 /\ off[h] + 2 + (b - 2) = j
      BY <1>3, <2>4, <2>6, <2>9, SMTT(30)
    <3>2. Lines[off[h] + 2 + (b - 2)] = MigLine(h, b - 2)
      BY <1>3, <2>4, <3>1
    <3> QED
      BY <3>1, <3>2 DEF MigLine
  <2> QED
    BY <2>8, <2>9
<1>9. SectionAt(i, g)
  BY <1>3, <1>6, <1>7, <1>8 DEF SectionAt
<1> QED
  BY <1>6, <1>9

\* A number begins with itself, and with lower ones only.
LEMMA BeginningsAre ==
  ASSUME NEW n \in Gpu
  PROVE  n \in BeginningsOf[n] /\ \A b \in BeginningsOf[n] : b \in Nat /\ b <= n
<1> DEFINE Given(f, k) == f = [i \in 0 .. k |-> {i} \cup (IF i < 10 THEN {} ELSE f[i \div 10])]
           last == GpuCount - 1
           Good(k) == \E f : Given(f, k)
           G == {k \in 0 .. last : Good(k)}
<1>1. last \in Nat /\ n \in 0 .. last /\ Gpu = 0 .. last
  BY GpuCountAssumption DEF Gpu
<1>2. Good(0)
  <2>1. Given([i \in 0 .. 0 |-> {i}], 0)
    OBVIOUS
  <2> QED
    BY <2>1
<1> HIDE DEF last
<1>3. ASSUME NEW k \in 1 .. last, Good(k - 1) PROVE Good(k)
  <2>1. PICK f : Given(f, k - 1)
    BY <1>3
  <2> DEFINE new == {k} \cup (IF k < 10 THEN {} ELSE f[k \div 10])
             g == [i \in 0 .. k |-> IF i = k THEN new ELSE f[i]]
  <2>2. ASSUME NEW i \in 0 .. k PROVE g[i] = {i} \cup (IF i < 10 THEN {} ELSE g[i \div 10])
    <3>1. i < 10 \/ i \div 10 \in 0 .. k - 1
      BY <1>1
    <3>2. i < 10 \/ g[i \div 10] = f[i \div 10]
      BY <3>1
    <3>3. CASE i = k
      BY <3>2, <3>3
    <3>4. CASE i # k
      <4>1. i \in 0 .. k - 1
        BY <1>1, <3>4
      <4>2. f[i] = {i} \cup (IF i < 10 THEN {} ELSE f[i \div 10])
        BY <2>1, <4>1
      <4> QED
        BY <3>2, <3>4, <4>2
    <3> QED
      BY <3>3, <3>4
  <2>3. Given(g, k)
    BY <2>2
  <2> QED
    BY <2>3
<1> HIDE DEF Good
<1>4. Inductive(G, 0, last)
  BY <1>1, <1>2, <1>3 DEF Inductive
<1> HIDE DEF G
<1>5. last \in G
  BY <1>1, <1>4, IntervalInduction
<1>6. Good(last)
  BY <1>5 DEF G
<1>7. BeginningsOf = CHOOSE f : Given(f, last)
  BY <1>1 DEF BeginningsOf
<1>8. Given(BeginningsOf, last)
  BY <1>6, <1>7 DEF Good
<1>9. ASSUME NEW i \in 0 .. last
      PROVE  BeginningsOf[i] = {i} \cup (IF i < 10 THEN {} ELSE BeginningsOf[i \div 10])
  BY <1>8
<1> HIDE DEF Given
\* By induction on all lower numbers.
<1> DEFINE Low(i) == \A b \in BeginningsOf[i] : b \in Nat /\ b <= i
           H == {i \in 0 .. last : \A m \in 0 .. i : Low(m)}
<1>10. Low(0)
  BY <1>1, <1>9
<1>11. ASSUME NEW i \in 1 .. last, \A m \in 0 .. i - 1 : Low(m) PROVE Low(i)
  <2>1. i < 10 \/ i \div 10 \in 0 .. i - 1
    BY <1>1
  <2>2. i < 10 \/ \A b \in BeginningsOf[i \div 10] : b \in Nat /\ b <= i
    BY <1>11, <2>1
  <2>3. i \in 0 .. last
    BY <1>1
  <2> QED
    BY <1>9, <2>2, <2>3
<1> HIDE DEF Low
<1>12. Inductive(H, 0, last)
  BY <1>1, <1>10, <1>11 DEF Inductive
<1> HIDE DEF H
<1>13. n \in H
  BY <1>1, <1>12, IntervalInduction
<1>14. Low(n)
  BY <1>1, <1>13 DEF H
<1>15. n \in BeginningsOf[n]
  BY <1>1, <1>9
<1> QED
  BY <1>14, <1>15 DEF Low

-----------------------------------------------------------------------------
(* The order of the slices.                                                 *)

Before(g, m) == {s \in HandedOut : Precedes(s, <<g, m>>)}

LEMMA SliceIs ==
  ASSUME HostInv, NEW s
  PROVE  s \in HandedOut <=>
           /\ s = <<s[1], s[2]>> /\ s[1] \in present
           /\ IF layout[s[1]] = NotSplit THEN s[2] = Whole ELSE s[2] \in 0 .. layout[s[1]] - 1
<1>1. present \subseteq Gpu
  BY DEF HostInv
<1>2. s \in HandedOut <=>
        s[1] \in present /\ \E g \in Gpu : \E m \in InstancesOf(layout[g]) : s = <<g, m>>
  BY DEF HandedOut, Slices
<1>3. \A g, m : s = <<g, m>> => s[1] = g /\ s[2] = m
  OBVIOUS
<1>4. \A g : g \in present => \A m : m \in InstancesOf(layout[g]) <=>
        IF layout[g] = NotSplit THEN m = Whole ELSE m \in 0 .. layout[g] - 1
  BY DEF InstancesOf
<1> QED
  BY <1>1, <1>2, <1>3, <1>4

LEMMA SliceType ==
  ASSUME HostInv, NEW s \in HandedOut
  PROVE  /\ s = <<s[1], s[2]>> /\ s[1] \in Gpu /\ s[1] \in present
         /\ s[2] \in Whole .. MaxInstances
         /\ layout[s[1]] \in {NotSplit} \cup 0 .. MaxInstances
<1>1. s = <<s[1], s[2]>> /\ s[1] \in Gpu /\ s[1] \in present
  BY SliceIs DEF HostInv
<1>2. layout[s[1]] \in {NotSplit} \cup 0 .. MaxInstances
  BY <1>1 DEF HostInv, Layouts
<1>3. s[2] \in Whole .. MaxInstances
  BY <1>2, SliceIs, MigDiscoveryAssumption DEF Whole, NotSplit
<1> QED
  BY <1>1, <1>2, <1>3

LEMMA HandedOutFinite == ASSUME HostInv PROVE IsFiniteSet(HandedOut)
<1> DEFINE W == Whole .. MaxInstances
<1>1. IsFiniteSet(Gpu) /\ IsFiniteSet(W)
  BY FS_Interval, GpuCountAssumption, MigDiscoveryAssumption DEF Gpu, Whole
<1>2. IsFiniteSet(Gpu \X W)
  BY <1>1, FS_Product
<1>3. HandedOut \in SUBSET (Gpu \X W)
  BY SliceType
<1> QED
  BY <1>2, <1>3, FS_Subset

LEMMA RankOfSlice ==
  ASSUME HostInv, NEW s \in HandedOut
  PROVE  Rank(s) = Cardinality(Before(s[1], s[2])) /\ Rank(s) \in Nat
<1>1. s = <<s[1], s[2]>>
  BY SliceType
<1>2. Before(s[1], s[2]) = {t \in HandedOut : Precedes(t, s)}
  BY <1>1 DEF Before
<1>3. IsFiniteSet(Before(s[1], s[2]))
  BY HandedOutFinite, FS_Subset DEF Before
<1> QED
  BY <1>2, <1>3, FS_CardinalityType DEF Rank, RankIn

\* Slices are numbered apart.
LEMMA SliceRankIsInjective ==
  ASSUME HostInv, NEW s \in HandedOut, NEW t \in HandedOut, Rank(s) = Rank(t)
  PROVE  s = t
<1> SUFFICES ASSUME s # t PROVE FALSE
  OBVIOUS
<1>1. /\ s = <<s[1], s[2]>> /\ t = <<t[1], t[2]>>
      /\ s[1] \in Int /\ s[2] \in Int /\ t[1] \in Int /\ t[2] \in Int
  BY SliceType, GpuCountAssumption, MigDiscoveryAssumption DEF Gpu, Whole
<1>2. ASSUME NEW x \in HandedOut, NEW y \in HandedOut, Precedes(x, y), Rank(x) = Rank(y),
             x[1] \in Int, x[2] \in Int, y[1] \in Int, y[2] \in Int
      PROVE  FALSE
  <2>1. IsFiniteSet(Before(y[1], y[2]))
    BY HandedOutFinite, FS_Subset DEF Before
  <2>2. \A u \in HandedOut : u[1] \in Int /\ u[2] \in Int
    BY SliceType, GpuCountAssumption, MigDiscoveryAssumption DEF Gpu, Whole
  <2>3. Before(x[1], x[2]) \in SUBSET Before(y[1], y[2])
    BY <1>2, <2>2 DEF Before, Precedes
  <2>4. Before(x[1], x[2]) = Before(y[1], y[2])
    BY <1>2, <2>1, <2>3, RankOfSlice, FS_Subset
  <2> QED
    BY <1>2, <2>4 DEF Before, Precedes
<1>3. Precedes(s, t) \/ Precedes(t, s)
  BY <1>1 DEF Precedes
<1> QED
  BY <1>1, <1>2, <1>3

\* What comes before the next slice: one more if this one is handed out.
LEMMA BeforeNext ==
  ASSUME HostInv, NEW g \in Gpu, NEW m \in Int,
         <<g, m>> \in HandedOut
  PROVE  /\ Cardinality(Before(g, m) \cup {<<g, m>>}) = Cardinality(Before(g, m)) + 1
         /\ m # Whole => Before(g, m + 1) = Before(g, m) \cup {<<g, m>>}
         /\ m = Whole => Before(g + 1, Whole) = Before(g, m) \cup {<<g, m>>}
<1>1. \A s \in HandedOut : /\ s = <<s[1], s[2]>> /\ s[1] \in Int /\ s[2] \in Int /\ s[2] >= Whole
  BY SliceType, GpuCountAssumption, MigDiscoveryAssumption DEF Gpu, Whole
<1>2. g \in Int
  BY GpuCountAssumption DEF Gpu
<1>3. IsFiniteSet(Before(g, m)) /\ <<g, m>> \notin Before(g, m)
  BY <1>2, HandedOutFinite, FS_Subset DEF Before, Precedes
<1>4. Cardinality(Before(g, m) \cup {<<g, m>>}) = Cardinality(Before(g, m)) + 1
  BY <1>3, FS_AddElement
<1>5. ASSUME m # Whole PROVE Before(g, m + 1) = Before(g, m) \cup {<<g, m>>}
  <2>1. ASSUME NEW s \in HandedOut
        PROVE  Precedes(s, <<g, m + 1>>) <=> Precedes(s, <<g, m>>) \/ s = <<g, m>>
    <3>1. s = <<s[1], s[2]>> /\ s[1] \in Int /\ s[2] \in Int
      BY <1>1
    <3>2. s = <<g, m>> <=> s[1] = g /\ s[2] = m
      BY <3>1
    <3> QED
      BY <1>2, <3>1, <3>2 DEF Precedes
  <2> QED
    BY <2>1 DEF Before
<1>6. ASSUME m = Whole PROVE Before(g + 1, Whole) = Before(g, m) \cup {<<g, m>>}
  <2>1. layout[g] = NotSplit
    <3>1. /\ <<g, m>>[1] = g /\ <<g, m>>[2] = m
      OBVIOUS
    <3>2. layout[g] # NotSplit => m \in 0 .. layout[g] - 1
      BY <3>1, SliceIs
    <3> QED
      BY <1>6, <3>2 DEF Whole
  <2>2. ASSUME NEW s \in HandedOut
        PROVE  Precedes(s, <<g + 1, Whole>>) <=> Precedes(s, <<g, m>>) \/ s = <<g, m>>
    <3>1. s = <<s[1], s[2]>> /\ s[1] \in Int /\ s[2] \in Int /\ s[2] >= Whole
      BY <1>1
    <3>2. s = <<g, m>> <=> s[1] = g /\ s[2] = m
      BY <3>1
    <3>3. s[1] = g => s[2] = Whole
      BY <2>1, SliceIs
    <3> QED
      BY <1>2, <1>6, <3>1, <3>2, <3>3 DEF Precedes, Whole
  <2> QED
    BY <2>2 DEF Before
<1> QED
  BY <1>4, <1>5, <1>6

\* The slices before the next one when nothing is handed out.
LEMMA BeforeSame ==
  ASSUME HostInv
  PROVE  /\ Before(0, Whole) = {}
         /\ Before(GpuCount, Whole) = HandedOut
         /\ \A g \in Gpu \ present : Before(g + 1, Whole) = Before(g, Whole)
         /\ \A g \in Gpu : layout[g] # NotSplit =>
              /\ Before(g, 0) = Before(g, Whole)
              /\ Before(g + 1, Whole) = Before(g, layout[g])
<1>1. ASSUME NEW s \in HandedOut
      PROVE  /\ s[1] \in Gpu /\ s[1] \in present /\ s[2] \in Int /\ s[2] >= Whole
             /\ layout[s[1]] \in Int
             /\ layout[s[1]] # NotSplit => s[2] >= 0 /\ s[2] < layout[s[1]]
  BY SliceType, SliceIs, MigDiscoveryAssumption DEF Whole, NotSplit
<1>2. GpuCount \in Nat /\ \A g : g \in Gpu <=> g \in Nat /\ g < GpuCount
  BY GpuCountAssumption DEF Gpu
<1>3. Before(0, Whole) = {}
  BY <1>1, <1>2 DEF Before, Precedes, Whole
<1>4. Before(GpuCount, Whole) = HandedOut
  BY <1>1, <1>2 DEF Before, Precedes
<1>5. ASSUME NEW g \in Gpu \ present PROVE Before(g + 1, Whole) = Before(g, Whole)
  <2>1. ASSUME NEW s \in HandedOut
        PROVE  Precedes(s, <<g + 1, Whole>>) <=> Precedes(s, <<g, Whole>>)
    BY <1>1, <1>2 DEF Precedes, Whole
  <2> QED
    BY <2>1 DEF Before
<1>6. ASSUME NEW g \in Gpu, layout[g] # NotSplit
      PROVE  /\ Before(g, 0) = Before(g, Whole)
             /\ Before(g + 1, Whole) = Before(g, layout[g])
  <2>1. ASSUME NEW s \in HandedOut
        PROVE  /\ Precedes(s, <<g, 0>>) <=> Precedes(s, <<g, Whole>>)
               /\ Precedes(s, <<g + 1, Whole>>) <=> Precedes(s, <<g, layout[g]>>)
    BY <1>1, <1>2, <1>6 DEF Precedes, Whole
  <2> QED
    BY <2>1 DEF Before
<1> QED
  BY <1>3, <1>4, <1>5, <1>6

-----------------------------------------------------------------------------
(* The steps of getDevices.                                                 *)

Reached == IF pc \in {"scan", "section"} THEN migDevCount ELSE Whole

LEMMA SeenIs == Seen = Before(gpu, Reached)
BY DEF Seen, Before, Reached

\* What depends on the host alone stays as it is.
LEMMA HostSame ==
  ASSUME UNCHANGED inputVars
  PROVE  /\ layout' = layout /\ present' = present
         /\ HandedOut' = HandedOut /\ Lines' = Lines
         /\ \A s : Rank(s)' = Rank(s)
         /\ \A g, m : Before(g, m)' = Before(g, m)
         /\ \A i, g : SectionAt(i, g)' <=> SectionAt(i, g)
<1>1. layout' = layout /\ present' = present
  BY DEF inputVars
<1> QED
  BY <1>1 DEF HandedOut, Lines, Rank, Before, SectionAt, Instances

LEMMA LinesType ==
  ASSUME HostInv PROVE Lines \in Seq(Line) /\ Len(Lines) \in Nat
<1>1. Sections \in Seq(Seq(Line)) /\ Lines = FlattenSeq(Sections)
  BY LinesAreSections
<1>2. Lines \in Seq(Line)
  BY <1>1, FlattenLaidOut
<1> QED
  BY <1>2, LenProperties

LEMMA HostStep ==
  ASSUME HostInv, UNCHANGED inputVars, migInfoOutput' \in {<<>>, Lines}
  PROVE  HostInv'
BY HostSame DEF HostInv

\* A step that comes past no slice.
LEMMA CountSame ==
  ASSUME CountInv, UNCHANGED <<inputVars, id, found, migDevices>>,
         pc \in {"gpu", "scan", "section"}, Before(gpu', Reached') = Before(gpu, Reached)
  PROVE  CountInv'
<1>1. Seen' = Seen
  <2>1. Seen' = {s \in HandedOut' : Precedes(s, <<gpu', Reached'>>)}
    BY DEF Seen, Reached
  <2>2. Seen' = Before(gpu', Reached')
    BY <2>1, HostSame DEF Before
  <2> QED
    BY <2>2, SeenIs
<1> QED
  BY <1>1, HostSame DEF CountInv

LEMMA GetDevicesStep == ASSUME DiscoveryInv, GetDevices PROVE DiscoveryInv'
<1> USE DEF DiscoveryInv
<1>1. /\ UNCHANGED <<inputVars, migDevices, migInfoOutput>> /\ idmig' = idmig
      /\ pc' = "gpu" /\ gpu' = 0 /\ id' = 0 /\ found' = {}
  BY DEF GetDevices
<1>2. HostInv'
  BY <1>1, HostStep DEF HostInv
<1>3. ScanInv'
  <2>1. \A g \in present : g \in Nat
    BY GpuCountAssumption DEF HostInv, Gpu
  <2> QED
    BY <1>1, <2>1, HostSame, GpuCountAssumption DEF ScanInv
<1>4. CountInv'
  <2>1. Seen' = Before(0, Whole)'
    BY <1>1 DEF Seen, Before
  <2>2. Seen' = {}
    BY <1>1, <2>1, HostSame, BeforeSame
  <2> QED
    BY <1>1, <2>2, HostSame, FS_EmptySet DEF CountInv
<1> QED
  BY <1>2, <1>3, <1>4

LEMMA SkipGpuStep == ASSUME DiscoveryInv, SkipGpu PROVE DiscoveryInv'
<1> USE DEF DiscoveryInv
<1>1. /\ UNCHANGED <<inputVars, pc, idmig, id, found, migDevices, migDevCount, migInfoOutput>>
      /\ pc = "gpu" /\ gpu \in Gpu \ present /\ gpu' = gpu + 1
  BY DEF SkipGpu
<1>2. HostInv'
  BY <1>1, HostStep DEF HostInv
<1>3. ScanInv'
  <2>1. \A g \in present : g \in Nat
    BY GpuCountAssumption DEF HostInv, Gpu
  <2>2. gpu' \in 0 .. GpuCount /\ \A g \in present : g < gpu' => layout[g] # 0
    BY <1>1, <2>1, GpuCountAssumption DEF ScanInv, Gpu
  <2> QED
    BY <1>1, <2>2, HostSame DEF ScanInv
<1>4. CountInv'
  BY <1>1, BeforeSame, CountSame DEF Reached
<1> QED
  BY <1>2, <1>3, <1>4

\* A step that comes past the next slice, <<gpu, m>>, and counts it.
LEMMA CountOneMore ==
  ASSUME HostInv, CountInv, UNCHANGED inputVars, pc \in {"gpu", "scan", "section"},
         NEW m \in Int, Reached = m, gpu \in Gpu, <<gpu, m>> \in HandedOut,
         Before(gpu', Reached') = Before(gpu, m) \cup {<<gpu, m>>},
         found' = found \cup {<<id, gpu>>}, id' = id + 1,
         migDevices' = IF m = Whole THEN migDevices
                       ELSE [i \in DOMAIN migDevices \cup {id} |->
                               IF i = id THEN m ELSE migDevices[i]],
         m # Whole \/ id \notin DOMAIN migDevices
  PROVE  CountInv'
<1> DEFINE s == <<gpu, m>>
<1>1. s \in HandedOut /\ s[1] = gpu /\ s[2] = m
  OBVIOUS
<1>2. Seen = Before(gpu, m) /\ Rank(s) = id
  BY <1>1, SeenIs, RankOfSlice DEF CountInv
<1>3. Seen' = Seen \cup {s}
  <2>1. Seen' = {t \in HandedOut' : Precedes(t, <<gpu', Reached'>>)}
    BY DEF Seen, Reached
  <2>2. Seen' = Before(gpu', Reached')
    BY <2>1, HostSame DEF Before
  <2> QED
    BY <1>2, <2>2
<1>4. id' = Cardinality(Seen')
  BY <1>1, <1>2, <1>3, BeforeNext DEF CountInv
<1>5. found = {<<Rank(t), t[1]>> : t \in Seen} /\ HandedOut' = HandedOut /\ \A t : Rank(t)' = Rank(t)
  BY HostSame DEF CountInv
<1> HIDE DEF s
<1>6. found' = {<<Rank(t)', t[1]>> : t \in Seen'}
  BY <1>1, <1>2, <1>3, <1>5
<1>7. ASSUME NEW t \in HandedOut, Rank(t) \in DOMAIN migDevices'
      PROVE  t[2] # Whole /\ migDevices'[Rank(t)] = t[2]
  <2>1. CASE t = s
    BY <1>1, <1>2, <1>7, <2>1
  <2>2. CASE t # s
    <3>1. Rank(t) # id
      BY <1>1, <1>2, <2>2, SliceRankIsInjective
    <3>2. Rank(t) \in DOMAIN migDevices /\ migDevices'[Rank(t)] = migDevices[Rank(t)]
      BY <1>7, <3>1
    <3> QED
      BY <3>2 DEF CountInv
  <2> QED
    BY <2>1, <2>2
<1>8. ASSUME NEW t \in Seen', t[2] # Whole PROVE Rank(t) \in DOMAIN migDevices'
  <2>1. CASE t = s
    BY <1>1, <1>2, <1>8, <2>1
  <2>2. CASE t \in Seen
    BY <1>8, <2>2 DEF CountInv
  <2> QED
    BY <1>3, <2>1, <2>2
<1> QED
  BY <1>4, <1>5, <1>6, <1>7, <1>8 DEF CountInv

LEMMA AddWholeGpuStep == ASSUME DiscoveryInv, AddWholeGpu PROVE DiscoveryInv'
<1> USE DEF DiscoveryInv
<1>1. /\ UNCHANGED <<inputVars, pc, idmig, migDevices, migDevCount, migInfoOutput>>
      /\ pc = "gpu" /\ gpu \in present /\ layout[gpu] = NotSplit /\ gpu' = gpu + 1
      /\ found' = found \cup {<<id, gpu>>} /\ id' = id + 1
  BY DEF AddWholeGpu
<1>2. HostInv'
  BY <1>1, HostStep DEF HostInv
<1>3. gpu \in Gpu /\ \A g \in present : g \in Nat
  BY <1>1, GpuCountAssumption DEF HostInv, Gpu
<1>4. ScanInv'
  <2>1. gpu' \in 0 .. GpuCount /\ \A g \in present : g < gpu' => layout[g] # 0
    BY <1>1, <1>3, GpuCountAssumption DEF ScanInv, Gpu, NotSplit
  <2> QED
    BY <1>1, <2>1, HostSame DEF ScanInv
<1>5. <<gpu, Whole>> \in HandedOut
  BY <1>1, SliceIs
<1>6. Before(gpu', Reached') = Before(gpu, Whole) \cup {<<gpu, Whole>>}
  <2>1. Whole \in Int /\ Reached' = Whole
    BY <1>1 DEF Whole, Reached
  <2>2. Before(gpu + 1, Whole) = Before(gpu, Whole) \cup {<<gpu, Whole>>}
    BY <1>3, <1>5, <2>1, BeforeNext
  <2> QED
    BY <1>1, <2>1, <2>2
<1>7. id \notin DOMAIN migDevices
  <2>1. Rank(<<gpu, Whole>>) = id
    BY <1>1, <1>5, SeenIs, RankOfSlice DEF CountInv, Reached
  <2> QED
    BY <1>5, <2>1 DEF CountInv
<1>8. CountInv'
  <2>1. Whole \in Int /\ Reached = Whole
    BY <1>1 DEF Whole, Reached
  <2> QED
    BY <1>1, <1>3, <1>5, <1>6, <1>7, <2>1, CountOneMore
<1> QED
  BY <1>2, <1>4, <1>8

LEMMA OpenMigInfoStep == ASSUME DiscoveryInv, OpenMigInfo PROVE DiscoveryInv'
<1> USE DEF DiscoveryInv
<1>1. /\ UNCHANGED <<inputVars, gpu, id, found, migDevices>>
      /\ pc = "gpu" /\ pc' = "scan" /\ idmig' = 0 /\ migDevCount' = 0
      /\ gpu \in present /\ layout[gpu] # NotSplit
  BY DEF OpenMigInfo
<1>2. migInfoOutput' = Lines
  BY DEF OpenMigInfo, HostInv, Lines
<1>3. HostInv'
  BY <1>1, <1>2, HostStep
<1>4. gpu \in Gpu /\ layout[gpu] \in Nat
  BY <1>1, MigDiscoveryAssumption DEF HostInv, Layouts, NotSplit
<1>5. ScanInv'
  <2>1. PICK i \in 0 .. Len(Lines) : SectionAt(i, gpu)
    BY <1>4, SectionExists
  <2>2. i \in 0 .. LineCount' /\ SectionAt(i, gpu)' /\ 0 <= i
    BY <1>1, <1>2, <2>1, LinesType, HostSame DEF LineCount
  <2>3. migDevCount' \in 0 .. layout[gpu]
    BY <1>1, <1>4
  <2> QED
    BY <1>1, <1>2, <2>2, <2>3, HostSame DEF ScanInv
<1>6. CountInv'
  BY <1>1, <1>4, BeforeSame, CountSame DEF Reached
<1> QED
  BY <1>3, <1>5, <1>6

\* The scan comes to the section of its GPU at the line SectionAt names, and to no
\* section before: those lines are instances, or of GPUs of lower numbers.
LEMMA ScanLineStep == ASSUME DiscoveryInv, ScanLine PROVE DiscoveryInv'
<1> USE DEF DiscoveryInv
<1>1. /\ UNCHANGED <<inputVars, gpu, id, found, migDevices, migDevCount, migInfoOutput>>
      /\ pc = "scan" /\ idmig < LineCount /\ idmig' = idmig + 1
      /\ pc' = IF AtSection THEN "section" ELSE "scan"
  BY DEF ScanLine
<1>2. HostInv'
  BY <1>1, HostStep DEF HostInv
<1>3. /\ gpu \in present /\ layout[gpu] # NotSplit /\ gpu \in Gpu /\ layout[gpu] \in Nat
      /\ migInfoOutput = Lines /\ LineCount = Len(Lines) /\ LineCount \in Nat
      /\ idmig \in Nat /\ Instances(gpu) = layout[gpu] /\ LineCount' = LineCount
  <2>1. gpu \in present /\ layout[gpu] # NotSplit /\ migInfoOutput = Lines /\ idmig \in Nat
    BY <1>1 DEF ScanInv
  <2>2. gpu \in Gpu /\ layout[gpu] \in Nat
    BY <2>1, MigDiscoveryAssumption DEF HostInv, Layouts, NotSplit
  <2> QED
    BY <1>1, <2>1, <2>2, LinesType DEF Instances, LineCount
<1>4. PICK i \in 0 .. LineCount : SectionAt(i, gpu) /\ idmig <= i /\ migDevCount = 0
  BY <1>1, <1>3 DEF ScanInv
<1>5. /\ i \in Nat /\ i + layout[gpu] < LineCount /\ Lines[i + 1] = GpuLine(gpu)
      /\ i + 1 + layout[gpu] < LineCount => Lines[i + 2 + layout[gpu]].kind = "GPU"
      /\ \A j \in 1 .. i : Lines[j].kind # "GPU" \/ Lines[j].n < gpu
  BY <1>3, <1>4 DEF SectionAt
<1>6. ASSUME idmig < i PROVE ~AtSection
  <2>1. idmig + 1 \in 1 .. i /\ LineAt(idmig) = Lines[idmig + 1]
    BY <1>3, <1>6 DEF LineAt
  <2>2. Lines[idmig + 1].kind # "GPU" \/ Lines[idmig + 1].n < gpu
    BY <1>5, <2>1
  <2>3. Lines[idmig + 1] \in Line
    BY <1>3, <1>5, <2>1, LinesType, ElementOfSeq
  <2>4. Lines[idmig + 1].kind # "GPU" => ~AtSection
    BY <2>1 DEF AtSection, StartsSection
  <2>5. ASSUME Lines[idmig + 1].n < gpu PROVE gpu \notin BeginningsOf[Lines[idmig + 1].n]
    <3> DEFINE n == Lines[idmig + 1].n
    <3>1. n \in Nat /\ gpu \in Nat /\ n < gpu /\ n \in Gpu
      BY <1>3, <2>3, <2>5, GpuCountAssumption DEF Line, Gpu
    <3> QED
      BY <3>1, BeginningsAre
  <2>6. Lines[idmig + 1].n < gpu => ~AtSection
    BY <2>1, <2>5 DEF AtSection, StartsSection
  <2> QED
    BY <2>2, <2>4, <2>6
<1>7. ASSUME idmig = i PROVE AtSection <=> i + 1 < LineCount
  <2>1. LineAt(idmig) = GpuLine(gpu)
    BY <1>3, <1>5, <1>7 DEF LineAt
  <2>2. StartsSection(LineAt(idmig))
    BY <1>3, <2>1, BeginningsAre DEF StartsSection, GpuLine
  <2> QED
    BY <1>3, <1>5, <1>7, <2>2 DEF AtSection
<1>8. ScanInv'
  <2>1. /\ pc' \in {"idle", "gpu", "scan", "section", "done", "failed"} /\ idmig' \in Nat
        /\ gpu' \in 0 .. GpuCount /\ \A g \in present' : g < gpu' => layout'[g] # 0
        /\ gpu' \in present' /\ layout'[gpu'] # NotSplit
        /\ migInfoOutput' = Lines' /\ migDevCount' \in 0 .. layout'[gpu']
    BY <1>1, <1>3, HostSame DEF ScanInv
  <2>2. \A j : SectionAt(j, gpu)' <=> SectionAt(j, gpu)
    BY <1>1, HostSame
  <2>3. CASE idmig < i
    <3>1. pc' = "scan" /\ idmig' <= i
      BY <1>1, <1>3, <1>5, <1>6, <2>3
    <3>2. migDevCount' = 0 /\ gpu' = gpu
      BY <1>1, <1>4
    <3> QED
      BY <1>3, <1>4, <2>1, <2>2, <3>1, <3>2 DEF ScanInv
  <2>4. CASE idmig = i /\ i + 1 < LineCount
    <3>1. pc' = "section" /\ idmig' = i + 1 + migDevCount' /\ gpu' = gpu
      BY <1>1, <1>4, <1>5, <1>7, <2>4
    <3> QED
      BY <1>3, <1>4, <2>1, <2>2, <3>1 DEF ScanInv
  <2>5. CASE idmig = i /\ ~(i + 1 < LineCount)
    <3>1. pc' = "scan" /\ idmig' >= LineCount'
      BY <1>1, <1>3, <1>7, <2>5
    <3>2. layout[gpu] = 0
      BY <1>3, <1>5, <2>5
    <3>3. migDevCount' = layout'[gpu']
      BY <1>1, <1>4, <3>2, HostSame
    <3> QED
      BY <2>1, <3>1, <3>3 DEF ScanInv
  <2> QED
    BY <1>3, <1>4, <1>5, <2>3, <2>4, <2>5
<1>9. CountInv'
  <2>1. Reached' = Reached
    BY <1>1 DEF Reached
  <2> QED
    BY <1>1, <2>1, CountSame
<1> QED
  BY <1>2, <1>8, <1>9

LEMMA AddInstanceStep == ASSUME DiscoveryInv, AddInstance PROVE DiscoveryInv'
<1> USE DEF DiscoveryInv
<1>1. /\ UNCHANGED <<inputVars, pc, gpu, migInfoOutput>>
      /\ pc = "section" /\ AtInstance
      /\ migDevices' = [k \in DOMAIN migDevices \cup {id} |->
                          IF k = id THEN LineAt(idmig).n ELSE migDevices[k]]
      /\ found' = found \cup {<<id, gpu>>} /\ id' = id + 1
      /\ migDevCount' = migDevCount + 1 /\ idmig' = idmig + 1
  BY DEF AddInstance
<1>2. HostInv'
  BY <1>1, HostStep DEF HostInv
<1>3. /\ gpu \in present /\ layout[gpu] # NotSplit /\ gpu \in Gpu /\ layout[gpu] \in Nat
      /\ migInfoOutput = Lines /\ LineCount = Len(Lines) /\ LineCount \in Nat
      /\ migDevCount \in 0 .. layout[gpu] /\ Instances(gpu) = layout[gpu]
  <2>1. /\ gpu \in present /\ layout[gpu] # NotSplit /\ migInfoOutput = Lines
        /\ migDevCount \in 0 .. layout[gpu]
    BY <1>1 DEF ScanInv
  <2>2. gpu \in Gpu /\ layout[gpu] \in Nat
    BY <2>1, MigDiscoveryAssumption DEF HostInv, Layouts, NotSplit
  <2> QED
    BY <1>1, <2>1, <2>2, LinesType DEF Instances, LineCount
<1>4. PICK i \in 0 .. LineCount : SectionAt(i, gpu) /\ idmig = i + 1 + migDevCount
  BY <1>1 DEF ScanInv
<1>5. /\ i \in Nat
      /\ i + 1 + layout[gpu] < LineCount => Lines[i + 2 + layout[gpu]].kind = "GPU"
      /\ \A m \in 0 .. layout[gpu] - 1 : Lines[i + 2 + m] = MigLine(gpu, m)
  BY <1>3, <1>4 DEF SectionAt
<1>6. LineAt(idmig) = Lines[i + 2 + migDevCount] /\ idmig < LineCount /\ LineAt(idmig).kind = "MIG"
  <2>1. idmig + 1 = i + 2 + migDevCount
    BY <1>3, <1>4, <1>5
  <2> QED
    BY <1>1, <1>3, <2>1 DEF LineAt, AtInstance, AtMig
<1>7. migDevCount < layout[gpu]
  <2> SUFFICES ASSUME migDevCount = layout[gpu] PROVE FALSE
    BY <1>3
  <2> QED
    BY <1>3, <1>4, <1>5, <1>6
<1>8. migDevCount \in 0 .. layout[gpu] - 1 /\ LineAt(idmig).n = migDevCount
  <2>1. migDevCount \in 0 .. layout[gpu] - 1
    BY <1>3, <1>7
  <2>2. Lines[i + 2 + migDevCount] = MigLine(gpu, migDevCount)
    BY <1>5, <2>1
  <2>3. MigLine(gpu, migDevCount).n = migDevCount
    BY DEF MigLine
  <2> QED
    BY <1>6, <2>1, <2>2, <2>3
<1>9. ScanInv'
  <2>1. /\ pc' = "section" /\ idmig' \in Nat /\ gpu' = gpu
        /\ gpu' \in 0 .. GpuCount /\ \A g \in present' : g < gpu' => layout'[g] # 0
        /\ gpu' \in present' /\ layout'[gpu'] # NotSplit
        /\ migInfoOutput' = Lines' /\ migDevCount' \in 0 .. layout'[gpu']
    BY <1>1, <1>3, <1>7, HostSame DEF ScanInv
  <2>2. idmig' = i + 1 + migDevCount' /\ LineCount' = LineCount
    BY <1>1, <1>3, <1>4, <1>5 DEF LineCount
  <2>3. SectionAt(i, gpu)'
    <3>1. SectionAt(i, gpu)' <=> SectionAt(i, gpu)
      BY <1>1, HostSame
    <3> QED
      BY <1>1, <1>4, <3>1
  <2> QED
    BY <2>1, <2>2, <2>3 DEF ScanInv
<1>10. CountInv'
  <2>1. /\ Reached = migDevCount /\ Reached' = migDevCount + 1 /\ migDevCount \in Int
        /\ migDevCount # Whole
    BY <1>1, <1>3 DEF Reached, Whole
  <2>2. <<gpu, migDevCount>> \in HandedOut
    BY <1>3, <1>8, SliceIs
  <2>3. Before(gpu, migDevCount + 1) = Before(gpu, migDevCount) \cup {<<gpu, migDevCount>>}
    BY <1>3, <2>1, <2>2, BeforeNext
  <2>4. Before(gpu', Reached') = Before(gpu, migDevCount) \cup {<<gpu, migDevCount>>}
    BY <1>1, <2>1, <2>3
  <2>5. migDevices' = [k \in DOMAIN migDevices \cup {id} |->
                         IF k = id THEN migDevCount ELSE migDevices[k]]
    BY <1>1, <1>8
  <2> QED
    BY <1>1, <1>3, <2>1, <2>2, <2>4, <2>5, CountOneMore
<1> QED
  BY <1>2, <1>9, <1>10

LEMMA LeaveSectionStep == ASSUME DiscoveryInv, LeaveSection PROVE DiscoveryInv'
<1> USE DEF DiscoveryInv
<1>1. /\ UNCHANGED <<inputVars, gpu, id, found, migDevices, migDevCount, migInfoOutput>>
      /\ pc = "section" /\ pc' = "scan" /\ ~AtMig /\ idmig' = LineCount
  BY DEF LeaveSection
<1>2. HostInv'
  BY <1>1, HostStep DEF HostInv
<1>3. /\ gpu \in present /\ layout[gpu] # NotSplit /\ gpu \in Gpu /\ layout[gpu] \in Nat
      /\ migInfoOutput = Lines /\ LineCount = Len(Lines) /\ LineCount \in Nat
      /\ migDevCount \in 0 .. layout[gpu] /\ Instances(gpu) = layout[gpu]
  <2>1. /\ gpu \in present /\ layout[gpu] # NotSplit /\ migInfoOutput = Lines
        /\ migDevCount \in 0 .. layout[gpu]
    BY <1>1 DEF ScanInv
  <2>2. gpu \in Gpu /\ layout[gpu] \in Nat
    BY <2>1, MigDiscoveryAssumption DEF HostInv, Layouts, NotSplit
  <2> QED
    BY <1>1, <2>1, <2>2, LinesType DEF Instances, LineCount
\* It has counted all instances: the line of the next one would be one of MIG.
<1>4. migDevCount = layout[gpu]
  <2> SUFFICES ASSUME migDevCount < layout[gpu] PROVE FALSE
    BY <1>3
  <2>1. PICK i \in 0 .. LineCount : SectionAt(i, gpu) /\ idmig = i + 1 + migDevCount
    BY <1>1 DEF ScanInv
  <2>2. /\ i \in Nat /\ i + layout[gpu] < LineCount
        /\ \A m \in 0 .. layout[gpu] - 1 : Lines[i + 2 + m] = MigLine(gpu, m)
    BY <1>3, <2>1 DEF SectionAt
  <2>3. idmig + 1 = i + 2 + migDevCount /\ migDevCount \in 0 .. layout[gpu] - 1
    BY <1>3, <2>1, <2>2
  <2>4. LineAt(idmig) = MigLine(gpu, migDevCount)
    BY <1>3, <2>2, <2>3 DEF LineAt
  <2>5. idmig < LineCount
    BY <1>3, <2>1, <2>2
  <2> QED
    BY <1>1, <2>4, <2>5 DEF AtMig, MigLine
<1>5. ScanInv'
  <2>1. /\ gpu' = gpu /\ idmig' \in Nat
        /\ gpu' \in 0 .. GpuCount /\ \A g \in present' : g < gpu' => layout'[g] # 0
        /\ gpu' \in present' /\ layout'[gpu'] # NotSplit
        /\ migInfoOutput' = Lines' /\ migDevCount' \in 0 .. layout'[gpu']
    BY <1>1, <1>3, HostSame DEF ScanInv
  <2>2. migDevCount' = layout'[gpu'] /\ idmig' >= LineCount'
    BY <1>1, <1>3, <1>4, HostSame DEF LineCount
  <2> QED
    BY <1>1, <2>1, <2>2 DEF ScanInv
<1>6. CountInv'
  <2>1. Reached' = Reached
    BY <1>1 DEF Reached
  <2> QED
    BY <1>1, <2>1, CountSame
<1> QED
  BY <1>2, <1>5, <1>6

LEMMA EndScanStep == ASSUME DiscoveryInv, EndScan PROVE DiscoveryInv'
<1> USE DEF DiscoveryInv
<1>1. /\ UNCHANGED <<inputVars, idmig, id, found, migDevices, migDevCount, migInfoOutput>>
      /\ pc = "scan" /\ idmig >= LineCount
      /\ IF migDevCount < 1 THEN pc' = "failed" /\ gpu' = gpu ELSE pc' = "gpu" /\ gpu' = gpu + 1
  BY DEF EndScan
<1>2. HostInv'
  BY <1>1, HostStep DEF HostInv
<1>3. /\ gpu \in present /\ layout[gpu] # NotSplit /\ gpu \in Gpu /\ layout[gpu] \in Nat
      /\ LineCount = Len(Lines) /\ LineCount \in Nat /\ idmig \in Nat
  <2>1. /\ gpu \in present /\ layout[gpu] # NotSplit /\ migInfoOutput = Lines /\ idmig \in Nat
    BY <1>1 DEF ScanInv
  <2>2. gpu \in Gpu /\ layout[gpu] \in Nat
    BY <2>1, MigDiscoveryAssumption DEF HostInv, Layouts, NotSplit
  <2> QED
    BY <1>1, <2>1, <2>2, LinesType DEF LineCount
\* The scan has not ended before the section.
<1>4. migDevCount = layout[gpu]
  <2> SUFFICES ASSUME NEW i \in 0 .. LineCount, SectionAt(i, gpu), idmig <= i PROVE FALSE
    BY <1>1 DEF ScanInv
  <2>1. i \in Nat /\ i + Instances(gpu) < LineCount /\ Instances(gpu) \in Nat
    BY <1>3, InstancesType DEF SectionAt
  <2> QED
    BY <1>1, <1>3, <2>1
<1>5. \A g \in present : g \in Nat
  BY GpuCountAssumption DEF HostInv, Gpu
<1>6. CASE migDevCount < 1
  <2>1. pc' = "failed" /\ gpu' = gpu /\ layout[gpu] = 0
    BY <1>1, <1>3, <1>4, <1>6
  <2>2. ScanInv'
    BY <1>1, <1>3, <2>1, HostSame DEF ScanInv
  <2>3. CountInv'
    BY <1>1, <2>1, HostSame DEF CountInv
  <2> QED
    BY <1>2, <2>2, <2>3
<1>7. CASE ~(migDevCount < 1)
  <2>1. pc' = "gpu" /\ gpu' = gpu + 1 /\ layout[gpu] # 0
    BY <1>1, <1>3, <1>4, <1>7
  <2>2. gpu' \in 0 .. GpuCount /\ \A g \in present : g < gpu' => layout[g] # 0
    BY <1>1, <1>3, <1>5, <2>1, GpuCountAssumption DEF ScanInv, Gpu
  <2>3. ScanInv'
    BY <1>1, <1>3, <2>1, <2>2, HostSame DEF ScanInv
  <2>4. CountInv'
    <3>1. Reached = layout[gpu] /\ Reached' = Whole
      BY <1>1, <1>4, <2>1 DEF Reached
    <3>2. Before(gpu + 1, Whole) = Before(gpu, layout[gpu])
      BY <1>3, BeforeSame
    <3> QED
      BY <1>1, <2>1, <3>1, <3>2, CountSame
  <2> QED
    BY <1>2, <2>3, <2>4
<1> QED
  BY <1>6, <1>7

LEMMA ReturnStep == ASSUME DiscoveryInv, Return PROVE DiscoveryInv'
<1> USE DEF DiscoveryInv
<1>1. /\ UNCHANGED <<inputVars, gpu, idmig, id, found, migDevices, migDevCount, migInfoOutput>>
      /\ pc = "gpu" /\ gpu = GpuCount /\ pc' = "done"
  BY DEF Return
<1>2. HostInv'
  BY <1>1, HostStep DEF HostInv
<1>3. ScanInv'
  BY <1>1, HostSame DEF ScanInv
<1>4. CountInv'
  BY <1>1, CountSame DEF Reached
<1> QED
  BY <1>2, <1>3, <1>4

LEMMA DiscoveryInvInit == DiscoveryInit => DiscoveryInv
<1> SUFFICES ASSUME DiscoveryInit PROVE DiscoveryInv
  OBVIOUS
<1>1. PICK host \in HostStates : layout = host[1] /\ present = host[2]
  BY DEF DiscoveryInit
<1>2. layout \in Layouts(MaxInstances) /\ present \in SUBSET Gpu
  BY <1>1, MigDiscoveryAssumption
<1>3. pc = "idle" /\ idmig = 0 /\ migDevices = <<>> /\ migInfoOutput = <<>>
  BY DEF DiscoveryInit
<1> QED
  BY <1>2, <1>3 DEF DiscoveryInv, HostInv, ScanInv, CountInv

LEMMA DiscoveryInvStep == DiscoveryInv /\ [DiscoveryNext]_discoveryVars => DiscoveryInv'
<1> SUFFICES ASSUME DiscoveryInv, [DiscoveryNext]_discoveryVars PROVE DiscoveryInv'
  OBVIOUS
<1>1. CASE UNCHANGED discoveryVars
  <2>1. UNCHANGED <<inputVars, pc, gpu, idmig, id, found, migDevices, migDevCount, migInfoOutput>>
    BY <1>1 DEF discoveryVars, inputVars
  <2>2. Seen' = Seen
    BY <2>1, HostSame DEF Seen
  <2> QED
    BY <2>1, <2>2, HostSame DEF DiscoveryInv, HostInv, ScanInv, CountInv, LineCount
<1>2. CASE DiscoveryNext
  BY <1>2, GetDevicesStep, SkipGpuStep, AddWholeGpuStep, OpenMigInfoStep, ScanLineStep,
     AddInstanceStep, LeaveSectionStep, EndScanStep, ReturnStep DEF DiscoveryNext, Loops
<1> QED
  BY <1>1, <1>2

-----------------------------------------------------------------------------
(* The schedule.                                                            *)

Below(devices, d) == {e \in devices : e[1] < d[1]}

LEMMA RankIsInjective ==
  ASSUME NEW A, Numbered(A), NEW d \in A, NEW e \in A,
         Cardinality(Below(A, d)) = Cardinality(Below(A, e))
  PROVE  d = e
<1> SUFFICES ASSUME d # e PROVE FALSE
  OBVIOUS
<1>1. ASSUME NEW x \in A, NEW y \in A, x[1] < y[1],
             Cardinality(Below(A, x)) = Cardinality(Below(A, y))
      PROVE  FALSE
  <2>1. IsFiniteSet(Below(A, y))
    BY FS_Subset DEF Numbered, Below
  <2>2. Below(A, x) \in SUBSET Below(A, y)
    BY <1>1 DEF Numbered, Below
  <2>3. Below(A, x) = Below(A, y)
    BY <1>1, <2>1, <2>2, FS_Subset
  <2> QED
    BY <1>1, <2>3 DEF Numbered, Below
<1>2. d[1] < e[1] \/ e[1] < d[1]
  BY DEF Numbered
<1> QED
  BY <1>1, <1>2

LEMMA RankIsOnto ==
  ASSUME NEW A, Numbered(A), NEW k \in 0 .. Cardinality(A) - 1
  PROVE  \E d \in A : Cardinality(Below(A, d)) = k
<1> DEFINE T == 0 .. Cardinality(A) - 1
           rank == [d \in A |-> Cardinality(Below(A, d))]
<1>1. IsFiniteSet(A) /\ Cardinality(A) \in Nat
  BY FS_CardinalityType DEF Numbered
<1>2. \A d \in A : Cardinality(Below(A, d)) \in T
  <2> TAKE d \in A
  <2>1. Below(A, d) \in SUBSET (A \ {d})
    BY DEF Below, Numbered
  <2>2. IsFiniteSet(A \ {d}) /\ Cardinality(A \ {d}) = Cardinality(A) - 1
    BY <1>1, FS_RemoveElement
  <2>3. Cardinality(Below(A, d)) \in Nat /\ Cardinality(Below(A, d)) <= Cardinality(A) - 1
    BY <2>1, <2>2, FS_Subset, FS_CardinalityType
  <2> QED
    BY <1>1, <2>3
<1>3. rank \in [A -> T]
  BY <1>2
<1>4. \A d, e \in A : rank[d] = rank[e] => d = e
  BY RankIsInjective
<1>5. IsFiniteSet(T) /\ Cardinality(T) = Cardinality(A)
  BY <1>1, FS_Interval
<1>6. rank \in Injection(A, T)
  BY <1>3, <1>4 DEF Injection, IsInjective
<1>7. rank \in Surjection(A, T)
  BY <1>5, <1>6, FS_Injection
<1> QED
  BY <1>7 DEF Surjection

\* basicSchedule returns count devices, the ones of the lowest ids.
LEMMA BasicScheduleCount ==
  ASSUME NEW A, Numbered(A), NEW n \in Nat, n <= Cardinality(A)
  PROVE  BasicSchedule(A, n) \subseteq A /\ Cardinality(BasicSchedule(A, n)) = n
<1>1. CASE Cardinality(A) = n
  BY <1>1 DEF BasicSchedule
<1>2. CASE Cardinality(A) # n
  <2> DEFINE S == {d \in A : Cardinality(Below(A, d)) < n}
             T == 0 .. n - 1
             rank == [d \in S |-> Cardinality(Below(A, d))]
  <2>1. BasicSchedule(A, n) = S
    BY <1>2 DEF BasicSchedule, Below
  <2>2. IsFiniteSet(S) /\ IsFiniteSet(A)
    BY FS_Subset DEF Numbered
  <2>3. \A d \in S : Cardinality(Below(A, d)) \in T
    BY <2>2, FS_Subset, FS_CardinalityType DEF Below
  <2>4. rank \in [S -> T]
    BY <2>3
  <2>5. \A d, e \in S : rank[d] = rank[e] => d = e
    BY RankIsInjective
  <2>6. \A k \in T : \E d \in S : rank[d] = k
    <3> TAKE k \in T
    <3>1. k \in 0 .. Cardinality(A) - 1 /\ k < n
      BY <2>2, FS_CardinalityType
    <3>2. PICK d \in A : Cardinality(Below(A, d)) = k
      BY <3>1, RankIsOnto
    <3> QED
      BY <3>1, <3>2
  <2>7. rank \in Bijection(S, T)
    BY <2>4, <2>5, <2>6 DEF Bijection, Injection, Surjection, IsInjective
  <2>8. Cardinality(T) = Cardinality(S)
    BY <2>2, <2>7, FS_Bijection DEF ExistsBijection
  <2>9. Cardinality(T) = n
    BY FS_Interval
  <2> QED
    BY <2>1, <2>8, <2>9
<1> QED
  BY <1>1, <1>2

-----------------------------------------------------------------------------
(* The discovery.                                                           *)

LEMMA FoundInvStep == FoundInv /\ [DiscoveryNext]_discoveryVars => FoundInv'
<1> SUFFICES ASSUME FoundInv, [DiscoveryNext]_discoveryVars PROVE FoundInv'
  OBVIOUS
<1> USE DEF FoundInv, Numbered
<1>1. CASE UNCHANGED <<id, found>>
  BY <1>1
<1>2. CASE GetDevices
  BY <1>2, FS_EmptySet DEF GetDevices
<1>3. ASSUME found' = found \cup {<<id, gpu>>}, id' = id + 1 PROVE FoundInv'
  <2>1. IsFiniteSet(found')
    BY <1>3, FS_AddElement
  <2>2. \A d \in found' : d[1] \in Nat /\ d[1] < id'
    BY <1>3
  <2>3. \A d, e \in found' : d[1] = e[1] => d = e
    BY <1>3
  <2> QED
    BY <1>3, <2>1, <2>2, <2>3
<1>4. CASE AddWholeGpu \/ AddInstance
  BY <1>3, <1>4 DEF AddWholeGpu, AddInstance
<1> QED
  BY <1>1, <1>2, <1>4 DEF DiscoveryNext, Loops, discoveryVars, SkipGpu, OpenMigInfo, ScanLine,
                          LeaveSection, EndScan, Return

-----------------------------------------------------------------------------
(* The plugin.                                                              *)

LEMMA IInvInit == Init => IInv
<1> SUFFICES ASSUME Init PROVE IInv
  OBVIOUS
<1>1. FoundInv
  BY FS_EmptySet DEF Init, DiscoveryInit, FoundInv, Numbered
<1>2. AssignedInv
  BY DEF Init, AssignedInv, Holding
<1>3. SettingType /\ SettingHasOwner /\ MultiGpuHasConsent
  BY DEF Init, SettingType, SettingHasOwner, MultiGpuHasConsent
<1> QED
  BY <1>1, <1>2, <1>3 DEF IInv

LEMMA DiscoverInv == IInv /\ Discover => IInv'
<1> SUFFICES ASSUME IInv, Discover PROVE IInv'
  OBVIOUS
<1>1. FoundInv'
  BY FoundInvStep DEF IInv, Discover
<1>2. AssignedInv'
  BY DEF IInv, Discover, AssignedInv, Holding
<1>3. (SettingType /\ SettingHasOwner /\ MultiGpuHasConsent)'
  BY DEF IInv, Discover, SettingType, SettingHasOwner, MultiGpuHasConsent
<1> QED
  BY <1>1, <1>2, <1>3 DEF IInv

LEMMA AllocateDevicesInv == ASSUME IInv, NEW c \in Container, AllocateDevices(c) PROVE IInv'
<1> DEFINE S == BasicSchedule(Available, CountOf[c])
<1> USE DEF IInv
<1>1. /\ phase[c] = "requested" /\ phase' = [phase EXCEPT ![c] = "allocated"]
      /\ throwEnv' = IF EnvOf[c] # "unset" THEN EnvOf[c] ELSE throwEnv
      /\ assigned' = [assigned EXCEPT ![c] = S]
      /\ UNCHANGED <<id, found>>
  BY DEF AllocateDevices, discoveryVars
<1>2. Numbered(Available)
  BY FS_Subset DEF FoundInv, Numbered, Available
<1>3. S \subseteq Available /\ Cardinality(S) = CountOf[c]
  BY <1>2, BasicScheduleCount, MigPluginAssumption DEF AllocateDevices
<1> HIDE DEF S
<1>4. FoundInv'
  BY <1>1 DEF FoundInv, Numbered
<1>5. \A d \in Container : S \cap assigned[d] = {}
  BY <1>3 DEF Available
<1>6. AssignedInv'
  BY <1>1, <1>3, <1>5 DEF AssignedInv, Holding, Available
<1>7. SettingType' /\ SettingHasOwner'
  <2>1. CASE EnvOf[c] = "unset"
    BY <1>1, <2>1 DEF SettingType, SettingHasOwner, AssignedInv
  <2>2. CASE EnvOf[c] # "unset"
    <3>1. throwEnv' = EnvOf[c] /\ phase'[c] # "requested"
      BY <1>1, <2>2 DEF AssignedInv
    <3> QED
      BY <3>1, MigPluginAssumption DEF SettingType, SettingHasOwner
  <2> QED
    BY <2>1, <2>2
<1>8. MultiGpuHasConsent'
  BY <1>1 DEF MultiGpuHasConsent, AssignedInv
<1> QED
  BY <1>4, <1>6, <1>7, <1>8

\* The two outcomes of onDevicesAllocated: the check is about what was asked for.
LEMMA OnDevicesAllocatedInv ==
  ASSUME IInv, NEW c \in Container, OnDevicesAllocatedThrows(c) \/ OnDevicesAllocated(c)
  PROVE  IInv'
<1> USE DEF IInv
<1>1. /\ phase[c] = "allocated"
      /\ phase' = [phase EXCEPT ![c] = IF Cardinality(assigned[c]) > 1 /\ ShouldThrowOnMultipleGPUs
                                       THEN "refused" ELSE "running"]
      /\ UNCHANGED <<throwEnv, assigned, id, found>>
  BY DEF OnDevicesAllocatedThrows, OnDevicesAllocated, discoveryVars
<1>2. Cardinality(assigned[c]) = CountOf[c]
  BY <1>1 DEF AssignedInv, Holding
<1>3. FoundInv'
  BY <1>1 DEF FoundInv, Numbered
<1>4. AssignedInv'
  BY <1>1 DEF AssignedInv, Holding
<1>5. SettingType' /\ SettingHasOwner'
  BY <1>1 DEF SettingType, SettingHasOwner, AssignedInv
<1>6. ShouldThrowOnMultipleGPUs =>
        ConfThrows \/ \E d \in Container : phase[d] # "requested" /\ EnvOf[d] = "true"
  BY DEF ShouldThrowOnMultipleGPUs, SettingHasOwner
<1>7. ~ShouldThrowOnMultipleGPUs =>
        ~ConfThrows \/ \E d \in Container : phase[d] # "requested" /\ EnvOf[d] = "false"
  BY DEF ShouldThrowOnMultipleGPUs, SettingHasOwner, SettingType
<1>8. \A d \in Container : phase[d] # "requested" <=> phase'[d] # "requested"
  BY <1>1 DEF AssignedInv
<1>9. MultiGpuHasConsent'
  <2> SUFFICES ASSUME NEW d \in Container
               PROVE  /\ phase'[d] = "running" /\ CountOf[d] > 1 =>
                           ~ConfThrows \/ \E e \in Container : phase'[e] # "requested" /\ EnvOf[e] = "false"
                      /\ phase'[d] \in {"refused", "rejected"} =>
                           /\ CountOf[d] > 1
                           /\ ConfThrows \/ \E e \in Container : phase'[e] # "requested" /\ EnvOf[e] = "true"
    BY DEF MultiGpuHasConsent
  <2>1. CASE d = c
    <3>1. CASE CountOf[c] > 1 /\ ShouldThrowOnMultipleGPUs
      <4>1. phase'[d] = "refused"
        BY <1>1, <1>2, <2>1, <3>1 DEF AssignedInv
      <4> QED
        BY <1>6, <1>8, <2>1, <3>1, <4>1
    <3>2. CASE ~(CountOf[c] > 1 /\ ShouldThrowOnMultipleGPUs)
      <4>1. phase'[d] = "running"
        BY <1>1, <1>2, <2>1, <3>2 DEF AssignedInv
      <4> QED
        BY <1>7, <1>8, <2>1, <3>2, <4>1
    <3> QED
      BY <3>1, <3>2
  <2>2. CASE d # c
    <3>1. phase'[d] = phase[d]
      BY <1>1, <2>2 DEF AssignedInv
    <3> QED
      BY <1>8, <3>1 DEF MultiGpuHasConsent
  <2> QED
    BY <2>1, <2>2
<1> QED
  BY <1>3, <1>4, <1>5, <1>9

LEMMA OnDevicesReleasedInv == ASSUME IInv, NEW c \in Container, OnDevicesReleased(c) PROVE IInv'
<1> USE DEF IInv
<1>1. /\ phase[c] \in {"running", "refused"}
      /\ phase' = [phase EXCEPT ![c] = IF phase[c] = "running" THEN "ended" ELSE "rejected"]
      /\ assigned' = [assigned EXCEPT ![c] = {}]
      /\ UNCHANGED <<throwEnv, id, found>>
  BY DEF OnDevicesReleased, discoveryVars
<1>2. FoundInv'
  BY <1>1 DEF FoundInv, Numbered
<1>3. AssignedInv'
  BY <1>1 DEF AssignedInv, Holding
<1>4. SettingType' /\ SettingHasOwner'
  BY <1>1 DEF SettingType, SettingHasOwner, AssignedInv
<1>5. MultiGpuHasConsent'
  BY <1>1 DEF MultiGpuHasConsent, AssignedInv
<1> QED
  BY <1>2, <1>3, <1>4, <1>5

LEMMA IInvStep == IInv /\ [Next]_vars => IInv'
<1> SUFFICES ASSUME IInv, [Next]_vars PROVE IInv'
  OBVIOUS
<1>1. CASE UNCHANGED vars
  BY <1>1 DEF vars, discoveryVars, IInv, FoundInv, Numbered, AssignedInv, Holding, SettingType,
              SettingHasOwner, MultiGpuHasConsent
<1>2. CASE Discover
  BY <1>2, DiscoverInv
<1>3. CASE \E c \in Container : AllocateDevices(c)
  BY <1>3, AllocateDevicesInv
<1>4. CASE \E c \in Container : OnDevicesAllocatedThrows(c) \/ OnDevicesAllocated(c)
  BY <1>4, OnDevicesAllocatedInv
<1>5. CASE \E c \in Container : OnDevicesReleased(c)
  BY <1>5, OnDevicesReleasedInv
<1> QED
  BY <1>1, <1>2, <1>3, <1>4, <1>5 DEF Next

LEMMA IInvHolds == Spec => []IInv
BY IInvInit, IInvStep, PTL DEF Spec

\* allocateDevices gives every container as many devices as it asked for, none of them
\* to two containers, until onDevicesReleased.
THEOREM AllocatesAsAsked == Spec => []AssignedInv
BY IInvHolds, PTL DEF IInv

\* shouldThrowOnMultipleGPUs decides by the configuration or by the setting of a
\* container that came to this host before, never by anything else; and only a container
\* that asked for several devices is refused.
THEOREM ConsentHasSource == Spec => []MultiGpuHasConsent
BY IInvHolds, PTL DEF IInv

-----------------------------------------------------------------------------
(* What the containers see of what was found.                               *)

LEMMA DiscoveryInvHolds == Spec => []DiscoveryInv
<1>1. Init => DiscoveryInv
  BY DiscoveryInvInit DEF Init
<1>2. [Next]_vars => [DiscoveryNext]_discoveryVars
  BY DEF Next, vars, Discover, AllocateDevices, OnDevicesAllocatedThrows, OnDevicesAllocated,
         OnDevicesReleased
<1>3. DiscoveryInv /\ [Next]_vars => DiscoveryInv'
  BY <1>2, DiscoveryInvStep
<1> QED
  BY <1>1, <1>3, PTL DEF Spec

\* What getDevices returns: a device for every slice, and migDevices tells them apart.
LEMMA WhatIsFound ==
  ASSUME DiscoveryInv, pc = "done"
  PROVE  /\ found = {<<Rank(s), s[1]>> : s \in HandedOut}
         /\ \A s \in HandedOut : NameOf(<<Rank(s), s[1]>>) = s /\ SliceOf(<<Rank(s), s[1]>>) = s
<1> USE DEF DiscoveryInv
<1>1. Seen = HandedOut
  BY SeenIs, BeforeSame DEF Reached, ScanInv
<1>2. ASSUME NEW s \in HandedOut
      PROVE  NameOf(<<Rank(s), s[1]>>) = s /\ SliceOf(<<Rank(s), s[1]>>) = s
  <2>1. s = <<s[1], s[2]>>
    BY SliceType
  <2>2. IF Rank(s) \in DOMAIN migDevices THEN migDevices[Rank(s)] = s[2] ELSE s[2] = Whole
    BY <1>1 DEF CountInv
  <2> QED
    BY <2>1, <2>2 DEF NameOf, SliceOf
<1> QED
  BY <1>1, <1>2 DEF CountInv

\* getDevices finds what the hardware has: on a host with any number of GPUs, each split
\* in any number of instances or not at all, every slice becomes one device, named apart,
\* whichever call of getDevices it is; and it throws exactly when a GPU with MIG enabled
\* has no instance.
THEOREM FindsTheHardware == Spec => []DiscoveryMatchesHardware
<1>1. DiscoveryInv => DiscoveryMatchesHardware
  <2> SUFFICES ASSUME DiscoveryInv PROVE DiscoveryMatchesHardware
    OBVIOUS
  <2>1. ASSUME pc = "done"
        PROVE  /\ found = {<<RankIn(HandedOut, s), s[1]>> : s \in HandedOut}
               /\ {<<d[1], SliceOf(d)>> : d \in found} = {<<RankIn(HandedOut, s), s>> : s \in HandedOut}
    <3>1. \A s : Rank(s) = RankIn(HandedOut, s)
      BY DEF Rank
    <3>2. found = {<<Rank(s), s[1]>> : s \in HandedOut}
      BY <2>1, WhatIsFound
    <3>3. \A s \in HandedOut : SliceOf(<<Rank(s), s[1]>>) = s
      BY <2>1, WhatIsFound
    <3>4. ASSUME NEW d \in found
          PROVE  \E s \in HandedOut : <<d[1], SliceOf(d)>> = <<Rank(s), s>>
      <4>1. PICK s \in HandedOut : d = <<Rank(s), s[1]>>
        BY <3>2
      <4> QED
        BY <3>3, <4>1
    <3>5. ASSUME NEW s \in HandedOut
          PROVE  \E d \in found : <<d[1], SliceOf(d)>> = <<Rank(s), s>>
      <4> DEFINE d == <<Rank(s), s[1]>>
      <4>1. d \in found /\ SliceOf(d) = s /\ d[1] = Rank(s)
        BY <3>2, <3>3
      <4> QED
        BY <4>1
    <3>6. {<<d[1], SliceOf(d)>> : d \in found} = {<<Rank(s), s>> : s \in HandedOut}
      BY <3>4, <3>5
    <3> QED
      BY <3>1, <3>2, <3>6
  <2>2. pc = "done" => \A g \in present : layout[g] # 0
    BY GpuCountAssumption DEF DiscoveryInv, ScanInv, HostInv, Gpu
  <2>3. pc = "failed" => \E g \in present : layout[g] = 0
    BY DEF DiscoveryInv, ScanInv
  <2> QED
    BY <2>1, <2>2, <2>3 DEF DiscoveryMatchesHardware
<1> QED
  BY <1>1, DiscoveryInvHolds, PTL

\* Containers come once the devices are found, and the value of NVIDIA_VISIBLE_DEVICES
\* that onDevicesAllocated returned names the devices a container has while it runs.
SeenInv ==
  /\ \A c \in Container : phase[c] # "requested" => pc = "done"
  /\ visible \in [Container -> SUBSET HandedOut]
  /\ \A c \in Container :
       phase[c] = "running" =>
         visible[c] = IF c \in Docker THEN {NameOf(d) : d \in assigned[c]} ELSE {}

LEMMA NamesAreSlices ==
  ASSUME DiscoveryInv, pc = "done"
  PROVE  /\ \A d \in found : NameOf(d) \in HandedOut
         /\ \A d, e \in found : NameOf(d) = NameOf(e) => d = e
<1>1. \A d \in found : \E s \in HandedOut : d = <<Rank(s), s[1]>> /\ NameOf(d) = s
  BY WhatIsFound
<1> QED
  BY <1>1

LEMMA SeenInvStep ==
  ASSUME DiscoveryInv, AssignedInv, SeenInv, [Next]_vars
  PROVE  SeenInv'
<1> USE DEF SeenInv
<1>1. ASSUME UNCHANGED discoveryVars
      PROVE  HandedOut' = HandedOut /\ pc' = pc /\ \A d : NameOf(d)' = NameOf(d)
  BY <1>1 DEF discoveryVars, HandedOut, NameOf
<1>2. CASE UNCHANGED vars
  <2>1. UNCHANGED <<phase, visible, assigned, discoveryVars>>
    BY <1>2 DEF vars
  <2> QED
    BY <1>1, <2>1
<1>3. CASE Discover
  <2>1. UNCHANGED <<phase, visible>> /\ \A c \in Container : phase[c] = "requested"
    BY <1>3 DEF Discover
  <2>2. UNCHANGED inputVars
    BY <1>3 DEF Discover, DiscoveryNext, Loops, GetDevices, SkipGpu, AddWholeGpu, OpenMigInfo,
                ScanLine, AddInstance, LeaveSection, EndScan, Return
  <2>3. HandedOut' = HandedOut
    BY <2>2, HostSame
  <2> QED
    BY <2>1, <2>3
<1>4. ASSUME NEW c \in Container, AllocateDevices(c) PROVE SeenInv'
  <2>1. /\ pc = "done" /\ phase[c] = "requested" /\ UNCHANGED discoveryVars
        /\ phase' = [phase EXCEPT ![c] = "allocated"] /\ visible' = visible
        /\ \A d \in Container \ {c} : assigned'[d] = assigned[d]
    BY <1>4 DEF AllocateDevices, AssignedInv
  <2> QED
    BY <1>1, <2>1 DEF AssignedInv
<1>5. ASSUME NEW c \in Container, OnDevicesAllocatedThrows(c) PROVE SeenInv'
  <2>1. /\ phase[c] = "allocated" /\ UNCHANGED discoveryVars
        /\ phase' = [phase EXCEPT ![c] = "refused"] /\ UNCHANGED <<visible, assigned>>
    BY <1>5 DEF OnDevicesAllocatedThrows
  <2> QED
    BY <1>1, <2>1 DEF AssignedInv
<1>6. ASSUME NEW c \in Container, OnDevicesAllocated(c) PROVE SeenInv'
  <2> DEFINE names == IF c \in Docker THEN {NameOf(d) : d \in assigned[c]} ELSE {}
  <2>1. /\ phase[c] = "allocated" /\ UNCHANGED <<assigned, discoveryVars>>
        /\ phase' = [phase EXCEPT ![c] = "running"]
        /\ visible' = [visible EXCEPT ![c] = names]
    BY <1>6 DEF OnDevicesAllocated
  <2>2. pc = "done" /\ assigned[c] \subseteq found
    BY <2>1 DEF AssignedInv
  <2>3. names \in SUBSET HandedOut
    BY <2>2, NamesAreSlices
  <2>4. names' = names
    BY <1>1, <2>1
  <2>5. \A d : NameOf(d)' = NameOf(d)
    BY <1>1, <2>1
  <2>6. visible' \in [Container -> SUBSET HandedOut'] /\ pc' = "done"
    BY <1>1, <2>1, <2>2, <2>3
  <2>7. ASSUME NEW d \in Container, phase'[d] = "running"
        PROVE  visible'[d] = IF d \in Docker THEN {NameOf(e)' : e \in assigned'[d]} ELSE {}
    <3>1. CASE d = c
      BY <2>1, <2>5, <3>1
    <3>2. CASE d # c
      <4>1. phase[d] = "running" /\ visible'[d] = visible[d] /\ assigned'[d] = assigned[d]
        BY <2>1, <2>7, <3>2 DEF AssignedInv
      <4> QED
        BY <2>5, <4>1
    <3> QED
      BY <3>1, <3>2
  <2> QED
    BY <2>6, <2>7
<1>7. ASSUME NEW c \in Container, OnDevicesReleased(c) PROVE SeenInv'
  <2>1. /\ phase[c] \in {"running", "refused"} /\ UNCHANGED discoveryVars
        /\ phase' = [phase EXCEPT ![c] = IF phase[c] = "running" THEN "ended" ELSE "rejected"]
        /\ visible' = visible /\ assigned' = [assigned EXCEPT ![c] = {}]
    BY <1>7 DEF OnDevicesReleased
  <2>2. phase'[c] # "running" /\ pc = "done"
    BY <2>1 DEF AssignedInv
  <2>3. \A d \in Container \ {c} : phase'[d] = phase[d] /\ assigned'[d] = assigned[d]
    BY <2>1 DEF AssignedInv
  <2> QED
    BY <1>1, <2>1, <2>2, <2>3
<1> QED
  BY <1>2, <1>3, <1>4, <1>5, <1>6, <1>7 DEF Next

LEMMA SeenInvHolds == Spec => [](DiscoveryInv /\ IInv /\ SeenInv)
<1>1. Init => SeenInv
  BY DEF Init, SeenInv
<1>2. DiscoveryInv /\ IInv /\ SeenInv /\ [Next]_vars => SeenInv'
  BY SeenInvStep DEF IInv
<1> QED
  BY <1>1, <1>2, DiscoveryInvHolds, IInvHolds, PTL DEF Spec

\* The variables of the plugin and the node manager have their types; containers have
\* devices that were found, and see slices of this host that have a device file.
THEOREM TypesHold == Spec => []TypeOK
<1>1. DiscoveryInv /\ IInv /\ SeenInv => TypeOK
  BY DEF IInv, AssignedInv, SettingType, SeenInv, TypeOK
<1> QED
  BY <1>1, SeenInvHolds, PTL

\* No slice is lost between the node manager's devices and NVIDIA_VISIBLE_DEVICES: a
\* docker container sees as many as it asked allocateDevices for.
THEOREM SeesAsManyAsAskedFor == Spec => []SeesWhatItAskedFor
<1>1. DiscoveryInv /\ IInv /\ SeenInv => SeesWhatItAskedFor
  <2> SUFFICES ASSUME DiscoveryInv, IInv, SeenInv,
                      NEW c \in Container, phase[c] = "running", c \in Docker
               PROVE  Cardinality(visible[c]) = CountOf[c]
    BY DEF SeesWhatItAskedFor
  <2>1. /\ pc = "done" /\ visible[c] = {NameOf(d) : d \in assigned[c]}
        /\ Cardinality(assigned[c]) = CountOf[c] /\ assigned[c] \subseteq found
        /\ IsFiniteSet(found)
    BY DEF SeenInv, IInv, AssignedInv, Holding, FoundInv, Numbered
  <2> DEFINE A == assigned[c]
             T == visible[c]
             f == [d \in A |-> NameOf(d)]
  <2>2. IsFiniteSet(A)
    BY <2>1, FS_Subset
  <2>3. f \in [A -> T] /\ \A t \in T : \E d \in A : f[d] = t
    BY <2>1
  <2>4. \A d, e \in A : f[d] = f[e] => d = e
    BY <2>1, NamesAreSlices
  <2> HIDE DEF A, T, f
  <2>5. f \in Bijection(A, T)
    BY <2>3, <2>4 DEF Bijection, Injection, Surjection, IsInjective
  <2>6. Cardinality(T) = Cardinality(A)
    BY <2>2, <2>5, FS_Bijection DEF ExistsBijection
  <2> QED
    BY <2>1, <2>6 DEF A, T
<1> QED
  BY <1>1, SeenInvHolds, PTL

-----------------------------------------------------------------------------
(* The refinement.                                                          *)

LEMMA SameOverlap == ASSUME NEW s, NEW t PROVE Assignment!Overlap(s, t) <=> Overlap(s, t)
BY DEF Assignment!Overlap, Overlap, Assignment!Whole, Whole

\* Slices of one host are the same or have nothing in common.
LEMMA HandedOutApart ==
  ASSUME HostInv, NEW s \in HandedOut, NEW t \in HandedOut, Overlap(s, t)
  PROVE  s = t
<1>1. s = <<s[1], s[2]>> /\ t = <<t[1], t[2]>>
  BY SliceType
<1>2. s[1] = t[1] /\ (s[2] = t[2] \/ s[2] = Whole \/ t[2] = Whole)
  BY DEF Overlap
<1>3. layout[s[1]] = NotSplit => s[2] = Whole /\ t[2] = Whole
  BY <1>2, SliceIs
<1>4. layout[s[1]] # NotSplit => s[2] # Whole /\ t[2] # Whole
  <2>1. layout[s[1]] # NotSplit => layout[s[1]] \in Nat
    BY SliceType, MigDiscoveryAssumption
  <2> QED
    BY <1>2, <2>1, SliceIs DEF Whole
<1> QED
  BY <1>1, <1>2, <1>3, <1>4

\* A launch in docker grants, the end of a running docker container drops, and nothing
\* else matters.
LEMMA AssignmentStep ==
  ASSUME DiscoveryInv, IInv, SeenInv, [Next]_vars
  PROVE  [Assignment!Next]_Holds
<1> USE DEF IInv
<1>1. ASSUME \A c \in Container :
               /\ phase'[c] = "running" <=> phase[c] = "running"
               /\ phase[c] = "running" => visible'[c] = visible[c]
      PROVE  UNCHANGED Holds
  BY <1>1 DEF Holds
<1>2. CASE UNCHANGED vars \/ Discover
  BY <1>1, <1>2 DEF vars, Discover
<1>3. ASSUME NEW c \in Container, AllocateDevices(c) PROVE UNCHANGED Holds
  BY <1>1, <1>3 DEF AllocateDevices, AssignedInv
<1>4. ASSUME NEW c \in Container, OnDevicesAllocatedThrows(c) PROVE UNCHANGED Holds
  BY <1>1, <1>4 DEF OnDevicesAllocatedThrows, AssignedInv
<1>5. ASSUME NEW c \in Container, OnDevicesAllocated(c) PROVE [Assignment!Next]_Holds
  <2> DEFINE names == IF c \in Docker THEN {NameOf(d) : d \in assigned[c]} ELSE {}
  <2>1. /\ phase[c] = "allocated" /\ phase' = [phase EXCEPT ![c] = "running"]
        /\ visible' = [visible EXCEPT ![c] = names]
    BY <1>5 DEF OnDevicesAllocated
  <2>2. Holds[c] = {} /\ Holds'[c] = names /\ Holds' = [Holds EXCEPT ![c] = Holds'[c]]
    BY <2>1 DEF Holds, AssignedInv, SeenInv
  <2>3. CASE c \notin Docker
    <3>1. Holds' = Holds
      BY <2>2, <2>3 DEF Holds
    <3> QED
      BY <3>1
  <2>4. CASE c \in Docker
    <3>1. pc = "done" /\ assigned[c] \subseteq found /\ Cardinality(assigned[c]) = CountOf[c]
      BY <2>1 DEF SeenInv, AssignedInv, Holding
    <3>2. Holds'[c] # {}
      <4>1. assigned[c] # {}
        BY <3>1, FS_EmptySet, MigPluginAssumption
      <4> QED
        BY <2>2, <2>4, <4>1
    <3>3. \A d \in Container \ {c} : Assignment!Apart(Holds'[c], Holds[d])
      <4> SUFFICES ASSUME NEW d \in Container \ {c}, NEW s \in Holds'[c], NEW t \in Holds[d],
                          Overlap(s, t)
                   PROVE  FALSE
        BY SameOverlap DEF Assignment!Apart
      <4>1. PICK x \in assigned[c] : s = NameOf(x)
        BY <2>2, <2>4
      <4>2. phase[d] = "running" /\ t \in visible[d]
        BY DEF Holds
      <4>3. PICK y \in assigned[d] : t = NameOf(y)
        BY <4>2 DEF SeenInv
      <4>4. x \in found /\ y \in found /\ x # y
        BY <3>1, <4>1, <4>3 DEF AssignedInv
      <4>5. s \in HandedOut /\ t \in HandedOut
        BY <3>1, <4>1, <4>3, <4>4, NamesAreSlices
      <4>6. s = t
        BY <4>5, HandedOutApart DEF DiscoveryInv
      <4> QED
        BY <3>1, <4>1, <4>3, <4>4, <4>6, NamesAreSlices
    <3> QED
      BY <2>2, <3>2, <3>3 DEF Assignment!Next, Assignment!Grant
  <2> QED
    BY <2>3, <2>4
<1>6. ASSUME NEW c \in Container, OnDevicesReleased(c) PROVE [Assignment!Next]_Holds
  <2>1. /\ phase' = [phase EXCEPT ![c] = IF phase[c] = "running" THEN "ended" ELSE "rejected"]
        /\ visible' = visible
    BY <1>6 DEF OnDevicesReleased
  <2>2. Holds' = [Holds EXCEPT ![c] = {}]
    BY <2>1 DEF Holds, AssignedInv
  <2>3. CASE Holds[c] = {}
    <3>1. Holds' = Holds
      BY <2>2, <2>3 DEF Holds
    <3> QED
      BY <3>1
  <2>4. CASE Holds[c] # {}
    BY <2>2, <2>4 DEF Assignment!Next, Assignment!Drop
  <2> QED
    BY <2>3, <2>4
<1> QED
  BY <1>2, <1>3, <1>4, <1>5, <1>6 DEF Next

\* The plugin implements DeviceAssignment: however the calls for different containers
\* interleave, and although some are refused, what a running docker container sees is its
\* own until it ends.
THEOREM ImplementsAssignment == Spec => AssignmentSpec
<1>1. Init => Assignment!Init
  BY DEF Init, Assignment!Init, Holds
<1>2. Spec => [][Assignment!Next]_Holds
  BY AssignmentStep, SeenInvHolds, PTL DEF Spec
<1> QED
  BY <1>1, <1>2, PTL DEF Spec, AssignmentSpec, Assignment!Spec
=============================================================================
