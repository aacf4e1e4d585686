------------------------------ MODULE MigDiscovery ------------------------------
(***************************************************************************)
(* NvidiaGPUMigPluginForRuntimeV2.getDevices, loop by loop: the lines of    *)
(* nvidia-smi --query-gpu are read one GPU at a time, and for a GPU with    *)
(* MIG enabled the lines of nvidia-smi -L are scanned for its section.      *)
(* The node manager calls it more than once on the same plugin object,      *)
(* whose migDevices and migInfoOutput outlive a call.  MigPlugin has what    *)
(* happens to the devices after that.                                       *)
(***************************************************************************)
EXTENDS MigDevices, SequencesExt

CONSTANTS
  MaxInstances,   \* bound: instances of one GPU
  HostStates,     \* pairs <<layout, present>> a node manager may find
  Unmatched,      \* instances, <<GPU, number>>, whose line of nvidia-smi -L
                  \* begins with MIG and is not of the form the pattern asks for
  MaxCalls        \* bound: calls of getDevices

ASSUME MigDiscoveryAssumption ==
  /\ MaxInstances \in Nat /\ MaxCalls \in Nat
  /\ HostStates \subseteq Layouts(MaxInstances) \X SUBSET Gpu
  /\ Unmatched \subseteq Gpu \X Nat

VARIABLES
  layout,         \* what nvidia-smi reports
  present,        \* the GPUs whose /dev/nvidia<n> has a major number
  pc,             \* the loop getDevices is in
  gpu,            \* the GPU of the current --query-gpu line
  idmig,          \* the line of nvidia-smi -L being looked at, from 0
  id,             \* the id the next device gets
  found,          \* the devices of this call: <<id, GPU>>
  migDevices,     \* device id -> MIG instance
  migDevCount,    \* instances found for the current GPU
  migInfoOutput,  \* nvidia-smi -L, read once per plugin object; <<>> before
  calls           \* calls of getDevices so far

discoveryVars == <<layout, present, pc, gpu, idmig, id, found, migDevices, migDevCount,
                   migInfoOutput, calls>>
inputVars == <<layout, present>>

\* The lines of nvidia-smi -L: each GPU, followed by its instances.
GpuLine(g) == [kind |-> "GPU", n |-> g]
MigLine(g, m) ==
  [kind |-> IF <<g, m>> \in Unmatched THEN "unmatched" ELSE "MIG", n |-> m]
ListGpus(l) ==
  FlattenSeq([i \in 1 .. GpuCount |->
    <<GpuLine(i - 1)>> \o [m \in 1 .. (IF l[i - 1] = NotSplit THEN 0 ELSE l[i - 1])
                             |-> MigLine(i - 1, m - 1)]])

LineAt(i) == migInfoOutput[i + 1]
LineCount == Len(migInfoOutput)

DiscoveryInit ==
  /\ \E host \in HostStates : layout = host[1] /\ present = host[2]
  /\ pc = "idle" /\ gpu = 0 /\ idmig = 0 /\ id = 0 /\ migDevCount = 0
  /\ found = {} /\ migDevices = <<>> /\ migInfoOutput = <<>> /\ calls = 0

GetDevices ==
  /\ pc \in {"idle", "done", "failed"} /\ calls < MaxCalls
  /\ pc' = "gpu" /\ gpu' = 0 /\ id' = 0 /\ found' = {} /\ calls' = calls + 1
  /\ UNCHANGED <<inputVars, idmig, migDevices, migDevCount, migInfoOutput>>

\* A GPU without a device file is passed over.
SkipGpu ==
  /\ pc = "gpu" /\ gpu \in Gpu \ present
  /\ gpu' = gpu + 1
  /\ UNCHANGED <<inputVars, pc, idmig, id, found, migDevices, migDevCount, migInfoOutput, calls>>

AddWholeGpu ==
  /\ pc = "gpu" /\ gpu \in present /\ layout[gpu] = NotSplit
  /\ found' = found \cup {<<id, gpu>>} /\ id' = id + 1
  /\ gpu' = gpu + 1
  /\ UNCHANGED <<inputVars, pc, idmig, migDevices, migDevCount, migInfoOutput, calls>>

\* MIG mode is enabled: nvidia-smi -L runs unless its output is cached.
OpenMigInfo ==
  /\ pc = "gpu" /\ gpu \in present /\ layout[gpu] # NotSplit
  /\ migInfoOutput' = IF migInfoOutput = <<>> THEN ListGpus(layout) ELSE migInfoOutput
  /\ pc' = "scan" /\ idmig' = 0 /\ migDevCount' = 0
  /\ UNCHANGED <<inputVars, gpu, id, found, migDevices, calls>>

\* nextLine starts with MIG; matcher.find() decides whether it is an instance.
AtMig == idmig < LineCount /\ LineAt(idmig).kind # "GPU"
AtInstance == AtMig /\ LineAt(idmig).kind = "MIG"

\* The numbers that a GPU's number, written in digits, begins with.
BeginningsOf[n \in Gpu] == {n} \cup (IF n < 10 THEN {} ELSE BeginningsOf[n \div 10])

\* The line starts with "GPU <gpu>": as does that of GPU 10 when gpu is 1.
StartsSection(line) == line.kind = "GPU" /\ gpu \in BeginningsOf[line.n]
AtSection == StartsSection(LineAt(idmig)) /\ LineCount > idmig + 1

\* Mutant: only a section moves the scan on.
ScanSameLine ==
  /\ pc = "scan" /\ idmig < LineCount
  /\ idmig' = IF AtSection THEN idmig + 1 ELSE idmig
  /\ pc' = IF AtSection THEN "section" ELSE "scan"
  /\ UNCHANGED <<inputVars, gpu, id, found, migDevices, migDevCount, migInfoOutput, calls>>

ScanLine ==
  /\ pc = "scan" /\ idmig < LineCount
  /\ idmig' = idmig + 1
  /\ pc' = IF AtSection THEN "section" ELSE "scan"
  /\ UNCHANGED <<inputVars, gpu, id, found, migDevices, migDevCount, migInfoOutput, calls>>

\* Only a match moves the loop on: at an unmatched line it goes round for ever,
\* and no action is enabled.
AddInstance ==
  /\ pc = "section" /\ AtInstance
  /\ migDevices' = [i \in DOMAIN migDevices \cup {id} |->
                      IF i = id THEN LineAt(idmig).n ELSE migDevices[i]]
  /\ found' = found \cup {<<id, gpu>>}
  /\ id' = id + 1 /\ migDevCount' = migDevCount + 1 /\ idmig' = idmig + 1
  /\ UNCHANGED <<inputVars, pc, gpu, migInfoOutput, calls>>

\* Mutant: the scan goes on after the section.
LeaveSectionOnly ==
  /\ pc = "section" /\ ~AtMig
  /\ pc' = "scan"
  /\ UNCHANGED <<inputVars, gpu, idmig, id, found, migDevices, migDevCount, migInfoOutput, calls>>

\* The section is over; idmig is set to end the scan too, before it comes to the
\* line of a GPU whose number only begins like this one's.
LeaveSection ==
  /\ pc = "section" /\ ~AtMig
  /\ pc' = "scan" /\ idmig' = LineCount
  /\ UNCHANGED <<inputVars, gpu, id, found, migDevices, migDevCount, migInfoOutput, calls>>

\* MIG enabled and no instance found is an error; devices put into migDevices
\* so far stay there.
EndScan ==
  /\ pc = "scan" /\ idmig >= LineCount
  /\ IF migDevCount < 1
     THEN pc' = "failed" /\ UNCHANGED gpu
     ELSE pc' = "gpu" /\ gpu' = gpu + 1
  /\ UNCHANGED <<inputVars, idmig, id, found, migDevices, migDevCount, migInfoOutput, calls>>

Return ==
  /\ pc = "gpu" /\ gpu = GpuCount
  /\ pc' = "done"
  /\ UNCHANGED <<inputVars, gpu, idmig, id, found, migDevices, migDevCount, migInfoOutput, calls>>

Loops ==
  \/ SkipGpu \/ AddWholeGpu \/ OpenMigInfo \/ ScanLine \/ AddInstance
  \/ LeaveSection \/ EndScan \/ Return

DiscoveryNext == GetDevices \/ Loops

-----------------------------------------------------------------------------
HandedOut == {s \in Slices(layout) : s[1] \in present}

\* The slice a device stands for: its GPU, and its entry in migDevices if any.
SliceOf(d) == <<d[2], IF d[1] \in DOMAIN migDevices THEN migDevices[d[1]] ELSE Whole>>

\* getDevices numbers every visible slice once, in nvidia-smi's order, and
\* migDevices names exactly the slice of each id; a second call changes nothing.
\* It fails exactly when a visible GPU has MIG enabled and no instance.
DiscoveryMatchesHardware ==
  /\ pc = "done" => found = {<<RankIn(HandedOut, s), s[1]>> : s \in HandedOut}
  /\ pc = "done" => {<<d[1], SliceOf(d)>> : d \in found} =
                      {<<RankIn(HandedOut, s), s>> : s \in HandedOut}
  /\ pc \in {"done", "failed"} =>
       (pc = "failed" <=> \E g \in present : layout[g] = 0)

AtUnmatched == pc = "section" /\ AtMig /\ LineAt(idmig).kind = "unmatched"

\* The nested loops over the lines end, with the devices or with the exception,
\* on every host but one: where a visible GPU's section has a line that begins
\* with MIG and does not match, the loop stays at that line.
DiscoveryTerminates == pc = "gpu" ~> (pc \in {"done", "failed"} \/ AtUnmatched)
=============================================================================
