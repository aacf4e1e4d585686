------------------------- MODULE ServerManager_proofs -------------------------
(***************************************************************************)
(* Proofs about the server manager, for any number of executors, hosts,    *)
(* ports, retries, attempts, faults and processes.                         *)
(***************************************************************************)
EXTENDS ServerManager, FiniteSetTheorems, WellFoundedInduction, TLAPS

\* The task launched a server and has not ended since.
Launched(e) ==
  task[e] \in {"polling", "asking", "reset", "barrier", "passed", "returned"}

\* Steps of the wait loop after which the task goes on waiting.
WaitsOn(e) ==
  AskHealth(e) \/ PollUnhealthy(e) \/ PollRefused(e) \/ RequestRaises(e) \/ BarrierRaises(e)

\* What the types of tries, attempt and mine rest on: a task with a request, or in
\* barrier(), has an iteration of its loop left, a stage still to be submitted has an attempt left,
\* a task that launched a server knows its process, and a task that waits for a
\* process to stop found it in the table.
ControlInv ==
  /\ \A e \in Executor : Launched(e) => mine[e] # NoPid
  /\ \A e \in Executor : task[e] \in {"asking", "reset", "barrier"} => tries[e] > 0
  /\ \A e \in Executor : task[e] \in {"waiting", "killing"} => table[HostOf[e]] # NoPid
  /\ job # "none" /\ crew = {} => attempt < MaxAttempts
  /\ crew # {} => Cardinality(crew) = NumExecutors

TypeInv == TypeOK /\ ControlInv

LEMMA NumExecutorsType == NumExecutors \in Nat \ {0}
<1>1. IsFiniteSet(InitialMembers) /\ InitialMembers # {}
  BY ConstantsAssumption, FS_Subset
<1> QED  BY <1>1, FS_CardinalityType, FS_EmptySet DEF NumExecutors

LEMMA TypeInvInit == Init => TypeInv
<1> SUFFICES ASSUME Init PROVE TypeInv
  OBVIOUS
<1>1. (CHOOSE e \in InitialMembers : TRUE) \in Executor
  BY ConstantsAssumption
<1>2. TypeOK
  <2>1. pexec \in [Pid -> Executor]
    BY <1>1, Zenon DEF Init
  <2>2. pstate \in [Pid -> ProcState] /\ task \in [Executor -> TaskState]
    BY DEF Init, ProcState, TaskState
  <2>3. table \in [Host -> Pid \cup {NoPid}] /\ mine \in [Executor -> Pid \cup {NoPid}]
    BY DEF Init, NoServers
  <2>4. tries \in [Executor -> 0 .. WaitRetries] /\ pports \in [Pid -> SUBSET Port]
    BY ConstantsAssumption DEF Init
  <2>5. attempt \in 0 .. MaxAttempts /\ faults \in 0 .. MaxFaults
    BY ConstantsAssumption DEF Init
  <2> QED
    BY <2>1, <2>2, <2>3, <2>4, <2>5, ConstantsAssumption DEF Init, TypeOK
<1>3. ControlInv
  BY <1>1 DEF Init, ControlInv, Launched, NoServers
<1> QED  BY <1>2, <1>3 DEF TypeInv

LEMMA TypeInvStep == TypeInv /\ [Next]_vars => TypeInv'
<1> SUFFICES ASSUME TypeInv, [Next]_vars PROVE TypeInv'
  OBVIOUS
<1> USE ConstantsAssumption, NumExecutorsType DEF TypeInv, TypeOK, ControlInv, Launched,
      NoPid, TaskState, ProcState, driverVars, stageVars, taskVars, procVars, clusterVars
<1>1. CASE UNCHANGED vars
  BY <1>1 DEF vars
<1>2. CASE StartServers
  BY <1>2 DEF StartServers
<1>3. CASE StopServers
  BY <1>3 DEF StopServers
<1>4. CASE SubmitStage
  <2>1. PICK c \in SUBSET members :
          /\ Cardinality(c) = NumExecutors
          /\ crew' = c
          /\ task' = [e \in Executor |-> IF e \in c THEN "fresh" ELSE "none"]
    BY <1>4 DEF SubmitStage
  <2>2. crew' # {}
    BY <2>1, FS_EmptySet
  <2>3. task' \in [Executor -> TaskState] /\ \A e \in Executor : task'[e] \in {"fresh", "none"}
    BY <2>1
  <2>4. attempt' \in 0 .. MaxAttempts
    BY <1>4 DEF SubmitStage
  <2>5. TypeOK'
    BY <1>4, <2>1, <2>3, <2>4 DEF SubmitStage
  <2>6. ControlInv'
    BY <1>4, <2>1, <2>2, <2>3 DEF SubmitStage
  <2> QED
    BY <2>5, <2>6
<1>5. CASE RejectJob
  BY <1>5 DEF RejectJob
<1>6. CASE EndFailedStage
  BY <1>6 DEF EndFailedStage
<1>7. CASE BarrierRelease
  BY <1>7 DEF BarrierRelease
<1>8. CASE CollectServers
  BY <1>8 DEF CollectServers, CollectAsMap
<1>9. CASE CollectStops
  BY <1>9 DEF CollectStops, NoServers
<1>10. ASSUME NEW e \in Executor, LaunchServer(e) PROVE TypeInv'
  <2>1. PICK p \in Pid :
          /\ mine' = [mine EXCEPT ![e] = p]
          /\ pstate' = [pstate EXCEPT ![p] = "loading"]
          /\ pexec' = [pexec EXCEPT ![p] = e]
          /\ pports' = [pports EXCEPT ![p] = FindPorts(HostOf[e])]
    BY <1>10 DEF LaunchServer
  <2>2. FindPorts(HostOf[e]) \subseteq Port
    BY DEF FindPorts
  <2>3. p # NoPid
    BY DEF Pid
  <2> QED
    BY <1>10, <2>1, <2>2, <2>3 DEF LaunchServer
<1>11. ASSUME NEW e \in Executor, PollHealthy(e) PROVE TypeInv'
  BY <1>11 DEF PollHealthy, Polls
<1>12. ASSUME NEW e \in Executor, PollUnhealthy(e) PROVE TypeInv'
  BY <1>12 DEF PollUnhealthy, Polls, CaughtException
<1>13. ASSUME NEW e \in Executor,
              AskHealth(e) \/ PollRefused(e) \/ RequestRaises(e) \/ BarrierRaises(e)
       PROVE  TypeInv'
  BY <1>13 DEF AskHealth, PollRefused, RequestRaises, BarrierRaises, CaughtException
<1>14. ASSUME NEW e \in Executor, GiveUp(e) PROVE TypeInv'
  BY <1>14 DEF GiveUp, Terminated
<1>15. ASSUME NEW e \in Executor, ReturnServer(e) PROVE TypeInv'
  BY <1>15 DEF ReturnServer
<1>16. ASSUME NEW e \in Executor, StopTask(e) PROVE TypeInv'
  <2>1. CASE StopUnknownHost(e)
    BY <2>1 DEF StopUnknownHost
  <2>2. CASE StopAlreadyGone(e)
    BY <2>2 DEF StopAlreadyGone
  <2>3. CASE StopTerminate(e)
    BY <2>3 DEF StopTerminate, Terminated
  <2>4. CASE StopWaitEnds(e)
    BY <2>4 DEF StopWaitEnds
  <2>5. CASE StopWaitTimesOut(e)
    BY <2>5 DEF StopWaitTimesOut
  <2>6. CASE StopKill(e)
    BY <2>6 DEF StopKill
  <2>7. CASE StopDenied(e)
    BY <2>7 DEF StopDenied
  <2> QED  BY <1>16, <2>1, <2>2, <2>3, <2>4, <2>5, <2>6, <2>7 DEF StopTask
<1>17. ASSUME NEW e \in Executor, KillTask(e) PROVE TypeInv'
  BY <1>17 DEF KillTask
<1>18. ASSUME NEW e \in Executor, LoseTask(e) PROVE TypeInv'
  BY <1>18 DEF LoseTask, Fault
<1>19. ASSUME NEW e \in Executor, Join(e) \/ Leave(e) PROVE TypeInv'
  BY <1>19 DEF Join, Leave, Fault
<1>20. ASSUME NEW p \in Pid, BindPorts(p) \/ BecomeReady(p) \/ ProcessEnds(p)
       PROVE TypeInv'
  BY <1>20 DEF BindPorts, BecomeReady, ProcessEnds
<1>21. ASSUME NEW p \in Pid, Recycle(p) PROVE TypeInv'
  BY <1>21 DEF Recycle, Fault
<1> QED
  BY <1>1, <1>2, <1>3, <1>4, <1>5, <1>6, <1>7, <1>8, <1>9, <1>10, <1>11, <1>12, <1>13,
     <1>14, <1>15, <1>16, <1>17, <1>18, <1>19, <1>20, <1>21
     DEF Next, SparkStage, StartTask, Poll

\* Every variable keeps its type in every behaviour.
THEOREM TypeCorrect == Spec => []TypeOK
<1>1. Spec => []TypeInv
  BY TypeInvInit, TypeInvStep, PTL DEF Spec
<1> QED  BY <1>1, PTL DEF TypeInv

-----------------------------------------------------------------------------
(* The table of servers.                                                   *)

Entries == {h \in Host : table[h] # NoPid}

\* What ties tasks and table to processes: a task's server was launched by its
\* own executor, a task that reported success saw its server ended, and the
\* table names a process of the very host it is listed under.
ServerInv ==
  /\ \A e \in Executor :
       Launched(e) => pexec[mine[e]] = e /\ pstate[mine[e]] # "none"
  /\ \A e \in Executor :
       task[e] = "stopped" =>
         table[HostOf[e]] # NoPid /\ pstate[table[HostOf[e]]] \in EndedState
  /\ \A h \in Host :
       table[h] # NoPid => pstate[table[h]] # "none" /\ HostOf[pexec[table[h]]] = h

\* On distinct hosts, a set of executors has as many hosts as members.
LEMMA OneHostEach ==
  ASSUME HostsDistinct, NEW c \in SUBSET Executor
  PROVE  Cardinality({HostOf[e] : e \in c}) = Cardinality(c)
<1> DEFINE f == [e \in c |-> HostOf[e]]
<1>1. IsFiniteSet(c)
  BY ConstantsAssumption, FS_Subset
<1>2. f \in Bijection(c, {HostOf[e] : e \in c})
  BY DEF HostsDistinct, Bijection, Injection, Surjection, IsInjective
<1>3. ExistsBijection(c, {HostOf[e] : e \in c})
  BY <1>2 DEF ExistsBijection
<1> QED  BY <1>1, <1>3, FS_Bijection

\* No step brings a process back.
LEMMA EndedGrows == TypeInv /\ [Next]_vars => Ended \subseteq Ended'
<1> SUFFICES ASSUME TypeInv, [Next]_vars, NEW p \in Pid, pstate[p] \in EndedState
             PROVE  pstate'[p] \in EndedState
  BY DEF Ended
<1> USE DEF EndedState
<1>1. CASE UNCHANGED pstate
  BY <1>1
<1>2. pstate \in [Pid -> ProcState]
  BY DEF TypeInv, TypeOK
<1>3. ASSUME NEW e \in Executor, LaunchServer(e) PROVE pstate'[p] \in EndedState
  BY <1>2, <1>3 DEF LaunchServer
<1>4. ASSUME NEW e \in Executor, GiveUp(e) PROVE pstate'[p] \in EndedState
  BY <1>2, <1>4 DEF GiveUp, Terminated
<1>5. ASSUME NEW e \in Executor, StopTerminate(e) \/ StopKill(e)
      PROVE  pstate'[p] \in EndedState
  BY <1>2, <1>5 DEF StopTerminate, StopKill, Terminated
<1>6. ASSUME NEW q \in Pid, BindPorts(q) \/ BecomeReady(q) \/ ProcessEnds(q) \/ Recycle(q)
      PROVE  pstate'[p] \in EndedState
  BY <1>2, <1>6 DEF BindPorts, BecomeReady, ProcessEnds, Recycle
<1> QED
  BY <1>1, <1>3, <1>4, <1>5, <1>6
     DEF Next, SparkStage, StartTask, Poll, StopTask, vars, procVars, StartServers, StopServers,
         SubmitStage, RejectJob, EndFailedStage, BarrierRelease, CollectServers,
         CollectStops, PollHealthy, PollUnhealthy, AskHealth, PollRefused, RequestRaises,
         BarrierRaises, ReturnServer, StopUnknownHost, StopAlreadyGone, StopDenied, StopWaitEnds, StopWaitTimesOut,
         KillTask, LoseTask, Join, Leave

LEMMA ServerInvInit == Init => ServerInv
  BY DEF Init, ServerInv, Launched, NoServers

LEMMA ServerInvStep == TypeInv /\ TypeInv' /\ ServerInv /\ [Next]_vars => ServerInv'
<1> SUFFICES ASSUME TypeInv, TypeInv', ServerInv, [Next]_vars PROVE ServerInv'
  OBVIOUS
<1> USE ConstantsAssumption DEF TypeInv, TypeOK, ControlInv, ServerInv, Launched, EndedState,
      NoPid, driverVars, stageVars, taskVars, procVars, clusterVars
<1>1. CASE UNCHANGED vars
  BY <1>1 DEF vars
<1>2. CASE StartServers \/ StopServers \/ RejectJob
  BY <1>2 DEF StartServers, StopServers, RejectJob
<1>3. CASE SubmitStage
  BY <1>3 DEF SubmitStage
<1>4. CASE EndFailedStage \/ BarrierRelease
  BY <1>4 DEF EndFailedStage, BarrierRelease
<1>5. CASE CollectServers
  BY <1>5 DEF CollectServers, CollectAsMap
<1>6. CASE CollectStops
  BY <1>6 DEF CollectStops, NoServers
<1>7. ASSUME NEW e \in Executor, LaunchServer(e) PROVE ServerInv'
  <2>1. PICK p \in Pid :
          /\ pstate[p] = "none"
          /\ mine' = [mine EXCEPT ![e] = p]
          /\ pstate' = [pstate EXCEPT ![p] = "loading"]
          /\ pexec' = [pexec EXCEPT ![p] = e]
    BY <1>7 DEF LaunchServer
  <2> QED
    BY <1>7, <2>1 DEF LaunchServer
<1>8. ASSUME NEW e \in Executor, PollHealthy(e) \/ WaitsOn(e) \/ ReturnServer(e)
      PROVE  ServerInv'
  BY <1>8 DEF PollHealthy, Polls, WaitsOn, AskHealth, PollUnhealthy, PollRefused, RequestRaises,
              BarrierRaises, ReturnServer
<1>9. ASSUME NEW e \in Executor, GiveUp(e) PROVE ServerInv'
  BY <1>9 DEF GiveUp, Terminated
<1>10. ASSUME NEW e \in Executor, StopTask(e) PROVE ServerInv'
  <2>1. CASE StopUnknownHost(e) \/ StopDenied(e)
    BY <2>1 DEF StopUnknownHost, StopDenied
  <2>2. CASE StopAlreadyGone(e)
    BY <2>2 DEF StopAlreadyGone
  <2>3. CASE StopTerminate(e)
    BY <2>3 DEF StopTerminate, Terminated
  <2>4. CASE StopWaitEnds(e) \/ StopWaitTimesOut(e)
    BY <2>4 DEF StopWaitEnds, StopWaitTimesOut
  <2>5. CASE StopKill(e)
    BY <2>5 DEF StopKill
  <2> QED  BY <1>10, <2>1, <2>2, <2>3, <2>4, <2>5 DEF StopTask
<1>11. ASSUME NEW e \in Executor, KillTask(e) \/ LoseTask(e) \/ Join(e) \/ Leave(e)
       PROVE  ServerInv'
  BY <1>11 DEF KillTask, LoseTask, Join, Leave
<1>12. ASSUME NEW p \in Pid, BindPorts(p) \/ BecomeReady(p) \/ ProcessEnds(p) \/ Recycle(p)
       PROVE  ServerInv'
  BY <1>12 DEF BindPorts, BecomeReady, ProcessEnds, Recycle, Alive
<1> QED
  BY <1>1, <1>2, <1>3, <1>4, <1>5, <1>6, <1>7, <1>8, <1>9, <1>10, <1>11, <1>12
     DEF Next, SparkStage, StartTask, Poll, WaitsOn

SizeInv == Cardinality(Entries) \in {0, NumExecutors}

\* The inductive invariant of the manager on distinct hosts.
IInv == TypeInv /\ ServerInv /\ SizeInv

\* start_servers brings up the whole table.
LEMMA CollectServersIsWhole ==
  ASSUME HostsDistinct, TypeInv, CollectServers
  PROVE  Cardinality(Entries') = NumExecutors
<1>1. crew \subseteq Executor /\ crew # {} /\ Cardinality(crew) = NumExecutors
  BY DEF CollectServers, TypeInv, TypeOK, ControlInv
<1>2. \A e \in crew : mine[e] # NoPid
  BY <1>1 DEF CollectServers, TypeInv, ControlInv, Launched
<1>3. table' \in CollectAsMap
  BY DEF CollectServers
<1>4. Entries' = {HostOf[e] : e \in crew}
  <2>1. ASSUME NEW h \in Host, table'[h] # NoPid PROVE h \in {HostOf[e] : e \in crew}
    BY <1>3, <2>1 DEF CollectAsMap
  <2>2. ASSUME NEW e \in crew PROVE HostOf[e] \in Host /\ table'[HostOf[e]] # NoPid
    BY <1>1, <1>2, <1>3, ConstantsAssumption DEF CollectAsMap
  <2> QED  BY <2>1, <2>2 DEF Entries
<1> QED  BY <1>1, <1>4, OneHostEach

LEMMA EntriesFinite == TypeInv /\ ServerInv => IsFiniteSet(Entries)
<1> SUFFICES ASSUME TypeInv, ServerInv PROVE IsFiniteSet(Entries)
  OBVIOUS
<1> DEFINE f == [h \in Entries |-> pexec[table[h]]]
<1>1. \A h \in Entries : pexec[table[h]] \in Executor /\ HostOf[pexec[table[h]]] = h
  BY DEF Entries, TypeInv, TypeOK, ServerInv
<1>2. f \in Injection(Entries, Executor)
  BY <1>1 DEF Injection, IsInjective
<1> QED  BY <1>2, ConstantsAssumption, FS_Injection

\* When every stop task reports success, every entry of the table has been seen
\* to: the tasks are as many as the entries and run on distinct hosts that have
\* one, so they run on all of them.
LEMMA CollectStopsIsComplete ==
  ASSUME HostsDistinct, IInv, crew # {}, \A e \in crew : task[e] = "stopped"
  PROVE  \A h \in Entries : table[h] \in Ended
<1>1. crew \subseteq Executor /\ Cardinality(crew) = NumExecutors
  BY DEF IInv, TypeInv, TypeOK, ControlInv
<1> DEFINE seen == {HostOf[e] : e \in crew}
<1>2. \A e \in crew :
        /\ HostOf[e] \in Entries
        /\ pstate[table[HostOf[e]]] \in EndedState
  BY <1>1, ConstantsAssumption DEF IInv, ServerInv, Entries
<1>3. Cardinality(seen) = NumExecutors
  BY <1>1, OneHostEach
<1>4. seen \subseteq Entries /\ IsFiniteSet(Entries)
  BY <1>2, EntriesFinite DEF IInv
<1>5. Cardinality(seen) <= Cardinality(Entries)
      /\ (Cardinality(Entries) = Cardinality(seen) => Entries = seen)
  BY <1>4, FS_Subset
<1>6. Entries = seen
  BY <1>3, <1>5, NumExecutorsType DEF IInv, SizeInv
<1>7. \A h \in Entries : table[h] \in Pid
  BY DEF Entries, IInv, TypeInv, TypeOK
<1> QED  BY <1>2, <1>6, <1>7 DEF Ended

\* Only the two results of a job touch the table.
LEMMA TableChanges ==
  ASSUME [Next]_vars PROVE UNCHANGED table \/ CollectServers \/ CollectStops
  BY DEF Next, vars, driverVars, SparkStage, StartTask, Poll, StopTask, StartServers, StopServers,
         SubmitStage, RejectJob, EndFailedStage, BarrierRelease, LaunchServer, PollHealthy,
         PollUnhealthy, AskHealth, PollRefused, RequestRaises, BarrierRaises, GiveUp,
         ReturnServer, StopUnknownHost,
         StopAlreadyGone, StopDenied, StopTerminate, StopWaitEnds, StopWaitTimesOut, StopKill,
         KillTask, LoseTask, Join, Leave, BindPorts, BecomeReady, ProcessEnds, Recycle

LEMMA NoServersIsEmpty ==
  /\ table = NoServers => Entries = {}
  /\ table' = NoServers => Entries' = {}
  BY DEF NoServers, Entries

LEMMA IInvInit == Init => IInv
<1>1. Init => Entries = {}
  BY NoServersIsEmpty DEF Init
<1> QED  BY <1>1, TypeInvInit, ServerInvInit, FS_EmptySet DEF IInv, SizeInv

LEMMA IInvStep == ASSUME HostsDistinct PROVE IInv /\ [Next]_vars => IInv'
<1> SUFFICES ASSUME IInv, [Next]_vars PROVE IInv'
  OBVIOUS
<1>1. TypeInv' /\ ServerInv'
  BY TypeInvStep, ServerInvStep DEF IInv
<1>2. SizeInv'
  <2>1. CASE UNCHANGED table
    BY <2>1 DEF IInv, SizeInv, Entries
  <2>2. CASE CollectServers
    BY <2>2, CollectServersIsWhole DEF IInv, SizeInv
  <2>3. CASE CollectStops
    <3>1. table' = table \/ table' = NoServers
      BY <2>3 DEF CollectStops
    <3> QED  BY <2>1, <3>1, NoServersIsEmpty, FS_EmptySet DEF SizeInv
  <2> QED  BY <2>1, <2>2, <2>3, TableChanges
<1> QED  BY <1>1, <1>2 DEF IInv

LEMMA IInvHolds == ASSUME HostsDistinct PROVE Spec => []IInv
  BY IInvInit, IInvStep, PTL DEF Spec

\* On distinct hosts the table names no server or one for each executor, every
\* one launched on the host it is listed under.
THEOREM TableIsWhole == ASSUME HostsDistinct PROVE Spec => []TableWhole
<1>1. IInv => TableWhole
  BY DEF IInv, SizeInv, ServerInv, Entries, TableWhole, HostOfPid
<1> QED  BY <1>1, IInvHolds, PTL

\* On distinct hosts the table is emptied only over servers that have ended or
\* were killed.
THEOREM StopCompletes == ASSUME HostsDistinct PROVE Spec => StopIsComplete
<1>1. IInv /\ [Next]_vars => [table' = NoServers => Recorded \subseteq Ended']_table
  <2> SUFFICES ASSUME IInv, [Next]_vars, table' # table, table' = NoServers
               PROVE  Recorded \subseteq Ended'
    OBVIOUS
  <2>1. CASE CollectServers
    <3>1. Cardinality(Entries') = NumExecutors
      BY <2>1, CollectServersIsWhole DEF IInv
    <3> QED  BY <3>1, NoServersIsEmpty, NumExecutorsType, FS_EmptySet
  <2>2. CASE CollectStops
    <3>1. crew # {} /\ \A e \in crew : task[e] = "stopped"
      BY <2>2 DEF CollectStops
    <3>2. \A h \in Entries : table[h] \in Ended'
      BY <3>1, CollectStopsIsComplete, EndedGrows DEF IInv
    <3> QED  BY <3>2 DEF Recorded, Entries
  <2> QED  BY <2>1, <2>2, TableChanges
<1> QED  BY <1>1, IInvHolds, PTL DEF Spec, StopIsComplete

-----------------------------------------------------------------------------
(* Refinement of ServerLifecycle.                                          *)

LEMMA LifecycleInit == Init => Lifecycle!Init
  BY DEF Init, Lifecycle!Init, NoServers, Ended, EndedState

LEMMA LifecycleStep ==
  ASSUME HostsDistinct, IInv, IInv', [Next]_vars
  PROVE  [Lifecycle!Next]_(Lifecycle!vars)
<1> USE DEF Lifecycle!Next, Lifecycle!vars
<1>1. Ended \subseteq Ended' /\ Ended' \subseteq Pid
  BY EndedGrows DEF IInv, Ended
<1>2. CASE UNCHANGED table
  BY <1>1, <1>2 DEF Lifecycle!End
<1>3. UNCHANGED pstate => UNCHANGED Ended
  BY DEF Ended
<1>4. CASE CollectServers
  <2>1. UNCHANGED Ended
    BY <1>3, <1>4 DEF CollectServers, procVars
  <2>2. table' \in [Host -> Pid \cup {NoPid}]
    BY DEF IInv, TypeInv, TypeOK
  <2>3. Cardinality(Lifecycle!Entries(table')) = NumExecutors
    BY <1>4, CollectServersIsWhole DEF IInv, Lifecycle!Entries, Entries
  <2>4. \A h \in Lifecycle!Entries(table') : HostOf[pexec'[table'[h]]] = h
    BY DEF IInv, ServerInv, Lifecycle!Entries
  <2>5. Lifecycle!Cardinality(Lifecycle!Entries(table')) = Cardinality(Lifecycle!Entries(table'))
    BY DEF Cardinality, Lifecycle!Cardinality
  <2> QED  BY <2>1, <2>2, <2>3, <2>4, <2>5 DEF Lifecycle!Publish
<1>5. CASE CollectStops /\ ~UNCHANGED table
  <2>1. crew # {} /\ \A e \in crew : task[e] = "stopped"
    BY <1>5 DEF CollectStops
  <2>2. table' = NoServers /\ UNCHANGED Ended
    BY <1>3, <1>5 DEF CollectStops, procVars
  <2>3. \A h \in Lifecycle!Entries(table) : table[h] \in Ended
    BY <2>1, CollectStopsIsComplete DEF Lifecycle!Entries, Entries
  <2> QED  BY <2>2, <2>3 DEF Lifecycle!Clear, NoServers
<1> QED  BY <1>2, <1>4, <1>5, TableChanges

\* On distinct hosts the manager implements its lifecycle: the table changes as a
\* whole only, to one entry per executor or to empty over ended servers.
THEOREM ImplementsLifecycle == ASSUME HostsDistinct PROVE Spec => LifecycleSpec
<1>1. Spec => [][Lifecycle!Next]_(Lifecycle!vars)
  <2>1. IInv /\ IInv' /\ [Next]_vars => [Lifecycle!Next]_(Lifecycle!vars)
    BY LifecycleStep
  <2> QED  BY <2>1, IInvHolds, PTL DEF Spec
<1> QED  BY <1>1, LifecycleInit, PTL DEF Spec, LifecycleSpec, Lifecycle!Spec

-----------------------------------------------------------------------------
(* Orphans.                                                                 *)

\* Only executors of the crew have tasks, and a task that has not launched a server, or
\* stops one, has none of its own.
CrewInv ==
  /\ \A e \in Executor : task[e] # "none" => e \in crew
  /\ \A e \in Executor : task[e] \in {"fresh", "waiting", "killing"} => mine[e] = NoPid

LEMMA CrewInvInit == Init => CrewInv
  BY DEF Init, CrewInv

LEMMA CrewInvStep == TypeInv /\ CrewInv /\ [Next]_vars => CrewInv'
<1> SUFFICES ASSUME TypeInv, CrewInv, [Next]_vars PROVE CrewInv'
  OBVIOUS
<1>0. task \in [Executor -> TaskState] /\ mine \in [Executor -> Pid \cup {NoPid}]
  BY DEF TypeInv, TypeOK
<1> USE <1>0 DEF CrewInv, driverVars, stageVars, taskVars, procVars, clusterVars
<1>1. CASE UNCHANGED vars
  BY <1>1 DEF vars
<1>2. CASE StartServers \/ StopServers \/ RejectJob
  BY <1>2 DEF StartServers, StopServers, RejectJob
<1>3. CASE SubmitStage
  BY <1>3 DEF SubmitStage
<1>4. CASE EndFailedStage \/ CollectServers \/ CollectStops
  BY <1>4 DEF EndFailedStage, CollectServers, CollectStops
<1>5. CASE BarrierRelease
  BY <1>5 DEF BarrierRelease
<1>6. ASSUME NEW e \in Executor, LaunchServer(e) PROVE CrewInv'
  BY <1>6 DEF LaunchServer
<1>7. ASSUME NEW e \in Executor, PollHealthy(e) \/ WaitsOn(e) PROVE CrewInv'
  BY <1>7 DEF PollHealthy, Polls, WaitsOn, AskHealth, PollUnhealthy, PollRefused, RequestRaises,
              BarrierRaises
<1>8. ASSUME NEW e \in Executor, GiveUp(e) \/ ReturnServer(e) PROVE CrewInv'
  BY <1>8 DEF GiveUp, ReturnServer
<1>9. ASSUME NEW e \in Executor, StopTask(e) PROVE CrewInv'
  BY <1>9 DEF StopTask, StopUnknownHost, StopAlreadyGone, StopDenied, StopTerminate,
              StopWaitEnds, StopWaitTimesOut, StopKill
<1>10. ASSUME NEW e \in Executor, KillTask(e) \/ LoseTask(e) \/ Join(e) \/ Leave(e)
       PROVE  CrewInv'
  BY <1>10 DEF KillTask, LoseTask, Join, Leave
<1>11. ASSUME NEW p \in Pid, BindPorts(p) \/ BecomeReady(p) \/ ProcessEnds(p) \/ Recycle(p)
       PROVE  CrewInv'
  BY <1>11 DEF BindPorts, BecomeReady, ProcessEnds, Recycle
<1> QED
  BY <1>1, <1>2, <1>3, <1>4, <1>5, <1>6, <1>7, <1>8, <1>9, <1>10, <1>11
     DEF Next, SparkStage, StartTask, Poll, WaitsOn

Live(p) == pstate[p] \in {"loading", "ready"}
TendedByTask(p) == \E e \in crew : mine[e] = p /\ task[e] \in Running \cup {"returned"}

LEMMA OrphanIs ==
  \A p : p \in Orphans <=> p \in Pid /\ Live(p) /\ p \notin Recorded /\ ~TendedByTask(p)
  BY DEF Orphans, Tended, TendedByTask, Live

\* Only a launch brings a server to life.
LEMMA LiveComesFromLaunch ==
  ASSUME TypeInv, [Next]_vars, NEW p \in Pid, ~Live(p), Live(p)'
  PROVE  \E e \in Executor : LaunchServer(e) /\ mine'[e] = p
<1>0. pstate \in [Pid -> ProcState] /\ mine \in [Executor -> Pid \cup {NoPid}]
  BY DEF TypeInv, TypeOK
<1> USE <1>0 DEF Live
<1>1. ~UNCHANGED pstate
  OBVIOUS
<1>2. ASSUME NEW e \in Executor, LaunchServer(e) PROVE mine'[e] = p
  BY <1>2 DEF LaunchServer
<1>3. ASSUME NEW e \in Executor, GiveUp(e) PROVE FALSE
  BY <1>3 DEF GiveUp, Terminated
<1>4. ASSUME NEW e \in Executor, StopTerminate(e) \/ StopKill(e) PROVE FALSE
  BY <1>4 DEF StopTerminate, StopKill, Terminated
<1>5. ASSUME NEW q \in Pid, BindPorts(q) \/ BecomeReady(q) \/ ProcessEnds(q) \/ Recycle(q)
      PROVE  FALSE
  BY <1>5 DEF BindPorts, BecomeReady, ProcessEnds, Recycle
<1> QED
  BY <1>1, <1>2, <1>3, <1>4, <1>5
     DEF Next, SparkStage, StartTask, Poll, StopTask, vars, procVars, StartServers, StopServers,
         SubmitStage, RejectJob, EndFailedStage, BarrierRelease, CollectServers,
         CollectStops, PollHealthy, PollUnhealthy, AskHealth, PollRefused, RequestRaises,
         BarrierRaises, ReturnServer, StopUnknownHost, StopAlreadyGone, StopDenied, StopWaitEnds, StopWaitTimesOut,
         KillTask, LoseTask, Join, Leave

Cause ==
  \/ stageFailed
  \/ \E e \in Executor : task'[e] = "killed" /\ task[e] # "killed"
  \/ job = "start" /\ table # NoServers

\* A start over an empty table records the servers of all its tasks.
LEMMA CollectServersTends ==
  ASSUME HostsDistinct, IInv, CollectServers, table = NoServers,
         NEW p \in Pid, p \in Recorded \/ TendedByTask(p)
  PROVE  p \in Recorded'
<1>1. p \notin Recorded
  BY ConstantsAssumption DEF Recorded, NoServers
<1>2. PICK e \in crew : mine[e] = p
  BY <1>1 DEF TendedByTask
<1>3. crew \subseteq Executor /\ p # NoPid
  BY DEF IInv, TypeInv, TypeOK, Pid, NoPid
<1>4. HostOf[e] \in Host
  BY <1>3, ConstantsAssumption
<1>5. PICK f \in crew : HostOf[f] = HostOf[e] /\ table'[HostOf[e]] = mine[f]
  BY <1>2, <1>4 DEF CollectServers, CollectAsMap
<1>6. table'[HostOf[e]] = p
  BY <1>2, <1>3, <1>5 DEF HostsDistinct
<1> QED
  BY <1>3, <1>4, <1>6 DEF Recorded

LEMMA CollectStopsTends ==
  ASSUME HostsDistinct, IInv, CollectStops, NEW p \in Pid, Live(p), p \in Recorded \/ TendedByTask(p)
  PROVE  p \in Recorded'
<1>1. ~TendedByTask(p)
  BY DEF CollectStops, TendedByTask, Running
<1>2. CASE table' = table
  BY <1>1, <1>2 DEF Recorded
<1>3. CASE table' # table
  <2>1. crew # {} /\ \A e \in crew : task[e] = "stopped"
    BY <1>3 DEF CollectStops
  <2>2. PICK h \in Entries : table[h] = p
    BY <1>1 DEF Recorded, Entries
  <2>3. p \in Ended
    BY <2>1, <2>2, CollectStopsIsComplete
  <2> QED
    BY <2>3 DEF Ended, EndedState, Live
<1> QED
  BY <1>2, <1>3

LEMMA OrphanStep ==
  ASSUME HostsDistinct, IInv, CrewInv, [Next]_vars,
         NEW p \in Pid, p \in Orphans', p \notin Orphans
  PROVE  Cause
<1>0. /\ task \in [Executor -> TaskState] /\ mine \in [Executor -> Pid \cup {NoPid}]
      /\ crew \subseteq Executor /\ p # NoPid /\ pstate \in [Pid -> ProcState]
  BY DEF IInv, TypeInv, TypeOK, Pid, NoPid
<1>1. Live(p)' /\ p \notin Recorded' /\ ~TendedByTask(p)'
  BY DEF Orphans, Tended, TendedByTask, Live
<1>2. ASSUME NEW e \in Executor, LaunchServer(e) PROVE mine'[e] # p
  <2>1. e \in crew' /\ task'[e] = "polling"
    BY <1>0, <1>2 DEF LaunchServer, CrewInv, stageVars
  <2> QED
    BY <1>1, <2>1 DEF TendedByTask, Running
<1>3. Live(p)
  BY <1>1, <1>2, LiveComesFromLaunch DEF IInv
<1>4. p \in Recorded \/ TendedByTask(p)
  BY <1>3, OrphanIs
<1>5. CASE CollectServers
  BY <1>1, <1>4, <1>5, CollectServersTends DEF Cause, CollectServers
<1>6. CASE CollectStops
  BY <1>1, <1>3, <1>4, <1>6, CollectStopsTends
<1>7. CASE UNCHANGED table
  <2>1. PICK e \in crew : mine[e] = p /\ task[e] \in Running \cup {"returned"}
    BY <1>1, <1>4, <1>7 DEF Recorded, TendedByTask
  \* e tends p, and does not after the step.
  <2>2. ~(e \in crew' /\ mine'[e] = p /\ task'[e] \in Running \cup {"returned"})
    BY <1>1 DEF TendedByTask
  <2>3. Launched(e)
    BY <1>0, <2>1 DEF CrewInv, Running, Launched
  <2> USE <1>0 DEF Running, Launched, driverVars, stageVars, taskVars, procVars, clusterVars
  <2>4. CASE UNCHANGED <<crew, task, mine>>
    BY <2>1, <2>2, <2>4
  <2>5. CASE SubmitStage
    BY <2>1, <2>5 DEF SubmitStage
  <2>6. CASE EndFailedStage
    BY <2>6 DEF EndFailedStage, Cause
  <2>7. CASE BarrierRelease
    BY <2>1, <2>2, <2>7 DEF BarrierRelease
  <2>8. ASSUME NEW f \in Executor, LaunchServer(f) PROVE Cause
    BY <2>1, <2>2, <2>3, <2>8 DEF LaunchServer
  <2>9. ASSUME NEW f \in Executor, PollHealthy(f) \/ WaitsOn(f) \/ ReturnServer(f)
        PROVE  Cause
    BY <2>1, <2>2, <2>9 DEF PollHealthy, WaitsOn, AskHealth, PollUnhealthy, PollRefused,
                            RequestRaises, BarrierRaises, ReturnServer
  <2>10. ASSUME NEW f \in Executor, GiveUp(f) PROVE Cause
    \* It terminates its server.
    <3>1. CASE f = e
      BY <1>1, <1>3, <2>1, <2>10, <3>1 DEF GiveUp, Terminated, Live
    <3>2. CASE f # e
      BY <2>1, <2>2, <2>10, <3>2 DEF GiveUp
    <3> QED
      BY <3>1, <3>2
  <2>11. ASSUME NEW f \in Executor, StopTask(f) PROVE Cause
    <3>1. task[f] \in {"fresh", "waiting", "killing"} /\ UNCHANGED <<crew, mine>>
      BY <2>11 DEF StopTask, StopUnknownHost, StopAlreadyGone, StopDenied, StopTerminate,
                   StopWaitEnds, StopWaitTimesOut, StopKill
    <3>2. f # e
      BY <2>3, <3>1
    <3>3. task'[e] = task[e]
      BY <2>11, <3>2 DEF StopTask, StopUnknownHost, StopAlreadyGone, StopDenied, StopTerminate,
                         StopWaitEnds, StopWaitTimesOut, StopKill
    <3> QED
      BY <2>1, <2>2, <3>1, <3>3
  <2>12. ASSUME NEW f \in Executor, KillTask(f) PROVE Cause
    BY <2>12 DEF KillTask, Cause
  <2>13. ASSUME NEW f \in Executor, LoseTask(f) PROVE Cause
    BY <2>13 DEF LoseTask, Cause
  <2>14. ASSUME NEW q \in Pid, ProcessEnds(q) PROVE Cause
    BY <2>1, <2>2, <2>14 DEF ProcessEnds
  <2> QED
    BY <2>4, <2>5, <2>6, <2>7, <2>8, <2>9, <2>10, <2>11, <2>12, <2>13, <2>14, <1>5, <1>6
       DEF Next, vars, SparkStage, StartTask, Poll, WaitsOn, StartServers, StopServers, RejectJob,
           Join, Leave, BindPorts, BecomeReady, Recycle
<1> QED
  BY <1>5, <1>6, <1>7, TableChanges

\* On distinct hosts a server is left to itself only after a failed stage, a lost or
\* killed task, or a start over servers that were recorded.
THEOREM OrphansComeFromFailures == ASSUME HostsDistinct PROVE Spec => OrphansHaveACause
<1>1. Spec => []CrewInv
  <2>1. Spec => []TypeInv
    BY TypeInvInit, TypeInvStep, PTL DEF Spec
  <2> QED
    BY <2>1, CrewInvInit, CrewInvStep, PTL DEF Spec
<1>2. IInv /\ CrewInv /\ [Next]_vars =>
        [~(Orphans' \subseteq Orphans) =>
           \/ stageFailed
           \/ \E e \in Executor : task'[e] = "killed" /\ task[e] # "killed"
           \/ job = "start" /\ table # NoServers]_vars
  <2> SUFFICES ASSUME IInv, CrewInv, [Next]_vars, ~(Orphans' \subseteq Orphans)
               PROVE  Cause
    BY DEF Cause
  <2>1. PICK p \in Orphans' : p \notin Orphans
    OBVIOUS
  <2>2. p \in Pid
    BY <2>1 DEF Orphans
  <2> QED
    BY <2>1, <2>2, OrphanStep
<1> QED
  BY <1>1, <1>2, IInvHolds, PTL DEF Spec, OrphansHaveACause

-----------------------------------------------------------------------------
(* Who answers the health check.                                            *)

\* The table names a server whose task was not misled.
Trusted(h) == table[h] # NoPid /\ table[h] \notin misled

\* A task that was not misled saw its own server up, a server that is up holds its
\* ports, and one that was up when it was recorded shares none with a server launched
\* on its host since.
PortInv ==
  /\ \A p \in Pid : pstate[p] = "ready" => p \in bound
  /\ \A p \in Pid : pstate[p] # "none" => pports[p] # {}
  /\ \A e \in Executor :
       task[e] \in {"barrier", "passed", "returned"} /\ mine[e] \notin misled =>
         pstate[mine[e]] # "loading"
  /\ \A h \in Host : Trusted(h) => pstate[table[h]] # "loading"
  /\ \A e \in Executor, h \in Host :
       Launched(e) /\ Trusted(h) /\ pstate[table[h]] = "ready"
         /\ HostOfPid(table[h]) = HostOf[e] /\ table[h] # mine[e] =>
           pports[table[h]] \cap pports[mine[e]] = {}

LEMMA HttpPortIsOne ==
  ASSUME TypeInv, NEW p \in Pid, pports[p] # {}
  PROVE  HttpPort(p) \in pports[p]
<1>1. pports[p] \subseteq Nat
  BY ConstantsAssumption DEF TypeInv, TypeOK, Port
<1>2. PICK i \in pports[p] : \A j \in pports[p] : ~(<<j, i>> \in OpToRel(<, Nat))
  BY <1>1, NatLessThanWellFounded, WFMin, Zenon
<1>3. \A j \in pports[p] : i <= j
  <2> TAKE j \in pports[p]
  <2>1. i \in Nat /\ j \in Nat
    BY <1>1
  <2>2. ~(<<j, i>> \in {ss \in Nat \X Nat : ss[1] < ss[2]})
    BY <1>2, Zenon DEF OpToRel
  <2> QED
    BY <2>1, <2>2
<1> QED
  BY <1>3 DEF HttpPort

LEMMA PortInvInit == Init => PortInv
  BY DEF Init, PortInv, Launched, Trusted, NoServers

LEMMA PortInvStep == TypeInv /\ TypeInv' /\ ServerInv /\ PortInv /\ [Next]_vars => PortInv'
<1> SUFFICES ASSUME TypeInv, TypeInv', ServerInv, PortInv, [Next]_vars PROVE PortInv'
  OBVIOUS
<1> USE ConstantsAssumption DEF TypeInv, TypeOK, ControlInv, ServerInv, PortInv, Launched, Trusted,
      NoPid, HostOfPid, driverVars, stageVars, taskVars, procVars, clusterVars
<1>1. CASE UNCHANGED vars
  BY <1>1 DEF vars
<1>2. CASE StartServers \/ StopServers \/ RejectJob
  BY <1>2 DEF StartServers, StopServers, RejectJob
<1>3. CASE SubmitStage
  BY <1>3 DEF SubmitStage
<1>4. CASE EndFailedStage \/ BarrierRelease
  BY <1>4 DEF EndFailedStage, BarrierRelease
<1>5. CASE CollectServers
  <2>1. \A h \in Host : table'[h] # NoPid => \E e \in crew : table'[h] = mine[e] /\ task[e] = "returned"
    BY <1>5 DEF CollectServers, CollectAsMap
  <2> QED
    BY <1>5, <2>1 DEF CollectServers
<1>6. CASE CollectStops
  BY <1>6 DEF CollectStops, NoServers
<1>7. ASSUME NEW e \in Executor, LaunchServer(e) PROVE PortInv'
  <2>1. PICK p \in Pid :
          /\ pstate[p] = "none"
          /\ mine' = [mine EXCEPT ![e] = p]
          /\ pstate' = [pstate EXCEPT ![p] = "loading"]
          /\ pexec' = [pexec EXCEPT ![p] = e]
          /\ pports' = [pports EXCEPT ![p] = FindPorts(HostOf[e])]
    BY <1>7 DEF LaunchServer
  <2>2. /\ task[e] = "fresh" /\ task' = [task EXCEPT ![e] = "polling"]
        /\ UNCHANGED <<table, bound, misled>>
        /\ FindPorts(HostOf[e]) # {}
    BY <1>7, FS_EmptySet DEF LaunchServer
  <2>3. \A q \in bound : HostOfPid(q) = HostOf[e] => pports[q] \cap FindPorts(HostOf[e]) = {}
    BY DEF FindPorts, InUse
  <2>4. \A h \in Host : table[h] # NoPid =>
          /\ table[h] \in Pid \ {p} /\ pstate'[table[h]] = pstate[table[h]]
          /\ pports'[table[h]] = pports[table[h]] /\ pexec'[table[h]] = pexec[table[h]]
    BY <2>1
  <2>5. \A f \in Executor \ {e} : Launched(f) =>
          /\ mine'[f] = mine[f] /\ mine[f] \in Pid \ {p}
          /\ pports'[mine[f]] = pports[mine[f]] /\ pstate'[mine[f]] = pstate[mine[f]]
    BY <2>1
  <2>6. \A q \in Pid : (pstate'[q] = "ready" => q \in bound') /\ (pstate'[q] # "none" => pports'[q] # {})
    BY <2>1, <2>2
  <2>7. \A f \in Executor :
          task'[f] \in {"barrier", "passed", "returned"} /\ mine'[f] \notin misled' =>
            pstate'[mine'[f]] # "loading"
    BY <2>2, <2>5
  <2>8. \A h \in Host : Trusted(h)' => pstate'[table'[h]] # "loading"
    BY <2>2, <2>4
  <2>9. ASSUME NEW f \in Executor, NEW h \in Host,
               Launched(f)', Trusted(h)', pstate'[table'[h]] = "ready",
               HostOf[pexec'[table'[h]]] = HostOf[f], table'[h] # mine'[f]
        PROVE  pports'[table'[h]] \cap pports'[mine'[f]] = {}
    <3>1. /\ table'[h] = table[h] /\ Trusted(h) /\ pstate[table[h]] = "ready"
          /\ pports'[table'[h]] = pports[table[h]] /\ HostOfPid(table[h]) = HostOf[f]
      BY <2>2, <2>4, <2>9
    <3>2. CASE f = e
      <4>1. table[h] \in bound
        BY <2>4, <3>1
      <4>2. pports'[mine'[f]] = FindPorts(HostOf[e])
        BY <2>1, <3>2
      <4> QED
        BY <2>3, <3>1, <3>2, <4>1, <4>2
    <3>3. CASE f # e
      BY <2>2, <2>5, <2>9, <3>1, <3>3
    <3> QED
      BY <3>2, <3>3
  <2> QED
    BY <2>6, <2>7, <2>8, <2>9
<1>8. ASSUME NEW e \in Executor, PollHealthy(e) PROVE PortInv'
  BY <1>8 DEF PollHealthy, Polls
<1>9. ASSUME NEW e \in Executor, WaitsOn(e) \/ ReturnServer(e) PROVE PortInv'
  BY <1>9 DEF WaitsOn, AskHealth, PollUnhealthy, Polls, PollRefused, RequestRaises, BarrierRaises,
              ReturnServer
<1>10. ASSUME NEW e \in Executor, GiveUp(e) PROVE PortInv'
  BY <1>10 DEF GiveUp, Terminated
<1>11. ASSUME NEW e \in Executor, StopTask(e) PROVE PortInv'
  <2>1. CASE StopUnknownHost(e) \/ StopAlreadyGone(e) \/ StopDenied(e)
    BY <2>1 DEF StopUnknownHost, StopAlreadyGone, StopDenied
  <2>2. CASE StopTerminate(e)
    BY <2>2 DEF StopTerminate, Terminated
  <2>3. CASE StopWaitEnds(e) \/ StopWaitTimesOut(e)
    BY <2>3 DEF StopWaitEnds, StopWaitTimesOut
  <2>4. CASE StopKill(e)
    <3>0. HostOf[e] \in Host /\ table[HostOf[e]] # NoPid
      BY <2>4 DEF StopKill
    <3>1. table[HostOf[e]] \in Pid
      BY <3>0
    <3>2. CASE pstate[table[HostOf[e]]] = "dead"
      BY <2>4, <3>2 DEF StopKill
    <3>3. CASE pstate[table[HostOf[e]]] # "dead"
      <4>1. /\ pstate' = [pstate EXCEPT ![table[HostOf[e]]] = "sigkill"]
            /\ task' = [task EXCEPT ![e] = "stopped"]
            /\ UNCHANGED <<table, mine, pexec, pports, bound, misled>>
        BY <2>4, <3>3 DEF StopKill
      <4>2. pstate[table[HostOf[e]]] # "none"
        BY <3>0 DEF ServerInv
      <4> QED
        BY <3>1, <4>1, <4>2
    <3> QED
      BY <3>2, <3>3
  <2> QED
    BY <1>11, <2>1, <2>2, <2>3, <2>4 DEF StopTask
<1>12. ASSUME NEW e \in Executor, KillTask(e) \/ LoseTask(e) \/ Join(e) \/ Leave(e)
       PROVE  PortInv'
  BY <1>12 DEF KillTask, LoseTask, Join, Leave
<1>13. ASSUME NEW p \in Pid, BindPorts(p) \/ BecomeReady(p) \/ ProcessEnds(p) \/ Recycle(p)
       PROVE  PortInv'
  BY <1>13 DEF BindPorts, BecomeReady, ProcessEnds, Recycle, Alive
<1> QED
  BY <1>1, <1>2, <1>3, <1>4, <1>5, <1>6, <1>7, <1>8, <1>9, <1>10, <1>11, <1>12, <1>13
     DEF Next, SparkStage, StartTask, Poll, WaitsOn

\* Tasks pass the health check in PollHealthy alone.
LEMMA PassesByPolling ==
  ASSUME TypeInv, [Next]_vars, NEW e \in Executor, task[e] # "barrier", task'[e] = "barrier"
  PROVE  PollHealthy(e)
<1>1. task \in [Executor -> TaskState]
  BY DEF TypeInv, TypeOK
<1> USE <1>1 DEF taskVars
<1>2. ~UNCHANGED task
  OBVIOUS
<1>3. ASSUME NEW f \in Executor, PollHealthy(f) PROVE f = e
  BY <1>3 DEF PollHealthy
<1>4. ASSUME NEW f \in Executor, LaunchServer(f) \/ WaitsOn(f) \/ GiveUp(f) PROVE FALSE
  BY <1>4 DEF LaunchServer, WaitsOn, AskHealth, PollUnhealthy, PollRefused, RequestRaises,
              BarrierRaises, GiveUp
<1>5. ASSUME NEW f \in Executor, ReturnServer(f) \/ KillTask(f) \/ LoseTask(f) PROVE FALSE
  BY <1>5 DEF ReturnServer, KillTask, LoseTask
<1>6. ASSUME NEW f \in Executor, StopTask(f) PROVE FALSE
  BY <1>6 DEF StopTask, StopUnknownHost, StopAlreadyGone, StopDenied, StopTerminate,
              StopWaitEnds, StopWaitTimesOut, StopKill
<1>7. CASE SubmitStage \/ EndFailedStage \/ BarrierRelease \/ CollectServers \/ CollectStops
  BY <1>7 DEF SubmitStage, EndFailedStage, BarrierRelease, CollectServers, CollectStops
<1>8. ASSUME NEW p \in Pid, ProcessEnds(p) PROVE FALSE
  BY <1>8 DEF ProcessEnds
<1> QED
  BY <1>2, <1>3, <1>4, <1>5, <1>6, <1>7, <1>8
     DEF Next, vars, SparkStage, StartTask, Poll, WaitsOn, StartServers, StopServers, RejectJob,
         Join, Leave, BindPorts, BecomeReady, Recycle

LEMMA PollHealthyIsOwnOrOrphan ==
  ASSUME HostsDistinct, TypeInv, ServerInv, CrewInv, PortInv, NEW e \in Executor, PollHealthy(e)
  PROVE  \/ pstate[mine[e]] = "ready"
         \/ Listening(e) \cap (Orphans \cup (Recorded \cap misled)) # {}
<1>0. /\ task \in [Executor -> TaskState] /\ mine \in [Executor -> Pid \cup {NoPid}]
      /\ crew \subseteq Executor /\ bound \subseteq Pid
  BY DEF TypeInv, TypeOK
<1>1. PICK q \in Listening(e) : pstate[q] = "ready"
  BY DEF PollHealthy, Healthy
<1>2. q \in Pid /\ q # NoPid /\ HostOfPid(q) = HostOf[e] /\ HttpPort(q) = HttpPort(mine[e])
  BY <1>0, <1>1 DEF Listening, Pid, NoPid
<1>3. Launched(e) /\ mine[e] \in Pid /\ pexec[mine[e]] = e /\ pstate[mine[e]] # "none"
  BY <1>0 DEF PollHealthy, Polls, Launched, TypeInv, ControlInv, ServerInv
<1> SUFFICES ASSUME q # mine[e], q \notin Orphans, q \notin Recorded \cap misled PROVE FALSE
  BY <1>1
<1>4. CASE TendedByTask(q)
  \* It is the server of another task, which would be on the same host.
  <2>1. PICK f \in crew : mine[f] = q /\ task[f] \in Running \cup {"returned"}
    BY <1>4 DEF TendedByTask
  <2>2. f \in Executor /\ Launched(f)
    BY <1>0, <1>2, <2>1 DEF CrewInv, Running, Launched
  <2>3. pexec[q] = f
    BY <2>1, <2>2 DEF ServerInv
  <2> QED
    BY <1>2, <2>1, <2>2, <2>3 DEF HostsDistinct, HostOfPid
<1>5. CASE q \in Recorded
  \* It is up, so the ports of e's server are others.
  <2>1. PICK h \in Host : table[h] = q
    BY <1>5 DEF Recorded
  <2>2. Trusted(h)
    BY <1>2, <1>5, <2>1 DEF Trusted
  <2>3. pports[q] \cap pports[mine[e]] = {}
    BY <1>1, <1>2, <1>3, <2>1, <2>2 DEF PortInv
  <2>4. HttpPort(q) \in pports[q] /\ HttpPort(mine[e]) \in pports[mine[e]]
    BY <1>1, <1>2, <1>3, HttpPortIsOne DEF PortInv
  <2> QED
    BY <1>2, <2>3, <2>4
<1>6. Live(q)
  BY <1>1 DEF Live
<1> QED
  BY <1>2, <1>4, <1>5, <1>6, OrphanIs

\* On distinct hosts a task that passes its health check talked to its own server, or to
\* one that was left behind, or to one that is recorded only because its own task had
\* been misled: never to that of another task of the stage, and never to one that was
\* up when start_servers recorded it.
THEOREM HealthCheckIsAnswered == ASSUME HostsDistinct PROVE Spec => HealthyIsOwnOrOrphan
<1>1. Spec => [](TypeInv /\ ServerInv /\ CrewInv /\ PortInv)
  <2>1. Init => TypeInv /\ ServerInv /\ CrewInv /\ PortInv
    BY TypeInvInit, ServerInvInit, CrewInvInit, PortInvInit
  <2>2. TypeInv /\ ServerInv /\ CrewInv /\ PortInv /\ [Next]_vars
          => (TypeInv /\ ServerInv /\ CrewInv /\ PortInv)'
    BY TypeInvStep, ServerInvStep, CrewInvStep, PortInvStep
  <2> QED
    BY <2>1, <2>2, PTL DEF Spec
<1>2. TypeInv /\ ServerInv /\ CrewInv /\ PortInv /\ [Next]_vars =>
        [\A e \in Executor :
           task[e] # "barrier" /\ task'[e] = "barrier" =>
             \/ pstate[mine[e]] = "ready"
             \/ Listening(e) \cap (Orphans \cup (Recorded \cap misled)) # {}]_vars
  BY PassesByPolling, PollHealthyIsOwnOrOrphan
<1> QED
  BY <1>1, <1>2, PTL DEF Spec, HealthyIsOwnOrOrphan
=============================================================================
