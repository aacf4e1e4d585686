---------------------------- MODULE ServerManager ----------------------------
(***************************************************************************)
(* The inference-server manager of the Spark-DL examples                   *)
(* (dl_inference/server_utils.py): a Spark driver starts one Triton or     *)
(* vLLM server per executor from a barrier stage, keeps a table from       *)
(* hostname to server process, and later stops the servers from a second   *)
(* barrier stage.                                                          *)
(*                                                                         *)
(* Concurrency: the tasks of a stage run in parallel with each other, with *)
(* the server processes they launched, with the servers that earlier       *)
(* stages left behind, and with the arrival and loss of executors.  Spark  *)
(* itself is external: a barrier stage runs NumExecutors tasks at once on  *)
(* distinct executors, fails as a whole when one task fails, kills the     *)
(* other tasks (not the processes those started), and is attempted         *)
(* MaxAttempts times before the job raises on the driver.                  *)
(***************************************************************************)
EXTENDS Integers, FiniteSets

CONSTANTS
  Executor,        \* every executor the cluster may ever have
  Host,            \* hostnames
  HostOf,          \* the host of each executor
  InitialMembers,  \* the executors present when the manager is constructed
  ServerKind,      \* "Triton" or "vLLM": which start task runs
  NumPorts,        \* ports one server takes: 3 for Triton, 1 for vLLM
  WaitRetries,     \* wait_retries of the start task
  MaxAttempts,     \* attempts Spark gives a barrier stage
  FaultKinds,      \* the environment faults a model admits
  MaxFaults,       \* bound: faults per behaviour
  MaxPid           \* bound: server processes ever launched

ASSUME ConstantsAssumption ==
  /\ IsFiniteSet(Executor)
  /\ HostOf \in [Executor -> Host]
  /\ InitialMembers \subseteq Executor /\ InitialMembers # {}
  /\ ServerKind \in {"Triton", "vLLM"}
  /\ NumPorts \in Nat \ {0} /\ WaitRetries \in Nat
  /\ MaxAttempts \in Nat \ {0} /\ MaxFaults \in Nat /\ MaxPid \in Nat
  /\ FaultKinds \subseteq {"lose", "join", "leave", "recycle"}

\* num_executors is read once, when the manager is constructed.
NumExecutors == Cardinality(InitialMembers)

Pid == 1 .. MaxPid
NoPid == 0
Port == 1 .. NumPorts * (MaxPid + 1)
NoServers == [h \in Host |-> NoPid]

ProcState ==
  {"none", "loading", "ready", "term", "sigkill", "dead", "foreign", "victim"}
TaskState ==
  {"none", "fresh", "polling", "asking", "reset", "barrier", "passed", "returned",
   "waiting", "killing", "stopped", "notStopped", "raised", "killed"}

VARIABLES
  members,      \* the executors Spark has now
  table,        \* _server_pids_ports: hostname -> pid, NoPid when absent
  job,          \* the driver's call in progress: "none", "start" or "stop"
  attempt,      \* stage attempts this job has used
  stageFailed,  \* a task of the current attempt has failed
  crew,         \* the executors running the current attempt's tasks
  task,         \* where each task is
  tries,        \* iterations left in each start task's wait loop
  mine,         \* the process each start task launched
  pstate,       \* the state of each server process
  pexec,        \* the executor that launched it
  pports,       \* the ports it was told to use
  bound,        \* the processes that hold their ports
  faults,       \* faults so far
  misled        \* history, for checking: the processes whose task took the
                \* answer of another one for theirs

driverVars == <<table, job>>
stageVars == <<attempt, stageFailed, crew>>
taskVars == <<task, tries, mine>>
procVars == <<pstate, pexec, pports, bound>>
clusterVars == <<members, faults, misled>>
vars == <<driverVars, stageVars, taskVars, procVars, clusterVars>>

-----------------------------------------------------------------------------
Running == {"fresh", "polling", "asking", "reset", "barrier", "passed", "waiting", "killing"}
Alive == {"loading", "ready", "term", "sigkill", "victim"}

\* The server has ended or was killed; "foreign" is another program under the
\* same pid, and "victim" that program once the manager signalled it.
EndedState == {"sigkill", "dead", "foreign", "victim"}
Ended == {p \in Pid : pstate[p] \in EndedState}

HostOfPid(p) == HostOf[pexec[p]]
Recorded == {table[h] : h \in Host} \ {NoPid}
InUse(h) == UNION {pports[p] : p \in {q \in bound : HostOfPid(q) = h}}

\* Mutant: the snapshot of connections is not consulted.
FindPortsBlindly(h) == 1 .. NumPorts

\* _find_ports: the first NumPorts ports, upwards, that no connection of the
\* snapshot uses.
FindPorts(h) ==
  LET free == Port \ InUse(h)
  IN {i \in free : Cardinality({j \in free : j < i}) < NumPorts}

\* ports[0], the port the health check and the client URL use.
HttpPort(p) == CHOOSE i \in pports[p] : \A j \in pports[p] : i <= j

\* What listens at localhost:ports[0] on the host of e's task.
Listening(e) ==
  {q \in bound : HostOfPid(q) = HostOf[e] /\ HttpPort(q) = HttpPort(mine[e])}
Healthy(e) == \E q \in Listening(e) : pstate[q] = "ready"

\* terminate() on whatever process has pid p now; nothing for one that ended.
Terminated(p) ==
  [pstate EXCEPT ![p] = IF @ \in {"loading", "ready"} THEN "term"
                        ELSE IF @ = "foreign" THEN "victim" ELSE @]

\* One host's entry of collectAsMap: of the tasks on a host, one result stays.
CollectAsMap ==
  {t \in [Host -> Pid \cup {NoPid}] :
     \A h \in Host :
       LET here == {e \in crew : HostOf[e] = h}
       IN IF here = {} THEN t[h] = NoPid ELSE \E e \in here : t[h] = mine[e]}

\* A process a task of this stage looks after, or that the driver's table names.
Tended(p) ==
  \/ p \in Recorded
  \/ \E e \in crew : mine[e] = p /\ task[e] \in Running \cup {"returned"}
Orphans == {p \in Pid : pstate[p] \in {"loading", "ready"} /\ ~Tended(p)}

-----------------------------------------------------------------------------
Init ==
  /\ members = InitialMembers
  /\ table = NoServers
  /\ job = "none" /\ attempt = 0 /\ stageFailed = FALSE /\ crew = {}
  /\ task = [e \in Executor |-> "none"]
  /\ tries = [e \in Executor |-> 0]
  /\ mine = [e \in Executor |-> NoPid]
  /\ pstate = [p \in Pid |-> "none"]
  /\ pexec = [p \in Pid |-> CHOOSE e \in InitialMembers : TRUE]
  /\ pports = [p \in Pid |-> {}]
  /\ bound = {} /\ faults = 0 /\ misled = {}

-----------------------------------------------------------------------------
(* The driver's calls.                                                     *)

\* start_servers: asked for at any time, also while servers are recorded.
\* The guard on pids is the bound that keeps a model finite.
StartServers ==
  /\ job = "none"
  /\ Cardinality({p \in Pid : pstate[p] = "none"}) >= MaxAttempts * NumExecutors
  /\ job' = "start" /\ attempt' = 0
  /\ UNCHANGED <<table, stageFailed, crew, taskVars, procVars, clusterVars>>

\* stop_servers: returns at once when the table is empty.
StopServers ==
  /\ job = "none"
  /\ table # NoServers
  /\ job' = "stop" /\ attempt' = 0
  /\ UNCHANGED <<table, stageFailed, crew, taskVars, procVars, clusterVars>>

\* Mutant: results are collected as soon as one task returned.
CollectFirstServers ==
  /\ job = "start" /\ crew # {} /\ ~stageFailed
  /\ \E e \in crew : task[e] = "returned"
  /\ table' = [h \in Host |->
       IF \E e \in crew : HostOf[e] = h /\ task[e] = "returned"
       THEN mine[CHOOSE e \in crew : HostOf[e] = h /\ task[e] = "returned"] ELSE NoPid]
  /\ job' = "none" /\ crew' = {}
  /\ task' = [e \in Executor |-> "none"] /\ mine' = [e \in Executor |-> NoPid]
  /\ UNCHANGED <<attempt, stageFailed, tries, procVars, clusterVars>>

\* The job's result: the table is replaced by what the tasks returned.
CollectServers ==
  /\ job = "start" /\ crew # {} /\ ~stageFailed
  /\ \A e \in crew : task[e] = "returned"
  /\ table' \in CollectAsMap
  /\ job' = "none" /\ crew' = {}
  /\ task' = [e \in Executor |-> "none"] /\ mine' = [e \in Executor |-> NoPid]
  /\ UNCHANGED <<attempt, stageFailed, tries, procVars, clusterVars>>

\* The job's result: the table is cleared when every task reports success.
CollectStops ==
  /\ job = "stop" /\ crew # {} /\ ~stageFailed
  /\ \A e \in crew : task[e] \in {"stopped", "notStopped"}
  /\ table' = IF \A e \in crew : task[e] = "stopped" THEN NoServers ELSE table
  /\ job' = "none" /\ crew' = {}
  /\ task' = [e \in Executor |-> "none"]
  /\ UNCHANGED <<attempt, stageFailed, tries, mine, procVars, clusterVars>>

-----------------------------------------------------------------------------
(* Spark's barrier stage (external).                                       *)

SubmitStage ==
  /\ job # "none" /\ crew = {}
  /\ \E c \in SUBSET members :
       /\ Cardinality(c) = NumExecutors
       /\ crew' = c
       /\ task' = [e \in Executor |-> IF e \in c THEN "fresh" ELSE "none"]
  /\ attempt' = attempt + 1 /\ stageFailed' = FALSE
  /\ mine' = [e \in Executor |-> NoPid]
  /\ UNCHANGED <<driverVars, tries, procVars, clusterVars>>

\* Too few slots for a barrier stage: the job raises on the driver.
RejectJob ==
  /\ job # "none" /\ crew = {}
  /\ Cardinality(members) < NumExecutors
  /\ job' = "none"
  /\ UNCHANGED <<table, stageVars, taskVars, procVars, clusterVars>>

\* Every task of a failed attempt has ended: the next attempt, or the job
\* raises and the driver's table stays as it was.
EndFailedStage ==
  /\ stageFailed /\ crew # {}
  /\ \A e \in crew : task[e] \notin Running
  /\ crew' = {}
  /\ job' = IF attempt < MaxAttempts THEN job ELSE "none"
  /\ task' = [e \in Executor |-> "none"] /\ mine' = [e \in Executor |-> NoPid]
  /\ UNCHANGED <<table, attempt, stageFailed, tries, procVars, clusterVars>>

\* Spark kills the python worker of a task whose stage failed; the server it
\* launched is a process of its own and goes on.
KillTask(e) ==
  /\ stageFailed /\ e \in crew /\ task[e] \in Running
  /\ task' = [task EXCEPT ![e] = "killed"]
  /\ UNCHANGED <<driverVars, stageVars, tries, mine, procVars, clusterVars>>

\* tc.barrier() returns in every task once every task of the stage called it.
BarrierRelease ==
  /\ job = "start" /\ crew # {} /\ ~stageFailed
  /\ \A e \in crew : task[e] = "barrier"
  /\ task' = [e \in Executor |-> IF e \in crew THEN "passed" ELSE task[e]]
  /\ UNCHANGED <<driverVars, stageVars, tries, mine, procVars, clusterVars>>

-----------------------------------------------------------------------------
(* _start_triton_server_task and _start_vllm_server_task, on executor e.   *)

\* Find ports, which goes on until there are as many as asked for, then start the
\* server process with them.
LaunchServer(e) ==
  /\ job = "start" /\ task[e] = "fresh"
  /\ Cardinality(FindPorts(HostOf[e])) = NumPorts
  /\ \E p \in Pid :
       /\ pstate[p] = "none"
       /\ \A q \in Pid : q < p => pstate[q] # "none"
       /\ mine' = [mine EXCEPT ![e] = p]
       /\ pstate' = [pstate EXCEPT ![p] = "loading"]
       /\ pexec' = [pexec EXCEPT ![p] = e]
       /\ pports' = [pports EXCEPT ![p] = FindPorts(HostOf[e])]
  /\ task' = [task EXCEPT ![e] = "polling"]
  /\ tries' = [tries EXCEPT ![e] = WaitRetries]
  /\ UNCHANGED <<driverVars, stageVars, bound, clusterVars>>

\* vLLM: requests.get(health_url) has no timeout.  Once somebody listens and takes the
\* request, the task waits for the answer.
AskHealth(e) ==
  /\ ServerKind = "vLLM" /\ task[e] = "polling" /\ tries[e] > 0
  /\ Listening(e) # {}
  /\ task' = [task EXCEPT ![e] = "asking"]
  /\ UNCHANGED <<driverVars, stageVars, tries, mine, procVars, clusterVars>>

\* When an iteration of the wait loop gets its answer: wait_for_model of Triton's client
\* has a timeout, vLLM's server answers when it likes.
Polls(e) ==
  IF ServerKind = "Triton" THEN task[e] = "polling" /\ tries[e] > 0 ELSE task[e] = "asking"

\* The port is healthy: the task calls barrier.
PollHealthy(e) ==
  /\ Polls(e) /\ Healthy(e)
  /\ task' = [task EXCEPT ![e] = "barrier"]
  /\ misled' = IF pstate[mine[e]] = "ready" THEN misled ELSE misled \cup {mine[e]}
  /\ UNCHANGED <<driverVars, stageVars, tries, mine, procVars, members, faults>>

\* Mutant: the loop waits until the server is up, however long it takes.
CaughtExceptionForever(e) ==
  tries' = [tries EXCEPT ![e] = IF pstate[mine[e]] = "dead" THEN 0 ELSE @]

\* except: leave the loop when the own process is dead, else go round again.
CaughtException(e) ==
  tries' = [tries EXCEPT ![e] = IF pstate[mine[e]] = "dead" THEN 0 ELSE @ - 1]

\* Triton's client raises.  A vLLM server that is still loading answers with a status
\* other than 200: no exception, so the task does not look whether its own process died.
PollUnhealthy(e) ==
  /\ Polls(e)
  /\ \/ /\ ServerKind = "Triton" /\ ~Healthy(e)
        /\ CaughtException(e)
     \/ /\ ServerKind = "vLLM" /\ \E q \in Listening(e) : pstate[q] = "loading"
        /\ tries' = [tries EXCEPT ![e] = @ - 1]
  /\ task' = [task EXCEPT ![e] = "polling"]
  /\ UNCHANGED <<driverVars, stageVars, mine, procVars, clusterVars>>

\* Mutant: the loop runs once too often.
PollRefusedOnceMore(e) ==
  /\ ServerKind = "vLLM" /\ task[e] = "polling"
  /\ Listening(e) = {}
  /\ tries' = [tries EXCEPT ![e] = @ - 1]
  /\ UNCHANGED <<driverVars, stageVars, task, mine, procVars, clusterVars>>

\* vLLM: nobody listens, and the connection is refused.
PollRefused(e) ==
  /\ ServerKind = "vLLM" /\ task[e] = "polling" /\ tries[e] > 0
  /\ Listening(e) = {}
  /\ CaughtException(e)
  /\ UNCHANGED <<driverVars, stageVars, task, mine, procVars, clusterVars>>

\* Whoever had the request ended without an answer, and the connection with it.
RequestRaises(e) ==
  /\ task[e] = "reset"
  /\ CaughtException(e)
  /\ task' = [task EXCEPT ![e] = "polling"]
  /\ UNCHANGED <<driverVars, stageVars, mine, procVars, clusterVars>>

\* The stage failed while this task waited in barrier(): the call raises, and
\* the handler of the wait loop catches it like a failed poll.
BarrierRaises(e) ==
  /\ task[e] = "barrier" /\ stageFailed
  /\ CaughtException(e)
  /\ task' = [task EXCEPT ![e] = "polling"]
  /\ UNCHANGED <<driverVars, stageVars, mine, procVars, clusterVars>>

\* Mutant: the task raises without terminating its server.
GiveUpOnly(e) ==
  /\ task[e] = "polling" /\ tries[e] = 0
  /\ task' = [task EXCEPT ![e] = "raised"]
  /\ stageFailed' = TRUE
  /\ UNCHANGED <<driverVars, attempt, crew, tries, mine, procVars, clusterVars>>

\* The loop is over without success: terminate the server and raise.
GiveUp(e) ==
  /\ task[e] = "polling" /\ tries[e] = 0
  /\ pstate' = Terminated(mine[e])
  /\ task' = [task EXCEPT ![e] = "raised"]
  /\ stageFailed' = TRUE
  /\ UNCHANGED <<driverVars, attempt, crew, tries, mine, pexec, pports, bound, clusterVars>>

\* return [(hostname, (process.pid, ports))].
ReturnServer(e) ==
  /\ task[e] = "passed"
  /\ task' = [task EXCEPT ![e] = "returned"]
  /\ UNCHANGED <<driverVars, stageVars, tries, mine, procVars, clusterVars>>

-----------------------------------------------------------------------------
(* _stop_server_task, on executor e.                                       *)

\* Mutant: a host without a pid has nothing to stop.
StopUnknownHostQuietly(e) ==
  /\ job = "stop" /\ task[e] = "fresh"
  /\ table[HostOf[e]] = NoPid
  /\ task' = [task EXCEPT ![e] = "stopped"]
  /\ UNCHANGED <<driverVars, stageVars, tries, mine, procVars, clusterVars>>

\* The assertion that the table has a pid for this host fails.
StopUnknownHost(e) ==
  /\ job = "stop" /\ task[e] = "fresh"
  /\ table[HostOf[e]] = NoPid
  /\ task' = [task EXCEPT ![e] = "raised"]
  /\ stageFailed' = TRUE
  /\ UNCHANGED <<driverVars, attempt, crew, tries, mine, procVars, clusterVars>>

\* psutil.Process(pid) raises NoSuchProcess: nothing is left to stop.
StopAlreadyGone(e) ==
  /\ job = "stop" /\ task[e] = "fresh"
  /\ table[HostOf[e]] # NoPid /\ pstate[table[HostOf[e]]] = "dead"
  /\ task' = [task EXCEPT ![e] = "stopped"]
  /\ UNCHANGED <<driverVars, stageVars, tries, mine, procVars, clusterVars>>

\* The pid belongs to another user's program by now: terminate() raises, and
\* no handler of the task catches that.
StopDenied(e) ==
  /\ job = "stop" /\ task[e] = "fresh"
  /\ table[HostOf[e]] # NoPid /\ pstate[table[HostOf[e]]] = "foreign"
  /\ task' = [task EXCEPT ![e] = "raised"]
  /\ stageFailed' = TRUE
  /\ UNCHANGED <<driverVars, attempt, crew, tries, mine, procVars, clusterVars>>

\* terminate(), whatever process has that pid by now, then wait for its end.
StopTerminate(e) ==
  /\ job = "stop" /\ task[e] = "fresh"
  /\ LET p == table[HostOf[e]]
     IN /\ p # NoPid /\ pstate[p] # "dead"
        /\ pstate' = Terminated(p)
  /\ task' = [task EXCEPT ![e] = "waiting"]
  /\ UNCHANGED <<driverVars, stageVars, tries, mine, pexec, pports, bound, clusterVars>>

StopWaitEnds(e) ==
  /\ task[e] = "waiting" /\ pstate[table[HostOf[e]]] = "dead"
  /\ task' = [task EXCEPT ![e] = "stopped"]
  /\ UNCHANGED <<driverVars, stageVars, tries, mine, procVars, clusterVars>>

\* wait() runs out of time while the process is still there.
StopWaitTimesOut(e) ==
  /\ task[e] = "waiting" /\ pstate[table[HostOf[e]]] # "dead"
  /\ task' = [task EXCEPT ![e] = "killing"]
  /\ UNCHANGED <<driverVars, stageVars, tries, mine, procVars, clusterVars>>

\* kill(), which does not wait; a process that ended since the timeout makes
\* it raise, and the task reports failure.
StopKill(e) ==
  /\ task[e] = "killing"
  /\ LET p == table[HostOf[e]]
     IN IF pstate[p] = "dead"
        THEN /\ task' = [task EXCEPT ![e] = "notStopped"]
             /\ UNCHANGED pstate
        ELSE /\ task' = [task EXCEPT ![e] = "stopped"]
             /\ pstate' = [pstate EXCEPT ![p] = "sigkill"]
  /\ UNCHANGED <<driverVars, stageVars, tries, mine, pexec, pports, bound, clusterVars>>

-----------------------------------------------------------------------------
(* The server processes (external).                                        *)

\* The server binds the ports it was given; when another process took one of
\* them since the snapshot, it exits.
BindPorts(p) ==
  /\ pstate[p] = "loading" /\ p \notin bound
  /\ IF pports[p] \cap InUse(HostOfPid(p)) = {}
     THEN bound' = bound \cup {p} /\ UNCHANGED pstate
     ELSE pstate' = [pstate EXCEPT ![p] = "dead"] /\ UNCHANGED bound
  /\ UNCHANGED <<driverVars, stageVars, taskVars, pexec, pports, clusterVars>>

BecomeReady(p) ==
  /\ pstate[p] = "loading" /\ p \in bound
  /\ pstate' = [pstate EXCEPT ![p] = "ready"]
  /\ UNCHANGED <<driverVars, stageVars, taskVars, pexec, pports, bound, clusterVars>>

\* A process ends: by itself (no memory for the model, a crash) or signalled.  The
\* requests it had not answered are reset.
ProcessEnds(p) ==
  /\ pstate[p] \in Alive
  /\ pstate' = [pstate EXCEPT ![p] = "dead"]
  /\ bound' = bound \ {p}
  /\ task' = [e \in Executor |->
       IF task[e] = "asking" /\ p \in Listening(e) THEN "reset" ELSE task[e]]
  /\ UNCHANGED <<driverVars, stageVars, tries, mine, pexec, pports, clusterVars>>

-----------------------------------------------------------------------------
(* Faults of the environment, at most MaxFaults.                           *)

Fault(kind) == kind \in FaultKinds /\ faults < MaxFaults /\ faults' = faults + 1

\* A task dies with its worker, and its executor may be lost with it.
LoseTask(e) ==
  /\ Fault("lose")
  /\ e \in crew /\ task[e] \in Running
  /\ task' = [task EXCEPT ![e] = "killed"]
  /\ stageFailed' = TRUE
  /\ members' \in {members, members \ {e}}
  /\ UNCHANGED <<driverVars, attempt, crew, tries, mine, procVars, misled>>

\* Dynamic allocation adds an executor, or releases one that runs no task.
Join(e) ==
  /\ Fault("join")
  /\ e \notin members /\ members' = members \cup {e}
  /\ UNCHANGED <<driverVars, stageVars, taskVars, procVars, misled>>

Leave(e) ==
  /\ Fault("leave")
  /\ e \in members \ crew /\ members' = members \ {e}
  /\ UNCHANGED <<driverVars, stageVars, taskVars, procVars, misled>>

\* Between two calls of the driver the operating system gives the pid of an
\* ended server to another program.
Recycle(p) ==
  /\ Fault("recycle")
  /\ job = "none" /\ pstate[p] = "dead"
  /\ pstate' = [pstate EXCEPT ![p] = "foreign"]
  /\ UNCHANGED <<driverVars, stageVars, taskVars, pexec, pports, bound, members, misled>>

-----------------------------------------------------------------------------
Poll(e) == PollHealthy(e) \/ PollUnhealthy(e)
StartTask(e) ==
  \/ LaunchServer(e) \/ AskHealth(e) \/ PollRefused(e) \/ RequestRaises(e)
  \/ BarrierRaises(e) \/ GiveUp(e) \/ ReturnServer(e)
StopTask(e) ==
  \/ StopUnknownHost(e) \/ StopAlreadyGone(e) \/ StopDenied(e) \/ StopTerminate(e)
  \/ StopWaitEnds(e) \/ StopWaitTimesOut(e) \/ StopKill(e)
SparkStage ==
  \/ SubmitStage \/ RejectJob \/ EndFailedStage \/ BarrierRelease
  \/ CollectServers \/ CollectStops

Next ==
  \/ StartServers \/ StopServers \/ SparkStage
  \/ \E e \in Executor :
       StartTask(e) \/ Poll(e) \/ StopTask(e) \/ KillTask(e) \/ LoseTask(e) \/ Join(e) \/ Leave(e)
  \/ \E p \in Pid : BindPorts(p) \/ BecomeReady(p) \/ ProcessEnds(p) \/ Recycle(p)

Spec == Init /\ [][Next]_vars

\* Tasks go on until they end, Triton's polls by their timeout, and Spark schedules
\* stages.  Nothing is assumed of the servers, which need not answer vLLM's polls, of
\* the kills, the faults or the caller.
Goes(e) == StartTask(e) \/ StopTask(e) \/ (ServerKind = "Triton" /\ Poll(e))
Fairness == WF_vars(SparkStage) /\ \A e \in Executor : WF_vars(Goes(e))
FairSpec == Spec /\ Fairness

-----------------------------------------------------------------------------
(* Properties.                                                             *)

\* One executor per host, the layout every guide of the repository sets up.
HostsDistinct == \A e, f \in Executor : HostOf[e] = HostOf[f] => e = f

\* Every variable has its type, and the processes named by tasks and by the
\* table were launched.
TypeOK ==
  /\ members \subseteq Executor /\ crew \subseteq Executor
  /\ table \in [Host -> Pid \cup {NoPid}]
  /\ job \in {"none", "start", "stop"}
  /\ attempt \in 0 .. MaxAttempts /\ stageFailed \in BOOLEAN
  /\ task \in [Executor -> TaskState]
  /\ tries \in [Executor -> 0 .. WaitRetries]
  /\ mine \in [Executor -> Pid \cup {NoPid}]
  /\ pstate \in [Pid -> ProcState]
  /\ pexec \in [Pid -> Executor]
  /\ pports \in [Pid -> SUBSET Port]
  /\ bound \subseteq Pid
  /\ faults \in 0 .. MaxFaults
  /\ misled \subseteq Pid

\* With one executor per host the table is never partial: it is empty or names
\* one process for each of NumExecutors hosts, launched on that very host, and
\* no process twice (ServerManager.start_servers, collectAsMap).
TableWhole ==
  /\ Cardinality({h \in Host : table[h] # NoPid}) \in {0, NumExecutors}
  /\ \A h \in Host : table[h] # NoPid => HostOfPid(table[h]) = h

\* With one executor per host, stop_servers forgets the servers only after each
\* of them has ended or was killed, although executors may have come and gone
\* since the start and each stop task picks its server by where it runs.
StopIsComplete ==
  [][table' = NoServers => Recorded \subseteq Ended']_table

\* With one executor per host, a server that nobody tends any more comes from a
\* failed stage, from a lost or killed task, or from start_servers over a table that
\* was not empty: a task that gives up never leaves its own server behind (the
\* "dangling server processes" of the start tasks), and stopping never does.
OrphansHaveACause ==
  [][~(Orphans' \subseteq Orphans) =>
       \/ stageFailed
       \/ \E e \in Executor : task'[e] = "killed" /\ task[e] # "killed"
       \/ job = "start" /\ table # NoServers]_vars

\* With one executor per host, a start task that finds its port healthy talks to
\* the server it launched, unless one that an earlier attempt on the same host left
\* behind won the race for the port, or one that the table names only because its
\* own task was misled before.  So the first to be misled is so by an orphan, and a
\* server that was up when it was recorded never misleads anybody.
HealthyIsOwnOrOrphan ==
  [][\A e \in Executor :
       task[e] # "barrier" /\ task'[e] = "barrier" =>
         \/ pstate[mine[e]] = "ready"
         \/ Listening(e) \cap (Orphans \cup (Recorded \cap misled)) # {}]_vars

\* Every call of the driver returns or raises, unless a request of vLLM's wait loop is
\* never answered: the wait loops are bounded, no task waits in the barrier of a failed
\* stage for ever, and Triton's servers need not answer.
CallsReturn ==
  \/ []<>(job = "none")
  \/ \E e \in Executor : <>[](task[e] = "asking")

\* With one executor per host the manager implements its promise.
Lifecycle == INSTANCE ServerLifecycle WITH Size <- NumExecutors, ended <- Ended
LifecycleSpec == Lifecycle!Spec

(* What comments and docstrings of server_utils.py say.                    *)

\* "Wait for server to start": the loop ends well only when the server this
\* task launched is up.
HealthyIsOwn ==
  [][\A e \in Executor :
       task[e] # "barrier" /\ task'[e] = "barrier" => pstate[mine[e]] = "ready"]_vars

\* "Stop all servers across the cluster": when stop_servers reports success no
\* server the manager started is left running.
StopStopsAll ==
  [][table' = NoServers => \A p \in Pid : pstate'[p] \notin {"loading", "ready"}]_table

\* "Number of servers to manage (= # of executors)": when start_servers returns,
\* the table names the server of every task.
EveryServerRecorded ==
  [][job = "start" /\ job' = "none" /\ ~stageFailed /\ crew # {} =>
       \A e \in crew : \E h \in Host : table'[h] = mine[e]]_vars
=============================================================================
