# Formal models of spark-rapids-examples

TLA+ models of the parts of this repository that have state, concurrency or
failure: model-checked with TLC on small instances, and but for liveness proved with
TLAPS for every size. `PROJECT.json` lists the components, the runs, the mutants,
the source lines each definition stands for, the findings and the hazards.

Paths below are relative to `src/examples/` unless they begin with `src/`.

## Inventory

| Component | Source | State | Operations | Modelled |
|---|---|---|---|---|
| Inference server manager | `ML+DL-Examples/Spark-DL/dl_inference/server_utils.py` | the driver's `num_executors` and `_server_pids_ports`; per task a wait loop and a process; the servers and their ports | `start_servers`, `stop_servers`, the start tasks of Triton and vLLM, the stop task | `ServerManager`, `ServerLifecycle` |
| YARN MIG device plugin | `MIG-Support/device-plugins/gpu-mig/` | `migDevices`, `migInfoOutput`, `shouldThrowOnMultipleGPUFromEnv` | `getDevices`, `allocateDevices`, `onDevicesAllocated`, `onDevicesReleased` | `MigDiscovery`, `MigPlugin` |
| MIG scripts for unmodified YARN | `MIG-Support/yarn-unpatched/scripts/` | none but the environment; YARN keeps the numbers | the wrappers of `nvidia-smi` and `nvidia-container-cli`, `mig2gpu.sh` | `Mig2Gpu` |
| YARN MIG patches | `MIG-Support/resource-types/gpu-mig/*.patch` | `useMIGEnabledGPUs`, the allowed devices, the announced devices | discovery, parsing of the allowed devices, the docker command | `YarnMigPatch` |
| RAPIDS-accelerated UDFs | `UDF-Examples/RAPIDS-accelerated-UDFs/src/main/` | `NativeUDFExamplesLoader.isLoaded` | row and columnar evaluation of each UDF, the load of the native library | `RapidsUdfs` |
| Customer churn | `SQL+DF-Examples/customer-churn/notebooks/python/` | `currencyType`, the tables on disk, the global view `customers` | two notebooks: `augment.py` takes a table apart, `etl.py` joins it again | `ChurnAugment`, `ChurnEtl`, `ChurnPipeline` |
| MIG discovery script | `MIG-Support/device-plugins/gpu-mig/scripts/getMIGGPUs` | none | prints the resources of Spark's discovery | no |
| XGBoost applications | `XGBoost-Examples/` | arguments | argument and path checks, train and transform, ETL mains | no |
| Mortgage ETL | `XGBoost-Examples/mortgage/` | `dataFrame` and `cachedDictDF` of singletons | `prepare`, `createDelinquency`, the dictionary | no |
| EMR start-up script | `src/scripts/csp-startup-scripts/emr/` | its own template on disk, S3 | fill in the template, upload, create the cluster | no |
| Taxi ETL, encoding scripts, cluster scripts, other notebooks, test helpers | | none of their own | straight-line jobs | no |

The last column's "no" is explained under "Not modelled".

### How the parts interact

The server manager is the one distributed program here. A driver calls
`start_servers` and `stop_servers`; each call runs one Spark barrier stage of
`num_executors` tasks, one task per executor. A start task picks ports, launches a
server process, polls a URL on localhost, meets the other tasks in `barrier()` and
returns its hostname, pid and ports; the results become the driver's table. A stop
task looks up the pid of the host it runs on. Servers outlive the tasks that
launched them: that is the purpose, and also how servers get lost.

The MIG parts are three alternative ways to give YARN containers a MIG instance
each. In all three, one piece of code lists the devices and another, at another time
and in another process or thread, turns a device YARN has assigned into the name the
container runtime wants. The plugin carries the mapping in `migDevices`; the scripts
recompute it; the patched YARN has it in the device. `DeviceAssignment` says what all
three promise, and each of the three modules is checked to implement it.

The two churn notebooks interact through five tables on disk, and nothing but the
order in which somebody runs their cells keeps the reader of the tables apart from
the writer. The UDFs of one executor's tasks share a JVM, and so the native
library and the flag that says it is loaded; each UDF has two implementations
between which Spark chooses per operation.

### What is hard

- interleavings of tasks, of the servers they launched, of the servers left by an
  earlier attempt, and of executors that come and go;
- partial failure: one task of a barrier stage fails, the rest are killed and the
  stage is tried again over what they left running;
- time: bounded waits, a timeout that races with the end of the process it waits for;
- values read early and used late: `num_executors`, pids, the snapshot of ports,
  `migInfoOutput`, the plugin's setting taken from another container, the currency
  type, the view of customers;
- two programs that must be each other's inverse, or the same function: the numbering
  of devices, the tables taken apart and joined, rows and columns;
- boundaries: the last line of a listing, GPU 1 and GPU 10, the last retry, an entry of
  two or three parts, the 65th birthday, a list of length zero beside a null.

`PROJECT.json` "hazards" has each at its line with the properties that cover it.

### What makes each part correct

- *Server manager*: the table is all or nothing; every entry was launched on its
  host; success of `stop_servers` means its servers are gone; a server nobody tends
  any more has one of three known causes; a healthy answer comes from the task's own
  server or from one left behind; every call returns, unless a server leaves a request
  without an answer.
- *Device plugin*: each visible slice of hardware becomes one device, and the name
  given to a container is that slice; containers share nothing; each gets as many
  as it asked for; a container gets several, or is refused, only because somebody
  set it so.
- *Scripts*: the reverse mapping undoes the numbering; containers share nothing.
- *Patches*: what is announced is apart, unless the list itself names hardware twice;
  containers share nothing; each container's own setting decides about several GPUs.
- *Churn*: the joins undo the taking apart; every customer has one row, or two for one
  known reason, whatever is on disk; charges are consecutive and follow the creation of the account; the
  senior citizens are found again.
- *UDFs*: it does not matter on which side an operation runs; the library is loaded
  once, and before it is used.

## Modules

| Module | What it is |
|---|---|
| `ServerManager` | the server manager with Spark, the processes and the faults around it |
| `ServerLifecycle` | what the manager promises its caller; `ServerManager` refines it |
| `ServerManager_proofs` | the theorems about `ServerManager` |
| `MCServerManager` | placements of executors on hosts for TLC |
| `MigDevices` | GPUs, MIG instances and their order, shared by the MIG modules |
| `DeviceAssignment`, `DeviceAssignment_proofs` | what every MIG variant promises; `MigPlugin`, `Mig2Gpu` and `YarnMigPatch` refine it |
| `MigDiscovery` | the loops of the plugin's `getDevices`; a component of `MigPlugin` |
| `MigPlugin`, `MCMigPlugin`, `MigPlugin_proofs` | the whole plugin: discovery, then containers; TLC's hosts and containers; the theorems |
| `Mig2Gpu`, `MCMig2Gpu`, `Mig2Gpu_proofs` | the scripts for an unmodified YARN; TLC's bounds; the theorems |
| `DataLemmas` | lemmas about sequences and recursive functions that several proof modules cite |
| `YarnMigPatch`, `MCYarnMigPatch`, `YarnMigPatch_proofs` | YARN with each of the three patches; TLC's lists and containers; the theorems |
| `CivilCalendar` | days, months and years as Spark SQL has them (external) |
| `ChurnAugment`, `ChurnEtl` | the operators of `augment.py` and `etl.py` on tables |
| `ChurnPipeline`, `MCChurnPipeline`, `ChurnPipeline_proofs` | the two notebooks, cell by cell, over the tables on disk; TLC's customers, days and ages; the theorems |
| `RapidsUdfs`, `MCRapidsUdfs`, `RapidsUdfs_proofs` | the UDFs by rows and by columns, and the loader; TLC's batches; the theorems |

### ServerManager

| Code | Model |
|---|---|
| `num_executors` (counted once, in the constructor) | `NumExecutors`, of `InitialMembers` |
| `_server_pids_ports` | `table`: hostname to pid; the ports are `pports[pid]` |
| a start task | `task[e]` goes fresh, polling (and asking, for vLLM), barrier, passed, returned; `tries[e]` are the iterations left; `mine[e]` its process |
| `_find_ports`, `Process.start` / `Popen` | `LaunchServer`, with `FindPorts` over the ports bound on that host now |
| the wait loop | `PollHealthy`, `PollUnhealthy`, `CaughtException`, `BarrierRaises` |
| vLLM's request without a timeout | `AskHealth`: whoever listens has it; then the answer (`PollHealthy`, `PollUnhealthy`), the end of the server (reset, `RequestRaises`), or nothing ever; `PollRefused` when nobody listens |
| terminate and raise | `GiveUp` |
| a stop task | fresh, waiting, killing, then stopped, notStopped or raised: the `Stop...` actions |
| `collectAsMap`, `collect` | `CollectServers`, `CollectStops` |
| barrier scheduling, retries, kills | `SubmitStage`, `RejectJob`, `EndFailedStage`, `KillTask`, `BarrierRelease` (external) |
| a server process | `pstate[p]`: loading, ready, term (signalled), sigkill, dead, foreign (another program has its pid), victim (that program was signalled) |

Details that matter and are kept: the port snapshot sees bound ports only;
`barrier()` is called inside the `try`, so its exception is treated as a failed poll;
vLLM's health check can answer without an exception while Triton's cannot, so only
the Triton loop always looks whether its process died; the loop gives up on a dead
process only from the `except` branch; `wait()` may time out at any moment while the
process is there; `kill()` does not wait; the stop task trusts the pid, and raises
when the pid is another user's by then (`StopDenied`: `AccessDenied` from
`terminate()` is caught nowhere). `_find_ports` goes upwards until it has enough
ports, so a server is always given `NumPorts` of them; the model has as many ports as
all its servers could hold. `misled` is a history variable: the processes whose task took another
server's answer for theirs. No action reads it; `HealthyIsOwnOrOrphan` does.

Abstracted: time (a poll or a wait takes as long as it likes, and one without a timeout
may take for ever), the numbers of ports
(1, 2, ... for 7000, 7001, ...), and a process id is used once, except that the
operating system may give an ended server's pid to another program.

### MigDiscovery, MigPlugin, Mig2Gpu

`MigDiscovery` has the loop variables of `getDevices` as variables and one action
per turn of each loop; the GPUs are the lines of `--query-gpu`, and `ListGpus` is the
output of `nvidia-smi -L`. Whether a line begins a GPU's section is a comparison of
prefixes in the code; `BeginningsOf` has the numbers whose line a GPU's number is a prefix of
(1 is one of 10, 11, ..., for any number of GPUs). Only a line that matches the regular
expression moves the inner loop on; `Unmatched` has the instances whose line begins with
`MIG` and does not, in any number, and at such a line of a visible GPU the loop goes
round for ever: the model has no step there (`AtUnmatched`). `MigPlugin` extends it: its action `Discover` is a step of
discovery, which the node manager runs before it takes containers, and may run again
on the same object. Then it interleaves `allocateDevices` (under the node manager's lock) with `onDevicesAllocated` (from the
thread that launches the container) for several containers. `Mig2Gpu` has the two
wrapper scripts as operators over the same listing, and containers, restarts of the
node manager and new splits of the GPUs as actions around them.

External and taken from how the code uses it: YARN assigns a device to one container
at a time; `nvidia-smi` lists GPUs by index and instances by index; the driver refuses to split a GPU anew while it is in use.

### YarnMigPatch

The three patches share one module: `version` chooses. Discovery is a loop over the
GPUs (`DiscoverGpu`) or over the entries of the allowed list (`AddEntry`,
`FailOnEntry`); a device is `<<index, minor, MIG index>>`. The cases of an entry are
kept one by one: parts that are no number, that are missing, or that are too many; MIG
used or not; fail-fast or not. Worth knowing: without fail-fast the patch for 3.2.1
reports an entry of a wrong length as ignored and then goes on with it, so that an
entry of four parts becomes a whole GPU (there is no `continue` after
`throwIfNecessary`), and the patch for 3.1.2 has no check for repeated entries. The
properties are stated with these: `AnnouncedIsApart` holds when the entries *as the
patch reads them* do not overlap, and excepts 3.1.2's repeated devices. Two equal
devices do no harm: YARN keys its maps by `compareTo`, so they are one device to it.
YARN's assignment is external (`AssignGpus`), the docker command is not.

### ChurnAugment, ChurnEtl, ChurnPipeline

A table is a set of rows, a join a set of rows for each match or one with nulls. Frames
are bags, and `union` keeps equal rows. That matters in one place: `internet_features`
lists `InternetService` among the features although its rows are there already, so a
customer whose value is "Yes" has that row twice (`augment.py:342-346` and `350-365`), and
the ETL makes two rows of the wide table of it. The rows carry which of the two they are
(`copy`), and the rows joined to them which one they were made with (`match`). No other
table can have equal rows: its rows have a customer's one value of a feature, or a date.
`ChurnPipeline` has the state: a cell pointer for the augmentation notebook, which may
be interrupted anywhere and run again with other options in the same process or a new
one, and the frames the ETL notebook has read. Overwriting a table is two steps,
since a reader may come between; frames are evaluated when the result is written, and
that fails if a table was replaced meanwhile, so the notebook is run again.

Abstracted: the date of an event is its month, a date of birth a day; amounts are
integers of which `Cent` make a cent, so that the rounding of decimals and its absence
for doubles are both there; columns that are copied on both sides without a case
distinction (gender, Partner, Dependents, MonthlyCharges, PaymentMethod) are left out;
the hash of a customer's id that chooses the age is a function `Ages` chosen by TLC.
`_get_uniques` draws from a generator with a fixed seed, so its strings are the same
in every run, and its assertion that none repeats cannot fail for the numbers used.
The joins can only undo the taking apart if the columns that depend on a service say so
when there is none; `ChurnSourceAssumption` says this of the source (`Consistent`), which
TLC evaluates on the customers of the run.

### RapidsUdfs

Every batch of `Batches` is evaluated by two tasks, each by rows or by columns. A
column of lists has offsets, a child and a null mask, as the C++ code sees it; a
cosine is the three sums it is made of, so no floating point is compared. The word
count is a fold by rows and a scan with an index by columns, as in the code.
`FallBackIsInvisible` excepts (`Unlike`) three kinds of input on which the two are
*not* the same function: decimals below zero with a fraction (`toBigInteger` truncates
towards zero, `floor` goes down), malformed URLs (the row
implementation returns the string as it was, the columnar one has already replaced its
plus signs), and lists with null entries, which the code says it does not support. The
tests generate no negative decimals and no malformed URLs. What cudf's operations do
is external. A string is a sequence over any set of characters (`Char`) with a space and
an `A` in it; the escape `%41`, which decodes to the latter, is a character too. The loops of
the code are recursive functions over positions, so that they can be reasoned about.
Not kept: a list column with an offset into its parent.

## Runs

| Run | Question | Bounds | Result |
|---|---|---|---|
| `ServerManager_members` | is the table whole, is stopping complete, and who answers a health check, when executors come and go and pids are reused? | Triton; 3 executors, 2 at construction; 1 join, leave or reused pid; 1 attempt; 3 ports each; 4 processes | holds |
| `ServerManager_failures` | is `ServerLifecycle` implemented under failures and retries, what leaves servers behind, and does every call return, if requests are answered? | vLLM; 2 executors, 2 attempts, 1 lost task, 4 processes; fair | holds |
| `ServerManager_impostor` | is a healthy answer the own server's? | 2 attempts, 1 lost task | **no** |
| `ServerManager_leftover` | does `stop_servers` stop all servers? | same | **no** |
| `ServerManager_sharedhost` | is every server recorded? | 2 executors on one host | **no** |
| `MigPlugin` | do the devices match the hardware, do the loops end but at a line that does not match, is `DeviceAssignment` implemented, are containers served in full? | 11 GPUs, 128 hosts, the line of GPU 0's second instance does not match, 2 calls of `getDevices`, 3 containers | holds |
| `MigPlugin_own` | does a container's own setting decide? | same | **no** |
| `Mig2Gpu` | do the two scripts agree, and implement `DeviceAssignment`? | 2 GPUs, up to 2 instances each, every environment, 2 containers | holds |
| `YarnMigPatch` | what do the patches announce, do they implement `DeviceAssignment`, and does a container's own setting decide? | 3 patches, 2 GPUs split in every way, all lists of 2 entries out of 10 kinds, 3 containers | holds |
| `ChurnPipeline` | do the joins undo the taking apart, and what do they make of the tables of two runs? | 4 customers of different kinds beside 2 fixed ones, 2 runs of the augmentation, 1 or 2 replicas, 2 days, 2 sets of ages | holds |
| `ChurnPipeline_seniors` | are the senior citizens found again? | same | **no** |
| `RapidsUdfs` | do rows and columns agree, and is the library loaded once, and before use? | every batch of up to 2 rows over short strings, vectors and decimals of one digit; 2 tasks, 1 failed load | holds |

The runs that are violated each state what a comment, a docstring or a guide says;
`PROJECT.json` "findings" quotes it and says what the code does.

### Why the bounds are enough

`ServerManager_members` treats the executors present at construction as
interchangeable: each host is called by its executor's name there, nothing in the module
tells two executors apart, and the run checks no liveness.

Two executors show every pairwise interleaving; a third, absent at construction,
shows a stop stage on another set of executors than the start stage. Two attempts
show a retry over what the first left; four processes are two full attempts, or two
starts. `WaitRetries = 1` has the first, the last and the failing iteration in one;
the proofs cover any number. One fault is enough for each cause of a lost server, and
for a stop stage on other executors than the start stage: a third executor that joins
may take a task. Three ports each make the sets of two servers of a host overlap in
part. A pid reused by another program is a fault of the members run: the manager then
signals that program, which the model follows (`foreign`, `victim`), or is denied;
the properties admit both, since nothing in the code tells the two apart. Eleven GPUs
are the fewest at which one GPU's line begins like another's. That a line does not match
matters in the hosts on which GPU 0 is visible and has a second instance; the others
show the loops without. `StartServers` is
disabled when too few process ids are left (`MaxPid`): this ends behaviours early, hence no deadlock check;
the manager is also allowed to rest. (The other modules end too: when every container or
task has ended, or the notebooks were run `MaxRuns` times; and `getDevices` at a line
that does not match takes no further step of the model.)

`YarnMigPatch`: whether two entries clash is a question about two, and the ten kinds
cover each branch of the parsing. `ChurnPipeline`: the five tables are made from
different columns, so the customers need not have every combination of values; one
customer of each kind meets every branch of the dependent columns, and one has the
InternetService "Yes" that the published file does not have but the code admits. Two runs of
the augmentation are what it takes to mix tables. The ages are the ends of what the
code makes, and one more. `RapidsUdfs`: in two rows every row meets a null, an empty
and a longer neighbour, which is what offsets can go wrong about; strings of four characters have a
second word and spaces at both ends.

### Fairness

Only `ServerManager_failures` and `MigPlugin` assume any. Tasks are threads that run
until they end, and Spark schedules stages: weak fairness of `SparkStage` and of what each executor's task does by itself
(`Goes`). A poll of Triton's wait loop is among it, since `wait_for_model` is given a
timeout. The answer to a poll of vLLM's is not: `requests.get(health_url)` has no timeout
(`server_utils.py:206`), so that it ends when the server answers or ends, and servers, like
faults and the caller, have no fairness: a server may never get ready, never answer and
never end. That is why `CallsReturn` has a second case, a task that is asking for ever,
which only vLLM's can be, and which the run has: `server_utils.py:367` calls `wait_timeout` a
"Timeout in seconds for each retry", but for vLLM it is only slept before the request.
`KillTask` has no fairness either: the code must not depend on it, and does not, since the
exception of `barrier()` ends the waiting tasks. `getDevices` is sequential code: weak
fairness of its steps in `MigPlugin`; none for the containers.

## Theorems

Each is for every value of the constants that the module's assumption admits. None
assumes anything of the environment beyond the actions of the module.

`ServerManager_proofs`, for any finite set of executors and any number of ports,
retries, attempts, faults and processes (`ConstantsAssumption`). All but `TypeCorrect`
assume `HostsDistinct` (one executor per host), which is not an assumption of the
module: run `ServerManager_sharedhost` shows what happens without it.

- `TypeCorrect`: `Spec => []TypeOK`. `TypeOK` is not inductive: that `tries` never
  gets negative needs that a task that has made a request, or is in `barrier()`, has an
  iteration left, that
  `attempt` never exceeds its limit needs that a stage still to be submitted has an
  attempt left, and the stop task's lookup needs that it found its pid in the table.
  `ControlInv` says so, and `TypeInv` is the conjunction.
- `TableIsWhole`, `StopCompletes`: `Spec => []TableWhole` and
  `Spec => StopIsComplete`. `IInv` adds `ServerInv`
  (a task's process was launched by its own executor, a task that reported success
  saw its process ended, an entry names a process of its host) and `SizeInv` (no
  entry or `NumExecutors`). The core is counting: the stop tasks are as many as the
  entries, they run on distinct hosts (`OneHostEach`, a bijection), each of them
  found an entry, so together they cover all entries (`CollectStopsIsComplete`), and
  an ended process stays ended (`EndedGrows`).
- `ImplementsLifecycle`: `Spec => Lifecycle!Spec`, with
  `Ended` for the abstract variable: collecting the servers is `Publish`, collecting
  full success is `Clear`, and every other step is `End` or stutters.
- `OrphansComeFromFailures`: `Spec => OrphansHaveACause`. A live server that loses its
  last guardian was recorded or tended before the step (`LiveComesFromLaunch`); if the
  table changed, collecting recorded it (`CollectServersTends`) or it had ended
  (`CollectStopsTends`, by the counting above); otherwise its task let it go, and of
  all steps of that task only the failure of the stage, a kill or a loss can.
  `CrewInv` is needed so that a task that launches is one of the crew.
- `HealthCheckIsAnswered`: `Spec => HealthyIsOwnOrOrphan`. `PortInv` says that a server
  that is up holds its ports, that a task not misled saw its own server up, and so that
  a recorded server whose task was not misled shares no port with one launched on its
  host since: the snapshot had it. Then whoever answers in place of the own server is
  tended by nobody, or recorded by a misled task. The least port of a set is one
  port (`HttpPortIsOne`, by well-founded induction).

`MigPlugin_proofs`, for any number of GPUs, any layout, containers and calls of
`getDevices`:

- `FindsTheHardware`: `Spec => []DiscoveryMatchesHardware`. `DiscoveryInv` is the invariant of
  the nested loops. The listing is the sections of the GPUs laid end to end
  (`LinesAreSections`, over `FlattenLaidOut`), so that a line is a GPU's, and has a number
  in its section, in exactly one way. `ScanInv` says which section the scan is in or
  before: the lines before a GPU's section are those of lower GPUs, and a higher number is
  never the beginning of a lower one (`BeginningsAre`), so that the scan for GPU 1 comes to its
  own section before that of GPU 10, and ends in it. `CountInv` says that the devices found are
  the slices before the current one (`Seen`), numbered by their rank, and that `id` is how
  many there are; `migDevices` may be ahead of `found` in a repeated call, but
  what it has is right. Each of the eight actions of the loops has its own lemma.
- `TypesHold`: `Spec => []TypeOK`, from the same invariant.
- `AllocatesAsAsked`: `Spec => []AssignedInv`. A container that was given devices holds
  exactly as many as it asked for, all of them discovered, and containers have none in
  common. `basicSchedule` takes the available devices of least rank; that these
  are `count` many (`BasicScheduleCount`) needs that the rank is a bijection from the
  devices to the numbers below their count.
- `SeesAsManyAsAskedFor`: `Spec => []SeesWhatItAskedFor`. `SeenInv` says that what a running
  container sees are the names of what it was assigned; different devices have
  different names (`NamesAreSlices`), so the counts agree.
- `ImplementsAssignment`: `Spec => AssignmentSpec`. A launch grants slices that no running
  container sees, because assignments are disjoint (`AssignedInv`) and slices handed out
  are apart (`HandedOutApart`: a GPU that is split is not handed out whole).
- `ConsentHasSource`: `Spec => []MultiGpuHasConsent`, from `SettingHasOwner`: the
  setting in the plugin's field is that of a container that came to this host.

`Mig2Gpu_proofs`, for every layout and setting of the environment:

- `ReverseMappingAgrees`: `Spec => []VisibleIsAssigned`. For the numbers that the node
  manager knows, the wrapper reads the list that the discovery printed (`ReverseMapping`).
  `LaunchedInv` says that a launched container has kept its numbers, and that what it
  sees is what those numbers name in the current layout, since no GPU is split anew while in use.
- `ImplementsAssignment`: `Spec => AssignmentSpec`. The entries of a listing are apart
  (`ListedApart`): the rows that `mig2gpu.sh` writes for a GPU are those of its
  instances or the GPU itself, never both.

`DeviceAssignment_proofs`, `HardwareIsNotShared`: the abstract specification keeps
`Disjoint`. With the refinements, this is what the MIG variants promise.

`YarnMigPatch_proofs`, for any lists, layouts and containers
(`YarnMigPatchAssumption`): `TypeCorrect`, `AnnouncesApart`, `DecidesByOwnSetting` and
`ImplementsAssignment`. The invariant says of the discovery that each announced device
has an origin: a GPU the loop has passed (`AutoOrigin`), or an entry it has passed and
read as that device (`ListOrigin`); and that nothing is announced twice but by 3.1.2
(`NoRepeats`). Two announced devices that overlap are then one GPU's, or two entries',
and the list says they are equal. Of the containers it says that assigned devices are
announced and disjoint, and that phase, assignment and what is visible fit together
(`ContainerInv`). For the refinement, launching is `Grant`, releasing a running container `Drop`.

`ChurnPipeline_proofs`, for any file, days, ages, numbers of replicas and runs
(`ChurnPipelineAssumption`: `customerID` is a key of the file, tenures are natural numbers,
the months since a customer left are at most zero, as `get_last_month` makes them, and
every replica has an age; `ChurnSourceAssumption`: the file's columns are consistent, and
an average charge is a whole number of units):

- `CustomersKeepTheirRows`: `Spec => []RowsPerCustomer`. The invariant says of each table on
  disk, and of each frame read, what holds whichever run wrote it (`KeyedAs`): a customer
  leaves once, a feature has one value, the metadata have a key, and the row of
  `InternetService` is there twice if it says "Yes", else at most once (`TwiceIfYes`). Each
  join makes a table with a key of that (`JoinPhoneFeaturesKey` and the like), but for the
  internet features, whose rows are as many as those of `InternetService`
  (`JoinInternetFeaturesRows`); the outer joins of the wide table lose no customer and
  have a row for each of these (`JoinWideTableRows`).
- `ChargesComeAfterCreation`: `Spec => []ChargesFollowCreation`, from the same invariant:
  a customer's charges are an interval of months as long as its tenure
  (`ChargesAre`, `BillingEventsChargesInOrder`).
- `JoinsReconstitute`: `Spec => []Reconstituted`. Two parts. Of the data: what each join
  makes of a replica of a customer, from tables with the same options, is the source's row
  (`PhoneJoined`, `InternetJoined`, `AccountJoined`, `BillingJoined`). The absent values come
  back because a service that is absent has no row and its dependent columns no
  value of their own; the amount is a sum of as many equal charges as the tenure
  (`SumOfEqualValues`, an induction on the number of charges), each off by half a cent at most
  (`CurrencyRounds`). Of the history: `HistoryInv` says that there are options for each run so far
  such that every table, on disk or read, is what the run it is marked with
  makes with them, although runs are interrupted and the currency type may be kept from
  an earlier one (`CellsInv`: once the billing cell has run, it is settled).
  Tables of one run therefore have the same options.
- `SeniorsAreFound`: `Spec => []CalendarFindsSeniors`. The calendar is treated by cases on the
  month and by linear arithmetic on years (`DateOfDay`, `DatesInOrder`). Born 23742
  days ago or earlier, one has had the 65th birthday, and born 23375 days ago or later one
  has not, on any day (`SeniorByCalendar`); the ages that the augmentation makes are on the right
  side of these, but for the least one, 23741.

`RapidsUdfs_proofs`, for any characters, batches of any length, tasks and failed loads:

- `LoaderIsSafe`: `Spec => []LoadedOnceBeforeUse`. The invariant says that whoever is in the
  synchronized method holds the lock, and that the count of loads is what the flag says unless
  the holder is between the load and the assignment.
- `FallBackDoesNotShow`: `Spec => []FallBackIsInvisible`. A task that has ended has the result of
  the row or of the columnar implementation (`Evaluated`), so it remains that they agree
  (`SameResults`). `WordCountsAgree`: the row's loop keeps what it has counted and its state after each
  character (`Looped`), the device's counts the words from a character on, given the run
  that it is in (`Counted`); the sum of both is constant along the string. `SameFractions`: floor and truncation agree from zero on, and on whole
  numbers. `SameUrls`: replacing the plus signs first and decoding then is decoding,
  unless the string is malformed. `SameCosines`: the offsets of a column of lists are
  the sums of lengths (`ListColumnHoldsLists`), equal offsets on both sides are equal lengths
  row by row, with the exemption of rows that are null on one side, and both throw
  for the same batches; a difference of offsets is as long as the list, so the
  three sums run over the same elements.

`DataLemmas` makes induction over data possible without the library's induction theorems,
whose hypotheses are operators: the numbers of an interval for which a claim fails are a
*set*, and a set of naturals that is not empty has a least member (`LeastNumber`, from
well-foundedness). `IntervalInduction`, that a recurrence has a solution
(`RecursionExists`), that two functions that go on alike are alike (`SameByRecursion`) and
what the flattening of a sequence of sequences has where (`FlattenLaidOut`,
`FlattenElements`) rest on it.

### Only model-checked

- What needs fairness: `CallsReturn` (for vLLM, but for a request without an answer),
  `DiscoveryTerminates` (but for a line that does not match). Temporal reasoning with
  `ENABLED` is out of the prover's reach.
- What is violated: the five runs that refute a statement of the repository are
  counterexamples, and need no proof.

## Plan

Done: the server manager with its abstract specification, its fault model, liveness
and six theorems; all three MIG variants, the abstract specification they share, and the proof
that each implements it; the churn notebooks with both their modules and four
theorems; the UDFs and the loader with two. Every property of a passing run but the two
liveness properties is stated by a theorem.

Left, in this order:

1. Proofs: the counterpart of the refinements, that each variant inherits
   `HardwareIsNotShared`; that `YarnMigPatch`'s containers see as many slices as they asked for,
   stated apart from `DecidesByOwnSetting`.
2. `ServerClients`: clients that keep URLs across a stop and a start, composed with
   `ServerManager`; the validation of vLLM's keywords.

## Not modelled

- Notebooks other than the churn ones, documentation and test helpers. More than four fifths
  of the repository's lines are notebooks, and most of those are stored outputs, text
  and calls of machine-learning libraries in a straight line; there is no control
  to model in them, which is why the mapped lines are a small share of all lines
  although the modules cover most of the code that has state.
- The taxi ETL and the encoding scripts: chains of Spark column expressions over
  floating-point data, without state or ordering of their own.
- The mortgage ETL: the same, but for a dictionary cached in a singleton, which every
  call that uses it makes anew.
- XGBoost applications: argument parsing and one call of the library after another.
- EMR start-up script: one replacement in one file and one call of a cloud tool; a model
  would restate the lines. That the second run finds no placeholder is
  listed as a hazard.
- Cluster and init scripts, `getMIGGPUs`: straight-line calls of tools.
- Of the device plugin: the search for the `nvidia-smi` binary, output of `nvidia-smi`
  that does not parse (but for MIG lines that do not match), and a GPU that is split anew
  between two calls of `getDevices`.
- Of the scripts: the XML elements other than the device ids, and
  `ENABLE_MIG_GPUS_FOR_CGROUPS`.
- Of the patches: the parsing of `nvidia-smi`'s XML, hash codes, and a GPU whose minor
  number differs from its index.
- Of the churn example: `eda.py`, debugging helpers, columns that are only copied, and
  `write_df` for a frame whose options were not registered (it makes a table named
  after `None`).
- Of the UDFs: URL encoding, elements that a null row still has in the child column, the checks of argument counts and types, and the freeing
  of GPU memory.
- Of the server manager: `_validate_vllm_kwargs` and the clients, the
  configuration checks of stage-level scheduling, the comparison of parameter names by
  two spellings (`served-model-name`, `served_model_name`), and a crash of the driver,
  after which no object of the model exists.
