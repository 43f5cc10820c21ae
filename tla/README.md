# A TLA+ model of the OSM orchestrator

This directory specifies the part of Open Source MANO that is hard to test:
how the northbound interface (NBI), the message bus, the common database and
the lifecycle manager (LCM) carry out *operations* together: on network
services (NS), on the slices built from them, on clusters and their software in
git repositories, and on accounts of infrastructure. TLC checks the modules on
small instances; TLAPS proves the main safety results for any number of
operations, workers, records or execution environments.

Paths below are relative to `src/`.

## 1. Inventory

| Component | State | Operations | What makes it hard |
|---|---|---|---|
| **NBI, NS instances** (`NBI/osm_nbi/instance_topics.py`, `base_topic.py`) | `nsrs`, `nslcmops`, `vnfrs` | `NsrTopic.new/delete`, `NsLcmOpTopic.new/cancel` | a threaded HTTP server, possibly replicated: every request is a chain of database calls that interleaves with other requests and with LCM |
| **NBI, slices** (`instance_topics.py`) | `nsis`, `nsilcmops` | `NsiTopic.new/delete`, `NsiLcmOpTopic.new` | two slices share an NS; who still uses it is derived from lists in the other slice's record |
| **NBI, GitOps objects** (`k8s_topics.py`, `acm_topic.py`) | clusters, profiles, KSUs, OKAs with `operationHistory` | create, register, attach, clone, move, delete | a record is read, changed and replaced whole; nothing checks that it is idle |
| **NBI, accounts** (`admin_topics.py`) | `vim_accounts`, `wim_accounts`, `sdns`, with `_admin.operations` | new, edit, delete | edit replaces the whole document it read before; `op_id` is a position in an array |
| **NBI, server and engine** (`nbi.py`, `engine.py`) | rollback list of a request | undo of a failed request | a message that "failed" may have been published |
| **NBI, descriptors and PDUs** (`descriptor_topics.py`) | packages, revisions, `usageState`, PDUs | create, upload, edit, delete | test and later set; a package is a record and a folder |
| **NBI, other topics** | tokens, subscriptions, PM jobs, SOL003 | CRUD | token cache against its collection |
| **LCM, NS lifecycle** (`LCM/osm_lcm/ns.py`) | coroutines and the tasks they await; writes `nsrs`, `vnfrs`, `nslcmops` | instantiate, terminate, action, update, heal, scale, migrate | long awaits, timeouts, cancellation, tasks that wait for each other, `finally` blocks whose reads may be unbound |
| **LCM, slices** (`netslice.py`) | coroutines; writes `nsis`, `nsilcmops`, `nslcmops` | instantiate, terminate | one operation starts and awaits others |
| **LCM, GitOps** (`k8s.py`, `odu_workflows.py`, `odu_libs/`) | coroutines; writes the record's state, history and lists | a workflow that changes a git repository, then a check of the resources | an outcome in two halves, each written from a copy made before it was awaited |
| **LCM, accounts** (`vim_sdn.py`) | coroutines; writes the account and its operations | create, edit, delete | id of the object at RO stored after an await |
| **LCM, TaskRegistry and HA** (`lcm_utils.py`) | `_admin.worker`, in-memory registry | `lock_HA`, `unlock_HA`, `waitfor_related_HA`, `cancel` | mutual exclusion and order between processes through one database filter |
| **LCM, bus reader** (`lcm.py`) | error counters | `kafka_read`, callback, `kafka_ping` | giving up and going on after errors |
| **LCM, N2VC** (`n2vc/`) | execution environments, releases | create, install, relate, destroy | external calls that succeed, fail or are late |
| **common** (`common/osm_common`) | database, bus, files | one call each | filters and updates as an algorithm; write failures with unknown outcome |
| **IM, osmclient, devops** | none at run time | | generated code, a client, installers |

How they interact: a client's request makes NBI write a document in state
`PROCESSING` and publish a message. The bus gives the message to one worker of
the consumer group (sometimes to a second one). The worker starts a coroutine,
which takes the operation by one conditional update (`lock_HA`), polls until no
earlier operation of the same service is in `PROCESSING`
(`waitfor_related_HA`), works for minutes or hours at RO, VCA and K8s, and
finally writes two documents: the service record and the operation. The work of
an NS operation is itself a set of asyncio tasks that wait for each other
through the NS record; a slice operation creates NS operations and polls their
documents; a GitOps operation has neither lock nor wait. Nothing but the
database and the bus connects NBI and the workers.

What makes each component correct:

* *HA lock*: an operation is executed at most once, where `_admin.worker` says.
* *Wait*: no operation works beside an earlier one of the same service, as far
  as the query can see it; waiting ends.
* *NS lifecycle*: `nsState` and `_admin.nsState` agree; `currentOperationID`
  names an operation that is really open; a record that NBI removes leaves
  nothing at the VIM; every operation gets an outcome; a cancel is answered.
* *NS deployment*: `COMPLETED` means that everything runs, or that nothing is
  left; the terminate primitives a charm asked for run before its environment
  goes; no task waits for ever for a task that failed.
* *Slices*: a shared NS lives as long as a slice needs it and no longer.
* *GitOps*: `COMPLETED` means that workflow and resource check succeeded,
  whatever overlapped; the lists of a cluster name what is attached.
* *Accounts*: RO holds exactly what the records name; `COMPLETED` means that RO
  was told; a failure shows.

`PROJECT.json` lists the hazards line by line with the properties that cover
each, and those that no property covers yet with the reason.

## 2. Modules

| Module | Models | Code |
|---|---|---|
| `NsLcmDb` | the shared state of one network service, and the database helpers | `_write_ns_status`, `_write_op_status`, `update_db_2`, `_create_nslcmop` |
| `NbiNsOps` | NBI's requests about it | `NsLcmOpTopic.new`, `cancel`, `NsrTopic` delete |
| `LcmNsTasks` | callback, lock, wait, the seven coroutines, cancel, crash | `lcm.py`, `lcm_utils.py`, `ns.py` |
| `NsLcm` | the composition, fairness, all properties | |
| `NsOpOnce` | abstract: each operation is taken at most once and runs there only | the contract in the docstring of `lock_HA` |
| `NsDeployDb` | what the tasks of an NS share: the NS record, and what exists outside | `ns.py`: `_write_configuration_status`, `deployed.VCA`, `deployed.K8s` |
| `LcmDeploy` | instantiation: the tasks for VIM, KDUs and environments | `ns.py`: `instantiate`, `instantiate_RO`, `deploy_kdus`, `deploy_n2vc`, `instantiate_N2VC`, `_add_vca_relations` |
| `LcmUndeploy` | termination, timeouts, cancel | `ns.py`: `terminate`, `destroy_N2VC`, `_terminate_RO`, `_wait_for_tasks`; `lcm.py` |
| `NsDeploy` | the composition, fairness, properties | |
| `SliceDb`, `NbiSlices`, `LcmSlices`, `Slices` | slices that share an NS: records, NBI, LCM, composition | `instance_topics.py`, `netslice.py` |
| `GitOpsDb`, `NbiGitOps`, `LcmGitOps`, `GitOps` | clusters, profiles, KSUs and OKAs: records, NBI, LCM with the workflows, composition | `k8s_topics.py`, `acm_topic.py`, `k8s.py`, `odu_libs/` |
| `AccountOps` | one VIM, WIM or SDN account with the classic RO (`RO.ng` is false by default): NBI, bus, workers, RO | `admin_topics.py`, `vim_sdn.py`, `lock_HA`, `unlock_HA` |
| `NsLcm_proofs`, `AccountOps_proofs`, `GitOps_proofs`, `GitOpsClient_proofs`, `NsDeploy_proofs`, `NsDeployOutcome_proofs`, `Slices_proofs`, `SlicesOwners_proofs` | the theorems | |
| `MC...` | instances for TLC: symmetry sets, descriptors, the default profile | |

`NsLcm` says when an operation of an NS may run at all, `NsDeploy` what it does
when it runs, `Slices` what uses both from above; they meet in the operation
document, which the coarser model writes with the outcomes the finer one
allows: an operation completes or fails, late or not.

### NsLcmDb, NbiNsOps, LcmNsTasks, NsLcm

`nsr`, `op` and `vim` are the `nsrs` record, the `nslcmops` documents and what
exists at the VIM. An operation's `state`, `worker` and `start` are
`operationState`, `_admin.worker` and `startTime`; `stale` says that
`_admin.modified` is two hours old. `nbi`, `del` and `cancel` are the progress
of the HTTP requests. `inbox` and `delivered` are the bus, which does not keep
the order between partitions. `task[w][o].pc` is the stage of a coroutine: one
stage per stretch between two database calls that matter or two awaits. A
worker is one thread, so no other coroutine of it moves while one is in a
stretch without an await (`SyncPcs`, `CpuFree`); different workers interleave
everywhere.

| Action | Code |
|---|---|
| `NbiCheck`, `NbiStamp`, `NbiStore`, `NbiSend`, `NbiSendFails`, `NbiRollback` | `NsLcmOpTopic.new`, split where another actor can come in between |
| `NbiCancelCheck`, `NbiCancelSend` | `NsLcmOpTopic.cancel` |
| `NbiDeleteCheck`, `NbiDeleteNsr`, `NbiDeleteOps` | `BaseTopic.delete`, `NsrTopic.check_conflict_on_del`, `delete_extra` |
| `Deliver`, `Redeliver` | `kafka_read_callback`, the consumer group |
| `Lock`, `PollBlocked`, `PollClear`, `WaitTimeout` | `lock_HA`, `waitfor_related_HA` |
| `BeginInstantiate`, `MarkInstantiated`, `BeginTerminate`, `BeginOther` | the prologue of each coroutine |
| `Work`, `WorkDone`, `WorkFails` | the awaited services; a failure, a timeout |
| `FinishNs`, `Drain`, `FinishOp`, `FinishNs2`, `Notify` | the `finally` blocks, in the order each kind has |
| `CancelTake`, `CancelEnd`, `CancelEndDied` | the `cancel` command of topic `nslcmops` |
| `Crash`, `Restart`, `Pause` | process end and restart; two hours of silence |

Two stages need a word. A coroutine is `died` when its `finally` block raises:
`update` and `heal` read names there that an early exception leaves unbound.
And `begun` records that the prologue succeeded, because a `finally` block that
never bound `db_nsr` does not write the record.

### NsDeploy

`nsd` is what the descriptor asks for: per execution environment its level
(`NS`, `VNF`, `VDU`, `KDU`), its type (a charm in an lxc machine, in Kubernetes
or native; a helm chart), which have initial and terminate primitives, and which
are in a relation. `nsr`, `vca`, `kdu` and `vnfr` are the fields of the records
through which the tasks communicate. `vt[n][v]`, `kt`, `rt` and `dt` are the
tasks of operation `n`, each at the await where it stands: a step is what
asyncio runs between two awaits. `main` is the coroutine of the operation,
`copy` the NS record as a termination read it when it began. `env`, `release` and
`vim` are what exists outside OSM.

| Action | Code |
|---|---|
| `StartInstantiate`, `DeployKdu`, `PreparationFails`, `LaunchRo`, `LaunchHelm`, `FinishInstantiate` | `instantiate`: reads, `deploy_kdus`, the creation of tasks, `_wait_for_tasks` and the `finally` block |
| `RoDone`, `RoFails`, `VmReport` | `instantiate_RO`, and RO writing the state of VMs |
| `KduDone`, `KduFails` | `_install_kdu` |
| `VcaStep`, `VcaFails` | `instantiate_N2VC`: `create`, `install`, `relate`, `vm`, `depend`, `first`, `more` |
| `StartTerminate`, `DestroyPrimitive`, `DestroyEe`, `DestroyFails` | `terminate` stage 1, `destroy_N2VC` |
| `DeleteAll`, `DeleteAllDone`, `DeleteAllFails`, `DeleteSpaces`, `SpacesFail`, `Uninstall`, `RoDelete`, `FinishTerminate` | stages 2 and 3: `_delete_all_N2VC`, namespaces, KDUs, `_terminate_RO` |
| `CancelSend`, `CancelMain`, `CancelEnd` | the `cancel` command |

Three conditions come from places where the code cannot do what a descriptor
asks for. `HelmOfNs`: a helm chart of the NS has no VNF record, and looking for
its metrics raises (`ns.py:2011`). `Hopeless` includes that environments of the
NS wait for each other (`ns.py:1529-1565`). `DestroyStart`: `terminate` looks
for the `ns-configuration` in the NS record, which has it under `nsd` only, so
`destroy_N2VC` raises at the first question (`ns.py:4375-4377`, `4546-4548`) and
the terminate primitives of a charm of the NS never run. `SharesModel` says
which environments are in the Juju model that stage 2 destroys: charms in
Kubernetes have one of their own. A cancel that meets a task that failed cancels
only the tasks registered before it (`CancelUpToFailed`).

### Slices

`nsi`, `nsr` and `nslcmop` are the records of slices, of their NSs and of the
NS operations they create. `handler[n]` is NBI creating or removing slice `n`;
`req[i]` a slice operation from the request over its record to the coroutine.
`marks` says what a client that is careful never sees: two operations on one
slice, overlapping requests about two slices, a request refused half way, a
removal of a slice under way, a list item restored by a poll, and an operation
that begins beside one at work whose record has been silent for two hours.

`Turn` and `NsTurn` are the wait for earlier operations of the slice or NS,
which ignores those that nobody touched for two hours. A coroutine that polls
does not touch its `nsilcmops` record, and the time limit of an instantiation is
the client's (`timeout_nsi_deploy`): so `StartBeside` and `NsStartBeside` let an
operation begin beside one that is at work in silence. `NoStatus` is an item for
which no operation was created: a poll asks it for its status and raises.

### GitOps

`items` holds the records of all collections, written whole as the code does;
`old` is a cluster's entry in `k8sclusters`. `req` and `task` are a request at
NBI and its coroutine at LCM, `repo` and `attached` the git repository.
`task[r].doc` is the record as the coroutine last read it, which it writes
back later; `overlap` remembers whether two requests were ever handled at a
time. The workflow of a request succeeds or fails (`CheckProgress`), or is
given up after 300 s and may still succeed (`LateEffect`).

### AccountOps

`acct` is the record with its `_admin.operations` (`ops`), the id of its object
at RO (`ro`), its `status` and the edits it includes (`content`). `index[r]` is
the position that the message of request `r` carries. `live` and `sentTo` are
RO's side. NBI's `edit` reads into `copy` and later replaces the record by the
edited copy; `overwrote` remembers that this undid a write of LCM. `early`
remembers that an operation began while another one ran or an earlier one was
open: the wait does not prevent it (section 4). A step is at most one database
call or one answer of RO.

## 3. Runs

| Run | Question | Instance |
|---|---|---|
| `ns_faults` | is an operation run once and in order, does the whole implement `NsOpOnce`, is `LcmInv` an invariant? | 2 operations (instantiate, terminate), forced or not, 2 workers, 1 crash, 1 redelivery, 1 two-hour pause |
| `ns_requests` | what does the record show, do the two NS states agree, what may NBI delete? | 2 operations of 7 kinds, 2 workers, 1 message that fails, removal |
| `ns_progress` | does every operation sent get an outcome, is every cancel answered? | 2 operations (instantiate, heal, action), 1 worker that may crash, 1 cancel |
| `acc_safe` | what is left at RO, what does `COMPLETED` mean, does a failure show? | all three kinds, create + edit + delete, 2 workers, 1 message that fails |
| `acc_ends` | is the lock exclusive, does every operation get an outcome? | a VIM, create + delete + forced removal, 2 workers, 1 crash, 1 redelivery |
| `gitops_shared` | what do `COMPLETED`, `operatingState`, `usageState` mean, do the lists agree with the repository, is anything left behind, is every request answered, does the work end? | 1 cluster, 2 profiles, 2 KSUs, 1 OKA, 2 requests of 11 kinds, 1 fault |
| `gitops_foreign` (violation) | is a removed profile detached? | 2 clusters, 2 requests in turn |
| `nsdeploy_life` | what does the outcome of an operation mean, in which order do primitives run? | 3 environments of five descriptors, 1 KDU, 3 operations, 1 failure, 1 task left behind, 1 cancel (670 k states) |
| `nsdeploy_mixed` (violation) | does a termination remove all environments? | a helm chart beside an lxc charm, no fault |
| `slices_shared` | does a shared NS live as long as needed and no longer? | 2 slices with a shared and an own subnet; 4 operations and faults (an NS that fails, a wait given up, a silence of two hours) in all (1.39 M states) |
| `heal_stuck` (violation) | is what is in `PROCESSING` being run? | 2 operations (instantiate, heal), 2 workers, no fault |
| `delete_race` (violation) | is a removed NS clean at the VIM? | 2 instantiations, 2 workers, removal |

What the properties say:

* `StartsInOrder`: an operation at work has no earlier one in progress beside
  it, except those its wait could not see: not inserted yet when the wait
  ended, or silent for two hours. `excused` keeps exactly these, so the
  property is as strong as the query allows.
* `OneRunner`, `ImplementsOnce`: who runs an operation is who `_admin.worker`
  names; the database states map to the abstract *open*, *running*, *over*.
* `NsStatesAgree`, `DeletableIsClean`, `NoOrphan` of `NsLcm`: NBI decides on
  `_admin.nsState`, clients see `nsState`, the VIM has the resources. They are
  claimed as long as operations did not overlap (`overlap`, which pauses and
  operations inserted late make possible) and, for `NoOrphan`, as long as no
  operation ran between the check and the removal (`raced`).
* `BusyHasOwner`, `RunningIsShown`: `currentOperationID` against the truth, in
  both directions. `scale` and `migrate` write `IDLE` even when they gave up
  waiting, so `RunningIsShown` excludes a neighbour of these kinds.
* `SentOpEnds`, `CancelAnswered`: liveness; what is lost with a crashed worker
  or in a `died` coroutine is the named exception, nothing else is.
* `OneAtATime`: the entry of an account operation names the worker that runs
  it. Exempt are the creation of WIM and SDN, which ignore the result of
  `lock_HA`, and records that an edit has overwritten.
* `NoRoOrphan`, `AccountOps`' `CompletedIsApplied`, `FailureIsShown`: the
  record against RO once all is quiet, when the operations ran in turn
  (`Orderly`). `FailureIsShown` is not claimed of SDN, whose `edit` and
  `delete` write the error into the copy of the record and not into the update.
* `AccountOpEnds`: an account operation gets its outcome unless the record
  goes, an edit overwrites it or its worker is lost.
* `GitOps`' `CompletedIsApplied` holds whatever overlaps; the others
  (`ListsAreAccurate`, `NothingLeftBehind`, `BusyIsShown`, `UsedOkaIsMarked`,
  `EndedIsAnswered`) are what a client can rely on that makes one request at a
  time (`Undisturbed`), because nothing serializes requests about one record.
  The lists and the answers also suppose that no cluster was given the default
  profile of another one (`OwnDefaults`); `gitops_foreign` shows why. `WorkEnds`
  has no such conditions.
* `CompletedIsRunning`, `TerminatedIsClean`: what a `COMPLETED` instantiation
  or termination promises. `FailureIsLocated`: `config-status` and
  `operational-status` say which half failed. `FailureHasCause`: the tasks
  never make each other fail; its exceptions are what the environment did, what
  the code cannot do (`NotSupported`: section 4), and the `config_sw_installed`
  that a first round leaves to charms in a relation (`Outdated`).
  `NsPrimitivesLast`, `NeededRuns`: the order of
  Day-1 primitives, and terminate primitives before removal. `OperationEnds`:
  no task waits for one that failed or was cancelled.
* `RunningHasItsNss`, `ListedExist`, `NothingRunsForNobody`, `NoOrphan` of
  `Slices`: both directions of "a slice has its NSs", shared ones included, for
  clients that avoid what `marks` remembers. The last two leave out behaviours
  in which an instantiation gave its wait up (`NoneGivenUp`; section 4 says why
  they must). `EverythingEnds` says the same as
  a liveness property would, for a system that has no infinite behaviour
  without requests, but as an invariant (`~ENABLED Work`), so that TLC may use
  symmetry.

Every property has a mutant in the modules: a form of one definition with a
plausible bug, under which the property fails.

**Bounds.** Two operations are what every race of the system needs: the lock is
per operation, the wait relates an operation with an earlier one. Two workers
are what redelivery, remote cancellation and a crash beside a survivor need;
`ns_progress` has one, so that a cancel finds its task. `MaxSendFail`,
`MaxCancel`, `MaxCrash`, `MaxRedeliver`, `MaxPause`, `MaxFaults`, `MaxLeft`
(tasks an operation leaves behind at its timeout) bound how often the
environment may interfere; the bounds only appear in guards. The clock is
bounded by the number of operations, because only NBI's stamps advance it.
`MaxOps = 3` of `NsDeploy` is instantiate, terminate and instantiate again: the
records of the first round are what the third operation can stumble over;
`MaxTroubled` limits the operations that begin after something went wrong.
`MaxRequest`, `MaxOpen` and `MaxBatch` of `GitOps` are requests in all, requests
at a time and items of a batch: two requests are what overlaps, and in turn what
one request can leave for the next. `MaxRequest` and `MaxEvents` of `Slices` are
slice operations and, together with faults, what may happen in all; the silence
of a slice operation counts for two, so the run explores it with two more
requests and no further one. In `AccountOps` NBI handles one request about the
account at a time (`Idle`) and a call of RO that fails has no effect there. A
step of a coroutine of `AccountOps` may interleave with others of the same
worker where the real one has no await; every such interleaving is real between
two workers.

Larger instances were explored besides the runs, without a violation:
the inductive invariant of `AccountOps_proofs` with 3 kinds, 2 workers, 2 ids
and 1 message that fails (1.56 M states) and with a forced delete (7.6 M);
`GitOps` with two clusters, three profiles and two requests at a time of all
kinds and faults (1.0 M states), with two clusters and two KSUs (1.3 M), both
with all properties of `gitops_shared`, and with two clusters and three requests
in turn (2.6 M; 10.8 M of an unfinished exploration with two KSUs);
`NsLcm` with all seven kinds, a cancel, a message that fails and a removal at
once (8.1 M states); and the inductive invariant of
`GitOpsClient_proofs` with two clusters and two requests of every kind.

`CHECK_DEADLOCK FALSE` is in every cfg because the system really stops: when
all requests are answered and all messages consumed nothing is left to do, and
a coroutine that died stays so.

**Fairness.** Weak fairness of every coroutine: asyncio runs what is ready, and
everything a coroutine awaits is limited by a timeout of
`LCM/osm_lcm/data_utils/lcm_config.py:64-85` or by 3600 s of polling. Weak
fairness of delivery by *some* worker: the consumer group assigns every
partition. In `NsLcm` also of restart: the container platform starts a worker
again. `NsDeploy` assumes only that something goes on as long as something can
without a failure (`GoOn`), `GitOps` that NBI's threads and LCM's coroutines go
on (`Work`), `AccountOps` that coroutines and delivery do. Nothing is assumed
of NBI in `NsLcm`, of RO's success, or of the absence of faults.

## 4. Where code and comments disagree

Each of these is a run in which TLC finds a behaviour that contradicts a line
of the repository:

* `heal_stuck`: the `finally` block of `heal` (`ns.py:8455`) reads
  `db_vnfrs_list`, bound only after `heal_RO` returned. An earlier failure
  leaves the operation in `PROCESSING` with nobody running it, which
  `lcm_utils.py:863` equates with "still running"; later operations of the
  service wait an hour for it, and fail.
* `delete_race`: "When instantiated NBI will not delete directly"
  (`ns.py:2701`), but the check and the removal are two calls with no condition
  in the second.
* `nsdeploy_mixed`: "remove All execution environments at once" (`ns.py:4598`)
  is in the `else` of `if helm_vca_list`: a termination of an NS with a helm
  chart and a charm completes and leaves the charm's environment.
* `gitops_foreign`: "Before deleting, detach the profile from the associated
  clusters" (`acm_topic.py:342`), but `delete_cluster` (`k8s.py:796`) removes the
  default profile whoever lists it, and `add_profile` lets any cluster list it.
  (The comment stands in NBI's removal of a profile; the run takes it as what a
  removal of a profile, by whoever, is meant to do.)

Other things the models follow as the code has them, without a run of their own:

* Accounts: edit and delete "wait for any previous tasks in process"
  (`vim_sdn.py:232`, `385`), but the query looks for fields at the top level of
  documents that have them inside `_admin.operations`, and so never waits.
* Cancel reaches only tasks of the worker that receives the message
  (`lcm.py:385`); otherwise the operation is recorded as `FAILED_TEMP` while it
  works on. `TaskRegistry.cancel`, which `terminate` and the account commands
  call, is a generator that nobody iterates.
* A second instantiation of an NS with charms in a relation goes ahead on the
  `config_sw_installed` that `terminate` leaves of the first, and fails when it
  relates an environment that is not there yet. The machine of an earlier charm
  is never used again: `ee_id` is set to None before (`ns.py:1702`).
* For the NS itself some descriptors cannot work: a helm chart fails its
  instantiation, two environments wait for each other up to their time limit, and
  a charm with terminate primitives makes every termination fail
  (`NotSupported`; the lines are in section 2).
* The wait for related operations ignores one whose record is two hours old
  though it is at work (`lcm_utils.py:685-695`). A termination of a slice then
  begins beside its instantiation, which writes "running" (`netslice.py:505`)
  while the NSs go down.
* The `ERROR` status of a `vnfr` is never cleared (`ns.py:634`, `1437`). A charm
  of a VNF does not wait for those of its VDUs (`ns.py:1530`, `1548`).
* A termination with helm charts does not rewrite the status of a native charm
  beside them: it stays `READY`. The order of primitives and the meaning of
  `config-status` are therefore proved for descriptors that do not mix the two.
* Slices: a slice operation that gives up waiting, or a termination of an NST
  without VLDs, leaves its record in `PROCESSING`, and every later operation of
  that slice waits for it in vain. So six operations and one delay end with an NS
  that runs for nobody: slice B is instantiated; its termination gives up and
  stays open; a second one runs; A is instantiated; B is asked to instantiate
  again and takes A's operation on the shared NS over; A terminates and leaves
  the shared NS to B; B's instantiation gives up on the operation left open, and
  no slice is instantiated that lists the NS. A slice whose termination
  failed half way cannot be terminated again; a refused request leaves
  `nslcmop_instantiate` and the list of shared NSs changed; a poll's
  read-modify-write restores a cleared `nslcmop_instantiate`; two terminations
  at once both skip the shared NS.

## 5. Proofs

All theorems hold for every value of the constants that the named assumptions
allow: any sets of operations, workers, environments, KDUs and RO ids, every
descriptor, any bounds.

| Module | Theorem | States |
|---|---|---|
| `NsLcm_proofs` | `TypeCorrect`, `Invariance`, `Exclusion`, `Ordering` | `TypeOK`, `LcmInv`, `OneRunner`, `StartsInOrder` |
| | `Refinement` | `ImplementsOnce` |
| | `StatesOfNs`, `DeletableNs`, `RemovalsAreClean` | `NsStatesAgree`, `DeletableIsClean`, `NoOrphan` |
| | `WorkIsShown`, `BusyIsOpen` | `RunningIsShown`, `BusyHasOwner` |
| `AccountOps_proofs` | `AccountTypes`, `Locking` | `TypeOK`, `OneAtATime` |
| | `NoOrphanAtRo`, `CompletedAccounts`, `FailedAccounts` | `NoRoOrphan`, `CompletedIsApplied`, `FailureIsShown` |
| `GitOps_proofs` | `GitOpsTypes`, `CopiesAreHonest`, `CompletedOperations` | `TypeOK`, the inductive invariant, `CompletedIsApplied` |
| `GitOpsClient_proofs` | `ClientsView`, `CarefulView` | the two inductive invariants |
| | `ClustersLeaveNothing`, `ListsAgree` | `NothingLeftBehind`, `ListsAreAccurate` |
| | `WorkIsBusy`, `UsedOkasStay`, `EveryEndAnswers` | `BusyIsShown`, `UsedOkaIsMarked`, `EndedIsAnswered` |
| `Slices_proofs` | `SliceTypes`, `SoundAlways` | `TypeOK`, the inductive invariant |
| | `ListedExistAlways`, `RunningHasItsNssAlways` | `ListedExist`, `RunningHasItsNss` |
| `SlicesOwners_proofs` | `OwnedAlways`, `AloneAlways` | the two inductive invariants |
| | `NothingRunsForNobodyAlways`, `NoOrphanAlways` | `NothingRunsForNobody`, `NoOrphan` |
| `NsDeploy_proofs` | `NsDeployTypes`, `NeededPrimitivesRun` | `TypeOK`, `NeededRuns` |
| `NsDeployOutcome_proofs` | `CompletedRuns`, `CompletedTerminations` | `CompletedIsRunning`, `TerminatedIsClean` |
| | `NsComesLast` | `NsPrimitivesLast` |
| | `FailuresAreLocated`, `FailuresAreCaused` | `FailureIsLocated`, `FailureHasCause` |

**NsLcm.** Neither `OneRunner` nor `StartsInOrder` is inductive. `LcmInv` adds
what they need of the rest of the state:

* `NotBegunInWait`: a coroutine before the end of its wait has not bound
  `db_nsr`. Otherwise a wait that times out would count as an operation at work
  when it goes straight to its `finally` block.
* `UnstoredIsFree`: a document is absent exactly until NBI stores it, and until
  then nobody holds its lock. So `NbiStamp`, which sets `startTime`, cannot
  change the order of an operation that is at work.
* `AbsentIsExcused`: an operation at work has every absent one among those its
  wait could not see. This is the race between `startTime` and the insertion:
  an operation that appears later with an earlier stamp is excused.

`StartsInOrder` is established by `PollClear`, where the query is empty, and
kept because a state returns to `PROCESSING` in no action but `NbiStore`.
`OneRunner` is established by the filter of `Lock` and kept because nothing
resets `_admin.worker`. Most steps are alike for the invariant, so the proof has
a frame: `Quiet` says that a step moves coroutines only in ways the invariant
does not notice, `WorkerStepQuiet` shows it of all worker steps but `Lock` and
`PollClear`, and `QuietKeeps` preserves the invariant once for all of them.
`NbiKeeps`, `LockKeeps` and `PollClearKeeps` treat the rest.

In the refinement `runner` maps to `_admin.worker`; `stage` is *running* when a
worker has a live coroutine, *open* when the lock is free, else *over*. `Lock`
is `Take` when it wins, the last step of a coroutine and a crash are `End` (a
crash of all the operations of the worker at once), everything else stutters.

The second part of the module relates the record of the NS, the VIM and the
coroutines. `Effect` states each step field by field (lemma `StepEffects`), so
that an invariant is kept once per effect. As long as operations run one at a
time (`Alone`), every stage of a coroutine has something to say of the record:

* `StagesInv`: a coroutine remembers of the record only what its stage may
  (`Staged`), and an operation nobody has begun has left nothing (`Blank`).
* `StatesInv` adds `StatesAgree`: the fields agree *and* the stage of the
  operation at work agrees with them, at every moment. `NsStatesAgree` and
  `DeletableIsClean` only say so of some: between two writes of one operation
  they are not inductive. Gives `StatesOfNs`, `DeletableNs`.
* `Removal`: what NBI saw when it decided to delete still holds when it
  deletes, unless a request came in between; and once the record is gone no
  instantiation works. Gives `RemovalsAreClean`.
* `NamedInv`: an outcome is written at one stage only, and what the record
  names has not reached it. Gives `BusyIsOpen`, without any hypothesis on
  overlap.

TLC checked `StatesInv` and `NamedInv` on the instances of `ns_requests` and
`ns_faults` before they were proved.

**AccountOps.** An operation is found by its position in an array, so the first
invariant, `Listed`, is that every message names an entry no other message
names; with it the lock of one entry is nobody else's, and `Locking` follows.
`Placed` (each request once in the list, in one place of its way through the
bus, on the path its kind has) and `Turns` (entries close in order as long as
`Orderly`) give *which* coroutine may be writing; `RoNamed` says that all RO has
is what the record or the one coroutine that creates names: `NoOrphanAtRo`.
`Made` and `Written` (an edit's entry is closed well only after RO was told of
exactly its content) and `Known` give `CompletedAccounts`, `Shown` (the state of
the last closed entry is in the status) gives `FailedAccounts`.

**GitOps.** A record is written whole, from a copy that may be old: so the
invariant (`CopiesAreHonest`) speaks of every record *and* of every copy that
NBI, a coroutine or a message holds: each shows as `COMPLETED` only what
succeeded. It needs no assumption on overlap, faults or clients.

`GitOpsClient_proofs` proves what a client sees that makes one request at a
time, for any number of clusters, profiles, KSUs, OKAs and requests and all kinds
of request. A property of the records at rest is not inductive, because a
request is spread over NBI's copy, the message and two copies of LCM:

* `ClientInv` says at every stage of the one open request what those copies have
  to do with the record (`Reading`, `Fresh`, `Argued`, `Present`, `Holding`), and
  how the records refer to each other (`RecordsFit`): what is listed exists,
  what does not exist is listed nowhere, a cluster that is gone is gone from
  `k8sclusters`. Gives `ClustersLeaveNothing`.
* `CarefulInv` adds what the stage owes to the properties: the record and all
  copies are busy, the list as it will be written is what the repository has
  (`ListHeld`), OKAs are marked before KSUs name them (`MarkHeld`), and a
  request that is over was answered. Gives the other four.

Steps are first stated field by field (`Begins`, `Launches`, `Polls`, ...,
`Removes`): what LCM does to a record is one of ten effects, and each invariant
is kept once per effect. `Goes` (only one request moves) with `StepFits` and
`CarefulFits` leaves for each action only what it does to its own request, to the
records (`Calm`), the marks (`MarksStay`), the list and the answer. That an
answer stays needs that a later request about another record does not touch
it, save for removing it.

**NsDeploy.** `NeededPrimitivesRun` is by the invariant `NeededInv` (operations
numbered in order, no task of one that has not begun, tasks only of the kind
of their operation, one running operation unless something was left behind,
terminate primitives before the removal). Its hypothesis `NativeApart` says
that native charms are not in one descriptor with juju charms that have
terminate primitives: `_delete_all_N2VC` would take these with it.

`NsDeployOutcome_proofs` proves the rest of the safety properties. `Effects`
states field by field what each kind of step may do; every invariant is then
preserved once per effect, not once per action:

* `OrderInv`: `NeededInv`, the tasks that belong to the operation at work, and
  how far the main coroutine is when they are.
* `OutcomeInv` adds that an environment, VM or KDU is there when its task is
  done; `CompletedRuns` follows without any hypothesis.
* `ReadyInv` (no environment counts as ready before its own primitives; a copy
  of the record holds what the operation began with), under `NativeNotHelm`:
  native charms are not mixed with helm charts. Gives `NsComesLast` and, when
  there is an environment, `FailuresAreLocated`.
* `CleanInv` (what was cleared stays so, what is removed is recorded as
  removed), under `HelmApart`: helm charts are not mixed with charms.
  `nsdeploy_mixed` is the behaviour that shows this hypothesis to be needed.
  Gives `CompletedTerminations`.
* `CausedInv` (without a fault no task has failed, no wait is for a task that
  will never write what is waited for: lemma `NotHopeless`), under
  `NativeApart`. It says nothing of an operation whose descriptor asks for what
  the code cannot do for an NS (`NotSupported`), nor of a second instantiation
  of charms in a relation (`Outdated`). Gives `FailuresAreCaused`.

**Slices.** `RunningHasItsNss` speaks of a slice and its NSs; what keeps it is
spread over NBI's two passes, the records of *other* slices and tasks that have
not begun. `Sound` says it at every moment, for any number of slices, shared
NSs, requests and faults, as long as nothing is disturbed, that is as long as
`marks` is empty: no overlap of requests, no request refused half way, and no
operation that begins beside a silent one. Failures, late answers and operations
that give up are not among the marks:

* `InTurn`, `Alive`, `TasksInTurn`, `KindsInTurn`: who may be at work beside
  whom. Requests about two slices do not overlap at NBI, but their tasks do.
* `Reliance` is the heart: of an operation on a shared NS that anybody holds,
  in the record of a slice, in a request, or only as what NBI has just found,
  no later termination has an operation on that NS. It needs what NBI looked
  at: whoever terminates has found that no other slice holds one.
* `NssInTurn`: an NS that is up goes down only by a later termination that was
  really started. `VldKnown` is what LCM looks at instead of `Reliance` before
  it starts one (`nss_in_use`): a shared NS of an instantiated slice is in the
  VLD, so a termination started by LCM had no other slice to spare (`NobodyNeeds`).
* `Keeping` puts the two together: the NSs of a slice that is shown as running,
  or is on its way there, were completed by an operation that no later
  termination has shaken. With `Lists` (what is listed exists) and `GoneIsBare`
  this is `RunningHasItsNss`; `Lists` is `ListedExist`.

The steps are first stated field by field (`...Does`); those of the tasks, of
the NS tasks and of a request at NBI then share one lemma each (`TaskKeeps`,
`NsTaskKeeps`, `RequestKeeps`), and every action has one (`...Keeps`).
`MarksGrow` says that a disturbance is never forgotten, so that the invariant
may be assumed before every step of an undisturbed behaviour.

`SlicesOwners_proofs` proves that no NS runs, or is left, for nobody. The two
properties speak of the moment when all is quiet; the invariants say, at every
moment, who is going to see to an NS:

* `Held`, the heart of `Owned`: an NS that is instantiated, or that an operation
  on its way is going to instantiate (`ToCome`), has a `Holder`: a slice that
  lists it and either uses it, or is instantiated and has no termination that
  `Leaves` it behind. The operation matters, not only the NS: a termination
  that is older than it does not count as having dealt with it.
* A termination may leave a shared NS to another slice only because that slice
  uses it (`UserFound`, kept until it acts because NBI works on one thing at a
  time); and who uses one is instantiated or about to be (`Claimed`). This is
  where `NobodyGaveUp` is needed: an instantiation that gives up makes `Claimed`
  false. Looking for this invariant is what led to the behaviour with six
  operations of section 4, beyond the bound of the run.
* `RoundsKnown`, `ShareKnown`: what a task writes back leaves out exactly the
  NSs it has no operation on, and a slice stops being instantiated only when
  its operations have ended well. `EndsFirst`: no termination of an NS works
  while an instantiation before it is still to come.
* `Alone`, for clients with one slice operation at a time under way (`Single`):
  every NS that exists `Belongs` to a slice that lists it or to a handler that is
  about to list or remove it. A task leaves a shared NS out only while another
  slice lists it (`OthersRemain`), and the conflicts that would end a removal
  half way cannot happen, by `Held`.

Here too the steps of one kind share a lemma: `HandlerAsideKeeps`, `TaskOwns`,
`NsTaskOwns`, `RequestOwns`; `BesideKeeps` and `TaskAlone` for `Alone`. TLC checked
the parts of both invariants on the instance of `slices_shared` first.

**Only model-checked.** All liveness (`SentOpEnds`, `CancelAnswered`,
`AccountOpEnds`, `WorkEnds`, `OperationEnds`) and the invariant
`EverythingEnds`, which is about `ENABLED`: both are out of the prover's reach.
All other invariants and action properties of the passing runs are theorems.

## 6. What is not modelled

* What happens inside RO, N2VC, Helm and Kubernetes: one external step that
  succeeds or fails, at the latest by its timeout.
* In `NsLcm`: suboperations of `scale` and `update`, `vnfrs`, KPI collection,
  VCA status; redelivery of a message to the worker that is still running it;
  the in-memory registry beyond "which coroutines live here". A scale of type
  `SCALE_KDU` that leaves `scaling_type` unbound, so that its `finally` block
  raises (`ns.py:7665`), is left out. The second disjunct of `CancelEndDied` (one
  of the tasks registered beside a coroutine that is done ended with an
  exception) is nearly unreachable: `lcm.py:386-388` has to await it just then.
* In `NsDeploy`: operations come one after the other and the process does not
  crash (`NsLcm` has both); the answer to a creation arrives with the creation;
  one state for all VMs of the NS; prometheus jobs and `skip_terminate_primitives`
  are left out, and with the former the wait for exporters before the task of the
  NS's charm is created (`ns.py:2901-2957`); a KDU is always enabled; a cancel that
  is raised inside a wait leaves the pending tasks. A primitive that fails does
  not end `destroy_N2VC`: `_ns_execute_primitive` returns every error as a
  status, so the `continue` at `ns.py:4416` is never taken and not modelled.
  The instance `Uniform` has one type of environment per descriptor (natives
  with a charm in Kubernetes); the proofs have any.
* In `GitOps`: one type of profile; a step is the code between two awaits, with
  the read and write of `initialize_operation` in one; no redelivery; an edit
  keeps the profile of a KSU; batches only of creations; registration of cloud
  credentials and helm repositories is left out; `clone` and `move` have no
  workflow in the code either. Left out as well: the entry in `k8sclusters` that
  fails because its VIM account is not found, after the message went out
  (`acm_topic.py:228`), and the same look-up at LCM (`k8s.py:377`, `627`,
  `1231`); that of the OKAs of a KSU that is removed only the last is released
  (`k8s_topics.py:1000-1001`; a KSU has one here); that the profiles found are
  updated when another listed one is missing (`k8s.py:567-603`); that
  `delete_profile_ksu` looks for KSUs by an exact sub-document (`k8s.py:314`),
  which `KsusOf` takes as "is in the profile".
* In `Slices`: one VLD, a shared and an own subnet (the shared one first); the
  own NS has the slice's name and an NS operation is named by its request and
  NS; it is open, `COMPLETED` or `FAILED`, which is what `NsLcm` gives; requests
  about one slice are answered in turn; no force, no crash, no networks at the
  classic RO; a poll writes the list back only when the list, the users or the
  end changed, not for a detailed status alone (`netslice.py:476`); an NS
  instantiation that fails does so after `nsState` is `INSTANTIATED`, or by
  giving its wait up; an operation is silent only while an earlier one of its
  slice or NS works or polls, once in a behaviour; a client asks for nothing
  more once it did what `marks` remembers, save for requests made together.
* In `AccountOps`: accounts shared by projects, the SDN controller that a VIM
  names, and the K8s cluster, VCA and repository classes of `vim_sdn.py`.
* The internals of `scale`, `heal`, `update` and `migrate`.
* The components with status `not_modelled` in `PROJECT.json`, each with its
  reason; those that say *planned* are below.

## 7. Plan

Done: `NsLcm`, `AccountOps`, `GitOps`, `NsDeploy`, `Slices` modelled and checked;
all their safety properties (save `EverythingEnds` of `Slices`) and the refinement
of `NsLcm` proved.

Next, in this order:

1. **Scale**, **heal**, **update** in the detail of `NsDeploy`.
2. **BusReader**: `kafka_read`, `kafka_ping` and the health check as one process
   with counters; the threshold expression at `lcm.py:1014` means something
   else than the comment above it says.
3. **PduPool**: `_look_for_pdu` and its release; **NbiProjects**: multi-project
   delete and `usageState` of descriptors; the package as a record and a folder.
4. **TokenCache**, **Subscriptions**; **DbFilters**: the merge and filter
   algorithms of `dbbase` as pure operators against a reference definition.
