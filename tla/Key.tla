--------------------------------- MODULE Key ----------------------------------
(***************************************************************************)
(* The Key controller (internal/controller/key_controller.go) with the     *)
(* Jobs it starts: "restic key add" for a new Key, "restic key remove" for *)
(* a deleted one, which a finalizer keeps in place until the Job is done.  *)
(*                                                                         *)
(* All Keys belong to one Repository.  What happens to it is taken from    *)
(* RepoLifecycle, the specification that module Repository implements.     *)
(* Every Repository of the name, one after another, has a restic storage   *)
(* of its own, known by the uid of the Repository.                         *)
(***************************************************************************)
EXTENDS Informer

CONSTANTS
  Names,      \* names of Key objects
  RepoName,   \* the name of their Repository
  JobIds,     \* what GenerateName can append to add-key- and delete-key-
  KeyIds,     \* the IDs that restic can give to a new key
  Passwords,  \* what password.Generate can return
  None,       \* no password, no ID, no name
  Policies,   \* the deletion policies in use: "background", "foreground"
  RepoPolicies,  \* the same for the Repository
  Backoff,    \* failed pods a Job tolerates (default backoffLimit, 6 in a cluster)
  PodsVanish, \* bound: whether pods that have ended may be removed
  MaxUid,     \* bound: Keys created under one name, one after another
  MaxRepoUid, \* bound: Repositories created under the name
  MaxTouch,   \* bound: user edits of Keys
  MaxFaults,  \* bound: failed API calls and restarts of the operator
  MaxLag      \* bound: changes of a kind that its cache has not seen

ASSUME NoneAssumption == None \notin Names \cup JobIds \cup KeyIds \cup Passwords
ASSUME PoliciesAssumption ==
  Policies \subseteq {"background", "foreground"} /\ RepoPolicies \subseteq {"background", "foreground"}
ASSUME BoundsAssumption ==
  /\ Backoff \in Nat
  /\ MaxUid \in Nat /\ MaxRepoUid \in Nat
  /\ MaxTouch \in Nat /\ MaxFaults \in Nat /\ MaxLag \in Nat

VARIABLES
  repos,     \* the Repository kind: RepoName -> RepoLifecycle view
  keys,      \* the Key kind
  jobs,      \* the Job kind: the key Jobs of this Repository
  secrets,   \* the Secrets restic-key-..., by the name of the Key
  operator,  \* uid of the Repository whose operator secret exists, 0 for none
  logs,      \* Job -> what the logs of its pods that are left say: an ID, or None
  restic,    \* key ID -> the storage it was added to, and its password
  queue,     \* the controller's work queue: a set of names
  worker,    \* where Reconcile is, with its copies of Key and Repository
  born,      \* name -> uid given to the last Key of that name
  repoBorn,  \* uid given to the last Repository
  revision,  \* name -> resourceVersion given to its last write
  touches,   \* user edits so far
  faults     \* failed calls and restarts so far

vars == <<repos, keys, jobs, secrets, operator, logs, restic, queue, worker,
          born, repoBorn, revision, touches, faults>>

(* Variables a step of the controller's worker never changes.              *)
world == <<repos, operator, logs, restic, born, repoBorn, touches, faults>>

L == INSTANCE RepoLifecycle WITH
       Names <- {RepoName},
       view <- Stored(repos),
       born <- [n \in {RepoName} |-> repoBorn]

K == INSTANCE KeyLifecycle WITH
       view <- [n \in Names |-> [uid |-> Stored(keys)[n].uid,
                                 phase |-> Stored(keys)[n].phase,
                                 keyID |-> Stored(keys)[n].keyID,
                                 finalizer |-> Stored(keys)[n].finalizer,
                                 deleting |-> Stored(keys)[n].deleting]]

-------------------------------------------------------------------------------
(* Objects.  An object that does not exist has uid 0, or is not live.      *)

(* owner is the uid of the Repository in the controller reference.         *)
Key == [uid : Nat, rv : Nat, phase : L!Phases, keyID : KeyIds \cup {None},
        finalizer : BOOLEAN, owner : Nat, deleting : {"no", "background", "foreground"}]

NoKey == [uid |-> 0, rv |-> 0, phase |-> "nil", keyID |-> None,
          finalizer |-> FALSE, owner |-> 0, deleting |-> "no"]

(* key and op are labels, owner is the uid in the controller reference,    *)
(* store and arg come from the command.  failed counts failed pods.        *)
Job == [live : BOOLEAN, key : Names \cup {None}, owner : Nat, op : {"add", "delete"},
        store : Nat, arg : KeyIds \cup {None}, state : {"Active", "Complete", "Failed"},
        failed : Nat]

NoJob == [live |-> FALSE, key |-> None, owner |-> 0, op |-> "add", store |-> 0,
          arg |-> None, state |-> "Active", failed |-> 0]

Secret == [live : BOOLEAN, owner : Nat, pw : Passwords \cup {None}]

NoSecret == [live |-> FALSE, owner |-> 0, pw |-> None]

(* A restic key: store 0 before it is added, no password once removed.     *)
ResticKey == [store : Nat, pw : Passwords \cup {None}]

Worker == [pc : {"idle", "begin", "own", "plan", "makeJob"},
           name : Names \cup {None}, key : Key, repo : L!RepoViews]

Idle == [pc |-> "idle", name |-> None, key |-> NoKey, repo |-> L!NoView]

Deleting(key) == key.deleting # "no"

IsCreated(x) == x.phase = "created"

IsFailed(x) == x.phase = "failed"

(* Get answers that there is no such Key.                                  *)
FoundMutant(key) == TRUE
Found(key) == key.uid # 0

TheRepo == Stored(repos)[RepoName]

-------------------------------------------------------------------------------
Init ==
  /\ repos = <<[n \in {RepoName} |-> L!NoView]>>
  /\ keys = <<[n \in Names |-> NoKey]>>
  /\ jobs = <<[j \in JobIds |-> NoJob]>>
  /\ secrets = <<[n \in Names |-> NoSecret]>>
  /\ operator = 0
  /\ logs = [j \in JobIds |-> {}]
  /\ restic = [id \in KeyIds |-> [store |-> 0, pw |-> None]]
  /\ queue = {}
  /\ worker = Idle
  /\ born = [n \in Names |-> 0]
  /\ repoBorn = 0
  /\ revision = [n \in Names |-> 0]
  /\ touches = 0
  /\ faults = 0

(* Accepted writes.  A Key gets the next resourceVersion.                  *)
PutKey(n, key) ==
  /\ Len(keys) <= MaxLag
  /\ keys' = Write(keys, n, [key EXCEPT !.rv = revision[n] + 1])
  /\ revision' = [revision EXCEPT ![n] = @ + 1]

RemoveKey(n) ==
  /\ Len(keys) <= MaxLag
  /\ keys' = Write(keys, n, NoKey)
  /\ UNCHANGED revision

PutJob(j, job) ==
  /\ Len(jobs) <= MaxLag
  /\ jobs' = Write(jobs, j, job)

PutSecret(n, secret) ==
  /\ Len(secrets) <= MaxLag
  /\ secrets' = Write(secrets, n, secret)

PutRepo(repo) ==
  /\ Len(repos) <= MaxLag
  /\ repos' = Write(repos, RepoName, repo)

(* Reconcile returns an error, panics (the panic is recovered), or asks to *)
(* be called again later (RequeueAfter): the name is handed out again.     *)
Retry ==
  /\ worker' = Idle
  /\ queue' = queue \cup {worker.name}
  /\ UNCHANGED <<keys, jobs, secrets, revision>>

(* Reconcile returns without an error.                                     *)
Return ==
  /\ worker' = Idle
  /\ UNCHANGED queue

(* Return, with nothing written since the last step.                       *)
Stop == Return /\ UNCHANGED <<keys, jobs, secrets, revision>>

(* The API server refuses a copy that is not of the latest version.        *)
Current(key) == Stored(keys)[worker.name].rv = key.rv

-------------------------------------------------------------------------------
(* The worker: Reconcile up to the list of Jobs.                           *)

(* The caching client returns the Key and its Repository.                  *)
Start(n) ==
  /\ worker.pc = "idle"
  /\ n \in queue
  /\ queue' = queue \ {n}
  /\ worker' = IF Found(Cached(keys)[n])
               THEN [pc |-> "begin", name |-> n, key |-> Cached(keys)[n],
                     repo |-> Cached(repos)[RepoName]]
               ELSE Idle
  /\ UNCHANGED <<keys, jobs, secrets, revision, world>>

(* RemoveFinalizer and Update.  The API server removes an object that is   *)
(* being deleted with its last finalizer, unless it still waits for its    *)
(* dependents; an update that changes nothing is not a write.  again are   *)
(* the names that what follows an accepted Update puts into the queue.     *)
ReleaseMutant(key, again) == Stop
Release(key, again) ==
  LET n == worker.name IN
  \/ /\ Current(key)
     /\ \/ /\ key.finalizer
           /\ \/ key.deleting = "background" /\ RemoveKey(n)
              \/ key.deleting = "foreground" /\ PutKey(n, [key EXCEPT !.finalizer = FALSE])
        \/ ~key.finalizer /\ UNCHANGED <<keys, revision>>
     /\ worker' = Idle
     /\ queue' = queue \cup again
     /\ UNCHANGED <<jobs, secrets>>
  \/ ~Current(key) /\ Retry

(* The Repository is not found.                                            *)
RepositoryGone ==
  /\ worker.pc = "begin"
  /\ worker.repo.uid = 0
  /\ \/ Deleting(worker.key) /\ Release(worker.key, {})
     \/ ~Deleting(worker.key) /\ Retry
  /\ UNCHANGED world

(* SetDefaultConditions and Status().Update.                               *)
SetDefaults ==
  LET set == [worker.key EXCEPT !.phase = "pending"] IN
  /\ worker.pc = "begin"
  /\ worker.repo.uid # 0
  /\ worker.key.phase = "nil"
  /\ \/ /\ Current(worker.key)
        /\ PutKey(worker.name, set)
        /\ worker' = [worker EXCEPT !.pc = "own",
                                    !.key = [set EXCEPT !.rv = revision[worker.name] + 1]]
        /\ UNCHANGED <<jobs, secrets, queue>>
     \/ ~Current(worker.key) /\ Retry
  /\ UNCHANGED world

(* SetControllerReference, the label, AddFinalizer and Update.  No         *)
(* finalizer may be added to an object that is being deleted.              *)
Own ==
  LET owned == [worker.key EXCEPT !.owner = worker.repo.uid, !.finalizer = TRUE] IN
  /\ worker.pc = "own"
  /\ \/ /\ Current(worker.key)
        /\ ~Deleting(worker.key)
        /\ PutKey(worker.name, owned)
        /\ worker' = [worker EXCEPT !.pc = "plan",
                                    !.key = [owned EXCEPT !.rv = revision[worker.name] + 1]]
        /\ UNCHANGED <<jobs, secrets, queue>>
     \/ /\ ~Current(worker.key) \/ Deleting(worker.key)
        /\ Retry
  /\ UNCHANGED world

(* Past SetDefaultConditions.                                              *)
Planning ==
  \/ worker.pc = "plan"
  \/ worker.pc = "begin" /\ worker.repo.uid # 0 /\ worker.key.phase # "nil"

(* getKeyJobs: the Jobs in the cache that bear the label of this name.     *)
KeyJobs == {j \in JobIds : Cached(jobs)[j].live /\ Cached(jobs)[j].key = worker.name}

(* Those whose label says op; the cache lists them in no certain order, so *)
(* the first one the code finds is any of them.                            *)
JobsFor(op) == {j \in KeyJobs : Cached(jobs)[j].op = op}

(* A name that no Job had lately.                                          *)
FreshJob(j) == \A i \in 1..Len(jobs) : ~jobs[i][j].live

(* Create of a Job; with every name of GenerateName taken it is refused.   *)
CreateJob(job) ==
  \/ /\ \E j \in JobIds : FreshJob(j) /\ PutJob(j, job)
     /\ Return
     /\ UNCHANGED <<keys, secrets, revision>>
  \/ /\ \A j \in JobIds : ~FreshJob(j)
     /\ Retry

-------------------------------------------------------------------------------
(* The worker: a Key that is to be created.                                *)

(* Reconcile's early return.                                               *)
SettledMutant(key) == FALSE
Settled(key) == IsCreated(key) \/ IsFailed(key)

SettledAlready ==
  /\ Planning
  /\ ~Deleting(worker.key)
  /\ Settled(worker.key)
  /\ Stop
  /\ UNCHANGED world

(* The Key still needs an outcome.                                         *)
Wanted == Planning /\ ~Deleting(worker.key) /\ ~Settled(worker.key)

RepositoryNotReady ==
  /\ Wanted
  /\ KeyJobs = {}
  /\ ~IsCreated(worker.repo)
  /\ Retry
  /\ UNCHANGED world

(* Passwords that exist somewhere: Generate never returns one of them.     *)
UsedPasswords ==
  {restic[id].pw : id \in KeyIds} \cup
  UNION {{secrets[i][n].pw : n \in Names} : i \in 1..Len(secrets)}

(* An existing secret must have this Key as its one owner (by uid).        *)
OwnsSecretMutant(key, secret) == TRUE
OwnsSecret(key, secret) == secret.owner = key.uid

(* createSecretIfNotExists.                                                *)
EnsureSecret ==
  LET n == worker.name
      secret == Cached(secrets)[n]
      proceed == worker' = [worker EXCEPT !.pc = "makeJob"] /\ UNCHANGED <<queue, keys, jobs, revision>>
  IN
  /\ Wanted
  /\ KeyJobs = {}
  /\ IsCreated(worker.repo)
  /\ \/ /\ ~secret.live
        /\ ~Stored(secrets)[n].live
        /\ \E pw \in Passwords \ UsedPasswords :
             PutSecret(n, [live |-> TRUE, owner |-> worker.key.uid, pw |-> pw])
        /\ proceed
     \/ ~secret.live /\ Stored(secrets)[n].live /\ Retry
     \/ secret.live /\ OwnsSecret(worker.key, secret) /\ proceed /\ UNCHANGED secrets
     \/ secret.live /\ ~OwnsSecret(worker.key, secret) /\ Retry
  /\ UNCHANGED world

(* The Job of restic.CreateAddKeyJob, with its controller reference.       *)
CreateAddKeyJob(n, repo, key) ==
  [NoJob EXCEPT !.live = TRUE, !.key = n, !.owner = key.uid, !.op = "add", !.store = repo.uid]

(* The rest of createKey.                                                  *)
StartAddJob ==
  /\ worker.pc = "makeJob"
  /\ CreateJob(CreateAddKeyJob(worker.name, worker.repo, worker.key))
  /\ UNCHANGED world

(* A Job counts as finished only when it is complete.                      *)
FinishedMutant(job) == job.state = "Failed"
Finished(job) == job.state = "Complete"

(* Jobs exist, and none of them is finished.                               *)
JobsRunning ==
  /\ Wanted
  /\ KeyJobs # {}
  /\ \A j \in KeyJobs : ~Finished(Cached(jobs)[j])
  /\ Stop
  /\ UNCHANGED world

(* Some Job is finished.                                                   *)
CheckActiveJobStatus == Wanted /\ \E j \in KeyJobs : Finished(Cached(jobs)[j])

(* Status().Update of the worker's copy.                                   *)
Record(key) ==
  \/ /\ Current(key)
     /\ PutKey(worker.name, key)
     /\ Return
     /\ UNCHANGED <<jobs, secrets>>
  \/ ~Current(key) /\ Retry

SetCreatedConditionMutant(key, id) == [key EXCEPT !.phase = "created"]
SetCreatedCondition(key, id) == [key EXCEPT !.phase = "created", !.keyID = id]

SetFailedCondition(key) == [key EXCEPT !.phase = "failed"]

(* checkCreateJobStatus of a finished add Job reads the log of any one of  *)
(* the Job's pods that are left; in that of a complete Job it looks for    *)
(* the ID.                                                                 *)
RecordCreated ==
  /\ CheckActiveJobStatus
  /\ \E j \in JobsFor("add") :
       /\ Cached(jobs)[j].state = "Complete"
       /\ \E id \in logs[j] \ {None} : Record(SetCreatedCondition(worker.key, id))
  /\ UNCHANGED world

RecordFailed ==
  /\ CheckActiveJobStatus
  /\ \E j \in JobsFor("add") : Cached(jobs)[j].state = "Failed" /\ logs[j] # {}
  /\ Record(SetFailedCondition(worker.key))
  /\ UNCHANGED world

(* Both panic: indexing the failed match when the log lacks the ID, and    *)
(* getJobPodLogs when no pod is left.                                      *)
NoMatch ==
  /\ CheckActiveJobStatus
  /\ \E j \in JobsFor("add") : Cached(jobs)[j].state = "Complete" /\ None \in logs[j]
  /\ Retry
  /\ UNCHANGED world

NoPods ==
  /\ CheckActiveJobStatus
  /\ \E j \in JobsFor("add") : Cached(jobs)[j].state # "Active" /\ logs[j] = {}
  /\ Retry
  /\ UNCHANGED world

(* The first add Job is still running, or only a delete Job is there.      *)
NothingToRecord ==
  /\ CheckActiveJobStatus
  /\ JobsFor("add") = {} \/ \E j \in JobsFor("add") : Cached(jobs)[j].state = "Active"
  /\ Stop
  /\ UNCHANGED world

-------------------------------------------------------------------------------
(* The worker: deleteKeyOrCheckDeletionStatus.                             *)

Unwanted == Planning /\ Deleting(worker.key)

(* With the Repository, the key is considered deleted.                     *)
RepositoryGoing ==
  /\ Unwanted
  /\ worker.repo.deleting
  /\ Release(worker.key, {})
  /\ UNCHANGED world

(* The Jobs that tell how the removal of the restic key went.              *)
DeleteJobsMutant == KeyJobs
DeleteJobs == JobsFor("delete")

KeyRemovedMutant(job) == job.state \in {"Complete", "Failed"}
KeyRemoved(job) == job.state = "Complete"

(* checkDeleteJobStatus of the first delete Job found.  It reads the log   *)
(* of a failed one, which panics when no pod is left, and does no more     *)
(* about it.  The events name the ID; without one Reconcile panics, after  *)
(* a complete Job only once the finalizer is off.                          *)
CheckDeleteJobStatus ==
  LET noID == worker.key.keyID = None IN
  /\ Unwanted
  /\ ~worker.repo.deleting
  /\ \E j \in DeleteJobs :
       LET job == Cached(jobs)[j] IN
       \/ KeyRemoved(job) /\ Release(worker.key, IF noID THEN {worker.name} ELSE {})
       \/ job.state = "Active" /\ Stop
       \/ job.state = "Failed" /\ ~noID /\ logs[j] # {} /\ Stop
       \/ job.state = "Failed" /\ (noID \/ logs[j] = {}) /\ Retry
  /\ UNCHANGED world

(* The Job of restic.CreateDeleteKeyJob, with its controller reference.    *)
CreateDeleteKeyJob(n, repo, key) ==
  [NoJob EXCEPT !.live = TRUE, !.key = n, !.owner = key.uid, !.op = "delete",
                !.store = repo.uid, !.arg = key.keyID]

(* CreateDeleteKeyJob wants a created Repository and panics without an ID. *)
StartDeleteJob ==
  /\ Unwanted
  /\ ~worker.repo.deleting
  /\ DeleteJobs = {}
  /\ \/ /\ IsCreated(worker.repo)
        /\ worker.key.keyID # None
        /\ CreateJob(CreateDeleteKeyJob(worker.name, worker.repo, worker.key))
     \/ /\ ~IsCreated(worker.repo) \/ worker.key.keyID = None
        /\ Retry
  /\ UNCHANGED world

-------------------------------------------------------------------------------
(* Failures of the operator and its watches.                               *)

(* An API call fails, or was made and its answer is lost.                  *)
CallFails ==
  /\ worker.pc # "idle"
  /\ faults < MaxFaults
  /\ faults' = faults + 1
  /\ Retry
  /\ UNCHANGED <<repos, operator, logs, restic, born, repoBorn, touches>>

(* Caches are listed anew and every Key in them is queued.                 *)
Restart ==
  /\ faults < MaxFaults
  /\ faults' = faults + 1
  /\ worker' = Idle
  /\ repos' = Relisted(repos)
  /\ keys' = Relisted(keys)
  /\ jobs' = Relisted(jobs)
  /\ secrets' = Relisted(secrets)
  /\ queue' = {n \in Names : Stored(keys)[n].uid # 0}
  /\ UNCHANGED <<operator, logs, restic, born, repoBorn, revision, touches>>

DeliverKey ==
  /\ Len(keys) > 1
  /\ queue' = queue \cup Announced(keys)
  /\ keys' = Tail(keys)
  /\ UNCHANGED <<jobs, secrets, worker, revision, world>>

(* A change of a Job queues its controller owner, by name: an update that  *)
(* of the old and of the new object, a deletion that of the old one.       *)
OwnersOfMutant(w) == {w[2][j].key : j \in Announced(w)} \ {None}
OwnersOf(w) == {w[i][j].key : i \in 1..2, j \in Announced(w)} \ {None}

DeliverJob ==
  /\ Len(jobs) > 1
  /\ queue' = queue \cup OwnersOf(jobs)
  /\ jobs' = Tail(jobs)
  /\ UNCHANGED <<keys, secrets, worker, revision, world>>

(* Secrets and Repositories are cached, but queue no Key.                  *)
DeliverSecret ==
  /\ Len(secrets) > 1
  /\ secrets' = Tail(secrets)
  /\ UNCHANGED <<keys, jobs, queue, worker, revision, world>>

DeliverRepo ==
  /\ Len(repos) > 1
  /\ repos' = Tail(repos)
  /\ UNCHANGED <<keys, jobs, secrets, operator, logs, restic, queue, worker, born, repoBorn, revision, touches, faults>>

(* The periodic resync of the cache queues what it holds.                  *)
Resync(n) ==
  /\ Cached(keys)[n].uid # 0
  /\ n \notin queue
  /\ queue' = queue \cup {n}
  /\ UNCHANGED <<keys, jobs, secrets, worker, revision, world>>

-------------------------------------------------------------------------------
(* Users and the garbage collector.                                        *)

UserCreates(n) ==
  /\ Stored(keys)[n].uid = 0
  /\ born[n] < MaxUid
  /\ born' = [born EXCEPT ![n] = @ + 1]
  /\ PutKey(n, [NoKey EXCEPT !.uid = born[n] + 1])
  /\ UNCHANGED <<repos, jobs, secrets, operator, logs, restic, queue, worker, repoBorn, touches, faults>>

(* The webhook keeps the spec as it is; metadata may change.               *)
UserEdits(n) ==
  /\ Stored(keys)[n].uid # 0
  /\ touches < MaxTouch
  /\ touches' = touches + 1
  /\ PutKey(n, Stored(keys)[n])
  /\ UNCHANGED <<repos, jobs, secrets, operator, logs, restic, queue, worker, born, repoBorn, faults>>

(* A delete request: what keeps the object in place is its finalizer, or   *)
(* the dependents that a foreground deletion removes first.                *)
Delete(n, policy) ==
  LET key == Stored(keys)[n] IN
  /\ key.uid # 0
  /\ ~Deleting(key)
  /\ \/ policy = "background" /\ ~key.finalizer /\ RemoveKey(n)
     \/ /\ policy = "foreground" \/ key.finalizer
        /\ PutKey(n, [key EXCEPT !.deleting = policy])
  /\ UNCHANGED <<jobs, secrets, queue, worker, world>>

UserDeletes(n) == \E policy \in Policies : Delete(n, policy)

OwnedBy(n, key) ==
  \/ Stored(secrets)[n].live /\ Stored(secrets)[n].owner = key.uid
  \/ \E j \in JobIds : LET job == Stored(jobs)[j]
                       IN  job.live /\ job.key = n /\ job.owner = key.uid

(* The owner of the Key, a Repository, is gone or waits for its dependents *)
(* to go; in the latter case their own dependents go first.                *)
CollectKey(n) ==
  LET key == Stored(keys)[n] IN
  /\ key.owner # 0
  /\ \/ TheRepo.uid # key.owner /\ Delete(n, "background")
     \/ /\ TheRepo.uid = key.owner
        /\ TheRepo.deleting
        /\ Delete(n, IF OwnedBy(n, key) THEN "foreground" ELSE "background")

(* The end of the foreground deletion of a Key.                            *)
FinishKey(n) ==
  LET key == Stored(keys)[n] IN
  /\ key.deleting = "foreground"
  /\ ~key.finalizer
  /\ ~OwnedBy(n, key)
  /\ RemoveKey(n)
  /\ UNCHANGED <<jobs, secrets, queue, worker, world>>

(* The Key with this uid is gone, or waits for its dependents to go.       *)
Orphaned(n, owner) ==
  Stored(keys)[n].uid # owner \/ Stored(keys)[n].deleting = "foreground"

(* Its pods go after it; but as far as a cache that has it still is        *)
(* concerned, the Job might as well have stayed as long as they.           *)
CollectJob(j) ==
  LET job == Stored(jobs)[j] IN
  /\ job.live
  /\ Orphaned(job.key, job.owner)
  /\ PutJob(j, NoJob)
  /\ logs' = [logs EXCEPT ![j] = {}]
  /\ UNCHANGED <<repos, keys, secrets, operator, restic, queue, worker,
                 born, repoBorn, revision, touches, faults>>

CollectSecret(n) ==
  /\ Stored(secrets)[n].live
  /\ Orphaned(n, Stored(secrets)[n].owner)
  /\ PutSecret(n, NoSecret)
  /\ UNCHANGED <<keys, jobs, queue, worker, revision, world>>

-------------------------------------------------------------------------------
(* The Repository, and the pods.                                           *)

RepoAppears ==
  /\ repoBorn < MaxRepoUid
  /\ repoBorn' = repoBorn + 1
  /\ \E v \in L!Appears(TheRepo, repoBorn + 1) : PutRepo(v)
  /\ UNCHANGED <<keys, jobs, secrets, operator, logs, restic, queue, worker, born, revision, touches, faults>>

(* The first Repository of the name is not Created without its operator    *)
(* secret (CreatedIsUsable of module Repository); a later one may be.      *)
RepoProgresses ==
  /\ \E v \in L!Progresses(TheRepo) :
       /\ v.uid = 1 /\ v.phase = "created" /\ ~v.deleting => operator = 1
       /\ PutRepo(v)
  /\ UNCHANGED <<keys, jobs, secrets, operator, logs, restic, queue, worker, born, repoBorn, revision, touches, faults>>

RepoStartsDeletion ==
  /\ "foreground" \in RepoPolicies
  /\ ~TheRepo.deleting
  /\ \E v \in L!StartsDeletion(TheRepo) : PutRepo(v)
  /\ UNCHANGED <<keys, jobs, secrets, operator, logs, restic, queue, worker, born, repoBorn, revision, touches, faults>>

(* Background deletion removes the Repository at once, foreground deletion *)
(* when the Keys it owns are gone.                                         *)
RepoVanishes ==
  /\ \/ ~TheRepo.deleting /\ "background" \in RepoPolicies
     \/ TheRepo.deleting /\ \A n \in Names : Stored(keys)[n].owner # TheRepo.uid
  /\ \E v \in L!Vanishes(TheRepo) : PutRepo(v)
  /\ UNCHANGED <<keys, jobs, secrets, operator, logs, restic, queue, worker, born, repoBorn, revision, touches, faults>>

(* Its operator secret, which the repository controller makes and owns     *)
(* (operator-key-...).  Pods mount it by name: after the Repository was    *)
(* replaced it is another's.                                               *)
OperatorSecretAppears ==
  /\ operator = 0
  /\ TheRepo.phase = "pending" \/ TheRepo.deleting
  /\ operator' = TheRepo.uid
  /\ UNCHANGED <<repos, keys, jobs, secrets, logs, restic, queue, worker,
                 born, repoBorn, revision, touches, faults>>

OperatorSecretCollected ==
  /\ operator # 0
  /\ TheRepo.uid # operator \/ TheRepo.deleting
  /\ operator' = 0
  /\ UNCHANGED <<repos, keys, jobs, secrets, logs, restic, queue, worker,
                 born, repoBorn, revision, touches, faults>>

(* The secrets that both kinds of Jobs, and an add Job, mount are there.   *)
Mountable(job) == operator # 0 /\ (job.op = "add" => Stored(secrets)[job.key].live)

Running(j, op) ==
  /\ Stored(jobs)[j].live
  /\ Stored(jobs)[j].state = "Active"
  /\ Stored(jobs)[j].op = op
  /\ Mountable(Stored(jobs)[j])

FailedPod(job) ==
  [job EXCEPT !.failed = @ + 1,
              !.state = IF job.failed + 1 > Backoff THEN "Failed" ELSE "Active"]

(* A pod of the Job has ended; its log may be read as long as it is there. *)
Logged(j, said) == logs' = [logs EXCEPT ![j] = @ \cup {said}]

(* The API server, queue and caches are as they were, but for the Job.     *)
Elsewhere ==
  UNCHANGED <<repos, keys, secrets, operator, queue, worker, born, repoBorn, revision, touches, faults>>

(* "restic key add" with the password mounted from the Key's secret, in    *)
(* the storage that the mounted operator secret opens.                     *)
AddsKey(j, id) ==
  LET job == Stored(jobs)[j] IN
  /\ Running(j, "add")
  /\ operator = job.store
  /\ restic[id].store = 0
  /\ restic' = [restic EXCEPT ![id] = [store |-> job.store, pw |-> Stored(secrets)[job.key].pw]]

AddPodSucceeds(j) ==
  /\ \E id \in KeyIds : AddsKey(j, id) /\ Logged(j, id)
  /\ PutJob(j, [Stored(jobs)[j] EXCEPT !.state = "Complete"])
  /\ Elsewhere

(* The pod is lost after the key was added: before or after its log says   *)
(* so.                                                                     *)
AddPodLost(j) ==
  /\ \E id \in KeyIds : AddsKey(j, id) /\ \E said \in {id, None} : Logged(j, said)
  /\ PutJob(j, FailedPod(Stored(jobs)[j]))
  /\ Elsewhere

(* The storage cannot be reached or cannot be opened.                      *)
PodFails(j) ==
  /\ Running(j, "delete") \/ Running(j, "add")
  /\ Logged(j, None)
  /\ PutJob(j, FailedPod(Stored(jobs)[j]))
  /\ Elsewhere
  /\ UNCHANGED restic

(* "restic key remove" of a key that this storage has.                     *)
RemovesKey(j) ==
  LET job == Stored(jobs)[j] IN
  /\ Running(j, "delete")
  /\ operator = job.store
  /\ restic[job.arg].store = job.store
  /\ restic[job.arg].pw # None
  /\ restic' = [restic EXCEPT ![job.arg].pw = None]

(* Nobody reads the log of a delete Job that is complete.                  *)
DeletePodSucceeds(j) ==
  /\ RemovesKey(j)
  /\ PutJob(j, [Stored(jobs)[j] EXCEPT !.state = "Complete"])
  /\ UNCHANGED logs
  /\ Elsewhere

(* The pod is lost after the key was removed: the next one finds no key.   *)
DeletePodLost(j) ==
  /\ RemovesKey(j)
  /\ Logged(j, None)
  /\ PutJob(j, FailedPod(Stored(jobs)[j]))
  /\ Elsewhere

(* Pods that have ended are removed, with their nodes or by hand; before   *)
(* the Job has ended nobody can tell.  Those whose logs say the same go    *)
(* together.                                                               *)
LogsLost(j) ==
  /\ PodsVanish
  /\ Stored(jobs)[j].state # "Active"
  /\ \E said \in logs[j] : logs' = [logs EXCEPT ![j] = @ \ {said}]
  /\ UNCHANGED <<jobs, restic>>
  /\ Elsewhere

-------------------------------------------------------------------------------
CreateSteps ==
  SettledAlready \/ RepositoryNotReady \/ EnsureSecret \/ StartAddJob \/ JobsRunning
  \/ RecordCreated \/ RecordFailed \/ NoMatch \/ NoPods \/ NothingToRecord

DeleteSteps == RepositoryGoing \/ CheckDeleteJobStatus \/ StartDeleteJob

Step == RepositoryGone \/ SetDefaults \/ Own \/ CreateSteps \/ DeleteSteps

Deliver == DeliverKey \/ DeliverJob \/ DeliverSecret \/ DeliverRepo

User(n) == UserCreates(n) \/ UserEdits(n) \/ UserDeletes(n)

Collect(n) == CollectKey(n) \/ FinishKey(n) \/ CollectSecret(n)

RepoChanges ==
  \/ RepoAppears \/ RepoProgresses \/ RepoStartsDeletion \/ RepoVanishes
  \/ OperatorSecretAppears \/ OperatorSecretCollected

Pod(j) ==
  \/ AddPodSucceeds(j) \/ AddPodLost(j)
  \/ DeletePodSucceeds(j) \/ DeletePodLost(j)
  \/ PodFails(j)

Next ==
  \/ Step
  \/ CallFails
  \/ Restart
  \/ Deliver
  \/ RepoChanges
  \/ \E n \in Names : Start(n) \/ Resync(n) \/ User(n) \/ Collect(n)
  \/ \E j \in JobIds : CollectJob(j) \/ Pod(j) \/ LogsLost(j)

Spec == Init /\ [][Next]_vars

(* Fairness: as in module Repository.  In addition the resync comes around *)
(* (the manager's default period is ten hours), and a log with an ID that  *)
(* stays there is read some day: pods are listed in no certain order.      *)
(* Nothing is assumed of pods that are lost.                               *)
FairSpec ==
  /\ Spec
  /\ \A n \in Names :
       SF_vars(Start(n)) /\ WF_vars(Resync(n)) /\ WF_vars(FinishKey(n)) /\ WF_vars(CollectSecret(n))
  /\ \A j \in JobIds : WF_vars(CollectJob(j)) /\ WF_vars(Pod(j))
  /\ WF_vars(Step)
  /\ SF_vars(RecordCreated)
  /\ WF_vars(DeliverKey)
  /\ WF_vars(DeliverJob)
  /\ WF_vars(DeliverSecret)
  /\ WF_vars(DeliverRepo)

-------------------------------------------------------------------------------
(* Properties.                                                             *)

(* Every variable, and every snapshot on its way to a cache, has the shape *)
(* that the API types of api/v1 and the Reconcile locals give it.          *)
TypeOK ==
  /\ repos \in Watched([{RepoName} -> L!RepoViews])
  /\ keys \in Watched([Names -> Key])
  /\ jobs \in Watched([JobIds -> Job])
  /\ secrets \in Watched([Names -> Secret])
  /\ operator \in Nat
  /\ logs \in [JobIds -> SUBSET (KeyIds \cup {None})]
  /\ restic \in [KeyIds -> ResticKey]
  /\ queue \subseteq Names
  /\ worker \in Worker
  /\ worker.pc # "idle" => worker.name \in Names /\ worker.key.uid # 0
  /\ born \in [Names -> Nat]
  /\ repoBorn \in Nat
  /\ revision \in [Names -> Nat]
  /\ touches \in 0..MaxTouch
  /\ faults \in 0..MaxFaults

(* Condition Created of the first Key of a name says that the Key's secret *)
(* opens its Repository: restic there knows the recorded ID, with the      *)
(* password that the secret holds.  Neither duplicate add Jobs, nor lost   *)
(* pods, nor reading the log of any pod of the Job change that.            *)
Opens(n) ==
  LET key == Stored(keys)[n] IN
  /\ Stored(secrets)[n].live
  /\ Stored(secrets)[n].owner = key.uid
  /\ key.keyID \in KeyIds
  /\ restic[key.keyID] = [store |-> key.owner, pw |-> Stored(secrets)[n].pw]

SaysItOpens(key) ==
  IsCreated(key) /\ ~Deleting(key) /\ key.owner # 0 /\ key.owner = TheRepo.uid

CreatedKeyOpens ==
  \A n \in Names : Stored(keys)[n].uid = 1 /\ SaysItOpens(Stored(keys)[n]) => Opens(n)

(* The same of every Key, also of one that takes the name of a Key deleted *)
(* before.                                                                 *)
CreatedKeyAlwaysOpens ==
  \A n \in Names : SaysItOpens(Stored(keys)[n]) => Opens(n)

(* An add Job never runs without, or with another Key's, secret, although  *)
(* Job and secret are found by the name of the Key and outlive it until    *)
(* they are collected.                                                     *)
AddJobHasItsSecret ==
  \A n \in Names, j \in JobIds :
    LET key == Stored(keys)[n]
        job == Stored(jobs)[j]
    IN  /\ key.uid # 0 /\ key.deleting # "foreground"
        /\ job.live /\ job.op = "add" /\ job.key = n /\ job.owner = key.uid
        => Stored(secrets)[n].live /\ Stored(secrets)[n].owner = key.uid

(* The finalizer does its work: the first Key of a name loses it (and goes *)
(* away) only when restic no longer knows the recorded ID, or when the     *)
(* Repository that owns the Key is gone or going.                          *)
Removed(key) == key.keyID # None /\ restic[key.keyID].pw = None

FinalizerHonoured ==
  [][\A n \in Names :
       LET key == Stored(keys)[n]
           next == Stored(keys')[n]
       IN  key.uid = 1 /\ key.finalizer /\ ~(next.uid = 1 /\ next.finalizer)
             => Removed(key) \/ TheRepo.uid # key.owner \/ TheRepo.deleting]_vars

(* What was said of a Key is not taken back: its outcome and its ID stay,  *)
(* whatever duplicate Jobs say later and whatever stale copy is written.   *)
VerdictFinal ==
  [][\A n \in Names :
       LET key == Stored(keys)[n]
           next == Stored(keys')[n]
       IN  key.phase \in {"created", "failed"} /\ next.uid = key.uid
             => next.phase = key.phase /\ next.keyID = key.keyID]_vars

(* Readers of a Key see one life of it: conditions, then the finalizer,    *)
(* one outcome and its ID, a deletion that is not taken back and sets no   *)
(* outcome any more, and no end while the finalizer holds; whatever copies *)
(* controller, users and garbage collector write from.                     *)
KeyLives == K!Spec

(* A Key whose add Job completes gets its outcome, unless it is deleted or *)
(* its Repository goes first, or no pod with the ID in its log is left of  *)
(* any such Job: every Reconcile then panics.                              *)
AddedBy(n, j) ==
  LET key == Stored(keys)[n]
      job == Stored(jobs)[j]
  IN  job.live /\ job.key = n /\ job.owner = key.uid /\ job.op = "add" /\ job.state = "Complete"

Added(n) == \E j \in JobIds : AddedBy(n, j)

LogsGone(n) == \A j \in JobIds : AddedBy(n, j) => logs[j] \subseteq {None}

Pending(n) == Stored(keys)[n].phase = "pending" /\ ~Deleting(Stored(keys)[n]) /\ TheRepo.uid # 0

AddedIsRecorded == \A n \in Names : (Pending(n) /\ Added(n)) ~> (~Pending(n) \/ LogsGone(n))

(* A deleted Key does not outlive its Repository for ever.                 *)
GoesWithRepository ==
  \A n \in Names :
    (Deleting(Stored(keys)[n]) /\ TheRepo.uid = 0)
      ~> (~Deleting(Stored(keys)[n]) \/ TheRepo.uid # 0)

(* The conditions represent the current state: when every Job that was to  *)
(* add the key has failed for good, the Key gets condition Failed.         *)
AllFailed(n) ==
  LET mine == {j \in JobIds : Stored(jobs)[j].live /\ Stored(jobs)[j].key = n}
  IN  mine # {} /\ \A j \in mine : Stored(jobs)[j].state = "Failed"

FailureIsRecorded == \A n \in Names : (Pending(n) /\ AllFailed(n)) ~> ~(Pending(n) /\ AllFailed(n))

(* A Key that is still to get its outcome, or to lose its finalizer, is    *)
(* not left with nothing to come that concerns it, save in three cases:    *)
(* all its Jobs failed; once it is deleted, a delete Job did; or a Job of  *)
(* its name waits for the operator secret, which is mounted by every pod   *)
(* and goes with the Repository, whose end no Key is told of.  Otherwise,  *)
(* whichever Jobs of this or of an earlier Key of the name Reconcile found *)
(* in its stale caches when it returned, a watch event that queues the Key *)
(* is on its way, or one of its Jobs will make one, by its pod or when it  *)
(* is collected.  (The resync of the cache, once in ten hours, is not      *)
(* counted on.)                                                            *)
Waits(n) ==
  LET key == Stored(keys)[n] IN
  /\ key.uid # 0
  /\ IF Deleting(key) THEN key.finalizer ELSE ~Settled(key)

InHand(n) == n \in queue \/ (worker.pc # "idle" /\ worker.name = n)

JobEvent(n) ==
  \E i \in 2..Len(jobs) : \E j \in JobIds :
    jobs[i][j] # jobs[i - 1][j] /\ n \in {jobs[i][j].key, jobs[i - 1][j].key}

Moves(n, job) ==
  /\ job.live /\ job.key = n
  /\ Orphaned(n, job.owner) \/ (job.state = "Active" /\ Mountable(job))

DeleteFailed(n, job) ==
  job.live /\ job.key = n /\ job.op = "delete" /\ job.state = "Failed"

GaveUp(n) ==
  IF Deleting(Stored(keys)[n])
  THEN \E j \in JobIds : DeleteFailed(n, Stored(jobs)[j])
  ELSE AllFailed(n)

(* The Job cannot start for want of the operator secret.                   *)
Starves(n, job) == job.live /\ job.key = n /\ job.state = "Active" /\ operator = 0

ForgottenOnlyWhenStuck ==
  \A n \in Names :
    Waits(n) =>
      \/ InHand(n) \/ OnItsWay(keys, n) \/ JobEvent(n)
      \/ \E j \in JobIds : Moves(n, Stored(jobs)[j]) \/ Starves(n, Stored(jobs)[j])
      \/ GaveUp(n)
===============================================================================
