------------------------------ MODULE Repository ------------------------------
(***************************************************************************)
(* The Repository controller (internal/controller/repository_controller),  *)
(* the admission webhook of Repository, the init Job it starts, and what   *)
(* surrounds it: users, the garbage collector, the pods of the Job and the *)
(* restic storage behind the repository URL.                               *)
(*                                                                         *)
(* One worker runs Reconcile (MaxConcurrentReconciles is left at 1).  Each *)
(* action of the worker ends with at most one call that writes to the API  *)
(* server; anything else may happen between two of its actions.            *)
(***************************************************************************)
EXTENDS Informer

CONSTANTS
  Names,      \* names of Repository objects (of one namespace)
  Urls,       \* values of spec.repository: the restic storages
  Passwords,  \* what password.Generate can return
  None,       \* no password, no URL
  Policies,   \* the deletion policies users choose: "Background", "Foreground"
  MaxUid,     \* bound: Repositories created under one name, one after another
  MaxTouch,   \* bound: user edits that leave spec.repository alone
  MaxFaults,  \* bound: failed API calls and restarts of the operator
  MaxLag      \* bound: changes of a kind that its cache has not seen

ASSUME NoneAssumption == None \notin Urls \cup Passwords
ASSUME PoliciesAssumption == Policies \subseteq {"Background", "Foreground"}
ASSUME BoundsAssumption ==
  MaxUid \in Nat /\ MaxTouch \in Nat /\ MaxFaults \in Nat /\ MaxLag \in Nat

VARIABLES
  repos,     \* the Repository kind, as the controller watches it
  jobs,      \* the init Jobs; the Job of Repository n is called n as well
  secrets,   \* the operator secrets, operator-key-n at n
  logs,      \* names of the Jobs that have a pod left whose log can be read
  storage,   \* URL -> password the restic repository was initialised with
  queue,     \* the controller's work queue: a set of names
  worker,    \* where Reconcile is, and the Repository copy it works on
  born,      \* name -> uid given to the last Repository of that name
  revision,  \* name -> resourceVersion given to its last write; only compared for equality
  touches,   \* user edits so far
  faults     \* failed calls and restarts so far

vars == <<repos, jobs, secrets, logs, storage, queue, worker, born, revision, touches, faults>>

(* Variables a step of the controller's worker never changes.              *)
world == <<logs, storage, born, touches, faults>>

L == INSTANCE RepoLifecycle WITH
       view <- [n \in Names |-> [uid |-> Stored(repos)[n].uid,
                                 phase |-> Stored(repos)[n].phase,
                                 deleting |-> Stored(repos)[n].deleting]]

-------------------------------------------------------------------------------
(* Objects.  An object that does not exist has uid 0, or is not live.      *)

Repo == [uid : Nat, rv : Nat, url : Urls \cup {None}, phase : L!Phases, deleting : BOOLEAN]

NoRepo == [uid |-> 0, rv |-> 0, url |-> None, phase |-> "nil", deleting |-> FALSE]

(* owner is the uid in the controller reference, 0 when there is none.     *)
Secret == [live : BOOLEAN, owner : Nat, pw : Passwords \cup {None}]

NoSecret == [live |-> FALSE, owner |-> 0, pw |-> None]

(* state is the Job condition that is True, failed counts its failed pods. *)
Job == [live : BOOLEAN, owner : Nat, url : Urls \cup {None},
        state : {"Active", "Complete", "Failed"}, failed : Nat]

NoJob == [live |-> FALSE, owner |-> 0, url |-> None, state |-> "Active", failed |-> 0]

Worker == [pc : {"idle", "getJob", "createJob"}, name : Names \cup {None}, repo : Repo]

Idle == [pc |-> "idle", name |-> None, repo |-> NoRepo]

IsCreated(repo) == repo.phase = "created"

IsFailed(repo) == repo.phase = "failed"

(* The early returns of Reconcile: there is no such Repository, or nothing *)
(* is left to do.                                                          *)
FoundMutant(repo) == TRUE
Found(repo) == repo.uid # 0

SettledMutant(repo) == FALSE
Settled(repo) == IsCreated(repo) \/ IsFailed(repo)

-------------------------------------------------------------------------------
Init ==
  /\ repos = <<[n \in Names |-> NoRepo]>>
  /\ jobs = <<[n \in Names |-> NoJob]>>
  /\ secrets = <<[n \in Names |-> NoSecret]>>
  /\ logs = {}
  /\ storage = [u \in Urls |-> None]
  /\ queue = {}
  /\ worker = Idle
  /\ born = [n \in Names |-> 0]
  /\ revision = [n \in Names |-> 0]
  /\ touches = 0
  /\ faults = 0

(* Accepted writes of the objects called n.  A Repository gets the next    *)
(* resourceVersion.                                                        *)
PutRepo(n, repo) ==
  /\ Len(repos) <= MaxLag
  /\ repos' = Write(repos, n, [repo EXCEPT !.rv = revision[n] + 1])
  /\ revision' = [revision EXCEPT ![n] = @ + 1]

RemoveRepo(n) ==
  /\ Len(repos) <= MaxLag
  /\ repos' = Write(repos, n, NoRepo)
  /\ UNCHANGED revision

PutJob(n, job) ==
  /\ Len(jobs) <= MaxLag
  /\ jobs' = Write(jobs, n, job)

PutSecret(n, secret) ==
  /\ Len(secrets) <= MaxLag
  /\ secrets' = Write(secrets, n, secret)

(* Reconcile returns an error: the queue hands the name out again.         *)
Retry(n) ==
  /\ worker' = Idle
  /\ queue' = queue \cup {n}

(* Reconcile returns without an error.                                     *)
Return ==
  /\ worker' = Idle
  /\ UNCHANGED queue

-------------------------------------------------------------------------------
(* The worker.                                                             *)

Take(n) ==
  /\ worker.pc = "idle"
  /\ n \in queue
  /\ queue' = queue \ {n}

(* The Repository is gone from the cache, or its outcome is already known. *)
ReconcileNothing(n) ==
  /\ Take(n)
  /\ ~Found(Cached(repos)[n]) \/ Settled(Cached(repos)[n])
  /\ UNCHANGED <<repos, jobs, secrets, worker, revision, world>>

(* Conditions are set already: on to the init Job.                         *)
ReconcilePending(n) ==
  LET repo == Cached(repos)[n] IN
  /\ Take(n)
  /\ Found(repo)
  /\ repo.phase # "nil"
  /\ ~Settled(repo)
  /\ worker' = [pc |-> "getJob", name |-> n, repo |-> repo]
  /\ UNCHANGED <<repos, jobs, secrets, revision, world>>

(* SetDefaultConditions and Status().Update, which the API server refuses  *)
(* when the copy is not of the latest resourceVersion.                     *)
ReconcileDefaults(n) ==
  LET repo == Cached(repos)[n]
      set == [repo EXCEPT !.phase = "pending"]
  IN
  /\ worker.pc = "idle"
  /\ n \in queue
  /\ Found(repo)
  /\ repo.phase = "nil"
  /\ \/ /\ Stored(repos)[n].rv = repo.rv
        /\ PutRepo(n, set)
        /\ queue' = queue \ {n}
        /\ worker' = [pc |-> "getJob", name |-> n, repo |-> [set EXCEPT !.rv = revision[n] + 1]]
     \/ /\ Stored(repos)[n].rv # repo.rv
        /\ Retry(n)
        /\ UNCHANGED <<repos, revision>>
  /\ UNCHANGED <<jobs, secrets, world>>

(* Passwords that exist somewhere: Generate never returns one of them.     *)
UsedPasswords ==
  {storage[u] : u \in Urls} \cup
  UNION {{secrets[i][n].pw : n \in Names} : i \in 1..Len(secrets)}

(* createOperatorSecretIfNotExists accepts an existing secret when it has  *)
(* exactly one owner reference, to this very Repository (by uid).          *)
OwnsSecretMutant(repo, secret) == TRUE
OwnsSecret(repo, secret) == secret.owner = repo.uid

(* No init Job in the cache: startCreateRepoJob, up to its secret.         *)
StartCreateRepoJob ==
  LET n == worker.name
      secret == Cached(secrets)[n]
      proceed == worker' = [worker EXCEPT !.pc = "createJob"] /\ UNCHANGED queue
  IN
  /\ worker.pc = "getJob"
  /\ ~Cached(jobs)[n].live
  /\ \/ /\ ~secret.live
        /\ ~Stored(secrets)[n].live
        /\ \E pw \in Passwords \ UsedPasswords :
             PutSecret(n, [live |-> TRUE, owner |-> worker.repo.uid, pw |-> pw])
        /\ proceed
     \/ /\ ~secret.live
        /\ Stored(secrets)[n].live  \* Create answers AlreadyExists
        /\ Retry(n)
        /\ UNCHANGED secrets
     \/ /\ secret.live
        /\ OwnsSecret(worker.repo, secret)
        /\ proceed
        /\ UNCHANGED secrets
     \/ /\ secret.live
        /\ ~OwnsSecret(worker.repo, secret)
        /\ Retry(n)
        /\ UNCHANGED secrets
  /\ UNCHANGED <<repos, jobs, revision, world>>

(* The Job of CreateRepoInitJob, with the controller reference to repo.    *)
CreateRepoInitJob(repo) ==
  [live |-> TRUE, owner |-> repo.uid, url |-> repo.url, state |-> "Active", failed |-> 0]

(* The rest of startCreateRepoJob.  That a Job of this name exists already *)
(* is not an error (IgnoreAlreadyExists).                                  *)
CreateInitJob ==
  LET n == worker.name IN
  /\ worker.pc = "createJob"
  /\ \/ ~Stored(jobs)[n].live /\ PutJob(n, CreateRepoInitJob(worker.repo))
     \/ Stored(jobs)[n].live /\ UNCHANGED jobs
  /\ Return
  /\ UNCHANGED <<repos, secrets, revision, world>>

(* The outcome that checkCreateJobStatus records for a finished Job.       *)
VerdictMutant(job) == "created"
Verdict(job) == IF job.state = "Complete" THEN "created" ELSE "failed"

(* getJobPodLogs, for a failed Job only: it finds the pods by the name of  *)
(* the Job, reads the log of the first and panics when none is left.       *)
LogInReach(n, job) == job.state = "Failed" => n \in logs

(* The init Job is in the cache.  A finished one decides the status, which *)
(* is written with the resourceVersion of the worker's copy.               *)
CheckCreateJobStatus ==
  LET n == worker.name
      job == Cached(jobs)[n]
  IN
  /\ worker.pc = "getJob"
  /\ job.live
  /\ \/ /\ job.state = "Active"
        /\ Return
        /\ UNCHANGED <<repos, revision>>
     \/ /\ job.state # "Active"
        /\ LogInReach(n, job)
        /\ Stored(repos)[n].rv = worker.repo.rv
        /\ PutRepo(n, [worker.repo EXCEPT !.phase = Verdict(job)])
        /\ Return
     \/ /\ job.state # "Active"
        /\ ~LogInReach(n, job) \/ Stored(repos)[n].rv # worker.repo.rv
        /\ Retry(n)
        /\ UNCHANGED <<repos, revision>>
  /\ UNCHANGED <<jobs, secrets, world>>

(* An API call of the worker fails, or was made and its answer is lost.    *)
CallFails ==
  /\ worker.pc # "idle"
  /\ faults < MaxFaults
  /\ faults' = faults + 1
  /\ Retry(worker.name)
  /\ UNCHANGED <<repos, jobs, secrets, logs, storage, born, revision, touches>>

(* The operator restarts: caches are listed anew and every Repository in   *)
(* them is queued.                                                         *)
Restart ==
  /\ faults < MaxFaults
  /\ faults' = faults + 1
  /\ worker' = Idle
  /\ repos' = Relisted(repos)
  /\ jobs' = Relisted(jobs)
  /\ secrets' = Relisted(secrets)
  /\ queue' = {n \in Names : Stored(repos)[n].uid # 0}
  /\ UNCHANGED <<logs, storage, born, revision, touches>>

-------------------------------------------------------------------------------
(* The watches of SetupWithManager: For(Repository) and Owns(Job).         *)

DeliverRepo ==
  /\ Len(repos) > 1
  /\ queue' = queue \cup Announced(repos)
  /\ repos' = Tail(repos)
  /\ UNCHANGED <<jobs, secrets, worker, revision, world>>

(* Owns(Job): a change of a Job queues its controller owner, by name.      *)
OwnersMutant(w) == {}
Owners(w) == Announced(w)

DeliverJob ==
  /\ Len(jobs) > 1
  /\ queue' = queue \cup Owners(jobs)
  /\ jobs' = Tail(jobs)
  /\ UNCHANGED <<repos, secrets, worker, revision, world>>

(* Secrets are cached because they are read, but start no Reconcile.       *)
DeliverSecret ==
  /\ Len(secrets) > 1
  /\ secrets' = Tail(secrets)
  /\ UNCHANGED <<repos, jobs, queue, worker, revision, world>>

(* The periodic resync of the cache queues what it holds.                  *)
Resync(n) ==
  /\ Cached(repos)[n].uid # 0
  /\ n \notin queue
  /\ queue' = queue \cup {n}
  /\ UNCHANGED <<repos, jobs, secrets, worker, revision, world>>

-------------------------------------------------------------------------------
(* Users.  Their requests pass the admission webhook.                      *)

UserCreates(n, url) ==
  /\ Stored(repos)[n].uid = 0
  /\ born[n] < MaxUid
  /\ born' = [born EXCEPT ![n] = @ + 1]
  /\ PutRepo(n, [NoRepo EXCEPT !.uid = born[n] + 1, !.url = url])
  /\ UNCHANGED <<jobs, secrets, logs, storage, queue, worker, touches, faults>>

(* ValidateUpdate: spec.repository is immutable.                           *)
ValidateUpdateMutant(old, new) == TRUE
ValidateUpdate(old, new) == old.url = new.url

UserEdits(n, url) ==
  LET old == Stored(repos)[n]
      new == [old EXCEPT !.url = url]
  IN
  /\ old.uid # 0
  /\ ValidateUpdate(old, new)
  /\ touches < MaxTouch
  /\ touches' = touches + 1
  /\ PutRepo(n, new)
  /\ UNCHANGED <<jobs, secrets, logs, storage, queue, worker, born, faults>>

(* Background deletion: a Repository has no finalizer and goes at once (no *)
(* webhook is asked: ValidateDelete is not registered).                    *)
UserDeletes(n) ==
  /\ "Background" \in Policies
  /\ Stored(repos)[n].uid # 0
  /\ RemoveRepo(n)
  /\ UNCHANGED <<jobs, secrets, queue, worker, world>>

(* Foreground deletion: the deletion timestamp is set, and the object      *)
(* stays until the garbage collector has removed its dependents.           *)
UserDeletesForeground(n) ==
  /\ "Foreground" \in Policies
  /\ Stored(repos)[n].uid # 0
  /\ ~Stored(repos)[n].deleting
  /\ PutRepo(n, [Stored(repos)[n] EXCEPT !.deleting = TRUE])
  /\ UNCHANGED <<jobs, secrets, queue, worker, world>>

(* A secret of the operator secret's name that nobody owns.                *)
UserCreatesSecret(n) ==
  /\ ~Stored(secrets)[n].live
  /\ touches < MaxTouch
  /\ touches' = touches + 1
  /\ \E pw \in Passwords \ UsedPasswords :
       PutSecret(n, [live |-> TRUE, owner |-> 0, pw |-> pw])
  /\ UNCHANGED <<repos, jobs, logs, storage, queue, worker, born, revision, faults>>

UserDeletesSecret(n) ==
  /\ Stored(secrets)[n].live
  /\ Stored(secrets)[n].owner = 0
  /\ PutSecret(n, NoSecret)
  /\ UNCHANGED <<repos, jobs, queue, worker, revision, world>>

-------------------------------------------------------------------------------
(* The cluster: garbage collector and pods.                                *)

(* The object with this owner reference is due for collection.             *)
Orphaned(n, owner) ==
  /\ owner # 0
  /\ Stored(repos)[n].uid # owner \/ Stored(repos)[n].deleting

CollectJob(n) ==
  /\ Stored(jobs)[n].live
  /\ Orphaned(n, Stored(jobs)[n].owner)
  /\ PutJob(n, NoJob)
  /\ UNCHANGED <<repos, secrets, queue, worker, revision, world>>

CollectSecret(n) ==
  /\ Stored(secrets)[n].live
  /\ Orphaned(n, Stored(secrets)[n].owner)
  /\ PutSecret(n, NoSecret)
  /\ UNCHANGED <<repos, jobs, queue, worker, revision, world>>

(* The end of a foreground deletion.                                       *)
CollectRepo(n) ==
  LET uid == Stored(repos)[n].uid IN
  /\ Stored(repos)[n].deleting
  /\ ~(Stored(jobs)[n].live /\ Stored(jobs)[n].owner = uid)
  /\ ~(Stored(secrets)[n].live /\ Stored(secrets)[n].owner = uid)
  /\ RemoveRepo(n)
  /\ UNCHANGED <<jobs, secrets, queue, worker, world>>

(* CreateRepoInitJob allows one retry of a failed pod.                     *)
BackoffLimit == 1

PodCanRun(n) ==
  /\ Stored(jobs)[n].live
  /\ Stored(jobs)[n].state = "Active"
  /\ Stored(secrets)[n].live  \* the secret volume must be mountable

FailedPod(job) ==
  [job EXCEPT !.failed = @ + 1,
              !.state = IF job.failed + 1 > BackoffLimit THEN "Failed" ELSE "Active"]

(* "restic init" with the password mounted from the operator secret.       *)
InitPodSucceeds(n) ==
  /\ PodCanRun(n)
  /\ storage[Stored(jobs)[n].url] = None
  /\ storage' = [storage EXCEPT ![Stored(jobs)[n].url] = Stored(secrets)[n].pw]
  /\ PutJob(n, [Stored(jobs)[n] EXCEPT !.state = "Complete"])
  /\ logs' = logs \cup {n}
  /\ UNCHANGED <<repos, secrets, queue, worker, born, revision, touches, faults>>

(* The storage is initialised already, or cannot be reached.               *)
InitPodFails(n) ==
  /\ PodCanRun(n)
  /\ PutJob(n, FailedPod(Stored(jobs)[n]))
  /\ logs' = logs \cup {n}
  /\ UNCHANGED <<repos, secrets, storage, queue, worker, born, revision, touches, faults>>

(* The pod is lost after "restic init" has done its work.                  *)
InitPodLost(n) ==
  /\ PodCanRun(n)
  /\ storage[Stored(jobs)[n].url] = None
  /\ storage' = [storage EXCEPT ![Stored(jobs)[n].url] = Stored(secrets)[n].pw]
  /\ PutJob(n, FailedPod(Stored(jobs)[n]))
  /\ logs' = logs \cup {n}
  /\ UNCHANGED <<repos, secrets, queue, worker, born, revision, touches, faults>>

(* The pods that have ended are removed (with their nodes, by hand, or     *)
(* after their Job), or are out of reach until they are.                   *)
LogsLost(n) ==
  /\ n \in logs
  /\ logs' = logs \ {n}
  /\ UNCHANGED <<repos, jobs, secrets, storage, queue, worker, born, revision, touches, faults>>

-------------------------------------------------------------------------------
Reconcile ==
  \/ \E n \in Names : ReconcileNothing(n) \/ ReconcilePending(n) \/ ReconcileDefaults(n)
  \/ StartCreateRepoJob
  \/ CreateInitJob
  \/ CheckCreateJobStatus

Deliver == DeliverRepo \/ DeliverJob \/ DeliverSecret

User(n) ==
  \/ \E url \in Urls : UserCreates(n, url) \/ UserEdits(n, url)
  \/ UserDeletes(n)
  \/ UserDeletesForeground(n)
  \/ UserCreatesSecret(n)
  \/ UserDeletesSecret(n)

Collect(n) == CollectJob(n) \/ CollectSecret(n) \/ CollectRepo(n)

Pod(n) == InitPodSucceeds(n) \/ InitPodFails(n) \/ InitPodLost(n)

Next ==
  \/ Reconcile
  \/ CallFails
  \/ Restart
  \/ Deliver
  \/ \E n \in Names : Resync(n) \/ User(n) \/ Collect(n) \/ Pod(n) \/ LogsLost(n)

Spec == Init /\ [][Next]_vars

(* Fairness.  The work queue hands out what it holds (client-go serves it  *)
(* in order); the informers deliver what they watched; the garbage         *)
(* collector and the Job controller do their work.  Nothing is assumed of  *)
(* users, of failures, of restarts or of the resync.                       *)
FairSpec ==
  /\ Spec
  /\ \A n \in Names :
       /\ SF_vars(ReconcileNothing(n) \/ ReconcilePending(n) \/ ReconcileDefaults(n))
       /\ WF_vars(CollectJob(n))
       /\ WF_vars(CollectSecret(n))
       /\ WF_vars(Pod(n))
  /\ WF_vars(StartCreateRepoJob \/ CreateInitJob \/ CheckCreateJobStatus)
  /\ WF_vars(DeliverRepo)
  /\ WF_vars(DeliverJob)
  /\ WF_vars(DeliverSecret)

-------------------------------------------------------------------------------
(* Properties.                                                             *)

(* Every variable, and every snapshot on its way to the cache, has the     *)
(* shape that the API types of api/v1 and the Reconcile locals give it.    *)
TypeOK ==
  /\ repos \in Watched([Names -> Repo])
  /\ jobs \in Watched([Names -> Job])
  /\ secrets \in Watched([Names -> Secret])
  /\ logs \subseteq Names
  /\ storage \in [Urls -> Passwords \cup {None}]
  /\ queue \subseteq Names
  /\ worker \in Worker
  /\ worker.pc # "idle" => worker.name \in Names /\ worker.repo.uid # 0
  /\ born \in [Names -> Nat]
  /\ revision \in [Names -> Nat]
  /\ touches \in 0..MaxTouch
  /\ faults \in 0..MaxFaults

(* The init Job of a Repository never runs without, or with another        *)
(* Repository's, operator secret: whatever the caches missed, whatever     *)
(* failed between Create(secret) and Create(job), and although Job and     *)
(* secret are named after the Repository and outlive it until collected.   *)
InitJobHasItsSecret ==
  \A n \in Names :
    LET repo == Stored(repos)[n]
        job == Stored(jobs)[n]
        secret == Stored(secrets)[n]
    IN  repo.uid # 0 /\ ~repo.deleting /\ job.live /\ job.owner = repo.uid
          => secret.live /\ secret.owner = repo.uid

(* Condition Created of the first Repository of a name says that restic    *)
(* can be used: its URL was initialised, and its operator secret holds the *)
(* password that opens it.  (For a later Repository of the same name see   *)
(* CreatedAlwaysUsable.)                                                   *)
Usable(n) ==
  LET repo == Stored(repos)[n]
      secret == Stored(secrets)[n]
  IN  /\ secret.live
      /\ secret.owner = repo.uid
      /\ secret.pw # None
      /\ storage[repo.url] = secret.pw

CreatedIsUsable ==
  \A n \in Names :
    LET repo == Stored(repos)[n]
    IN  repo.uid = 1 /\ IsCreated(repo) /\ ~repo.deleting => Usable(n)

(* The same of every Repository, also of one that takes the name of a      *)
(* Repository deleted before.                                              *)
CreatedAlwaysUsable ==
  \A n \in Names :
    LET repo == Stored(repos)[n]
    IN  repo.uid # 0 /\ IsCreated(repo) /\ ~repo.deleting => Usable(n)

(* The controller's writes are those the other controllers rely on: from   *)
(* no conditions to pending to created or failed, never back, whatever     *)
(* stale copy of the Repository or of the Job a Reconcile starts from.     *)
Lifecycle == L!Spec

(* A Repository does not stay undecided: it ends up Created or Failed, or  *)
(* it is deleted, save in the two cases in which every Reconcile fails: a  *)
(* secret that nobody owns bears the name of its operator secret           *)
(* (createOperatorSecretIfNotExists), or its init Job has failed and no    *)
(* pod is left to read the log of (getJobPodLogs).                         *)
Undecided(n) == Stored(repos)[n].uid # 0 /\ ~Settled(Stored(repos)[n])

SecretInTheWay(n) == Stored(secrets)[n].live /\ Stored(secrets)[n].owner = 0

InitFailed(n) ==
  LET job == Stored(jobs)[n]
  IN  job.live /\ job.owner = Stored(repos)[n].uid /\ job.state = "Failed"

LogGone(n) == InitFailed(n) /\ n \notin logs

Settles ==
  \A n \in Names :
    Undecided(n)
      ~> (~Undecided(n) \/ Stored(repos)[n].deleting \/ SecretInTheWay(n) \/ LogGone(n))

(* No Repository is left undecided with nothing to come that concerns it:  *)
(* whenever Reconcile returns without an error, having found the init Job  *)
(* running, absent or there already in caches that may all be stale, a     *)
(* watch event that queues the Repository again is on its way, or the Job  *)
(* will make one, by its pod or when it is collected.  (The resync of the  *)
(* cache, once in ten hours, is not counted on.)                           *)
InHand(n) == n \in queue \/ (worker.pc # "idle" /\ worker.name = n)

JobMoves(n) ==
  \/ PodCanRun(n)
  \/ Stored(jobs)[n].live /\ Orphaned(n, Stored(jobs)[n].owner)

NeverForgotten ==
  \A n \in Names :
    Undecided(n) => InHand(n) \/ OnItsWay(repos, n) \/ OnItsWay(jobs, n) \/ JobMoves(n)
===============================================================================
