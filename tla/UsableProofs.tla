----------------------------- MODULE UsableProofs -----------------------------
(***************************************************************************)
(* A Repository that is Created can be used, and one that is not decided   *)
(* yet is never forgotten: the theorems about the password of the restic   *)
(* storage and about the wakeups, for every value of the constants.        *)
(***************************************************************************)
EXTENDS RepositoryProofs

(* The uids of a name are given out one after another, and spec.repository *)
(* is a storage.                                                           *)
UidsBorn ==
  \A n \in Names :
    Stored(repos)[n].uid # 0 => Stored(repos)[n].uid = born[n] /\ Stored(repos)[n].url \in Urls

(* All copies of one Repository have one URL.                              *)
SameUrl(n, x) == x.uid # 0 /\ x.uid = Stored(repos)[n].uid => x.url = Stored(repos)[n].url

OneUrl ==
  \A n \in Names :
    /\ \A x \in Seen(repos) : SameUrl(n, x[n])
    /\ worker.pc # "idle" /\ worker.name = n => SameUrl(n, worker.repo)

(* Every Job has an owner.  That of a Repository that is alive works on    *)
(* its storage and, when it is complete, has initialised it with the       *)
(* password that the Repository has.                                       *)
JobsOwned ==
  \A n \in Names : \A x \in Seen(jobs) : x[n].live => x[n].owner # 0 /\ x[n].owner <= born[n]

Owned(n, job) == job.live /\ job.owner = Stored(repos)[n].uid /\ Alive(n)

JobsAim == \A n \in Names : \A x \in Seen(jobs) : Owned(n, x[n]) => x[n].url = Stored(repos)[n].url

JobsDone ==
  \A n \in Names : \A x \in Seen(jobs) :
    Owned(n, x[n]) /\ x[n].state = "Complete" => Usable(n)

SecretsFilled == \A n \in Names : Stored(secrets)[n].live => Stored(secrets)[n].pw \in Passwords

UInv ==
  /\ IInv
  /\ UidsBorn
  /\ OneUrl
  /\ JobsOwned
  /\ JobsAim
  /\ JobsDone
  /\ SecretsFilled
  /\ CreatedIsUsable
-------------------------------------------------------------------------------
(* What one step does.                                                     *)

(* Of a Repository, the uid and the URL stay until it is removed.          *)
ReposStep ==
  \A n \in Names :
    \/ /\ Stored(repos)'[n].uid \in {0, Stored(repos)[n].uid}
       /\ Stored(repos)'[n].uid # 0 => Stored(repos)'[n].url = Stored(repos)[n].url
       /\ born'[n] = born[n]
    \/ /\ Stored(repos)'[n].uid = born[n] + 1
       /\ Stored(repos)'[n].url \in Urls
       /\ born'[n] = born[n] + 1

(* The worker's copy is the one it had, or one that it could see.          *)
WorkerFrom ==
  worker'.pc # "idle" =>
    \E x \in Repo :
      /\ worker'.repo.uid = x.uid /\ worker'.repo.url = x.url
      /\ \/ worker.pc # "idle" /\ worker'.name = worker.name /\ x = worker.repo
         \/ \E s \in Seen(repos) : x = s[worker'.name]

(* A Job changes its state only, and is complete only after it has         *)
(* initialised the storage; a new one is the worker's.                     *)
JobFrom(n, old, new) ==
  \/ /\ old.live /\ new.owner = old.owner /\ new.url = old.url
     /\ \/ new.state = "Complete" => old.state = "Complete"
        \/ /\ Stored(secrets)[n].live
           /\ new.url \in Urls => storage'[new.url] = Stored(secrets)[n].pw
  \/ /\ worker.pc # "idle" /\ worker.name = n
     /\ new.owner = worker.repo.uid /\ new.url = worker.repo.url /\ new.state # "Complete"

JobsFrom ==
  /\ Seen(jobs)' \subseteq Seen(jobs) \cup {Stored(jobs)'}
  /\ \A n \in Names :
       Stored(jobs)'[n].live => JobFrom(n, Stored(jobs)[n], Stored(jobs)'[n])

StorageKept == \A u \in Urls : storage[u] # None => storage'[u] = storage[u]

SecretsFrom ==
  \A n \in Names :
    Stored(secrets)'[n].live =>
      \/ Stored(secrets)'[n] = Stored(secrets)[n]
      \/ Stored(secrets)'[n].pw \in Passwords

(* A verdict is that of a Job in the cache.                                *)
VerdictFrom ==
  \A n \in Names :
    IsCreated(Stored(repos)'[n]) =>
      \/ IsCreated(Stored(repos)[n])
      \/ Cached(jobs)[n].live /\ Cached(jobs)[n].state = "Complete"

(* Writes of one Repository that keep its identity.                        *)
LEMMA PutRepoFrom ==
  ASSUME TypeOK, NEW n \in Names, NEW repo \in Repo, PutRepo(n, repo)
  PROVE  /\ Seen(repos)' = Seen(repos) \cup {Stored(repos)'}
         /\ Stored(repos)'[n].uid = repo.uid
         /\ Stored(repos)'[n].url = repo.url
         /\ Stored(repos)'[n].phase = repo.phase
         /\ \A m \in Names \ {n} : Stored(repos)'[m] = Stored(repos)[m]
<1> DEFINE new == [repo EXCEPT !.rv = revision[n] + 1]
<1>1. /\ Stored(repos)' = Changed(repos, n, new)
      /\ Seen(repos)' = Seen(repos) \cup {Stored(repos)'}
  BY PutRepoWrites
<1>2. new.uid = repo.uid /\ new.url = repo.url /\ new.phase = repo.phase
  BY DEF Repo
<1>3. Stored(repos) \in [Names -> Repo]
  BY ObjectTypes
<1> HIDE DEF new
<1>4. Stored(repos)'[n] = new /\ \A m \in Names \ {n} : Stored(repos)'[m] = Stored(repos)[m]
  BY <1>1, <1>3 DEF Changed
<1> QED
  BY <1>1, <1>2, <1>4

LEMMA RemoveRepoFrom ==
  ASSUME TypeOK, NEW n \in Names, RemoveRepo(n)
  PROVE  /\ Seen(repos)' = Seen(repos) \cup {Stored(repos)'}
         /\ Stored(repos)'[n] = NoRepo
         /\ \A m \in Names \ {n} : Stored(repos)'[m] = Stored(repos)[m]
<1>1. /\ Stored(repos)' = Changed(repos, n, NoRepo)
      /\ Seen(repos)' = Seen(repos) \cup {Stored(repos)'}
  BY RemoveRepoWrites
<1>2. Stored(repos) \in [Names -> Repo]
  BY ObjectTypes
<1> QED
  BY <1>1, <1>2 DEF Changed

(* Whatever a status update writes is the stored Repository but for its    *)
(* phase.                                                                  *)
LEMMA StatusFrom ==
  ASSUME TypeOK, NEW n \in Names, NEW repo \in Repo, GoodCopy(n, repo),
         Stored(repos)[n].rv = repo.rv, NEW p \in L!Phases,
         PutRepo(n, [repo EXCEPT !.phase = p]), born' = born
  PROVE  /\ ReposStep
         /\ Seen(repos)' = Seen(repos) \cup {Stored(repos)'}
         /\ Stored(repos)'[n].phase = p
         /\ \A m \in Names \ {n} : Stored(repos)'[m] = Stored(repos)[m]
<1> DEFINE done == [repo EXCEPT !.phase = p]
<1>1. done \in Repo /\ done.uid = repo.uid /\ done.url = repo.url /\ done.phase = p
  BY DEF Repo
<1>2. repo = Stored(repos)[n]
  BY DEF GoodCopy
<1>3. PutRepo(n, done)
  OBVIOUS
<1> HIDE DEF done
<1>4. /\ Seen(repos)' = Seen(repos) \cup {Stored(repos)'}
      /\ Stored(repos)'[n].uid = repo.uid /\ Stored(repos)'[n].url = repo.url
      /\ Stored(repos)'[n].phase = p
      /\ \A m \in Names \ {n} : Stored(repos)'[m] = Stored(repos)[m]
  BY <1>1, <1>3, PutRepoFrom
<1>5. ReposStep
  BY <1>2, <1>4 DEF ReposStep
<1> QED
  BY <1>4, <1>5

(* Steps that write no Repository.                                         *)
LEMMA SameRepos ==
  ASSUME Stored(repos)' = Stored(repos), Seen(repos)' \subseteq Seen(repos), born' = born
  PROVE  /\ ReposStep
         /\ Seen(repos)' \subseteq Seen(repos) \cup {Stored(repos)'}
         /\ VerdictFrom
BY DEF ReposStep, VerdictFrom

ReposFrom == ReposStep /\ Seen(repos)' \subseteq Seen(repos) \cup {Stored(repos)'} /\ VerdictFrom

LEMMA ReposFromReconcile ==
  ASSUME TypeOK, Copies, Reconcile
  PROVE  ReposFrom
<1> USE DEF world
<1>1. ASSUME NEW n \in Names, ReconcileDefaults(n)
      PROVE  ReposFrom
  <2> DEFINE repo == Cached(repos)[n]
  <2>1. repo \in Repo /\ GoodCopy(n, repo) /\ born' = born /\ "pending" \in L!Phases
    BY <1>1, ObjectTypes DEF Copies, ReconcileDefaults, L!Phases
  <2>2. CASE Stored(repos)[n].rv = repo.rv /\ PutRepo(n, [repo EXCEPT !.phase = "pending"])
    <3> HIDE DEF repo
    <3> QED
      BY <2>1, <2>2, StatusFrom DEF ReposFrom, VerdictFrom, IsCreated
  <2>3. CASE UNCHANGED repos
    BY <2>1, <2>3, SameRepos DEF ReposFrom
  <2> QED
    BY <1>1, <2>2, <2>3 DEF ReconcileDefaults
<1>2. CASE CheckCreateJobStatus
  <2> DEFINE n == worker.name
             repo == worker.repo
             p == Verdict(Cached(jobs)[n])
  <2>1. /\ n \in Names /\ repo \in Repo /\ GoodCopy(n, repo) /\ born' = born
        /\ p \in L!Phases /\ Cached(jobs)[n].live
    BY <1>2 DEF TypeOK, CheckCreateJobStatus, Worker, Copies, Verdict, L!Phases
  <2>2. CASE Stored(repos)[n].rv = repo.rv /\ PutRepo(n, [repo EXCEPT !.phase = p])
    <3>1. p = "created" => Cached(jobs)[n].state = "Complete"
      BY DEF Verdict
    <3> HIDE DEF repo, n, p
    <3> QED
      BY <2>1, <2>2, <3>1, StatusFrom DEF ReposFrom, VerdictFrom, IsCreated
  <2>3. CASE UNCHANGED repos
    BY <2>1, <2>3, SameRepos DEF ReposFrom
  <2> QED
    BY <1>2, <2>2, <2>3 DEF CheckCreateJobStatus
<1>3. ASSUME NEW n \in Names, ReconcileNothing(n) \/ ReconcilePending(n)
      PROVE  ReposFrom
  BY <1>3, SameRepos DEF ReconcileNothing, ReconcilePending, ReposFrom
<1>4. CASE StartCreateRepoJob \/ CreateInitJob
  BY <1>4, SameRepos DEF StartCreateRepoJob, CreateInitJob, ReposFrom
<1> QED
  BY <1>1, <1>2, <1>3, <1>4 DEF Reconcile

LEMMA ReposFromUser ==
  ASSUME TypeOK, NEW n \in Names, User(n)
  PROVE  ReposFrom
<1> USE DEF world
<1>1. Stored(repos)[n] \in Repo /\ born \in [Names -> Nat]
  BY ObjectTypes DEF TypeOK
<1>2. ASSUME NEW url \in Urls, UserCreates(n, url)
      PROVE  ReposFrom
  <2> DEFINE repo == [NoRepo EXCEPT !.uid = born[n] + 1, !.url = url]
  <2>1. repo \in Repo /\ repo.uid = born[n] + 1 /\ repo.url = url /\ repo.phase = "nil"
    <3>1. born[n] + 1 \in Nat
      BY <1>1
    <3> QED
      BY <3>1 DEF NoRepo, Repo, L!Phases
  <2>2. PutRepo(n, repo) /\ born' = [born EXCEPT ![n] = @ + 1]
    BY <1>2 DEF UserCreates
  <2> HIDE DEF repo
  <2>3. /\ Seen(repos)' = Seen(repos) \cup {Stored(repos)'}
        /\ Stored(repos)'[n].uid = born[n] + 1 /\ Stored(repos)'[n].url = url
        /\ Stored(repos)'[n].phase = "nil"
        /\ \A m \in Names \ {n} : Stored(repos)'[m] = Stored(repos)[m] /\ born'[m] = born[m]
        /\ born'[n] = born[n] + 1
    BY <1>1, <2>1, <2>2, PutRepoFrom
  <2> QED
    BY <2>3 DEF ReposFrom, ReposStep, VerdictFrom, IsCreated
<1>3. ASSUME NEW url \in Urls, UserEdits(n, url)
      PROVE  ReposFrom
  <2> DEFINE repo == [Stored(repos)[n] EXCEPT !.url = url]
  <2>1. PutRepo(n, repo) /\ born' = born
    BY <1>3 DEF UserEdits
  <2>2. /\ repo \in Repo /\ repo.uid = Stored(repos)[n].uid
        /\ repo.url = Stored(repos)[n].url /\ repo.phase = Stored(repos)[n].phase
    BY <1>1, <1>3 DEF UserEdits, ValidateUpdate, Repo
  <2> HIDE DEF repo
  <2> QED
    BY <2>1, <2>2, PutRepoFrom DEF ReposFrom, ReposStep, VerdictFrom, IsCreated
<1>4. CASE UserDeletes(n)
  BY <1>4, RemoveRepoFrom DEF UserDeletes, NoRepo, ReposFrom, ReposStep, VerdictFrom, IsCreated
<1>5. CASE UserDeletesForeground(n)
  <2> DEFINE repo == [Stored(repos)[n] EXCEPT !.deleting = TRUE]
  <2>1. born' = born /\ PutRepo(n, repo)
    BY <1>5 DEF UserDeletesForeground
  <2>2. /\ repo \in Repo /\ repo.uid = Stored(repos)[n].uid
        /\ repo.url = Stored(repos)[n].url /\ repo.phase = Stored(repos)[n].phase
    BY <1>1 DEF Repo
  <2> HIDE DEF repo
  <2> QED
    BY <2>1, <2>2, PutRepoFrom DEF ReposFrom, ReposStep, VerdictFrom, IsCreated
<1>6. CASE UserCreatesSecret(n) \/ UserDeletesSecret(n)
  BY <1>6, SameRepos DEF UserCreatesSecret, UserDeletesSecret, ReposFrom
<1> QED
  BY <1>2, <1>3, <1>4, <1>5, <1>6 DEF User

LEMMA ReposFromStep ==
  ASSUME TypeOK, Copies, [Next]_vars
  PROVE  ReposFrom
<1> USE DEF world
<1>1. CASE Reconcile
  BY <1>1, ReposFromReconcile
<1>2. CASE CallFails
  BY <1>2, SameRepos DEF CallFails, ReposFrom
<1>3. CASE Restart
  BY <1>3, Restarted, ObjectTypes, SameRepos DEF TypeOK, Restart, ReposFrom
<1>4. CASE Deliver
  BY <1>4, Delivered, SameRepos DEF TypeOK, Deliver, DeliverRepo, DeliverJob, DeliverSecret, ReposFrom
<1>5. ASSUME NEW n \in Names, Resync(n) \/ User(n) \/ Collect(n) \/ Pod(n) \/ LogsLost(n)
      PROVE  ReposFrom
  <2>1. CASE User(n)
    BY <2>1, ReposFromUser
  <2>2. CASE CollectRepo(n)
    BY <2>2, RemoveRepoFrom DEF CollectRepo, NoRepo, ReposFrom, ReposStep, VerdictFrom, IsCreated
  <2>3. CASE Resync(n) \/ CollectJob(n) \/ CollectSecret(n) \/ Pod(n) \/ LogsLost(n)
    BY <2>3, SameRepos DEF Resync, CollectJob, CollectSecret, Pod, InitPodSucceeds, InitPodFails,
                           InitPodLost, LogsLost, ReposFrom
  <2> QED
    BY <1>5, <2>1, <2>2, <2>3 DEF Collect
<1>6. CASE UNCHANGED vars
  BY <1>6, SameRepos DEF vars, ReposFrom
<1> QED
  BY <1>1, <1>2, <1>3, <1>4, <1>5, <1>6 DEF Next

LEMMA WorkerFromStep ==
  ASSUME TypeOK, [Next]_vars
  PROVE  WorkerFrom
<1> USE DEF world
<1>1. CASE worker'.pc = "idle"
  BY <1>1 DEF WorkerFrom
<1>2. CASE worker' = worker \/ (worker' = [worker EXCEPT !.pc = "createJob"] /\ worker.pc = "getJob")
  <2>1. worker \in Worker
    BY DEF TypeOK
  <2>2. /\ worker'.name = worker.name /\ worker'.repo = worker.repo
        /\ worker'.pc # "idle" => worker.pc # "idle"
    BY <1>2, <2>1 DEF Worker
  <2>3. worker.repo \in Repo
    BY <2>1 DEF Worker
  <2> SUFFICES ASSUME worker'.pc # "idle"
               PROVE  \E x \in Repo :
                        /\ worker'.repo.uid = x.uid /\ worker'.repo.url = x.url
                        /\ worker.pc # "idle" /\ worker'.name = worker.name /\ x = worker.repo
    BY DEF WorkerFrom
  <2> WITNESS worker.repo \in Repo
  <2> QED
    BY <2>2
<1>3. ASSUME NEW n \in Names, ReconcilePending(n)
      PROVE  WorkerFrom
  BY <1>3, ObjectTypes DEF ReconcilePending, WorkerFrom
<1>4. ASSUME NEW n \in Names, ReconcileDefaults(n)
      PROVE  WorkerFrom
  <2> DEFINE repo == Cached(repos)[n]
             new == [[repo EXCEPT !.phase = "pending"] EXCEPT !.rv = revision[n] + 1]
  <2>1. repo \in Repo /\ Cached(repos) \in Seen(repos)
    BY ObjectTypes
  <2>2. new.uid = repo.uid /\ new.url = repo.url
    BY <2>1 DEF Repo
  <2>3. worker' = Idle \/ worker' = [pc |-> "getJob", name |-> n, repo |-> new]
    BY <1>4 DEF ReconcileDefaults, Retry
  <2> HIDE DEF new
  <2> QED
    BY <2>1, <2>2, <2>3 DEF WorkerFrom, Idle
<1> QED
  <2>1. ASSUME NEW n \in Names, ReconcileNothing(n)
        PROVE  worker' = worker
    BY <2>1 DEF ReconcileNothing
  <2>2. ASSUME StartCreateRepoJob
        PROVE  \/ worker'.pc = "idle"
               \/ worker' = [worker EXCEPT !.pc = "createJob"] /\ worker.pc = "getJob"
    BY <2>2 DEF StartCreateRepoJob, Retry, Idle
  <2>3. ASSUME CreateInitJob \/ CheckCreateJobStatus \/ CallFails \/ Restart \/ Deliver
        PROVE  worker' = worker \/ worker'.pc = "idle"
    BY <2>3 DEF CreateInitJob, CheckCreateJobStatus, CallFails, Restart, Return, Retry, Idle,
                Deliver, DeliverRepo, DeliverJob, DeliverSecret
  <2>4. ASSUME NEW n \in Names, Resync(n) \/ User(n) \/ Collect(n) \/ Pod(n) \/ LogsLost(n)
        PROVE  worker' = worker
    BY <2>4 DEF Resync, User, UserCreates, UserEdits, UserDeletes, UserDeletesForeground,
                UserCreatesSecret, UserDeletesSecret, Collect, CollectJob, CollectSecret,
                CollectRepo, Pod, InitPodSucceeds, InitPodFails, InitPodLost, LogsLost
  <2>5. ASSUME UNCHANGED vars
        PROVE  worker' = worker
    BY <2>5 DEF vars
  <2>6. CASE Reconcile
    BY <1>1, <1>2, <1>3, <1>4, <2>1, <2>2, <2>3, <2>6 DEF Reconcile
  <2>7. CASE \E n \in Names : Resync(n) \/ User(n) \/ Collect(n) \/ Pod(n) \/ LogsLost(n)
    BY <1>2, <2>4, <2>7
  <2>8. CASE CallFails \/ Restart \/ Deliver \/ UNCHANGED vars
    BY <1>1, <1>2, <2>3, <2>5, <2>8
  <2> QED
    BY <2>6, <2>7, <2>8 DEF Next

LEMMA PutJobFrom ==
  ASSUME TypeOK, NEW n \in Names, NEW job \in Job, PutJob(n, job),
         job.live => JobFrom(n, Stored(jobs)[n], job)
  PROVE  JobsFrom
<1>1. jobs \in Watched([Names -> Job]) /\ Stored(jobs) \in [Names -> Job]
  BY ObjectTypes DEF TypeOK
<1>2. jobs' = Write(jobs, n, job) /\ Changed(jobs, n, job) \in [Names -> Job]
  BY <1>1 DEF PutJob, Changed
<1>3. /\ Stored(jobs)' = Changed(jobs, n, job)
      /\ Seen(jobs)' = Seen(jobs) \cup {Stored(jobs)'}
  BY <1>1, <1>2, Written
<1>4. /\ Stored(jobs)'[n] = job
      /\ \A m \in Names \ {n} : Stored(jobs)'[m] = Stored(jobs)[m]
  BY <1>1, <1>3 DEF Changed
<1>5. \A m \in Names \ {n} : Stored(jobs)'[m].live => JobFrom(m, Stored(jobs)[m], Stored(jobs)'[m])
  BY <1>4 DEF JobFrom
<1> QED
  BY <1>3, <1>4, <1>5 DEF JobsFrom

LEMMA SameJobs ==
  ASSUME Stored(jobs)' = Stored(jobs), Seen(jobs)' \subseteq Seen(jobs)
  PROVE  JobsFrom
BY DEF JobsFrom, JobFrom

(* A pod that ends changes the Job's state.                                *)
LEMMA PodLeaves ==
  ASSUME NEW job \in Job
  PROVE  /\ FailedPod(job).url = job.url /\ FailedPod(job).state # "Complete"
         /\ [job EXCEPT !.state = "Complete"].url = job.url
<1>1. ASSUME NEW f, NEW s
      PROVE  /\ [job EXCEPT !.failed = f, !.state = s].url = job.url
             /\ [job EXCEPT !.failed = f, !.state = s].state = s
  BY DEF Job
<1>2. (IF job.failed + 1 > BackoffLimit THEN "Failed" ELSE "Active") # "Complete"
  OBVIOUS
<1> QED
  BY <1>1, <1>2 DEF FailedPod, Job

LEMMA PodFrom ==
  ASSUME TypeOK, NEW n \in Names, Pod(n)
  PROVE  JobsFrom /\ StorageKept /\ UNCHANGED secrets
<1> DEFINE job == Stored(jobs)[n]
           done == [job EXCEPT !.state = "Complete"]
           lost == FailedPod(job)
           pw == Stored(secrets)[n].pw
<1>1. job \in Job /\ job.live /\ Stored(secrets)[n].live
  BY ObjectTypes DEF Pod, InitPodSucceeds, InitPodFails, InitPodLost, PodCanRun
<1>2. /\ done \in Job /\ done.owner = job.owner /\ done.url = job.url
      /\ lost \in Job /\ lost.owner = job.owner /\ lost.url = job.url /\ lost.state # "Complete"
  BY <1>1, PodEnds, PodLeaves
<1>3. storage \in [Urls -> Passwords \cup {None}]
  BY DEF TypeOK
<1>4. CASE InitPodSucceeds(n)
  <2>1. storage[job.url] = None /\ storage' = [storage EXCEPT ![job.url] = pw] /\ PutJob(n, done)
        /\ secrets' = secrets
    BY <1>4 DEF InitPodSucceeds
  <2>2. StorageKept
    BY <1>3, <2>1 DEF StorageKept
  <2>3. done.url \in Urls => storage'[done.url] = pw
    BY <1>2, <1>3, <2>1
  <2>4. JobFrom(n, job, done)
    BY <1>1, <1>2, <2>3 DEF JobFrom
  <2> QED
    BY <1>2, <2>1, <2>2, <2>4, PutJobFrom
<1>5. CASE InitPodFails(n) \/ InitPodLost(n)
  <2>1. /\ PutJob(n, lost) /\ secrets' = secrets
        /\ \/ storage' = storage
           \/ storage[job.url] = None /\ storage' = [storage EXCEPT ![job.url] = pw]
    BY <1>5 DEF InitPodFails, InitPodLost, world
  <2>2. StorageKept
    BY <1>3, <2>1 DEF StorageKept
  <2>3. JobFrom(n, job, lost)
    BY <1>1, <1>2 DEF JobFrom
  <2> QED
    BY <1>2, <2>1, <2>2, <2>3, PutJobFrom
<1> QED
  BY <1>4, <1>5 DEF Pod

LEMMA JobsFromStep ==
  ASSUME TypeOK, [Next]_vars
  PROVE  JobsFrom /\ StorageKept
<1> USE DEF world
<1>1. CASE CreateInitJob
  <2> DEFINE n == worker.name
             job == CreateRepoInitJob(worker.repo)
  <2>1. StorageKept
    BY <1>1 DEF CreateInitJob, StorageKept
  <2>2. CASE PutJob(n, job)
    <3>1. n \in Names /\ worker.repo \in Repo /\ worker.pc = "createJob"
      BY <1>1 DEF TypeOK, CreateInitJob, Worker
    <3>2. /\ job \in Job /\ job.owner = worker.repo.uid /\ job.url = worker.repo.url
          /\ job.state # "Complete"
      BY <3>1 DEF CreateRepoInitJob, Job, Repo
    <3> HIDE DEF job
    <3>3. JobFrom(n, Stored(jobs)[n], job)
      BY <3>1, <3>2 DEF JobFrom
    <3> QED
      BY <2>1, <2>2, <3>1, <3>2, <3>3, PutJobFrom
  <2> QED
    BY <1>1, <2>1, <2>2, SameJobs DEF CreateInitJob
<1>2. ASSUME NEW n \in Names, CollectJob(n)
      PROVE  JobsFrom /\ StorageKept
  <2>1. PutJob(n, NoJob) /\ ~NoJob.live /\ storage' = storage
    BY <1>2 DEF CollectJob, NoJob
  <2> QED
    BY <2>1, NoObjects, PutJobFrom DEF StorageKept
<1>3. ASSUME NEW n \in Names, Pod(n)
      PROVE  JobsFrom /\ StorageKept
  BY <1>3, PodFrom
<1>4. CASE /\ Stored(jobs)' = Stored(jobs) /\ Seen(jobs)' \subseteq Seen(jobs)
           /\ storage' = storage
  BY <1>4, SameJobs DEF StorageKept
<1> QED
  <2>1. ASSUME Reconcile
        PROVE  CreateInitJob \/ UNCHANGED <<jobs, storage>>
    BY <2>1 DEF Reconcile, ReconcileNothing, ReconcilePending, ReconcileDefaults,
                StartCreateRepoJob, CheckCreateJobStatus
  <2>2. ASSUME CallFails
        PROVE  UNCHANGED <<jobs, storage>>
    BY <2>2 DEF CallFails
  <2>3. ASSUME Deliver \/ Restart
        PROVE  /\ Stored(jobs)' = Stored(jobs) /\ Seen(jobs)' \subseteq Seen(jobs)
               /\ storage' = storage
    <3>1. jobs \in Watched([Names -> Job])
      BY DEF TypeOK
    <3>2. CASE DeliverJob
      BY <3>1, <3>2, Delivered DEF DeliverJob
    <3>3. CASE DeliverRepo \/ DeliverSecret
      BY <3>3 DEF DeliverRepo, DeliverSecret
    <3>4. CASE Restart
      <4>1. jobs' = Relisted(jobs) /\ storage' = storage
        BY <3>4 DEF Restart
      <4>2. /\ Seen(Relisted(jobs)) = {Stored(jobs)}
            /\ Stored(Relisted(jobs)) = Stored(jobs)
        BY <3>1, Restarted
      <4> QED
        BY <4>1, <4>2, ObjectTypes
    <3> QED
      BY <2>3, <3>2, <3>3, <3>4 DEF Deliver
  <2>4. ASSUME NEW n \in Names, Resync(n) \/ User(n) \/ Collect(n) \/ LogsLost(n)
        PROVE  CollectJob(n) \/ UNCHANGED <<jobs, storage>>
    BY <2>4 DEF Resync, User, UserCreates, UserEdits, UserDeletes, UserDeletesForeground,
                UserCreatesSecret, UserDeletesSecret, Collect, CollectSecret, CollectRepo,
                LogsLost
  <2>5. ASSUME UNCHANGED vars
        PROVE  UNCHANGED <<jobs, storage>>
    BY <2>5 DEF vars
  <2> QED
    BY <1>1, <1>2, <1>3, <1>4, <2>1, <2>2, <2>3, <2>4, <2>5 DEF Next

LEMMA PutSecretFrom ==
  ASSUME TypeOK, NEW n \in Names, NEW secret \in Secret, PutSecret(n, secret),
         secret.live => secret.pw \in Passwords
  PROVE  SecretsFrom
<1>1. Stored(secrets)' = Changed(secrets, n, secret) /\ Stored(secrets) \in [Names -> Secret]
  BY PutSecretWrites, ObjectTypes
<1>2. /\ Stored(secrets)'[n] = secret
      /\ \A m \in Names \ {n} : Stored(secrets)'[m] = Stored(secrets)[m]
  BY <1>1 DEF Changed
<1> QED
  BY <1>2 DEF SecretsFrom

LEMMA SecretsFromStep ==
  ASSUME TypeOK, [Next]_vars
  PROVE  SecretsFrom
<1> USE DEF world
<1>1. CASE StartCreateRepoJob
  <2> DEFINE n == worker.name
  <2>1. n \in Names /\ worker.repo.uid \in Nat
    BY <1>1 DEF TypeOK, StartCreateRepoJob, Worker, Repo
  <2>2. ASSUME NEW pw \in Passwords,
               PutSecret(n, [live |-> TRUE, owner |-> worker.repo.uid, pw |-> pw])
        PROVE  SecretsFrom
    <3> DEFINE new == [live |-> TRUE, owner |-> worker.repo.uid, pw |-> pw]
    <3>1. new \in Secret /\ new.pw \in Passwords
      BY <2>1 DEF Secret
    <3> HIDE DEF new
    <3> QED
      BY <2>1, <2>2, <3>1, PutSecretFrom DEF new
  <2>3. CASE UNCHANGED secrets
    BY <2>3 DEF SecretsFrom
  <2> QED
    BY <1>1, <2>2, <2>3 DEF StartCreateRepoJob
<1>2. ASSUME NEW n \in Names, UserCreatesSecret(n)
      PROVE  SecretsFrom
  <2>1. PICK pw \in Passwords : PutSecret(n, [live |-> TRUE, owner |-> 0, pw |-> pw])
    BY <1>2 DEF UserCreatesSecret
  <2> DEFINE new == [live |-> TRUE, owner |-> 0, pw |-> pw]
  <2>2. PutSecret(n, new) /\ new \in Secret /\ new.pw \in Passwords
    BY <2>1 DEF Secret
  <2> HIDE DEF new
  <2> QED
    BY <2>2, PutSecretFrom
<1>3. ASSUME NEW n \in Names, UserDeletesSecret(n) \/ CollectSecret(n)
      PROVE  SecretsFrom
  <2>1. PutSecret(n, NoSecret) /\ ~NoSecret.live
    BY <1>3 DEF UserDeletesSecret, CollectSecret, NoSecret
  <2> QED
    BY <2>1, NoObjects, PutSecretFrom
<1>4. CASE Stored(secrets)' = Stored(secrets)
  BY <1>4 DEF SecretsFrom
<1> QED
  <2>1. ASSUME Reconcile
        PROVE  StartCreateRepoJob \/ UNCHANGED secrets
    BY <2>1 DEF Reconcile, ReconcileNothing, ReconcilePending, ReconcileDefaults,
                CreateInitJob, CheckCreateJobStatus
  <2>2. ASSUME CallFails \/ Deliver \/ Restart
        PROVE  Stored(secrets)' = Stored(secrets)
    BY <2>2, Delivered, Restarted
       DEF TypeOK, CallFails, Deliver, DeliverRepo, DeliverJob, DeliverSecret, Restart
  <2>3. ASSUME NEW n \in Names, Resync(n) \/ User(n) \/ Collect(n) \/ Pod(n) \/ LogsLost(n)
        PROVE  UserCreatesSecret(n) \/ UserDeletesSecret(n) \/ CollectSecret(n) \/ UNCHANGED secrets
    BY <2>3 DEF Resync, User, UserCreates, UserEdits, UserDeletes, UserDeletesForeground,
                Collect, CollectJob, CollectRepo, Pod, InitPodSucceeds, InitPodFails, InitPodLost, LogsLost
  <2>4. ASSUME UNCHANGED vars
        PROVE  UNCHANGED secrets
    BY <2>4 DEF vars
  <2> QED
    BY <1>1, <1>2, <1>3, <1>4, <2>1, <2>2, <2>3, <2>4 DEF Next
-------------------------------------------------------------------------------
(* The invariant is inductive.                                             *)

(* Who is alive after the step was alive before it, or is newer than any   *)
(* copy and any owner there was.                                           *)
LEMMA Survives ==
  ASSUME UInv, TypeOK', ReposKept, ReposStep, NEW n \in Names, Alive(n)',
         NEW u \in Nat, u <= born[n], Stored(repos)'[n].uid = u
  PROVE  /\ Alive(n) /\ Stored(repos)[n].uid = u
         /\ Stored(repos)'[n].url = Stored(repos)[n].url
         /\ Stored(repos)[n].url \in Urls
<1>1. born[n] \in Nat
  BY DEF UInv, IInv, TypeOK
<1>2. Alive(n) /\ Stored(repos)[n].uid = u
  BY <1>1 DEF ReposKept
<1>3. u # 0
  BY DEF Alive
<1>4. Stored(repos)'[n].uid # born[n] + 1
  BY <1>1
<1> QED
  BY <1>2, <1>3, <1>4 DEF ReposStep, UInv, UidsBorn

LEMMA UsableStays ==
  ASSUME UInv, SecretsKept, StorageKept, NEW n \in Names, Alive(n), Usable(n),
         Stored(repos)[n].url \in Urls,
         Stored(repos)'[n].uid = Stored(repos)[n].uid,
         Stored(repos)'[n].url = Stored(repos)[n].url
  PROVE  Usable(n)'
<1>1. Stored(secrets)'[n] = Stored(secrets)[n]
  BY DEF SecretsKept, HasSecret, Usable
<1>2. storage'[Stored(repos)[n].url] = storage[Stored(repos)[n].url]
  BY DEF StorageKept, Usable
<1> QED
  BY <1>1, <1>2 DEF Usable

LEMMA UrlStays ==
  ASSUME UInv, ReposStep, NEW n \in Names, NEW x \in Repo, GoodCopy(n, x), SameUrl(n, x)
  PROVE  SameUrl(n, x)'
<1>1. born[n] \in Nat /\ x.uid \in Nat /\ x.uid <= born[n]
  BY DEF UInv, IInv, TypeOK, Repo, GoodCopy
<1> SUFFICES ASSUME x.uid # 0, x.uid = Stored(repos)'[n].uid
             PROVE  x.url = Stored(repos)'[n].url
  BY DEF SameUrl
<1>2. x.uid # born[n] + 1
  BY <1>1
<1> QED
  BY <1>2 DEF ReposStep, SameUrl

LEMMA OneUrlStep ==
  ASSUME UInv, ReposFrom, WorkerFrom
  PROVE  OneUrl'
<1>1. /\ Seen(repos) \subseteq [Names -> Repo]
      /\ worker.pc # "idle" => worker.name \in Names /\ worker.repo \in Repo
  BY ObjectTypes DEF UInv, IInv, TypeOK, Worker
<1>2. ASSUME NEW n \in Names, NEW x \in Seen(repos)
      PROVE  SameUrl(n, x[n])'
  <2>1. x[n] \in Repo /\ GoodCopy(n, x[n]) /\ SameUrl(n, x[n])
    BY <1>1 DEF UInv, IInv, Copies, OneUrl
  <2> QED
    BY <2>1, UrlStays DEF ReposFrom
<1>3. ASSUME NEW n \in Names, NEW x \in Seen(repos)'
      PROVE  SameUrl(n, x[n])'
  <2>1. CASE x \in Seen(repos)
    BY <1>2, <2>1
  <2>2. CASE x = Stored(repos)'
    BY <2>2 DEF SameUrl
  <2> QED
    BY <2>1, <2>2 DEF ReposFrom
<1>4. ASSUME NEW n \in Names, worker'.pc # "idle", worker'.name = n
      PROVE  SameUrl(n, worker.repo)'
  <2>1. PICK x \in Repo :
          /\ worker'.repo.uid = x.uid /\ worker'.repo.url = x.url
          /\ \/ worker.pc # "idle" /\ worker'.name = worker.name /\ x = worker.repo
             \/ \E s \in Seen(repos) : x = s[worker'.name]
    BY <1>4 DEF WorkerFrom
  <2>2. GoodCopy(n, x) /\ SameUrl(n, x)
    BY <1>4, <2>1 DEF UInv, IInv, Copies, OneUrl
  <2>3. SameUrl(n, x)'
    BY <2>2, UrlStays DEF ReposFrom
  <2> QED
    BY <2>1, <2>3 DEF SameUrl
<1> QED
  BY <1>3, <1>4 DEF OneUrl

LEMMA JobsOwnedStep ==
  ASSUME UInv, TypeOK', ReposKept, JobsFrom
  PROVE  JobsOwned'
<1> SUFFICES ASSUME NEW n \in Names, NEW x \in Seen(jobs)', x[n].live
             PROVE  x[n].owner # 0 /\ x[n].owner <= born'[n]
  BY DEF JobsOwned
<1>1. /\ born[n] \in Nat /\ born'[n] \in Nat /\ born[n] <= born'[n]
      /\ Stored(jobs) \in Seen(jobs)
  BY ObjectTypes DEF UInv, IInv, TypeOK, ReposKept
<1>2. /\ worker.repo.uid \in Nat
      /\ worker.pc # "idle" /\ worker.name = n => worker.repo.uid # 0 /\ worker.repo.uid <= born[n]
  BY DEF UInv, IInv, TypeOK, Worker, Repo, Copies, GoodCopy
<1>3. \A s \in Seen(jobs) : s[n].live => s[n].owner \in Nat /\ s[n].owner # 0 /\ s[n].owner <= born[n]
  BY ObjectTypes DEF UInv, IInv, JobsOwned, Job
<1>4. x[n].owner \in Nat /\ x[n].owner # 0 /\ x[n].owner <= born[n]
  <2>1. CASE x \in Seen(jobs)
    BY <1>3, <2>1
  <2>2. CASE x = Stored(jobs)'
    BY <1>1, <1>2, <1>3, <2>2 DEF JobsFrom, JobFrom
  <2> QED
    BY <2>1, <2>2 DEF JobsFrom
<1> QED
  BY <1>1, <1>4

(* A Job that belongs to a Repository alive after the step is one that did *)
(* before, or one that did before and has gone on, or a new one.           *)
LEMMA OwnedBefore ==
  ASSUME UInv, TypeOK', ReposKept, ReposStep, JobsFrom,
         NEW n \in Names, NEW x \in Seen(jobs)', Owned(n, x[n])'
  PROVE  /\ Alive(n) /\ Stored(repos)'[n].uid = Stored(repos)[n].uid
         /\ Stored(repos)'[n].url = Stored(repos)[n].url
         /\ Stored(repos)[n].url \in Urls
         /\ \/ x \in Seen(jobs) /\ Owned(n, x[n])
            \/ /\ Owned(n, Stored(jobs)[n]) /\ x[n].url = Stored(jobs)[n].url
               /\ \/ x[n].state = "Complete" => Stored(jobs)[n].state = "Complete"
                  \/ /\ Stored(secrets)[n].live
                     /\ x[n].url \in Urls => storage'[x[n].url] = Stored(secrets)[n].pw
            \/ x[n].url = Stored(repos)[n].url /\ x[n].state # "Complete"
<1>1. /\ born[n] \in Nat /\ Stored(jobs) \in Seen(jobs)
      /\ x[n].live /\ x[n].owner = Stored(repos)'[n].uid /\ Alive(n)'
  BY ObjectTypes DEF UInv, IInv, TypeOK, Owned
<1>2. \A s \in Seen(jobs) : s[n].live => s[n].owner \in Nat /\ s[n].owner <= born[n]
  BY ObjectTypes DEF UInv, IInv, JobsOwned, Job
<1>3. ASSUME NEW u \in Nat, u <= born[n], x[n].owner = u
      PROVE  /\ Alive(n) /\ Stored(repos)'[n].uid = Stored(repos)[n].uid
             /\ Stored(repos)[n].uid = u
             /\ Stored(repos)'[n].url = Stored(repos)[n].url
             /\ Stored(repos)[n].url \in Urls
  BY <1>1, <1>3, Survives
<1>4. CASE x \in Seen(jobs)
  BY <1>1, <1>2, <1>3, <1>4 DEF Owned
<1>5. CASE x = Stored(jobs)'
  <2> DEFINE old == Stored(jobs)[n]
  <2>1. JobFrom(n, old, x[n])
    BY <1>1, <1>5 DEF JobsFrom
  <2>2. CASE old.live /\ x[n].owner = old.owner /\ x[n].url = old.url
    BY <1>1, <1>2, <1>3, <2>1, <2>2 DEF Owned, JobFrom
  <2>3. CASE /\ worker.pc # "idle" /\ worker.name = n
             /\ x[n].owner = worker.repo.uid /\ x[n].url = worker.repo.url
             /\ x[n].state # "Complete"
    <3>1. /\ worker.repo.uid \in Nat /\ worker.repo.uid # 0 /\ worker.repo.uid <= born[n]
          /\ SameUrl(n, worker.repo)
      BY <2>3 DEF UInv, IInv, TypeOK, Worker, Repo, Copies, GoodCopy, OneUrl
    <3> QED
      BY <1>1, <1>3, <2>3, <3>1 DEF SameUrl
  <2> QED
    BY <2>1, <2>2, <2>3 DEF JobFrom
<1> QED
  BY <1>4, <1>5 DEF JobsFrom

LEMMA JobsAimDoneStep ==
  ASSUME UInv, TypeOK', ReposKept, ReposStep, JobsFrom, SecretsKept, StorageKept
  PROVE  JobsAim' /\ JobsDone'
<1>1. Stored(jobs) \in Seen(jobs)
  BY ObjectTypes DEF UInv, IInv
<1>2. ASSUME NEW n \in Names, NEW x \in Seen(jobs)', Owned(n, x[n])'
      PROVE  x[n].url = Stored(repos)'[n].url
  BY <1>1, <1>2, OwnedBefore DEF UInv, JobsAim
<1>3. ASSUME NEW n \in Names, NEW x \in Seen(jobs)', Owned(n, x[n])', x[n].state = "Complete"
      PROVE  Usable(n)'
  <2>1. /\ Alive(n) /\ Stored(repos)'[n].uid = Stored(repos)[n].uid
        /\ Stored(repos)'[n].url = Stored(repos)[n].url
        /\ Stored(repos)[n].url \in Urls
    BY <1>3, OwnedBefore
  <2>2. CASE Usable(n)
    BY <2>1, <2>2, UsableStays
  <2>3. CASE /\ Owned(n, Stored(jobs)[n]) /\ x[n].url = Stored(jobs)[n].url
             /\ Stored(secrets)[n].live
             /\ x[n].url \in Urls => storage'[x[n].url] = Stored(secrets)[n].pw
    <3>1. HasSecret(n)
      BY <2>1, <2>3 DEF UInv, IInv, InitJobHasItsSecret, Owned, Alive, HasSecret
    <3>2. Stored(secrets)'[n] = Stored(secrets)[n]
      BY <2>1, <3>1 DEF SecretsKept
    <3>3. Stored(secrets)[n].pw \in Passwords /\ Stored(secrets)[n].pw # None
      BY <2>3, NoneAssumption DEF UInv, SecretsFilled
    <3>4. storage'[Stored(repos)'[n].url] = Stored(secrets)[n].pw
      BY <1>2, <1>3, <2>1, <2>3
    <3> QED
      BY <2>1, <3>1, <3>2, <3>3, <3>4 DEF Usable, HasSecret
  <2>4. \/ x \in Seen(jobs) /\ Owned(n, x[n])
        \/ Owned(n, Stored(jobs)[n]) /\ Stored(jobs)[n].state = "Complete"
        \/ /\ Owned(n, Stored(jobs)[n]) /\ x[n].url = Stored(jobs)[n].url
           /\ Stored(secrets)[n].live
           /\ x[n].url \in Urls => storage'[x[n].url] = Stored(secrets)[n].pw
    BY <1>3, OwnedBefore
  <2>5. \/ Usable(n)
        \/ /\ Owned(n, Stored(jobs)[n]) /\ x[n].url = Stored(jobs)[n].url
           /\ Stored(secrets)[n].live
           /\ x[n].url \in Urls => storage'[x[n].url] = Stored(secrets)[n].pw
    BY <1>1, <1>3, <2>4 DEF UInv, JobsDone
  <2> QED
    BY <2>2, <2>3, <2>5
<1> QED
  BY <1>2, <1>3 DEF JobsAim, JobsDone

LEMMA CreatedStep ==
  ASSUME UInv, TypeOK', ReposKept, ReposFrom, SecretsKept, StorageKept
  PROVE  CreatedIsUsable'
<1> SUFFICES ASSUME NEW n \in Names, Stored(repos)'[n].uid = 1, IsCreated(Stored(repos)'[n]),
                    ~Stored(repos)'[n].deleting
             PROVE  Usable(n)'
  BY DEF CreatedIsUsable
<1>1. /\ born[n] \in Nat /\ Stored(repos)[n] \in Repo /\ GoodCopy(n, Stored(repos)[n])
      /\ Cached(jobs) \in Seen(jobs) /\ Cached(jobs)[n].owner \in Nat
  BY ObjectTypes DEF UInv, IInv, TypeOK, Copies, Job
<1>2. Alive(n)' /\ ReposStep
  BY DEF Alive, ReposFrom
<1>3. CASE born[n] = 0
  <2>1. ~Cached(jobs)[n].live
    BY <1>1, <1>3 DEF UInv, JobsOwned
  <2>2. Stored(repos)[n] = NoRepo
    BY <1>1, <1>3 DEF GoodCopy, Repo
  <2>3. ~IsCreated(Stored(repos)[n])
    BY <2>2 DEF NoRepo, IsCreated
  <2> QED
    BY <2>1, <2>3 DEF ReposFrom, VerdictFrom
<1>4. CASE born[n] # 0
  <2>1. 1 <= born[n]
    BY <1>1, <1>4
  <2>2. /\ Alive(n) /\ Stored(repos)[n].uid = 1
        /\ Stored(repos)'[n].url = Stored(repos)[n].url
        /\ Stored(repos)[n].url \in Urls
    BY <1>2, <2>1, Survives
  <2>3. born[n] = 1
    BY <2>2 DEF UInv, UidsBorn
  <2>4. Usable(n)
    <3>1. CASE IsCreated(Stored(repos)[n])
      BY <2>2, <3>1 DEF UInv, CreatedIsUsable, Alive
    <3>2. CASE Cached(jobs)[n].live /\ Cached(jobs)[n].state = "Complete"
      <4>1. Cached(jobs)[n].owner # 0 /\ Cached(jobs)[n].owner <= 1
        BY <1>1, <2>3, <3>2 DEF UInv, JobsOwned
      <4>2. Cached(jobs)[n].owner = 1
        BY <1>1, <4>1
      <4>3. Owned(n, Cached(jobs)[n])
        BY <2>2, <3>2, <4>2 DEF Owned
      <4> QED
        BY <1>1, <3>2, <4>3 DEF UInv, JobsDone
    <3> QED
      BY <3>1, <3>2 DEF ReposFrom, VerdictFrom
  <2> QED
    BY <2>2, <2>4, UsableStays
<1> QED
  BY <1>3, <1>4

LEMMA UInvInit == Init => UInv
<1> SUFFICES ASSUME Init PROVE UInv
  OBVIOUS
<1>1. /\ Stored(repos) = [n \in Names |-> NoRepo] /\ Seen(repos) = {Stored(repos)}
      /\ Stored(jobs) = [n \in Names |-> NoJob] /\ Seen(jobs) = {Stored(jobs)}
      /\ Stored(secrets) = [n \in Names |-> NoSecret]
  BY Single DEF Init
<1>2. /\ NoRepo.uid = 0 /\ ~NoJob.live /\ ~NoSecret.live /\ worker.pc = "idle"
  BY DEF Init, Idle, NoRepo, NoJob, NoSecret
<1>3. UidsBorn /\ OneUrl /\ SecretsFilled /\ CreatedIsUsable
  BY <1>1, <1>2 DEF UidsBorn, OneUrl, SameUrl, SecretsFilled, CreatedIsUsable
<1>4. JobsOwned /\ JobsAim /\ JobsDone
  BY <1>1, <1>2 DEF JobsOwned, JobsAim, JobsDone, Owned
<1> QED
  BY <1>3, <1>4, IInvInit DEF UInv

LEMMA UInvStep ==
  ASSUME UInv, [Next]_vars
  PROVE  UInv'
<1>1. TypeOK /\ Copies /\ WorkerPending /\ OwnersBorn
  BY DEF UInv, IInv
<1>2. IInv'
  BY IInvStep DEF UInv
<1>3. ReposKept /\ ReposFrom /\ SecretsKept
  BY <1>1, RefinesStep, LifecycleKeeps, ReposFromStep, SecretsStep
<1>4. WorkerFrom /\ JobsFrom /\ StorageKept /\ SecretsFrom
  BY <1>1, WorkerFromStep, JobsFromStep, SecretsFromStep
<1>5. TypeOK' /\ ReposStep
  BY <1>2, <1>3 DEF IInv, ReposFrom
<1>6. UidsBorn'
  BY <1>5 DEF UInv, UidsBorn, ReposStep
<1>7. OneUrl' /\ JobsOwned'
  BY <1>3, <1>4, <1>5, OneUrlStep, JobsOwnedStep
<1>8. JobsAim' /\ JobsDone' /\ CreatedIsUsable'
  BY <1>3, <1>4, <1>5, JobsAimDoneStep, CreatedStep
<1>9. SecretsFilled'
  BY <1>4 DEF UInv, SecretsFilled, SecretsFrom
<1> QED
  BY <1>2, <1>6, <1>7, <1>8, <1>9 DEF UInv

(* The verdict Created, which checkCreateJobStatus takes from a cached Job *)
(* by name, is right for the first Repository of a name, whichever others  *)
(* share its storage or race it to the init: the storage was initialised   *)
(* with the very password that its operator secret still holds.            *)
THEOREM CreatedUsable == Spec => []CreatedIsUsable
<1>1. UInv => CreatedIsUsable
  BY DEF UInv
<1> QED
  BY <1>1, UInvInit, UInvStep, PTL DEF Spec
-------------------------------------------------------------------------------
(* No Repository is forgotten.                                             *)

(* A Job that exists already when startCreateRepoJob creates it was not    *)
(* there in the cache before: the event that announces it is yet to come.  *)
JobAnnounced ==
  worker.pc = "createJob" /\ Stored(jobs)[worker.name].live =>
    OnItsWay(jobs, worker.name) \/ worker.name \in queue

WInv == UInv /\ JobAnnounced /\ NeverForgotten

(* Until a restart, every event is still on its way after a step or has    *)
(* queued its Repository, and what a step changes is on its way.           *)
ReposHeard ==
  \A n \in Names :
    OnItsWay(repos, n) \/ Stored(repos)'[n] # Stored(repos)[n] =>
      OnItsWay(repos, n)' \/ n \in queue'

JobsHeard ==
  \A n \in Names :
    OnItsWay(jobs, n) \/ Stored(jobs)'[n] # Stored(jobs)[n] =>
      OnItsWay(jobs, n)' \/ n \in queue'

LEMMA WriteHeard ==
  ASSUME TypeOK, NEW m, NEW obj
  PROVE  /\ repos' = Write(repos, m, obj) => ReposHeard
         /\ jobs' = Write(jobs, m, obj) => JobsHeard
<1>1. repos \in Watched([Names -> Repo]) /\ jobs \in Watched([Names -> Job])
  BY DEF TypeOK
<1>2. ASSUME NEW n, repos' = Write(repos, m, obj),
             OnItsWay(repos, n) \/ Stored(repos)'[n] # Stored(repos)[n]
      PROVE  OnItsWay(repos, n)'
  BY <1>1, <1>2, WriteAnnounces
<1>3. ASSUME NEW n, jobs' = Write(jobs, m, obj),
             OnItsWay(jobs, n) \/ Stored(jobs)'[n] # Stored(jobs)[n]
      PROVE  OnItsWay(jobs, n)'
  BY <1>1, <1>3, WriteAnnounces
<1> QED
  BY <1>2, <1>3 DEF ReposHeard, JobsHeard

LEMMA RestHeard ==
  /\ repos' = repos => ReposHeard
  /\ jobs' = jobs => JobsHeard
BY DEF ReposHeard, JobsHeard

LEMMA DeliveryHeard ==
  ASSUME TypeOK, Deliver
  PROVE  ReposHeard /\ JobsHeard
<1>1. repos \in Watched([Names -> Repo]) /\ jobs \in Watched([Names -> Job])
  BY DEF TypeOK
<1>2. CASE DeliverRepo
  <2>1. ASSUME NEW n \in Names
        PROVE  /\ Stored(repos)' = Stored(repos)
               /\ OnItsWay(repos, n) => OnItsWay(repos, n)' \/ n \in queue'
    BY <1>1, <1>2, Delivered, DeliveryAnnounces DEF DeliverRepo
  <2>2. jobs' = jobs
    BY <1>2 DEF DeliverRepo
  <2> QED
    BY <2>1, <2>2, RestHeard DEF ReposHeard
<1>3. CASE DeliverJob
  <2>1. ASSUME NEW n \in Names
        PROVE  /\ Stored(jobs)' = Stored(jobs)
               /\ OnItsWay(jobs, n) => OnItsWay(jobs, n)' \/ n \in queue'
    BY <1>1, <1>3, Delivered, DeliveryAnnounces DEF DeliverJob, Owners
  <2>2. repos' = repos
    BY <1>3 DEF DeliverJob
  <2> QED
    BY <2>1, <2>2, RestHeard DEF JobsHeard
<1>4. CASE DeliverSecret
  BY <1>4, RestHeard DEF DeliverSecret
<1> QED
  BY <1>2, <1>3, <1>4 DEF Deliver

LEMMA StepHeard ==
  ASSUME TypeOK, Next, ~Restart
  PROVE  ReposHeard /\ JobsHeard
<1> USE WriteHeard, RestHeard DEF world
<1>1. ASSUME NEW n \in Names, ReconcileNothing(n) \/ ReconcilePending(n) \/ ReconcileDefaults(n)
      PROVE  ReposHeard /\ JobsHeard
  BY <1>1 DEF ReconcileNothing, ReconcilePending, ReconcileDefaults, PutRepo
<1>2. CASE StartCreateRepoJob \/ CreateInitJob \/ CheckCreateJobStatus \/ CallFails
  BY <1>2 DEF StartCreateRepoJob, CreateInitJob, CheckCreateJobStatus, CallFails, PutRepo, PutJob
<1>3. ASSUME NEW n \in Names, Resync(n) \/ User(n)
      PROVE  ReposHeard /\ JobsHeard
  BY <1>3 DEF Resync, User, UserCreates, UserEdits, UserDeletes, UserDeletesForeground,
              UserCreatesSecret, UserDeletesSecret, PutRepo, RemoveRepo
<1>4. ASSUME NEW n \in Names, Collect(n) \/ Pod(n) \/ LogsLost(n)
      PROVE  ReposHeard /\ JobsHeard
  BY <1>4 DEF Collect, CollectJob, CollectSecret, CollectRepo, RemoveRepo, PutJob,
              Pod, InitPodSucceeds, InitPodFails, InitPodLost, LogsLost
<1> QED
  BY <1>1, <1>2, <1>3, <1>4, DeliveryHeard DEF Next, Reconcile

(* Steps that take no name from the queue or the worker.                   *)
LEMMA OthersKeepInHand ==
  ASSUME CallFails \/ Deliver \/ (\E n \in Names : Resync(n) \/ User(n) \/ Collect(n) \/ Pod(n) \/ LogsLost(n))
  PROVE  /\ queue \subseteq queue'
         /\ \/ worker' = worker
            \/ worker'.pc = "idle" /\ worker.name \in queue'
<1>1. CASE CallFails
  BY <1>1 DEF CallFails, Retry, Idle
<1>2. CASE Deliver
  BY <1>2 DEF Deliver, DeliverRepo, DeliverJob, DeliverSecret
<1>3. ASSUME NEW n \in Names, Resync(n) \/ User(n) \/ Collect(n) \/ Pod(n) \/ LogsLost(n)
      PROVE  queue \subseteq queue' /\ worker' = worker
  BY <1>3 DEF Resync, User, UserCreates, UserEdits, UserDeletes, UserDeletesForeground,
              UserCreatesSecret, UserDeletesSecret, Collect, CollectJob, CollectSecret,
              CollectRepo, Pod, InitPodSucceeds, InitPodFails, InitPodLost, LogsLost
<1> QED
  BY <1>1, <1>2, <1>3

(* A Job that is still active runs or is about to be collected: it has the *)
(* operator secret of the Repository that owns it.                         *)
ActivesMove ==
  \A n \in Names :
    Undecided(n) /\ Stored(jobs)[n].live /\ Stored(jobs)[n].state = "Active" => JobMoves(n)

LEMMA ActiveMoves == UInv => ActivesMove
<1> SUFFICES ASSUME UInv, NEW n \in Names, Undecided(n), Stored(jobs)[n].live,
                    Stored(jobs)[n].state = "Active"
             PROVE  JobMoves(n)
  BY DEF ActivesMove
<1>1. Stored(jobs)[n].owner # 0
  BY ObjectTypes DEF UInv, IInv, JobsOwned
<1>2. CASE Orphaned(n, Stored(jobs)[n].owner)
  BY <1>2 DEF JobMoves
<1>3. CASE ~Orphaned(n, Stored(jobs)[n].owner)
  <2>1. Stored(secrets)[n].live
    BY <1>1, <1>3 DEF Orphaned, Undecided, UInv, IInv, InitJobHasItsSecret
  <2> QED
    BY <2>1 DEF JobMoves, PodCanRun
<1> QED
  BY <1>2, <1>3

(* What is undecided after the step has an event of its own to come.       *)
Heeded(n) == InHand(n) \/ OnItsWay(repos, n) \/ OnItsWay(jobs, n) \/ JobMoves(n)

(* Reconcile lets go of a Repository only when it is decided, when the     *)
(* cache is behind or when its Job will move.                              *)
LEMMA ReconcileHeeds ==
  ASSUME WInv, UInv', Reconcile, ReposHeard, JobsHeard,
         NEW n \in Names, InHand(n), Undecided(n)'
  PROVE  Heeded(n)'
<1> USE DEF world
<1>0. /\ repos \in Watched([Names -> Repo]) /\ jobs \in Watched([Names -> Job])
      /\ worker \in Worker
      /\ worker.pc # "idle" => worker.name \in Names
  BY DEF WInv, UInv, IInv, TypeOK
<1>1. ASSUME NEW m \in Names, ReconcileNothing(m)
      PROVE  Heeded(n)'
  <2>1. repos' = repos /\ worker' = worker /\ queue' = queue \ {m} /\ worker.pc = "idle"
    BY <1>1 DEF ReconcileNothing, Take
  <2>2. CASE n = m
    <3>1. Cached(repos)[n] # Stored(repos)[n]
      BY <1>1, <2>1, <2>2 DEF ReconcileNothing, Found, Settled, Undecided
    <3> QED
      BY <1>0, <2>1, <3>1, Behind DEF Heeded
  <2>3. CASE n # m
    BY <2>1, <2>3 DEF Heeded, InHand
  <2> QED
    BY <2>2, <2>3
<1>2. ASSUME NEW m \in Names, ReconcilePending(m) \/ ReconcileDefaults(m)
      PROVE  Heeded(n)'
  <2>1. /\ worker.pc = "idle"
        /\ \/ queue' = queue \ {m} /\ worker'.pc = "getJob" /\ worker'.name = m
           \/ queue' = queue \cup {m}
    BY <1>2 DEF ReconcilePending, ReconcileDefaults, Take, Retry
  <2> QED
    BY <2>1 DEF Heeded, InHand
<1>3. CASE StartCreateRepoJob
  <2>1. worker.pc = "getJob" /\ worker \in Worker
    BY <1>0, <1>3 DEF StartCreateRepoJob
  <2>2. \/ queue' = queue /\ worker'.pc = "createJob" /\ worker'.name = worker.name
        \/ queue' = queue \cup {worker.name}
    BY <1>3, <2>1 DEF StartCreateRepoJob, Retry, Worker
  <2> QED
    BY <2>1, <2>2 DEF Heeded, InHand
<1>4. CASE CreateInitJob
  <2>1. queue' = queue /\ worker.pc = "createJob"
    BY <1>4 DEF CreateInitJob, Return
  <2>2. CASE n \in queue
    BY <2>1, <2>2 DEF Heeded, InHand
  <2>3. CASE n \notin queue
    <3>1. n = worker.name
      BY <2>3 DEF InHand
    <3>2. CASE Stored(jobs)[n].live
      BY <2>1, <2>3, <3>1, <3>2 DEF WInv, JobAnnounced, JobsHeard, Heeded, InHand
    <3>3. CASE ~Stored(jobs)[n].live
      <4>1. PutJob(n, CreateRepoInitJob(worker.repo))
        BY <1>4, <3>1, <3>3 DEF CreateInitJob
      <4>2. CreateRepoInitJob(worker.repo) \in Job /\ CreateRepoInitJob(worker.repo).live
        <5>1. worker.repo.uid \in Nat /\ worker.repo.url \in Urls \cup {None}
          BY <1>0 DEF Worker, Repo
        <5> QED
          BY <5>1 DEF CreateRepoInitJob, Job
      <4>3. Stored(jobs) \in [Names -> Job] /\ TypeOK
        BY ObjectTypes DEF WInv, UInv, IInv
      <4>4. Stored(jobs)'[n].live
        BY <4>1, <4>2, <4>3, PutJobWrites DEF Changed
      <4> QED
        BY <2>3, <3>3, <4>4 DEF JobsHeard, Heeded, InHand
    <3> QED
      BY <3>2, <3>3
  <2> QED
    BY <2>2, <2>3
<1>5. CASE CheckCreateJobStatus
  <2>1. worker.pc = "getJob" /\ Cached(jobs)[worker.name].live /\ jobs' = jobs /\ secrets' = secrets
    BY <1>5 DEF CheckCreateJobStatus
  <2>2. CASE n \in queue
    BY <1>5, <2>2 DEF CheckCreateJobStatus, Return, Retry, Heeded, InHand
  <2>3. CASE n \notin queue /\ Cached(jobs)[n].state = "Active"
    <3>1. n = worker.name
      BY <2>3 DEF InHand
    <3>2. CASE Cached(jobs)[n] = Stored(jobs)[n]
      <4>1. Stored(jobs)'[n].live /\ Stored(jobs)'[n].state = "Active"
        BY <2>1, <2>3, <3>1, <3>2
      <4>2. ActivesMove'
        BY ActiveMoves, PTL
      <4> QED
        BY <4>1, <4>2 DEF ActivesMove, Heeded
    <3>3. CASE Cached(jobs)[n] # Stored(jobs)[n]
      BY <1>0, <2>1, <3>3, Behind DEF Heeded
    <3> QED
      BY <3>2, <3>3
  <2>4. CASE n \notin queue /\ Cached(jobs)[n].state # "Active"
    <3>1. n = worker.name
      BY <2>4 DEF InHand
    <3>2. CASE LogInReach(n, Cached(jobs)[n]) /\ Stored(repos)[n].rv = worker.repo.rv
      <4> DEFINE p == Verdict(Cached(jobs)[n])
                 done == [worker.repo EXCEPT !.phase = p]
      <4>1. PutRepo(n, done)
        BY <1>5, <2>4, <3>1, <3>2 DEF CheckCreateJobStatus
      <4>2. /\ p \in L!Phases /\ p \in {"created", "failed"}
            /\ done \in Repo /\ done.phase = p
        <5>1. p \in L!Phases /\ p \in {"created", "failed"}
          BY DEF Verdict, L!Phases
        <5>2. worker.repo \in Repo
          BY <1>0 DEF Worker
        <5> HIDE DEF p
        <5> QED
          BY <5>1, <5>2 DEF Repo
      <4> HIDE DEF done, p
      <4>3. Stored(repos)'[n].phase = p
        BY <4>1, <4>2, PutRepoFrom DEF WInv, UInv, IInv
      <4> QED
        BY <4>2, <4>3 DEF Undecided, Settled, IsCreated, IsFailed
    <3>3. CASE ~LogInReach(n, Cached(jobs)[n]) \/ Stored(repos)[n].rv # worker.repo.rv
      BY <1>5, <2>4, <3>1, <3>3 DEF CheckCreateJobStatus, Retry, Heeded, InHand
    <3> QED
      BY <3>2, <3>3
  <2> QED
    BY <2>2, <2>3, <2>4
<1> QED
  BY <1>1, <1>2, <1>3, <1>4, <1>5 DEF Reconcile

LEMMA NeverForgottenStep ==
  ASSUME WInv, UInv', [Next]_vars
  PROVE  NeverForgotten'
<1>0. TypeOK
  BY DEF WInv, UInv, IInv
<1> SUFFICES ASSUME NEW n \in Names, Undecided(n)'
             PROVE  Heeded(n)'
  BY DEF NeverForgotten, Heeded
<1>1. CASE Restart
  <2>1. Stored(repos)' = Stored(repos)
    BY <1>0, <1>1, Restarted DEF Restart, TypeOK
  <2> QED
    BY <1>1, <2>1 DEF Restart, Undecided, Heeded, InHand
<1>2. CASE UNCHANGED vars
  BY <1>2 DEF vars, WInv, NeverForgotten, Undecided, Heeded, InHand, JobMoves, PodCanRun, Orphaned
<1>3. CASE Next /\ ~Restart
  <2>1. ReposHeard /\ JobsHeard
    BY <1>0, <1>3, StepHeard
  <2>2. CASE \/ Stored(repos)'[n] # Stored(repos)[n] \/ OnItsWay(repos, n)
             \/ Stored(jobs)'[n] # Stored(jobs)[n] \/ OnItsWay(jobs, n)
    BY <2>1, <2>2 DEF ReposHeard, JobsHeard, Heeded, InHand
  <2>3. CASE InHand(n)
    <3>1. CASE Reconcile
      BY <2>1, <2>3, <3>1, ReconcileHeeds
    <3>2. CASE ~Reconcile
      BY <1>3, <2>3, <3>2, OthersKeepInHand DEF Next, Heeded, InHand
    <3> QED
      BY <3>1, <3>2
  <2>4. CASE /\ Stored(repos)'[n] = Stored(repos)[n] /\ Stored(jobs)'[n] = Stored(jobs)[n]
             /\ JobMoves(n)
    <3>1. CASE Orphaned(n, Stored(jobs)[n].owner) /\ Stored(jobs)[n].live
      BY <2>4, <3>1 DEF Heeded, JobMoves, Orphaned
    <3>2. CASE PodCanRun(n)
      <4>1. Stored(jobs)'[n].live /\ Stored(jobs)'[n].state = "Active"
        BY <2>4, <3>2 DEF PodCanRun
      <4>2. ActivesMove'
        BY ActiveMoves, PTL
      <4> QED
        BY <4>1, <4>2 DEF ActivesMove, Heeded
    <3> QED
      BY <2>4, <3>1, <3>2 DEF JobMoves
  <2>5. Stored(repos)'[n] = Stored(repos)[n] => Undecided(n)
    BY DEF Undecided, Settled, IsCreated, IsFailed
  <2> QED
    BY <2>2, <2>3, <2>4, <2>5 DEF WInv, NeverForgotten
<1> QED
  BY <1>1, <1>2, <1>3

LEMMA JobAnnouncedStep ==
  ASSUME WInv, [Next]_vars
  PROVE  JobAnnounced'
<1> USE DEF world
<1>0. /\ TypeOK /\ jobs \in Watched([Names -> Job])
      /\ worker \in Worker
      /\ worker.pc # "idle" => worker.name \in Names
  BY DEF WInv, UInv, IInv, TypeOK
<1> SUFFICES ASSUME worker'.pc = "createJob", Stored(jobs)'[worker'.name].live
             PROVE  (OnItsWay(jobs, worker.name) \/ worker.name \in queue)'
  BY DEF JobAnnounced
<1>1. CASE StartCreateRepoJob
  <2> DEFINE n == worker.name
  <2>1. worker.pc = "getJob" /\ ~Cached(jobs)[n].live /\ jobs' = jobs
    BY <1>1 DEF StartCreateRepoJob
  <2>2. worker' = [worker EXCEPT !.pc = "createJob"] \/ worker' = Idle
    BY <1>1 DEF StartCreateRepoJob, Retry
  <2>3. worker'.name = n
    BY <1>0, <2>2 DEF Worker, Idle
  <2>4. Cached(jobs)[n] # Stored(jobs)[n]
    BY <2>1, <2>3
  <2> QED
    BY <1>0, <2>1, <2>3, <2>4, Behind
<1>2. CASE UNCHANGED vars
  BY <1>2 DEF vars, WInv, JobAnnounced
<1>3. CASE worker' = worker /\ queue \subseteq queue' /\ Next /\ ~Restart
  <2>1. JobsHeard
    BY <1>0, <1>3, StepHeard
  <2> QED
    BY <1>0, <1>3, <2>1 DEF WInv, JobAnnounced, JobsHeard
<1>4. CASE CreateInitJob \/ CheckCreateJobStatus \/ CallFails \/ Restart
  BY <1>4 DEF CreateInitJob, CheckCreateJobStatus, CallFails, Restart, Return, Retry, Idle
<1>5. ASSUME NEW n \in Names, ReconcileNothing(n) \/ ReconcilePending(n) \/ ReconcileDefaults(n)
      PROVE  FALSE
  BY <1>5 DEF ReconcileNothing, ReconcilePending, ReconcileDefaults, Take, Retry, Idle
<1>6. CASE Next /\ ~Reconcile /\ ~CallFails /\ ~Restart
  <2>1. worker' = worker /\ queue \subseteq queue'
    <3>1. worker'.pc # "idle"
      OBVIOUS
    <3> QED
      BY <1>6, <3>1, OthersKeepInHand DEF Next
  <2> QED
    BY <1>3, <1>6, <2>1
<1> QED
  BY <1>1, <1>2, <1>4, <1>5, <1>6 DEF Next, Reconcile

(* Caches may be stale and calls may fail between any two steps; still no  *)
(* Reconcile returns without an error and leaves a Repository undecided    *)
(* that nothing to come will queue again.                                  *)
THEOREM AlwaysHeeded == Spec => []NeverForgotten
<1>1. Init => WInv
  <2>1. Init => UInv
    BY UInvInit
  <2>2. Init => JobAnnounced
    BY DEF Init, JobAnnounced, Idle
  <2>3. Init => NeverForgotten
    <3>1. Init => Stored(repos) = [n \in Names |-> NoRepo]
      BY Single DEF Init
    <3> QED
      BY <3>1 DEF NeverForgotten, Undecided, NoRepo
  <2> QED
    BY <2>1, <2>2, <2>3 DEF WInv
<1>2. WInv /\ [Next]_vars => WInv'
  BY UInvStep, NeverForgottenStep, JobAnnouncedStep DEF WInv
<1>3. WInv => NeverForgotten
  BY DEF WInv
<1> QED
  BY <1>1, <1>2, <1>3, PTL DEF Spec
===============================================================================
