--------------------------- MODULE RepositoryProofs ---------------------------
(***************************************************************************)
(* Theorems about the Repository controller, for every value of the        *)
(* constants: any number of Repositories, any lag of the caches, any       *)
(* number of failures and restarts.                                        *)
(***************************************************************************)
EXTENDS Repository, InformerProofs

-------------------------------------------------------------------------------
(* The inductive invariant.                                                *)

(* A copy of Repository n, wherever it is, is no newer than what the API   *)
(* server holds, and is the very same when it has the same version.        *)
GoodCopy(n, x) ==
  /\ x.rv <= revision[n]
  /\ x.uid <= born[n]
  /\ x.rv = 0 \/ x.uid = 0 => x = NoRepo
  /\ x.rv = Stored(repos)[n].rv => x = Stored(repos)[n]

Copies ==
  \A n \in Names :
    /\ \A x \in Seen(repos) : GoodCopy(n, x[n])
    /\ worker.pc # "idle" /\ worker.name = n => GoodCopy(n, worker.repo)

(* Nothing is owned by a Repository that is not yet there.                 *)
OwnersBorn ==
  \A n \in Names :
    /\ \A x \in Seen(secrets) : x[n].owner <= born[n]
    /\ Stored(jobs)[n].live => Stored(jobs)[n].owner <= born[n]

Alive(n) == Stored(repos)[n].uid # 0 /\ ~Stored(repos)[n].deleting

HasSecret(n) == Stored(secrets)[n].live /\ Stored(secrets)[n].owner = Stored(repos)[n].uid

(* A secret once seen of a Repository that is alive is still there.        *)
SecretStays ==
  \A n \in Names : \A x \in Seen(secrets) :
    Alive(n) /\ x[n].live /\ x[n].owner = Stored(repos)[n].uid => HasSecret(n)

(* That is why the Job may be created without looking again.               *)
WorkerHasSecret ==
  \A n \in Names :
    worker.pc = "createJob" /\ worker.name = n /\ Alive(n) /\ worker.repo.uid = Stored(repos)[n].uid
      => HasSecret(n)

(* The worker goes on only with a Repository that is not decided yet.      *)
WorkerPending == worker.pc # "idle" => worker.repo.phase = "pending"

IInv ==
  /\ TypeOK
  /\ Copies
  /\ WorkerPending
  /\ OwnersBorn
  /\ SecretStays
  /\ WorkerHasSecret
  /\ InitJobHasItsSecret

-------------------------------------------------------------------------------
(* What the writes do.                                                     *)

LEMMA NoObjects == NoRepo \in Repo /\ NoJob \in Job /\ NoSecret \in Secret
BY DEF NoRepo, Repo, NoJob, Job, NoSecret, Secret, L!Phases

(* A pod that ends leaves a Job of the same owner.                         *)
LEMMA PodEnds ==
  ASSUME NEW job \in Job
  PROVE  /\ FailedPod(job) \in Job /\ FailedPod(job).owner = job.owner
         /\ [job EXCEPT !.state = "Complete"] \in Job
         /\ [job EXCEPT !.state = "Complete"].owner = job.owner
<1>1. job.failed + 1 \in Nat
  BY DEF Job
<1>2. FailedPod(job) \in Job
  BY <1>1 DEF FailedPod, Job
<1>3. FailedPod(job).owner = job.owner
  <2>1. ASSUME NEW f, NEW s
        PROVE  [job EXCEPT !.failed = f, !.state = s].owner = job.owner
    BY DEF Job
  <2> QED
    BY <2>1 DEF FailedPod
<1> QED
  BY <1>2, <1>3 DEF Job

LEMMA PutRepoWrites ==
  ASSUME TypeOK, NEW n \in Names, NEW repo \in Repo, PutRepo(n, repo)
  PROVE  LET new == [repo EXCEPT !.rv = revision[n] + 1] IN
         /\ new \in Repo
         /\ repos' \in Watched([Names -> Repo])
         /\ revision' = [revision EXCEPT ![n] = @ + 1]
         /\ revision' \in [Names -> Nat]
         /\ Stored(repos)' = Changed(repos, n, new)
         /\ Seen(repos)' = Seen(repos) \cup {Changed(repos, n, new)}
<1> DEFINE new == [repo EXCEPT !.rv = revision[n] + 1]
<1>1. repos \in Watched([Names -> Repo]) /\ revision \in [Names -> Nat]
  BY DEF TypeOK
<1>2. new \in Repo
  BY <1>1 DEF Repo
<1>3. repos' = Write(repos, n, new) /\ revision' = [revision EXCEPT ![n] = @ + 1]
  BY DEF PutRepo
<1>4. revision' \in [Names -> Nat]
  BY <1>1, <1>3
<1> HIDE DEF new
<1>5. /\ Write(repos, n, new) \in Watched([Names -> Repo])
      /\ Stored(Write(repos, n, new)) = Changed(repos, n, new)
      /\ Seen(Write(repos, n, new)) = Seen(repos) \cup {Changed(repos, n, new)}
  <2>1. Changed(repos, n, new) \in [Names -> Repo]
    BY <1>1, <1>2, Snapshots DEF Changed
  <2> QED
    BY <1>1, <2>1, Written
<1>6. /\ repos' \in Watched([Names -> Repo])
      /\ Stored(repos)' = Changed(repos, n, new)
      /\ Seen(repos)' = Seen(repos) \cup {Changed(repos, n, new)}
  BY <1>3, <1>5
<1> QED
  BY <1>2, <1>3, <1>4, <1>6 DEF new

LEMMA RemoveRepoWrites ==
  ASSUME TypeOK, NEW n \in Names, RemoveRepo(n)
  PROVE  /\ repos' \in Watched([Names -> Repo])
         /\ revision' = revision
         /\ Stored(repos)' = Changed(repos, n, NoRepo)
         /\ Seen(repos)' = Seen(repos) \cup {Changed(repos, n, NoRepo)}
<1>1. repos \in Watched([Names -> Repo])
  BY DEF TypeOK
<1>2. repos' = Write(repos, n, NoRepo) /\ revision' = revision
  BY DEF RemoveRepo
<1>3. Changed(repos, n, NoRepo) \in [Names -> Repo]
  BY <1>1, NoObjects, Snapshots DEF Changed
<1> QED
  BY <1>1, <1>2, <1>3, Written

LEMMA PutJobWrites ==
  ASSUME TypeOK, NEW n \in Names, NEW job \in Job, PutJob(n, job)
  PROVE  /\ jobs' \in Watched([Names -> Job])
         /\ Stored(jobs)' = Changed(jobs, n, job)
<1>1. jobs \in Watched([Names -> Job])
  BY DEF TypeOK
<1>2. jobs' = Write(jobs, n, job)
  BY DEF PutJob
<1>3. Changed(jobs, n, job) \in [Names -> Job]
  BY <1>1, Snapshots DEF Changed
<1> QED
  BY <1>1, <1>2, <1>3, Written

LEMMA PutSecretWrites ==
  ASSUME TypeOK, NEW n \in Names, NEW secret \in Secret, PutSecret(n, secret)
  PROVE  /\ secrets' \in Watched([Names -> Secret])
         /\ Stored(secrets)' = Changed(secrets, n, secret)
         /\ Seen(secrets)' = Seen(secrets) \cup {Changed(secrets, n, secret)}
<1>1. secrets \in Watched([Names -> Secret])
  BY DEF TypeOK
<1>2. secrets' = Write(secrets, n, secret)
  BY DEF PutSecret
<1>3. Changed(secrets, n, secret) \in [Names -> Secret]
  BY <1>1, Snapshots DEF Changed
<1> QED
  BY <1>1, <1>2, <1>3, Written

(* Every snapshot of a kind is well typed, and so is every object in it.   *)
LEMMA ObjectTypes ==
  ASSUME TypeOK
  PROVE  /\ Seen(repos) \subseteq [Names -> Repo]
         /\ Cached(repos) \in Seen(repos) /\ Stored(repos) \in Seen(repos)
         /\ Seen(jobs) \subseteq [Names -> Job]
         /\ Cached(jobs) \in Seen(jobs) /\ Stored(jobs) \in Seen(jobs)
         /\ Seen(secrets) \subseteq [Names -> Secret]
         /\ Cached(secrets) \in Seen(secrets) /\ Stored(secrets) \in Seen(secrets)
BY Snapshots DEF TypeOK

LEMMA UidTypesAfter ==
  ASSUME TypeOK'
  PROVE  /\ \A n \in Names : Stored(repos)'[n].uid \in Nat
         /\ \A n \in Names : Stored(jobs)'[n].owner \in Nat
         /\ \A n \in Names : \A x \in Seen(secrets)' : x[n].owner \in Nat
         /\ Stored(secrets)' \in Seen(secrets)'
         /\ born' \in [Names -> Nat]
<1>1. /\ repos' \in Watched([Names -> Repo]) /\ jobs' \in Watched([Names -> Job])
      /\ secrets' \in Watched([Names -> Secret]) /\ born' \in [Names -> Nat]
  BY DEF TypeOK
<1>2. /\ Stored(repos)' \in [Names -> Repo] /\ Stored(jobs)' \in [Names -> Job]
      /\ Seen(secrets)' \subseteq [Names -> Secret] /\ Stored(secrets)' \in Seen(secrets)'
  BY <1>1, Snapshots
<1> QED
  BY <1>1, <1>2 DEF Repo, Job, Secret
-------------------------------------------------------------------------------
(* Type correctness.                                                       *)

LEMMA TypeInit == Init => TypeOK
<1> SUFFICES ASSUME Init PROVE TypeOK
  OBVIOUS
<1> USE DEF Init
<1>1. repos \in Watched([Names -> Repo])
  <2>1. [n \in Names |-> NoRepo] \in [Names -> Repo]
    BY NoObjects
  <2> QED
    BY <2>1, Single
<1>2. jobs \in Watched([Names -> Job])
  <2>1. [n \in Names |-> NoJob] \in [Names -> Job]
    BY NoObjects
  <2> QED
    BY <2>1, Single
<1>3. secrets \in Watched([Names -> Secret])
  <2>1. [n \in Names |-> NoSecret] \in [Names -> Secret]
    BY NoObjects
  <2> QED
    BY <2>1, Single
<1>4. worker \in Worker /\ worker.pc = "idle"
  BY NoObjects DEF Idle, Worker
<1>5. touches \in 0..MaxTouch /\ faults \in 0..MaxFaults
  BY BoundsAssumption
<1> QED
  BY <1>1, <1>2, <1>3, <1>4, <1>5 DEF TypeOK

LEMMA TypeReconcile ==
  ASSUME TypeOK, Reconcile
  PROVE  TypeOK'
<1> USE DEF world
<1>1. ASSUME NEW n \in Names, ReconcileNothing(n)
      PROVE  TypeOK'
  BY <1>1 DEF TypeOK, ReconcileNothing, Take
<1>2. ASSUME NEW n \in Names, ReconcilePending(n)
      PROVE  TypeOK'
  <2>1. Cached(repos)[n] \in Repo
    BY ObjectTypes
  <2>2. worker' \in Worker /\ worker'.name = n /\ worker'.repo.uid # 0
    BY <1>2, <2>1 DEF ReconcilePending, Found, Worker
  <2> QED
    BY <1>2, <2>2 DEF TypeOK, ReconcilePending, Take
<1>3. ASSUME NEW n \in Names, ReconcileDefaults(n)
      PROVE  TypeOK'
  <2> DEFINE set == [Cached(repos)[n] EXCEPT !.phase = "pending"]
             new == [set EXCEPT !.rv = revision[n] + 1]
  <2>1. set \in Repo /\ set.uid # 0
    <3>1. Cached(repos)[n] \in Repo /\ Cached(repos)[n].uid # 0
      BY <1>3, ObjectTypes DEF ReconcileDefaults, Found
    <3> QED
      BY <3>1 DEF Repo, L!Phases
  <2>2. CASE PutRepo(n, set) /\ worker' = [pc |-> "getJob", name |-> n, repo |-> new]
    <3> HIDE DEF set
    <3>1. new \in Repo /\ repos' \in Watched([Names -> Repo]) /\ revision' \in [Names -> Nat]
      BY <2>1, <2>2, PutRepoWrites
    <3>2. new.uid # 0
      BY <2>1 DEF Repo
    <3>3. worker' \in Worker /\ worker'.name = n /\ worker'.repo.uid # 0
      BY <2>2, <3>1, <3>2 DEF Worker
    <3>4. queue' \subseteq Names
      BY <1>3 DEF TypeOK, ReconcileDefaults, Retry
    <3> QED
      BY <1>3, <3>1, <3>3, <3>4 DEF TypeOK, ReconcileDefaults
  <2>3. CASE Retry(n) /\ UNCHANGED <<repos, revision>>
    BY <1>3, <2>3, NoObjects DEF TypeOK, ReconcileDefaults, Retry, Idle, Worker
  <2> QED
    BY <1>3, <2>2, <2>3 DEF ReconcileDefaults
<1>4. ASSUME StartCreateRepoJob
      PROVE  TypeOK'
  <2> DEFINE n == worker.name
  <2>1. n \in Names /\ worker \in Worker /\ worker.repo \in Repo
    BY <1>4 DEF TypeOK, StartCreateRepoJob, Worker
  <2>2. worker' \in Worker /\ queue' \subseteq Names
    BY <1>4, <2>1, NoObjects DEF TypeOK, StartCreateRepoJob, Retry, Idle, Worker
  <2>3. worker'.pc # "idle" => worker'.name \in Names /\ worker'.repo.uid # 0
    BY <1>4, <2>1 DEF TypeOK, StartCreateRepoJob, Retry, Idle, Worker
  <2>4. secrets' \in Watched([Names -> Secret])
    <3>1. CASE UNCHANGED secrets
      BY <3>1 DEF TypeOK
    <3>2. ASSUME NEW pw \in Passwords,
                 PutSecret(n, [live |-> TRUE, owner |-> worker.repo.uid, pw |-> pw])
          PROVE  secrets' \in Watched([Names -> Secret])
      <4>1. [live |-> TRUE, owner |-> worker.repo.uid, pw |-> pw] \in Secret
        BY <2>1 DEF Repo, Secret
      <4> QED
        BY <2>1, <3>2, <4>1, PutSecretWrites
    <3> QED
      BY <1>4, <3>1, <3>2 DEF StartCreateRepoJob
  <2> QED
    BY <1>4, <2>2, <2>3, <2>4 DEF TypeOK, StartCreateRepoJob
<1>5. ASSUME CreateInitJob
      PROVE  TypeOK'
  <2>1. worker.name \in Names /\ worker.repo \in Repo
    BY <1>5 DEF TypeOK, CreateInitJob, Worker
  <2>2. CreateRepoInitJob(worker.repo) \in Job
    BY <2>1 DEF CreateRepoInitJob, Repo, Job
  <2>3. jobs' \in Watched([Names -> Job])
    BY <1>5, <2>1, <2>2, PutJobWrites DEF TypeOK, CreateInitJob
  <2> QED
    BY <1>5, <2>3, NoObjects DEF TypeOK, CreateInitJob, Return, Idle, Worker
<1>6. ASSUME CheckCreateJobStatus
      PROVE  TypeOK'
  <2> DEFINE n == worker.name
             job == Cached(jobs)[n]
             done == [worker.repo EXCEPT !.phase = Verdict(job)]
  <2>1. n \in Names /\ done \in Repo
    BY <1>6 DEF TypeOK, CheckCreateJobStatus, Worker, Repo, Verdict, L!Phases
  <2>2. repos' \in Watched([Names -> Repo]) /\ revision' \in [Names -> Nat]
    <3>1. CASE UNCHANGED <<repos, revision>>
      BY <3>1 DEF TypeOK
    <3>2. CASE PutRepo(n, done)
      <4> HIDE DEF done
      <4> QED
        BY <2>1, <3>2, PutRepoWrites
    <3> QED
      BY <1>6, <3>1, <3>2 DEF CheckCreateJobStatus
  <2>3. worker' = Idle /\ queue' \subseteq Names
    BY <1>6, <2>1 DEF TypeOK, CheckCreateJobStatus, Return, Retry
  <2> QED
    BY <1>6, <2>2, <2>3, NoObjects DEF TypeOK, CheckCreateJobStatus, Idle, Worker
<1> QED
  BY <1>1, <1>2, <1>3, <1>4, <1>5, <1>6 DEF Reconcile

LEMMA TypeFailures ==
  ASSUME TypeOK, CallFails \/ Restart
  PROVE  TypeOK'
<1>1. CASE CallFails
  <2>1. worker.name \in Names /\ faults' \in 0..MaxFaults
    BY <1>1, BoundsAssumption DEF TypeOK, CallFails
  <2> QED
    BY <1>1, <2>1, NoObjects DEF TypeOK, CallFails, Retry, Idle, Worker
<1>2. CASE Restart
  <2>1. /\ repos' \in Watched([Names -> Repo])
        /\ jobs' \in Watched([Names -> Job])
        /\ secrets' \in Watched([Names -> Secret])
    BY <1>2, Restarted DEF TypeOK, Restart
  <2>2. faults' \in 0..MaxFaults
    BY <1>2, BoundsAssumption DEF TypeOK, Restart
  <2> QED
    BY <1>2, <2>1, <2>2, NoObjects DEF TypeOK, Restart, Idle, Worker
<1> QED
  BY <1>1, <1>2

LEMMA TypeDeliver ==
  ASSUME TypeOK, Deliver
  PROVE  TypeOK'
<1> USE DEF world
<1>1. CASE DeliverRepo
  BY <1>1, AnnouncedNames, Delivered DEF TypeOK, DeliverRepo
<1>2. CASE DeliverJob
  BY <1>2, AnnouncedNames, Delivered DEF TypeOK, DeliverJob, Owners
<1>3. CASE DeliverSecret
  BY <1>3, Delivered DEF TypeOK, DeliverSecret
<1> QED
  BY <1>1, <1>2, <1>3 DEF Deliver

LEMMA TypeUser ==
  ASSUME TypeOK, NEW n \in Names, User(n)
  PROVE  TypeOK'
<1> USE DEF world
<1>1. Stored(repos)[n] \in Repo
  BY ObjectTypes
<1>2. ASSUME NEW url \in Urls, UserCreates(n, url)
      PROVE  TypeOK'
  <2> DEFINE repo == [NoRepo EXCEPT !.uid = born[n] + 1, !.url = url]
  <2>1. born[n] + 1 \in Nat /\ born' \in [Names -> Nat]
    BY <1>2 DEF TypeOK, UserCreates
  <2>3. repo \in Repo
    BY <2>1 DEF NoRepo, Repo, L!Phases
  <2>2. PutRepo(n, repo)
    BY <1>2 DEF UserCreates
  <2> HIDE DEF repo
  <2> QED
    BY <1>2, <2>1, <2>2, <2>3, PutRepoWrites DEF TypeOK, UserCreates
<1>3. ASSUME NEW url \in Urls, UserEdits(n, url)
      PROVE  TypeOK'
  <2> DEFINE new == [Stored(repos)[n] EXCEPT !.url = url]
  <2>1. new \in Repo /\ touches' \in 0..MaxTouch
    BY <1>1, <1>3, BoundsAssumption DEF TypeOK, UserEdits, Repo
  <2>2. PutRepo(n, new)
    BY <1>3 DEF UserEdits
  <2> HIDE DEF new
  <2> QED
    BY <1>3, <2>1, <2>2, PutRepoWrites DEF TypeOK, UserEdits
<1>4. CASE UserDeletes(n)
  BY <1>4, RemoveRepoWrites DEF TypeOK, UserDeletes
<1>5. CASE UserDeletesForeground(n)
  <2> DEFINE new == [Stored(repos)[n] EXCEPT !.deleting = TRUE]
  <2>1. new \in Repo /\ PutRepo(n, new)
    BY <1>1, <1>5 DEF UserDeletesForeground, Repo
  <2> HIDE DEF new
  <2> QED
    BY <1>5, <2>1, PutRepoWrites DEF TypeOK, UserDeletesForeground
<1>6. CASE UserCreatesSecret(n)
  <2>1. touches' \in 0..MaxTouch
    BY <1>6, BoundsAssumption DEF TypeOK, UserCreatesSecret
  <2>2. \A pw \in Passwords : [live |-> TRUE, owner |-> 0, pw |-> pw] \in Secret
    BY DEF Secret
  <2>3. secrets' \in Watched([Names -> Secret])
    BY <1>6, <2>2, PutSecretWrites DEF UserCreatesSecret
  <2> QED
    BY <1>6, <2>1, <2>3 DEF TypeOK, UserCreatesSecret
<1>7. CASE UserDeletesSecret(n)
  BY <1>7, NoObjects, PutSecretWrites DEF TypeOK, UserDeletesSecret
<1> QED
  BY <1>2, <1>3, <1>4, <1>5, <1>6, <1>7 DEF User

LEMMA TypeCluster ==
  ASSUME TypeOK, NEW n \in Names, Resync(n) \/ Collect(n) \/ Pod(n) \/ LogsLost(n)
  PROVE  TypeOK'
<1> USE DEF world
<1>1. CASE Resync(n)
  BY <1>1 DEF TypeOK, Resync
<1>2. CASE Collect(n)
  <2>1. CASE CollectJob(n)
    BY <2>1, NoObjects, PutJobWrites DEF TypeOK, CollectJob
  <2>2. CASE CollectSecret(n)
    BY <2>2, NoObjects, PutSecretWrites DEF TypeOK, CollectSecret
  <2>3. CASE CollectRepo(n)
    BY <2>3, RemoveRepoWrites DEF TypeOK, CollectRepo
  <2> QED
    BY <1>2, <2>1, <2>2, <2>3 DEF Collect
<1>3. CASE Pod(n)
  <2> DEFINE job == Stored(jobs)[n]
  <2>1. job \in Job /\ Stored(secrets)[n] \in Secret
    BY ObjectTypes
  <2>2. FailedPod(job) \in Job /\ [job EXCEPT !.state = "Complete"] \in Job
    BY <2>1, PodEnds
  <2>3. jobs' \in Watched([Names -> Job])
    BY <1>3, <2>2, PutJobWrites DEF Pod, InitPodSucceeds, InitPodFails, InitPodLost
  <2>4. storage' \in [Urls -> Passwords \cup {None}]
    BY <1>3, <2>1 DEF TypeOK, Pod, InitPodSucceeds, InitPodFails, InitPodLost, Secret
  <2> QED
    BY <1>3, <2>3, <2>4 DEF TypeOK, Pod, InitPodSucceeds, InitPodFails, InitPodLost
<1>4. CASE LogsLost(n)
  BY <1>4 DEF TypeOK, LogsLost
<1> QED
  BY <1>1, <1>2, <1>3, <1>4

LEMMA TypeStep ==
  ASSUME TypeOK, [Next]_vars
  PROVE  TypeOK'
<1>1. CASE Next
  BY <1>1, TypeReconcile, TypeFailures, TypeDeliver, TypeUser, TypeCluster DEF Next
<1>2. CASE UNCHANGED vars
  BY <1>2 DEF TypeOK, vars
<1> QED
  BY <1>1, <1>2

(* Type correctness: every object the operator writes, every snapshot a    *)
(* cache may hold and every local of Reconcile has the shape of its type.  *)
THEOREM TypeCorrect == Spec => []TypeOK
BY TypeInit, TypeStep, PTL DEF Spec
-------------------------------------------------------------------------------
(* Copies of Repositories.                                                 *)

(* A status update or a user's request makes every other copy an old one.  *)
LEMMA PutRepoCopies ==
  ASSUME TypeOK, Copies, NEW n \in Names, NEW repo \in Repo, PutRepo(n, repo),
         born' \in [Names -> Nat], \A m \in Names : born[m] <= born'[m],
         repo.uid # 0, repo.uid <= born'[n]
  PROVE  /\ \A m \in Names : \A x \in Repo : GoodCopy(m, x) => GoodCopy(m, x)'
         /\ \A m \in Names : \A s \in Seen(repos)' : GoodCopy(m, s[m])'
         /\ \A x \in Repo : x = [repo EXCEPT !.rv = revision[n] + 1] => GoodCopy(n, x)'
<1>1. PICK new \in Repo : new = [repo EXCEPT !.rv = revision[n] + 1]
  BY PutRepoWrites
<1>2. /\ revision' = [revision EXCEPT ![n] = @ + 1]
      /\ Stored(repos)' = Changed(repos, n, new)
      /\ Seen(repos)' = Seen(repos) \cup {Changed(repos, n, new)}
  BY <1>1, PutRepoWrites
<1>3. /\ revision \in [Names -> Nat] /\ born \in [Names -> Nat]
      /\ revision'[n] = revision[n] + 1
      /\ \A m \in Names \ {n} : revision'[m] = revision[m]
  BY <1>2 DEF TypeOK
<1>4. Stored(repos) \in [Names -> Repo] /\ Stored(repos) \in Seen(repos)
  BY ObjectTypes
<1>5. new.rv = revision[n] + 1 /\ new.uid = repo.uid /\ new.rv # 0 /\ new.uid # 0
  BY <1>1, <1>3 DEF Repo
<1>6. /\ Stored(repos)'[n] = new
      /\ \A m \in Names \ {n} : Stored(repos)'[m] = Stored(repos)[m]
  BY <1>2, <1>4 DEF Changed
<1>7. ASSUME NEW m \in Names, NEW x \in Repo, GoodCopy(m, x)
      PROVE  GoodCopy(m, x)'
  <2>1. x.rv \in Nat /\ x.uid \in Nat
    BY <1>7 DEF Repo
  <2>2. CASE m = n
    BY <1>3, <1>5, <1>6, <1>7, <2>1, <2>2 DEF GoodCopy
  <2>3. CASE m # n
    BY <1>3, <1>6, <1>7, <2>1, <2>3 DEF GoodCopy
  <2> QED
    BY <2>2, <2>3
<1>8. GoodCopy(n, new)'
  BY <1>3, <1>5, <1>6 DEF GoodCopy
<1>9. ASSUME NEW m \in Names, NEW s \in Seen(repos)'
      PROVE  GoodCopy(m, s[m])'
  <2>1. CASE s \in Seen(repos)
    <3>1. s[m] \in Repo
      BY <2>1, ObjectTypes
    <3>2. GoodCopy(m, s[m])
      BY <2>1 DEF Copies
    <3> QED
      BY <1>7, <3>1, <3>2
  <2>2. CASE s = Changed(repos, n, new) /\ m = n
    BY <1>4, <1>8, <2>2 DEF Changed
  <2>3. CASE s = Changed(repos, n, new) /\ m # n
    <3>1. s[m] = Stored(repos)[m]
      BY <1>4, <2>3 DEF Changed
    <3>2. s[m] \in Repo /\ GoodCopy(m, s[m])
      BY <1>4, <3>1 DEF Copies
    <3> QED
      BY <1>7, <3>2
  <2> QED
    BY <1>2, <2>1, <2>2, <2>3
<1> QED
  BY <1>1, <1>7, <1>8, <1>9

LEMMA RemoveRepoCopies ==
  ASSUME TypeOK, Copies, NEW n \in Names, RemoveRepo(n), born' = born
  PROVE  /\ \A m \in Names : \A x \in Repo : GoodCopy(m, x) => GoodCopy(m, x)'
         /\ \A m \in Names : \A s \in Seen(repos)' : GoodCopy(m, s[m])'
<1>1. /\ revision' = revision
      /\ Stored(repos)' = Changed(repos, n, NoRepo)
      /\ Seen(repos)' = Seen(repos) \cup {Changed(repos, n, NoRepo)}
  BY RemoveRepoWrites
<1>2. revision \in [Names -> Nat] /\ born \in [Names -> Nat]
  BY DEF TypeOK
<1>3. Stored(repos) \in [Names -> Repo] /\ Stored(repos) \in Seen(repos)
  BY ObjectTypes
<1>4. /\ Stored(repos)'[n] = NoRepo
      /\ \A m \in Names \ {n} : Stored(repos)'[m] = Stored(repos)[m]
  BY <1>1, <1>3 DEF Changed
<1>5. NoRepo.rv = 0 /\ NoRepo.uid = 0
  BY DEF NoRepo
<1>6. ASSUME NEW m \in Names, NEW x \in Repo, GoodCopy(m, x)
      PROVE  GoodCopy(m, x)'
  BY <1>1, <1>4, <1>5, <1>6 DEF GoodCopy
<1>7. GoodCopy(n, NoRepo)'
  BY <1>1, <1>2, <1>4, <1>5 DEF GoodCopy
<1>8. ASSUME NEW m \in Names, NEW s \in Seen(repos)'
      PROVE  GoodCopy(m, s[m])'
  <2>1. CASE s \in Seen(repos)
    <3>1. s[m] \in Repo /\ GoodCopy(m, s[m])
      BY <2>1, ObjectTypes DEF Copies
    <3> QED
      BY <1>6, <3>1
  <2>2. CASE s = Changed(repos, n, NoRepo) /\ m = n
    BY <1>3, <1>7, <2>2 DEF Changed
  <2>3. CASE s = Changed(repos, n, NoRepo) /\ m # n
    <3>1. s[m] = Stored(repos)[m]
      BY <1>3, <2>3 DEF Changed
    <3> QED
      BY <1>3, <1>6, <3>1 DEF Copies
  <2> QED
    BY <1>1, <2>1, <2>2, <2>3
<1> QED
  BY <1>6, <1>8

(* The worker lets go of its copy or keeps it.                             *)
KeepsCopy ==
  worker'.pc # "idle" =>
    worker.pc # "idle" /\ worker'.name = worker.name /\ worker'.repo = worker.repo

(* A step that writes no Repository and reads none keeps all copies good.  *)
LEMMA SameCopies ==
  ASSUME TypeOK, Copies, KeepsCopy, UNCHANGED <<revision, born>>,
         Seen(repos)' \subseteq Seen(repos), Stored(repos)' = Stored(repos)
  PROVE  Copies'
BY DEF Copies, GoodCopy, KeepsCopy

LEMMA CopiesReconcile ==
  ASSUME TypeOK, Copies, Reconcile
  PROVE  Copies'
<1> USE DEF world
<1>1. ASSUME NEW n \in Names, ReconcileNothing(n)
      PROVE  Copies'
  BY <1>1, SameCopies DEF ReconcileNothing, KeepsCopy
<1>2. ASSUME NEW n \in Names, ReconcilePending(n)
      PROVE  Copies'
  <2>1. GoodCopy(n, Cached(repos)[n])
    BY ObjectTypes DEF Copies
  <2>2. UNCHANGED <<repos, revision, born>> /\ worker'.name = n /\ worker'.repo = Cached(repos)[n]
    BY <1>2 DEF ReconcilePending
  <2> QED
    BY <2>1, <2>2 DEF Copies, GoodCopy
<1>3. ASSUME NEW n \in Names, ReconcileDefaults(n)
      PROVE  Copies'
  <2> DEFINE set == [Cached(repos)[n] EXCEPT !.phase = "pending"]
             new == [set EXCEPT !.rv = revision[n] + 1]
  <2>1. CASE PutRepo(n, set) /\ worker' = [pc |-> "getJob", name |-> n, repo |-> new]
    <3>1. Cached(repos)[n] \in Repo /\ GoodCopy(n, Cached(repos)[n])
      BY ObjectTypes DEF Copies
    <3>2. set \in Repo /\ set.uid = Cached(repos)[n].uid /\ set.uid # 0
      BY <1>3, <3>1 DEF ReconcileDefaults, Found, Repo, L!Phases
    <3>3. born' = born /\ born \in [Names -> Nat] /\ set.uid <= born'[n]
      BY <1>3, <3>1, <3>2 DEF ReconcileDefaults, TypeOK, GoodCopy
    <3>4. \A m \in Names : born[m] <= born'[m]
      BY <3>3
    <3> HIDE DEF set
    <3>5. worker'.name = n /\ worker'.repo = new /\ worker'.repo \in Repo
      BY <2>1, <3>2, PutRepoWrites
    <3>6. /\ \A m \in Names : \A s \in Seen(repos)' : GoodCopy(m, s[m])'
          /\ \A x \in Repo : x = new => GoodCopy(n, x)'
      BY <2>1, <3>2, <3>3, <3>4, PutRepoCopies
    <3>7. GoodCopy(n, worker.repo)'
      <4>1. PICK x \in Repo : x = worker'.repo
        BY <3>5
      <4>2. GoodCopy(n, x)'
        BY <3>5, <3>6, <4>1
      <4> QED
        BY <4>1, <4>2 DEF GoodCopy
    <3> QED
      BY <3>5, <3>6, <3>7 DEF Copies
  <2>2. CASE Retry(n) /\ UNCHANGED <<repos, revision>>
    BY <1>3, <2>2, SameCopies DEF ReconcileDefaults, Retry, KeepsCopy, Idle
  <2> QED
    BY <1>3, <2>1, <2>2 DEF ReconcileDefaults
<1>4. CASE StartCreateRepoJob
  <2>1. KeepsCopy
    BY <1>4 DEF StartCreateRepoJob, KeepsCopy, Retry, Idle, TypeOK, Worker
  <2> QED
    BY <1>4, <2>1, SameCopies DEF StartCreateRepoJob
<1>5. CASE CreateInitJob
  BY <1>5, SameCopies DEF CreateInitJob, KeepsCopy, Return, Idle
<1>6. CASE CheckCreateJobStatus
  <2> DEFINE n == worker.name
             done == [worker.repo EXCEPT !.phase = Verdict(Cached(jobs)[n])]
  <2>1. worker' = Idle /\ worker'.pc = "idle" /\ born' = born
    BY <1>6 DEF CheckCreateJobStatus, Return, Retry, Idle
  <2>2. CASE UNCHANGED <<repos, revision>>
    BY <2>1, <2>2, SameCopies DEF KeepsCopy
  <2>3. CASE PutRepo(n, done)
    <3>1. n \in Names /\ worker.repo \in Repo /\ worker.pc # "idle"
      BY <1>6 DEF TypeOK, CheckCreateJobStatus, Worker
    <3>2. done \in Repo /\ done.uid = worker.repo.uid /\ done.uid # 0
      BY <3>1 DEF TypeOK, Repo, Verdict, L!Phases
    <3>3. GoodCopy(n, worker.repo) /\ born \in [Names -> Nat]
      BY <3>1 DEF Copies, TypeOK
    <3>4. done.uid <= born'[n] /\ \A m \in Names : born[m] <= born'[m]
      BY <2>1, <3>2, <3>3 DEF GoodCopy
    <3> HIDE DEF done
    <3>5. \A m \in Names : \A s \in Seen(repos)' : GoodCopy(m, s[m])'
      BY <2>1, <2>3, <3>1, <3>2, <3>3, <3>4, PutRepoCopies
    <3> QED
      BY <2>1, <3>5 DEF Copies
  <2> QED
    BY <1>6, <2>2, <2>3 DEF CheckCreateJobStatus
<1> QED
  BY <1>1, <1>2, <1>3, <1>4, <1>5, <1>6 DEF Reconcile

(* The worker keeps its copy while somebody else writes a Repository.      *)
LEMMA WorkersCopy ==
  ASSUME TypeOK, Copies, worker' = worker,
         \A m \in Names : \A x \in Repo : GoodCopy(m, x) => GoodCopy(m, x)',
         \A m \in Names : \A s \in Seen(repos)' : GoodCopy(m, s[m])'
  PROVE  Copies'
<1>1. ASSUME NEW m \in Names, worker.pc # "idle", worker.name = m
      PROVE  GoodCopy(m, worker.repo)'
  <2>1. PICK x \in Repo : x = worker.repo
    BY DEF TypeOK, Worker
  <2>2. GoodCopy(m, x)'
    BY <1>1, <2>1 DEF Copies
  <2> QED
    BY <2>1, <2>2 DEF GoodCopy
<1> QED
  BY <1>1 DEF Copies

LEMMA CopiesUser ==
  ASSUME TypeOK, Copies, NEW n \in Names, User(n)
  PROVE  Copies'
<1> USE DEF world
<1>1. /\ Stored(repos)[n] \in Repo /\ GoodCopy(n, Stored(repos)[n])
      /\ born \in [Names -> Nat]
  BY ObjectTypes DEF Copies, TypeOK
<1>2. ASSUME NEW url \in Urls, UserCreates(n, url)
      PROVE  Copies'
  <2> DEFINE repo == [NoRepo EXCEPT !.uid = born[n] + 1, !.url = url]
  <2>1. /\ born' = [born EXCEPT ![n] = @ + 1]
        /\ born' \in [Names -> Nat] /\ born'[n] = born[n] + 1
        /\ \A m \in Names : born[m] <= born'[m]
    BY <1>1, <1>2 DEF UserCreates
  <2>2. repo \in Repo /\ repo.uid # 0 /\ repo.uid <= born'[n]
    <3>1. born[n] \in Nat /\ born[n] + 1 \in Nat /\ born[n] + 1 # 0
      BY <1>1
    <3>2. repo \in Repo /\ repo.uid = born[n] + 1
      BY <3>1 DEF NoRepo, Repo, L!Phases
    <3> QED
      BY <2>1, <3>1, <3>2
  <2>3. PutRepo(n, repo) /\ worker' = worker
    BY <1>2 DEF UserCreates
  <2> HIDE DEF repo
  <2> QED
    BY <2>1, <2>2, <2>3, PutRepoCopies, WorkersCopy
<1>3. ASSUME NEW url \in Urls, UserEdits(n, url)
      PROVE  Copies'
  <2> DEFINE repo == [Stored(repos)[n] EXCEPT !.url = url]
  <2>1. born' = born /\ PutRepo(n, repo) /\ worker' = worker
    BY <1>3 DEF UserEdits
  <2>2. repo \in Repo /\ repo.uid = Stored(repos)[n].uid /\ repo.uid # 0
    BY <1>1, <1>3 DEF UserEdits, Repo
  <2>3. repo.uid <= born'[n] /\ \A m \in Names : born[m] <= born'[m]
    BY <1>1, <2>1, <2>2 DEF GoodCopy
  <2> HIDE DEF repo
  <2> QED
    BY <1>1, <2>1, <2>2, <2>3, PutRepoCopies, WorkersCopy
<1>4. CASE UserDeletes(n)
  BY <1>4, RemoveRepoCopies, WorkersCopy DEF UserDeletes
<1>5. CASE UserDeletesForeground(n)
  <2> DEFINE repo == [Stored(repos)[n] EXCEPT !.deleting = TRUE]
  <2>1. born' = born /\ PutRepo(n, repo) /\ worker' = worker
    BY <1>5 DEF UserDeletesForeground
  <2>2. repo \in Repo /\ repo.uid = Stored(repos)[n].uid /\ repo.uid # 0
    BY <1>1, <1>5 DEF UserDeletesForeground, Repo
  <2>3. repo.uid <= born'[n] /\ \A m \in Names : born[m] <= born'[m]
    BY <1>1, <2>1, <2>2 DEF GoodCopy
  <2> HIDE DEF repo
  <2> QED
    BY <1>1, <2>1, <2>2, <2>3, PutRepoCopies, WorkersCopy
<1>6. CASE UserCreatesSecret(n) \/ UserDeletesSecret(n)
  BY <1>6, SameCopies DEF UserCreatesSecret, UserDeletesSecret, KeepsCopy
<1> QED
  BY <1>2, <1>3, <1>4, <1>5, <1>6 DEF User

LEMMA CopiesStep ==
  ASSUME TypeOK, Copies, [Next]_vars
  PROVE  Copies'
<1> USE DEF world
<1>1. CASE Reconcile
  BY <1>1, CopiesReconcile
<1>2. CASE CallFails
  BY <1>2, SameCopies DEF CallFails, Retry, KeepsCopy, Idle
<1>3. CASE Restart
  <2>1. Seen(repos)' \subseteq Seen(repos) /\ Stored(repos)' = Stored(repos)
    BY <1>3, ObjectTypes, Restarted DEF TypeOK, Restart
  <2> QED
    BY <1>3, <2>1, SameCopies DEF Restart, KeepsCopy, Idle
<1>4. CASE Deliver
  <2>1. CASE DeliverRepo
    <3>1. Seen(repos)' \subseteq Seen(repos) /\ Stored(repos)' = Stored(repos)
      BY <2>1, Delivered DEF TypeOK, DeliverRepo
    <3> QED
      BY <2>1, <3>1, SameCopies DEF DeliverRepo, KeepsCopy
  <2>2. CASE DeliverJob \/ DeliverSecret
    BY <2>2, SameCopies DEF DeliverJob, DeliverSecret, KeepsCopy
  <2> QED
    BY <1>4, <2>1, <2>2 DEF Deliver
<1>5. ASSUME NEW n \in Names, Resync(n) \/ User(n) \/ Collect(n) \/ Pod(n) \/ LogsLost(n)
      PROVE  Copies'
  <2>1. CASE Resync(n)
    BY <2>1, SameCopies DEF Resync, KeepsCopy
  <2>2. CASE User(n)
    BY <2>2, CopiesUser
  <2>3. CASE CollectRepo(n)
    BY <2>3, RemoveRepoCopies, WorkersCopy DEF CollectRepo
  <2>4. CASE CollectJob(n) \/ CollectSecret(n)
    BY <2>4, SameCopies DEF CollectJob, CollectSecret, KeepsCopy
  <2>5. CASE Pod(n) \/ LogsLost(n)
    BY <2>5, SameCopies DEF Pod, InitPodSucceeds, InitPodFails, InitPodLost, LogsLost, KeepsCopy
  <2> QED
    BY <1>5, <2>1, <2>2, <2>3, <2>4, <2>5 DEF Collect
<1>6. CASE UNCHANGED vars
  BY <1>6, SameCopies DEF vars, KeepsCopy
<1> QED
  BY <1>1, <1>2, <1>3, <1>4, <1>5, <1>6 DEF Next

-------------------------------------------------------------------------------
(* The writes are those of RepoLifecycle.                                  *)

LEMMA PendingStep ==
  ASSUME TypeOK, WorkerPending, [Next]_vars
  PROVE  WorkerPending'
<1> USE DEF WorkerPending, world
<1>1. CASE Reconcile
  <2>1. ASSUME NEW n \in Names, ReconcileNothing(n)
        PROVE  WorkerPending'
    BY <2>1 DEF ReconcileNothing
  <2>2. ASSUME NEW n \in Names, ReconcilePending(n)
        PROVE  WorkerPending'
    <3>1. Cached(repos)[n].phase = "pending"
      BY <2>2, ObjectTypes DEF ReconcilePending, Settled, IsCreated, IsFailed, Repo, L!Phases
    <3> QED
      BY <2>2, <3>1 DEF ReconcilePending
  <2>3. ASSUME NEW n \in Names, ReconcileDefaults(n)
        PROVE  WorkerPending'
    <3> DEFINE set == [Cached(repos)[n] EXCEPT !.phase = "pending"]
               new == [set EXCEPT !.rv = revision[n] + 1]
    <3>1. Cached(repos)[n] \in Repo
      BY ObjectTypes
    <3>2. new.phase = "pending"
      BY <3>1 DEF Repo
    <3>3. worker' = Idle \/ worker' = [pc |-> "getJob", name |-> n, repo |-> new]
      BY <2>3 DEF ReconcileDefaults, Retry
    <3> HIDE DEF new
    <3> QED
      BY <3>2, <3>3 DEF Idle
  <2>4. CASE StartCreateRepoJob
    BY <2>4 DEF StartCreateRepoJob, Retry, Idle, TypeOK, Worker
  <2>5. CASE CreateInitJob \/ CheckCreateJobStatus
    BY <2>5 DEF CreateInitJob, CheckCreateJobStatus, Return, Retry, Idle
  <2> QED
    BY <1>1, <2>1, <2>2, <2>3, <2>4, <2>5 DEF Reconcile
<1>2. CASE CallFails \/ Restart
  BY <1>2 DEF CallFails, Restart, Retry, Idle
<1>3. CASE Deliver
  BY <1>3 DEF Deliver, DeliverRepo, DeliverJob, DeliverSecret
<1>4. ASSUME NEW n \in Names, Resync(n) \/ User(n) \/ Collect(n) \/ Pod(n) \/ LogsLost(n)
      PROVE  WorkerPending'
  <2>1. worker' = worker
    BY <1>4 DEF Resync, User, UserCreates, UserEdits, UserDeletes, UserDeletesForeground,
                UserCreatesSecret, UserDeletesSecret, Collect, CollectJob, CollectSecret,
                CollectRepo, Pod, InitPodSucceeds, InitPodFails, InitPodLost, LogsLost
  <2> QED
    BY <2>1
<1>5. CASE UNCHANGED vars
  BY <1>5 DEF vars
<1> QED
  BY <1>1, <1>2, <1>3, <1>4, <1>5 DEF Next

(* The refinement mapping, of one object and of all.                       *)
ViewOf(x) == [uid |-> x.uid, phase |-> x.phase, deleting |-> x.deleting]

View == [n \in Names |-> [uid |-> Stored(repos)[n].uid,
                          phase |-> Stored(repos)[n].phase,
                          deleting |-> Stored(repos)[n].deleting]]

LEMMA ViewAfter ==
  ASSUME TypeOK, NEW n \in Names, NEW x \in Repo, Stored(repos)' = Changed(repos, n, x)
  PROVE  View' = [View EXCEPT ![n] = ViewOf(x)]
<1>1. Stored(repos) \in [Names -> Repo]
  BY ObjectTypes
<1>2. /\ Stored(repos)'[n] = x
      /\ \A m \in Names \ {n} : Stored(repos)'[m] = Stored(repos)[m]
  BY <1>1 DEF Changed
<1> QED
  BY <1>2 DEF View, ViewOf

LEMMA Creates ==
  ASSUME TypeOK, NEW n \in Names, NEW x \in Repo, Stored(repos)' = Changed(repos, n, x),
         Stored(repos)[n].uid = 0, ViewOf(x) = [L!NoView EXCEPT !.uid = born[n] + 1],
         born' = [born EXCEPT ![n] = @ + 1]
  PROVE  L!Next
<1>1. View' = [View EXCEPT ![n] = ViewOf(x)]
  BY ViewAfter
<1>2. View[n].uid = 0
  BY DEF View
<1>3. L!Create(n)
  BY <1>1, <1>2 DEF L!Create, L!Appears, View
<1> QED
  BY <1>3 DEF L!Next

LEMMA Changes ==
  ASSUME TypeOK, NEW n \in Names, NEW x \in Repo, Stored(repos)' = Changed(repos, n, x),
         ViewOf(x) \in L!Progresses(View[n]) \cup L!StartsDeletion(View[n]) \cup L!Vanishes(View[n]),
         born' = born
  PROVE  L!Next
<1>1. View' = [View EXCEPT ![n] = ViewOf(x)]
  BY ViewAfter
<1>2. L!Change(n)
  BY <1>1 DEF L!Change, View
<1> QED
  BY <1>2 DEF L!Next

(* A write that readers of the lifecycle do not notice.                    *)
LEMMA Stutters ==
  ASSUME TypeOK, NEW n \in Names, NEW x \in Repo, Stored(repos)' = Changed(repos, n, x),
         ViewOf(x) = ViewOf(Stored(repos)[n]), born' = born
  PROVE  UNCHANGED L!vars
<1>1. View' = [View EXCEPT ![n] = ViewOf(x)]
  BY ViewAfter
<1>2. View' = View
  BY <1>1 DEF View, ViewOf
<1> QED
  BY <1>2 DEF L!vars, View

LEMMA PutRepoView ==
  ASSUME TypeOK, NEW n \in Names, NEW repo \in Repo, PutRepo(n, repo)
  PROVE  \E x \in Repo : Stored(repos)' = Changed(repos, n, x) /\ ViewOf(x) = ViewOf(repo)
<1>1. PICK x \in Repo : x = [repo EXCEPT !.rv = revision[n] + 1] /\ Stored(repos)' = Changed(repos, n, x)
  BY PutRepoWrites
<1>2. ViewOf(x) = ViewOf(repo)
  BY <1>1 DEF Repo, ViewOf
<1> QED
  BY <1>1, <1>2

(* A status update only ever moves a pending Repository on, since a copy   *)
(* with the stored version is the stored Repository.                       *)
LEMMA StatusUpdate ==
  ASSUME TypeOK, NEW n \in Names, NEW repo \in Repo, GoodCopy(n, repo),
         repo.uid # 0, Stored(repos)[n].rv = repo.rv,
         NEW p \in L!Onward(repo.phase), p \in L!Phases,
         PutRepo(n, [repo EXCEPT !.phase = p]), born' = born
  PROVE  L!Next
<1> DEFINE done == [repo EXCEPT !.phase = p]
<1>1. repo = Stored(repos)[n] /\ done \in Repo
  BY DEF GoodCopy, Repo
<1>2. ViewOf(done) \in L!Progresses(View[n])
  <2>1. View[n] = ViewOf(repo)
    BY <1>1 DEF View, ViewOf
  <2>2. ViewOf(done) = [ViewOf(repo) EXCEPT !.phase = p]
    BY DEF ViewOf, Repo
  <2>3. ViewOf(repo).uid # 0 /\ p \in L!Onward(ViewOf(repo).phase)
    BY DEF ViewOf
  <2> QED
    BY <2>1, <2>2, <2>3 DEF L!Progresses
<1> HIDE DEF done
<1>3. PICK x \in Repo : Stored(repos)' = Changed(repos, n, x) /\ ViewOf(x) = ViewOf(done)
  BY <1>1, PutRepoView DEF done
<1> QED
  BY <1>2, <1>3, Changes

LEMMA RefinesReconcile ==
  ASSUME TypeOK, Copies, WorkerPending, Reconcile
  PROVE  [L!Next]_(L!vars)
<1> USE DEF world
<1>1. ASSUME NEW n \in Names, ReconcileDefaults(n)
      PROVE  [L!Next]_(L!vars)
  <2> DEFINE repo == Cached(repos)[n]
  <2>1. repo \in Repo /\ GoodCopy(n, repo)
    BY ObjectTypes DEF Copies
  <2>2. CASE Stored(repos)[n].rv = repo.rv /\ PutRepo(n, [repo EXCEPT !.phase = "pending"])
    <3>1. repo.uid # 0 /\ "pending" \in L!Onward(repo.phase) /\ "pending" \in L!Phases /\ born' = born
      BY <1>1 DEF ReconcileDefaults, Found, L!Onward, L!Phases
    <3> HIDE DEF repo
    <3> QED
      BY <2>1, <2>2, <3>1, StatusUpdate
  <2>3. CASE UNCHANGED repos
    BY <1>1, <2>3 DEF ReconcileDefaults, L!vars
  <2> QED
    BY <1>1, <2>2, <2>3 DEF ReconcileDefaults
<1>2. CASE CheckCreateJobStatus
  <2> DEFINE n == worker.name
             repo == worker.repo
             p == Verdict(Cached(jobs)[n])
  <2>1. n \in Names /\ repo \in Repo /\ repo.uid # 0 /\ repo.phase = "pending"
    BY <1>2 DEF TypeOK, CheckCreateJobStatus, Worker, WorkerPending
  <2>2. GoodCopy(n, repo)
    BY <1>2, <2>1 DEF Copies, CheckCreateJobStatus
  <2>3. CASE Stored(repos)[n].rv = repo.rv /\ PutRepo(n, [repo EXCEPT !.phase = p])
    <3>1. p \in L!Onward(repo.phase) /\ p \in L!Phases /\ born' = born
      BY <1>2, <2>1 DEF CheckCreateJobStatus, Verdict, L!Onward, L!Phases
    <3> HIDE DEF repo, n, p
    <3> QED
      BY <2>1, <2>2, <2>3, <3>1, StatusUpdate
  <2>4. CASE UNCHANGED repos
    BY <1>2, <2>4 DEF CheckCreateJobStatus, L!vars
  <2> QED
    BY <1>2, <2>3, <2>4 DEF CheckCreateJobStatus
<1>3. ASSUME NEW n \in Names, ReconcileNothing(n) \/ ReconcilePending(n)
      PROVE  [L!Next]_(L!vars)
  BY <1>3 DEF ReconcileNothing, ReconcilePending, L!vars
<1>4. CASE StartCreateRepoJob \/ CreateInitJob
  BY <1>4 DEF StartCreateRepoJob, CreateInitJob, L!vars
<1> QED
  BY <1>1, <1>2, <1>3, <1>4 DEF Reconcile

(* How a new Repository, and one whose deletion has started, are seen.     *)
LEMMA ViewOfNew ==
  ASSUME NEW u \in Nat, NEW x \in Repo, x.uid = u, x.phase = "nil", ~x.deleting
  PROVE  ViewOf(x) = [L!NoView EXCEPT !.uid = u]
<1>1. L!NoView \in L!RepoViews /\ L!NoView.deleting = FALSE /\ L!NoView.phase = "nil"
  BY DEF L!NoView, L!RepoViews, L!Phases
<1> QED
  BY <1>1 DEF ViewOf, Repo, L!RepoViews

LEMMA ViewMarked ==
  ASSUME NEW v \in L!RepoViews, NEW x \in Repo, NEW d \in BOOLEAN,
         x.uid = v.uid, x.phase = v.phase, x.deleting = d
  PROVE  ViewOf(x) = [v EXCEPT !.deleting = d]
BY DEF ViewOf, Repo, L!RepoViews

(* The d stands for TRUE: SMT updates a Boolean field only to a variable.  *)
LEMMA ViewOfDeleting ==
  ASSUME NEW v \in L!RepoViews, v.uid # 0,
         NEW x \in Repo, x.uid = v.uid, x.phase = v.phase, x.deleting
  PROVE  ViewOf(x) \in L!StartsDeletion(v)
<1>1. PICK d \in BOOLEAN : d = TRUE
  OBVIOUS
<1>2. x.deleting = d
  BY <1>1
<1>3. ViewOf(x) = [v EXCEPT !.deleting = d]
  BY <1>2, ViewMarked
<1>4. [v EXCEPT !.deleting = d] = [v EXCEPT !.deleting = TRUE]
  BY <1>1, Zenon
<1>5. L!StartsDeletion(v) = {[v EXCEPT !.deleting = TRUE]}
  BY DEF L!StartsDeletion
<1> QED
  BY <1>3, <1>4, <1>5, Zenon

LEMMA RefinesUser ==
  ASSUME TypeOK, NEW n \in Names, User(n)
  PROVE  [L!Next]_(L!vars)
<1> USE DEF world
<1>1. Stored(repos)[n] \in Repo
  BY ObjectTypes
<1>2. ASSUME NEW url \in Urls, UserCreates(n, url)
      PROVE  L!Next
  <2> DEFINE repo == [NoRepo EXCEPT !.uid = born[n] + 1, !.url = url]
  <2>1. /\ PutRepo(n, repo)
        /\ Stored(repos)[n].uid = 0
        /\ born' = [born EXCEPT ![n] = @ + 1]
    BY <1>2 DEF UserCreates
  <2>2. born[n] + 1 \in Nat
    BY DEF TypeOK
  <2>3. repo \in Repo /\ ViewOf(repo) = [L!NoView EXCEPT !.uid = born[n] + 1]
    <3>1. repo \in Repo
      BY <2>2 DEF NoRepo, Repo, L!Phases
    <3>2. repo.uid = born[n] + 1 /\ repo.phase = "nil" /\ repo.deleting = FALSE
      BY DEF NoRepo
    <3> HIDE DEF repo
    <3> QED
      BY <2>2, <3>1, <3>2, ViewOfNew
  <2> HIDE DEF repo
  <2>4. PICK x \in Repo : Stored(repos)' = Changed(repos, n, x) /\ ViewOf(x) = ViewOf(repo)
    BY <2>1, <2>3, PutRepoView
  <2> QED
    BY <2>1, <2>3, <2>4, Creates
<1>3. ASSUME NEW url \in Urls, UserEdits(n, url)
      PROVE  UNCHANGED L!vars
  <2> DEFINE repo == [Stored(repos)[n] EXCEPT !.url = url]
  <2>1. PutRepo(n, repo) /\ born' = born
    BY <1>3 DEF UserEdits
  <2>2. repo \in Repo /\ ViewOf(repo) = ViewOf(Stored(repos)[n])
    BY <1>1 DEF Repo, ViewOf
  <2> HIDE DEF repo
  <2>3. PICK x \in Repo : Stored(repos)' = Changed(repos, n, x) /\ ViewOf(x) = ViewOf(repo)
    BY <2>1, <2>2, PutRepoView
  <2> QED
    BY <2>1, <2>2, <2>3, Stutters
<1>4. CASE UserDeletes(n)
  <2>1. RemoveRepo(n) /\ born' = born /\ View[n].uid # 0
    BY <1>4 DEF UserDeletes, View
  <2>2. ViewOf(NoRepo) \in L!Vanishes(View[n])
    BY <2>1 DEF ViewOf, NoRepo, L!Vanishes, L!NoView
  <2> QED
    BY <2>1, <2>2, NoObjects, RemoveRepoWrites, Changes
<1>5. CASE UserDeletesForeground(n)
  <2> DEFINE repo == [Stored(repos)[n] EXCEPT !.deleting = TRUE]
  <2>1. PutRepo(n, repo) /\ born' = born /\ View[n].uid # 0
    BY <1>5 DEF UserDeletesForeground, View
  <2>2. repo \in Repo
    BY <1>1 DEF Repo
  <2>3. ViewOf(repo) \in L!StartsDeletion(View[n])
    <3>1. /\ repo.uid = View[n].uid
          /\ repo.phase = View[n].phase
          /\ repo.deleting
      BY <1>1 DEF Repo, View
    <3>2. View[n] \in L!RepoViews
      BY <1>1 DEF View, Repo, L!RepoViews
    <3> HIDE DEF repo
    <3> QED
      BY <2>1, <2>2, <3>1, <3>2, ViewOfDeleting
  <2> HIDE DEF repo
  <2>4. PICK x \in Repo : Stored(repos)' = Changed(repos, n, x) /\ ViewOf(x) = ViewOf(repo)
    BY <2>1, <2>2, PutRepoView
  <2> QED
    BY <2>1, <2>3, <2>4, Changes
<1>6. CASE UserCreatesSecret(n) \/ UserDeletesSecret(n)
  BY <1>6 DEF UserCreatesSecret, UserDeletesSecret, L!vars
<1> QED
  BY <1>2, <1>3, <1>4, <1>5, <1>6 DEF User

LEMMA RefinesStep ==
  ASSUME TypeOK, Copies, WorkerPending, [Next]_vars
  PROVE  [L!Next]_(L!vars)
<1> USE DEF world
<1>1. CASE Reconcile
  BY <1>1, RefinesReconcile
<1>2. CASE CallFails
  BY <1>2 DEF CallFails, L!vars
<1>3. CASE Restart
  <2>1. Stored(repos)' = Stored(repos) /\ born' = born
    BY <1>3, Restarted DEF TypeOK, Restart
  <2> QED
    BY <2>1 DEF L!vars
<1>4. CASE Deliver
  <2>1. Stored(repos)' = Stored(repos) /\ born' = born
    BY <1>4, Delivered DEF TypeOK, Deliver, DeliverRepo, DeliverJob, DeliverSecret
  <2> QED
    BY <2>1 DEF L!vars
<1>5. ASSUME NEW n \in Names, Resync(n) \/ User(n) \/ Collect(n) \/ Pod(n) \/ LogsLost(n)
      PROVE  [L!Next]_(L!vars)
  <2>1. CASE User(n)
    BY <2>1, RefinesUser
  <2>2. CASE CollectRepo(n)
    <3>1. RemoveRepo(n) /\ born' = born /\ Stored(repos)[n].deleting
      BY <2>2 DEF CollectRepo
    <3>2. GoodCopy(n, Stored(repos)[n])
      BY ObjectTypes DEF Copies
    <3>3. View[n].uid # 0
      BY <3>1, <3>2 DEF GoodCopy, NoRepo, View
    <3>4. ViewOf(NoRepo) \in L!Vanishes(View[n])
      BY <3>3 DEF ViewOf, NoRepo, L!Vanishes, L!NoView
    <3> QED
      BY <3>1, <3>4, NoObjects, RemoveRepoWrites, Changes
  <2>3. CASE Resync(n) \/ CollectJob(n) \/ CollectSecret(n) \/ Pod(n) \/ LogsLost(n)
    BY <2>3 DEF Resync, CollectJob, CollectSecret, Pod, InitPodSucceeds, InitPodFails,
                InitPodLost, LogsLost, L!vars
  <2> QED
    BY <1>5, <2>1, <2>2, <2>3 DEF Collect
<1>6. CASE UNCHANGED vars
  BY <1>6 DEF vars, L!vars
<1> QED
  BY <1>1, <1>2, <1>3, <1>4, <1>5, <1>6 DEF Next

LEMMA CopiesInit == Init => Copies /\ WorkerPending
<1> SUFFICES ASSUME Init PROVE Copies /\ WorkerPending
  OBVIOUS
<1>1. /\ Stored(repos) = [n \in Names |-> NoRepo]
      /\ Seen(repos) = {Stored(repos)}
  BY Single DEF Init
<1>2. worker.pc = "idle"
  BY DEF Init, Idle
<1>3. \A n \in Names : GoodCopy(n, NoRepo)
  <2>1. /\ NoRepo.rv = 0 /\ NoRepo.uid = 0
        /\ \A n \in Names : revision[n] = 0 /\ born[n] = 0 /\ Stored(repos)[n] = NoRepo
    BY <1>1 DEF Init, NoRepo
  <2> QED
    BY <2>1 DEF GoodCopy
<1> QED
  BY <1>1, <1>2, <1>3 DEF Copies, WorkerPending

LEMMA RefinesInit == Init => L!Init
<1> SUFFICES ASSUME Init PROVE L!Init
  OBVIOUS
<1>1. Stored(repos) = [n \in Names |-> NoRepo]
  BY Single DEF Init
<1>2. born = [n \in Names |-> 0]
  BY DEF Init
<1> QED
  BY <1>1, <1>2 DEF L!Init, L!NoView, NoRepo

(* The controller, its users and the cluster write Repository objects only *)
(* in the ways that RepoLifecycle names: no Status().Update of the         *)
(* controller, however stale the copy it started from, takes back a        *)
(* condition, skips one or brings an object back.                          *)
THEOREM RefinesLifecycle == Spec => Lifecycle
<1>1. Init => TypeOK /\ Copies /\ WorkerPending
  BY TypeInit, CopiesInit
<1>2. TypeOK /\ Copies /\ WorkerPending /\ [Next]_vars
        => TypeOK' /\ Copies' /\ WorkerPending' /\ [L!Next]_(L!vars)
  BY TypeStep, CopiesStep, PendingStep, RefinesStep
<1> QED
  BY <1>1, <1>2, RefinesInit, PTL DEF Spec, Lifecycle, L!Spec
-------------------------------------------------------------------------------
(* Secrets and Jobs of Repositories that are alive.  What one step does to *)
(* each kind of object:                                                    *)

ReposKept ==
  \A n \in Names :
    /\ born[n] <= born'[n]
    /\ Alive(n)' =>
         \/ Alive(n) /\ Stored(repos)'[n].uid = Stored(repos)[n].uid
         \/ Stored(repos)'[n].uid > born[n]

SecretsKept ==
  /\ Seen(secrets)' \subseteq Seen(secrets) \cup {Stored(secrets)'}
  /\ \A n \in Names :
       /\ Stored(secrets)'[n].owner <= born[n]
       /\ Alive(n) /\ HasSecret(n) => Stored(secrets)'[n] = Stored(secrets)[n]

JobsKept ==
  \A n \in Names :
    Stored(jobs)'[n].live =>
      \/ Stored(jobs)[n].live /\ Stored(jobs)'[n].owner = Stored(jobs)[n].owner
      \/ /\ worker.pc = "createJob"
         /\ worker.name = n
         /\ Stored(jobs)'[n].owner = worker.repo.uid

WorkerKept ==
  worker'.pc = "createJob" =>
    /\ worker.pc # "idle" /\ worker'.name = worker.name /\ worker'.repo = worker.repo
    /\ \/ worker.pc = "createJob"
       \/ \E x \in Seen(secrets)' :
            x[worker.name].live /\ x[worker.name].owner = worker.repo.uid

LEMMA LifecycleKeeps ==
  ASSUME TypeOK, [L!Next]_(L!vars)
  PROVE  ReposKept
<1> DEFINE Live(v) == v.uid # 0 /\ ~v.deleting
<1>1. /\ born \in [Names -> Nat]
      /\ View \in [Names -> L!RepoViews]
  BY ObjectTypes DEF TypeOK, View, Repo, L!RepoViews
<1>2. \A n \in Names : /\ View[n].uid = Stored(repos)[n].uid
                       /\ View'[n].uid = Stored(repos)'[n].uid
                       /\ Alive(n) <=> Live(View[n])
                       /\ Alive(n)' <=> Live(View'[n])
  BY DEF View, Alive
<1>3. ASSUME NEW n \in Names, L!Create(n)
      PROVE  ReposKept
  <2>1. PICK v \in L!Appears(View[n], born[n] + 1) : View' = [View EXCEPT ![n] = v]
    BY <1>3 DEF L!Create, View
  <2>2. v.uid = born[n] + 1
    BY <2>1 DEF L!Appears, L!NoView
  <2>3. born' = [born EXCEPT ![n] = @ + 1]
    BY <1>3 DEF L!Create
  <2>4. View'[n].uid > born[n] /\ \A m \in Names \ {n} : View'[m] = View[m]
    BY <1>1, <2>1, <2>2
  <2>5. \A m \in Names : born[m] <= born'[m]
    BY <1>1, <2>3
  <2> QED
    BY <1>2, <2>4, <2>5 DEF ReposKept
<1>4. ASSUME NEW n \in Names, L!Change(n)
      PROVE  ReposKept
  <2>1. PICK v \in L!Progresses(View[n]) \cup L!StartsDeletion(View[n]) \cup L!Vanishes(View[n]) :
          View' = [View EXCEPT ![n] = v]
    BY <1>4 DEF L!Change, View
  <2>2. View[n] \in L!RepoViews
    BY <1>1
  <2>3. Live(v) => Live(View[n]) /\ v.uid = View[n].uid
    <3>1. CASE v \in L!Progresses(View[n])
      BY <2>2, <3>1 DEF L!Progresses, L!RepoViews
    <3>2. CASE v \in L!StartsDeletion(View[n])
      BY <2>2, <3>2 DEF L!StartsDeletion, L!RepoViews
    <3>3. CASE v \in L!Vanishes(View[n])
      BY <3>3 DEF L!Vanishes, L!NoView
    <3> QED
      BY <2>1, <3>1, <3>2, <3>3
  <2>4. born' = born /\ \A m \in Names : born[m] <= born'[m]
    BY <1>1, <1>4 DEF L!Change
  <2>5. View'[n] = v /\ \A m \in Names \ {n} : View'[m] = View[m]
    BY <1>1, <2>1
  <2> HIDE DEF Live
  <2> QED
    BY <1>2, <2>3, <2>4, <2>5 DEF ReposKept
<1>5. CASE UNCHANGED L!vars
  <2>1. View' = View /\ born' = born
    BY <1>5 DEF L!vars, View
  <2>2. \A m \in Names : born[m] <= born'[m]
    BY <1>1, <2>1
  <2> QED
    BY <1>2, <2>1, <2>2 DEF ReposKept
<1> QED
  BY <1>3, <1>4, <1>5 DEF L!Next

LEMMA PutSecretKeeps ==
  ASSUME TypeOK, OwnersBorn, NEW n \in Names, NEW secret \in Secret, PutSecret(n, secret),
         secret.owner <= born[n], ~(Alive(n) /\ HasSecret(n))
  PROVE  SecretsKept
<1>1. Stored(secrets)' = Changed(secrets, n, secret) /\ Seen(secrets)' = Seen(secrets) \cup {Stored(secrets)'}
  BY PutSecretWrites
<1>2. Stored(secrets) \in [Names -> Secret] /\ Stored(secrets) \in Seen(secrets)
  BY ObjectTypes
<1>3. /\ Stored(secrets)'[n] = secret
      /\ \A m \in Names \ {n} : Stored(secrets)'[m] = Stored(secrets)[m]
  BY <1>1, <1>2 DEF Changed
<1> QED
  BY <1>1, <1>2, <1>3 DEF SecretsKept, OwnersBorn

LEMMA SameSecretsKeep ==
  ASSUME TypeOK, OwnersBorn,
         Seen(secrets)' \subseteq Seen(secrets), Stored(secrets)' = Stored(secrets)
  PROVE  SecretsKept
BY ObjectTypes DEF SecretsKept, OwnersBorn

LEMMA PutJobKeeps ==
  ASSUME TypeOK, NEW n \in Names, NEW job \in Job, PutJob(n, job),
         job.live =>
           \/ Stored(jobs)[n].live /\ job.owner = Stored(jobs)[n].owner
           \/ worker.pc = "createJob" /\ worker.name = n /\ job.owner = worker.repo.uid
  PROVE  JobsKept
<1>1. Stored(jobs)' = Changed(jobs, n, job) /\ Stored(jobs) \in [Names -> Job]
  BY PutJobWrites, ObjectTypes
<1>2. /\ Stored(jobs)'[n] = job
      /\ \A m \in Names \ {n} : Stored(jobs)'[m] = Stored(jobs)[m]
  BY <1>1 DEF Changed
<1> QED
  BY <1>2 DEF JobsKept

(* The worker finds, or has just written, the secret of its Repository.    *)
LEMMA StartKeeps ==
  ASSUME TypeOK, Copies, OwnersBorn, StartCreateRepoJob
  PROVE  SecretsKept /\ WorkerKept
<1> DEFINE n == worker.name
           secret == Cached(secrets)[n]
<1>1. n \in Names /\ worker.repo \in Repo /\ worker.pc = "getJob"
  BY DEF TypeOK, StartCreateRepoJob, Worker
<1>2. worker.repo.uid <= born[n] /\ worker.repo.uid \in Nat
  BY <1>1 DEF Copies, GoodCopy, Repo
<1>3. ASSUME NEW pw \in Passwords, ~Stored(secrets)[n].live,
             PutSecret(n, [live |-> TRUE, owner |-> worker.repo.uid, pw |-> pw]),
             worker' = [worker EXCEPT !.pc = "createJob"]
      PROVE  SecretsKept /\ WorkerKept
  <2> DEFINE new == [live |-> TRUE, owner |-> worker.repo.uid, pw |-> pw]
  <2>1. new \in Secret /\ new.owner = worker.repo.uid /\ new.live
    BY <1>2 DEF Secret
  <2>2. PutSecret(n, new) /\ ~HasSecret(n)
    BY <1>3 DEF HasSecret
  <2> HIDE DEF new
  <2>3. SecretsKept
    BY <1>1, <1>2, <2>1, <2>2, PutSecretKeeps
  <2>4. PICK x \in Seen(secrets)' : x[n] = new
    <3>1. Seen(secrets)' = Seen(secrets) \cup {Changed(secrets, n, new)}
      BY <1>1, <2>1, <2>2, PutSecretWrites
    <3>2. Changed(secrets, n, new)[n] = new
      BY <1>1, ObjectTypes DEF Changed
    <3> QED
      BY <3>1, <3>2
  <2>5. worker'.name = worker.name /\ worker'.repo = worker.repo
    BY <1>3 DEF TypeOK, Worker
  <2> QED
    BY <1>1, <2>1, <2>3, <2>4, <2>5 DEF WorkerKept
<1>4. CASE secret.live /\ OwnsSecret(worker.repo, secret) /\ UNCHANGED secrets
           /\ worker' = [worker EXCEPT !.pc = "createJob"]
  <2>1. SecretsKept
    BY <1>4, SameSecretsKeep
  <2>2. Cached(secrets) \in Seen(secrets)'
    BY <1>4, ObjectTypes
  <2>3. worker'.name = worker.name /\ worker'.repo = worker.repo
    BY <1>4 DEF TypeOK, Worker
  <2> QED
    BY <1>1, <1>4, <2>1, <2>2, <2>3 DEF WorkerKept, OwnsSecret
<1>5. CASE Retry(n) /\ UNCHANGED secrets
  BY <1>5, SameSecretsKeep DEF Retry, Idle, WorkerKept
<1> QED
  BY <1>3, <1>4, <1>5 DEF StartCreateRepoJob

LEMMA SecretsStep ==
  ASSUME TypeOK, Copies, OwnersBorn, [Next]_vars
  PROVE  SecretsKept
<1> USE DEF world
<1>1. CASE StartCreateRepoJob
  BY <1>1, StartKeeps
<1>2. CASE DeliverSecret
  BY <1>2, SameSecretsKeep, Delivered DEF TypeOK, DeliverSecret
<1>3. CASE Restart
  <2>1. Seen(secrets)' \subseteq Seen(secrets) /\ Stored(secrets)' = Stored(secrets)
    BY <1>3, ObjectTypes, Restarted DEF TypeOK, Restart
  <2> QED
    BY <2>1, SameSecretsKeep
<1>4. ASSUME NEW n \in Names, UserCreatesSecret(n)
      PROVE  SecretsKept
  <2>1. PICK pw \in Passwords : PutSecret(n, [live |-> TRUE, owner |-> 0, pw |-> pw])
    BY <1>4 DEF UserCreatesSecret
  <2> DEFINE new == [live |-> TRUE, owner |-> 0, pw |-> pw]
  <2>2. PutSecret(n, new) /\ new \in Secret /\ new.owner = 0
    BY <2>1 DEF Secret
  <2>3. ~HasSecret(n) /\ 0 <= born[n]
    BY <1>4 DEF UserCreatesSecret, HasSecret, TypeOK
  <2> HIDE DEF new
  <2> QED
    BY <2>2, <2>3, PutSecretKeeps
<1>5. ASSUME NEW n \in Names, UserDeletesSecret(n) \/ CollectSecret(n)
      PROVE  SecretsKept
  <2>1. PutSecret(n, NoSecret) /\ ~(Alive(n) /\ HasSecret(n))
    BY <1>5 DEF UserDeletesSecret, CollectSecret, Orphaned, Alive, HasSecret
  <2>2. NoSecret.owner <= born[n]
    BY DEF NoSecret, TypeOK
  <2> QED
    BY <2>1, <2>2, NoObjects, PutSecretKeeps
<1>6. CASE UNCHANGED secrets
  BY <1>6, SameSecretsKeep
<1> QED
  <2>1. ASSUME Reconcile
        PROVE  StartCreateRepoJob \/ UNCHANGED secrets
    BY <2>1 DEF Reconcile, ReconcileNothing, ReconcilePending, ReconcileDefaults,
                CreateInitJob, CheckCreateJobStatus
  <2>2. ASSUME CallFails \/ Deliver
        PROVE  DeliverSecret \/ UNCHANGED secrets
    BY <2>2 DEF CallFails, Deliver, DeliverRepo, DeliverJob
  <2>3. ASSUME NEW n \in Names, Resync(n) \/ User(n) \/ Collect(n) \/ Pod(n) \/ LogsLost(n)
        PROVE  UserCreatesSecret(n) \/ UserDeletesSecret(n) \/ CollectSecret(n) \/ UNCHANGED secrets
    BY <2>3 DEF Resync, User, UserCreates, UserEdits, UserDeletes, UserDeletesForeground,
                Collect, CollectJob, CollectRepo, Pod, InitPodSucceeds, InitPodFails, InitPodLost, LogsLost
  <2>4. ASSUME UNCHANGED vars
        PROVE  UNCHANGED secrets
    BY <2>4 DEF vars
  <2> QED
    BY <1>1, <1>2, <1>3, <1>4, <1>5, <1>6, <2>1, <2>2, <2>3, <2>4 DEF Next

LEMMA JobsStep ==
  ASSUME TypeOK, [Next]_vars
  PROVE  JobsKept
<1> USE DEF world
<1>1. CASE CreateInitJob
  <2> DEFINE n == worker.name
             job == CreateRepoInitJob(worker.repo)
  <2>1. CASE PutJob(n, job)
    <3>1. n \in Names /\ worker.repo \in Repo /\ worker.pc = "createJob"
      BY <1>1 DEF TypeOK, CreateInitJob, Worker
    <3>2. job \in Job /\ job.owner = worker.repo.uid
      BY <3>1 DEF CreateRepoInitJob, Job, Repo
    <3> HIDE DEF job
    <3> QED
      BY <2>1, <3>1, <3>2, PutJobKeeps
  <2> QED
    BY <1>1, <2>1 DEF CreateInitJob, JobsKept
<1>2. ASSUME NEW n \in Names, CollectJob(n)
      PROVE  JobsKept
  <2>1. PutJob(n, NoJob) /\ ~NoJob.live
    BY <1>2 DEF CollectJob, NoJob
  <2> QED
    BY <2>1, NoObjects, PutJobKeeps
<1>3. ASSUME NEW n \in Names, Pod(n)
      PROVE  JobsKept
  <2>1. Stored(jobs)[n] \in Job /\ Stored(jobs)[n].live
    BY <1>3, ObjectTypes DEF Pod, InitPodSucceeds, InitPodFails, InitPodLost, PodCanRun
  <2>2. PICK job \in Job : PutJob(n, job) /\ job.owner = Stored(jobs)[n].owner
    BY <1>3, <2>1, PodEnds DEF Pod, InitPodSucceeds, InitPodFails, InitPodLost
  <2> QED
    BY <2>1, <2>2, PutJobKeeps
<1>4. CASE Stored(jobs)' = Stored(jobs)
  BY <1>4 DEF JobsKept
<1> QED
  <2>1. ASSUME Reconcile
        PROVE  CreateInitJob \/ UNCHANGED jobs
    BY <2>1 DEF Reconcile, ReconcileNothing, ReconcilePending, ReconcileDefaults,
                StartCreateRepoJob, CheckCreateJobStatus
  <2>2. ASSUME CallFails
        PROVE  UNCHANGED jobs
    BY <2>2 DEF CallFails
  <2>3. ASSUME Deliver \/ Restart
        PROVE  Stored(jobs)' = Stored(jobs)
    BY <2>3, Delivered, Restarted
       DEF TypeOK, Deliver, DeliverRepo, DeliverJob, DeliverSecret, Restart
  <2>4. ASSUME NEW n \in Names, Resync(n) \/ User(n) \/ Collect(n) \/ LogsLost(n)
        PROVE  CollectJob(n) \/ UNCHANGED jobs
    BY <2>4 DEF Resync, User, UserCreates, UserEdits, UserDeletes, UserDeletesForeground,
                UserCreatesSecret, UserDeletesSecret, Collect, CollectSecret, CollectRepo,
                LogsLost
  <2>5. ASSUME UNCHANGED vars
        PROVE  UNCHANGED jobs
    BY <2>5 DEF vars
  <2> QED
    BY <1>1, <1>2, <1>3, <1>4, <2>1, <2>2, <2>3, <2>4, <2>5 DEF Next

LEMMA WorkerStep ==
  ASSUME TypeOK, Copies, OwnersBorn, [Next]_vars
  PROVE  WorkerKept
<1> USE DEF world
<1>1. CASE StartCreateRepoJob
  BY <1>1, StartKeeps
<1>2. CASE worker' = worker \/ worker'.pc # "createJob"
  BY <1>2 DEF WorkerKept
<1> QED
  <2>1. ASSUME NEW n \in Names, ReconcileNothing(n) \/ ReconcilePending(n) \/ ReconcileDefaults(n)
        PROVE  worker' = worker \/ worker'.pc # "createJob"
    BY <2>1 DEF ReconcileNothing, ReconcilePending, ReconcileDefaults, Retry, Idle
  <2>2. ASSUME CreateInitJob \/ CheckCreateJobStatus \/ CallFails \/ Restart \/ Deliver
        PROVE  worker' = worker \/ worker'.pc # "createJob"
    BY <2>2 DEF CreateInitJob, CheckCreateJobStatus, CallFails, Restart, Return, Retry, Idle,
                Deliver, DeliverRepo, DeliverJob, DeliverSecret
  <2>3. ASSUME NEW n \in Names, Resync(n) \/ User(n) \/ Collect(n) \/ Pod(n) \/ LogsLost(n)
        PROVE  worker' = worker
    BY <2>3 DEF Resync, User, UserCreates, UserEdits, UserDeletes, UserDeletesForeground,
                UserCreatesSecret, UserDeletesSecret, Collect, CollectJob, CollectSecret,
                CollectRepo, Pod, InitPodSucceeds, InitPodFails, InitPodLost, LogsLost
  <2>4. ASSUME UNCHANGED vars
        PROVE  worker' = worker
    BY <2>4 DEF vars
  <2> QED
    BY <1>1, <1>2, <2>1, <2>2, <2>3, <2>4 DEF Next, Reconcile

(* Together they keep the secrets where they are needed: an object that is *)
(* alive after the step was alive before it, and whatever it owned then it *)
(* owns still, or it is so young that nothing bears its uid yet.           *)
LEMMA SecretsStay ==
  ASSUME IInv, TypeOK', ReposKept, SecretsKept, JobsKept, WorkerKept
  PROVE  OwnersBorn' /\ SecretStays' /\ WorkerHasSecret' /\ InitJobHasItsSecret'
<1>1. /\ born \in [Names -> Nat] /\ worker.repo.uid \in Nat
      /\ Stored(secrets) \in Seen(secrets)
  BY ObjectTypes DEF IInv, TypeOK, Worker, Repo
<1>2. ASSUME NEW n \in Names, Alive(n)'
      PROVE  \/ /\ Alive(n) /\ Stored(repos)'[n].uid = Stored(repos)[n].uid
                /\ HasSecret(n) => HasSecret(n)'
             \/ Stored(repos)'[n].uid > born[n]
  BY <1>2 DEF ReposKept, SecretsKept, HasSecret
<1>3. \A n \in Names : \A x \in Seen(secrets)' : x[n].owner <= born[n]
  BY DEF IInv, OwnersBorn, SecretsKept
<1>4. \A n \in Names : worker.pc # "idle" /\ worker.name = n => worker.repo.uid <= born[n]
  BY DEF IInv, Copies, GoodCopy
<1>5. \A n \in Names : Stored(jobs)'[n].live => Stored(jobs)'[n].owner <= born[n]
  BY <1>4 DEF IInv, OwnersBorn, JobsKept
<1>6. SecretStays'
  <2> SUFFICES ASSUME NEW n \in Names, NEW x \in Seen(secrets)', Alive(n)',
                      x[n].live, x[n].owner = Stored(repos)'[n].uid
               PROVE  HasSecret(n)'
    BY DEF SecretStays
  <2>1. Alive(n) /\ Stored(repos)'[n].uid = Stored(repos)[n].uid /\ (HasSecret(n) => HasSecret(n)')
    BY <1>1, <1>2, <1>3, UidTypesAfter
  <2>2. CASE x \in Seen(secrets)
    BY <2>1, <2>2 DEF IInv, SecretStays
  <2>3. CASE x = Stored(secrets)'
    BY <2>3 DEF HasSecret
  <2> QED
    BY <2>2, <2>3 DEF SecretsKept
<1>7. WorkerHasSecret'
  <2> SUFFICES ASSUME NEW n \in Names, worker'.pc = "createJob", worker'.name = n, Alive(n)',
                      worker'.repo.uid = Stored(repos)'[n].uid
               PROVE  HasSecret(n)'
    BY DEF WorkerHasSecret
  <2>1. worker.pc # "idle" /\ worker.name = n /\ worker.repo.uid = Stored(repos)'[n].uid
    BY DEF WorkerKept
  <2>2. Alive(n) /\ Stored(repos)'[n].uid = Stored(repos)[n].uid /\ (HasSecret(n) => HasSecret(n)')
    BY <1>1, <1>2, <1>4, <2>1
  <2>3. CASE worker.pc = "createJob"
    BY <2>1, <2>2, <2>3 DEF IInv, WorkerHasSecret
  <2>4. ASSUME NEW x \in Seen(secrets)', x[n].live, x[n].owner = worker.repo.uid
        PROVE  HasSecret(n)'
    BY <1>6, <2>1, <2>4 DEF SecretStays
  <2> QED
    BY <2>1, <2>3, <2>4 DEF WorkerKept
<1>8. ASSUME NEW n \in Names, Alive(n)', Stored(jobs)'[n].live,
             Stored(jobs)'[n].owner = Stored(repos)'[n].uid
      PROVE  HasSecret(n)'
  <2>1. Alive(n) /\ Stored(repos)'[n].uid = Stored(repos)[n].uid /\ (HasSecret(n) => HasSecret(n)')
    BY <1>1, <1>2, <1>5, <1>8, UidTypesAfter
  <2>2. CASE Stored(jobs)[n].live /\ Stored(jobs)'[n].owner = Stored(jobs)[n].owner
    BY <1>8, <2>1, <2>2 DEF IInv, InitJobHasItsSecret, Alive, HasSecret
  <2>3. CASE worker.pc = "createJob" /\ worker.name = n /\ Stored(jobs)'[n].owner = worker.repo.uid
    BY <1>8, <2>1, <2>3 DEF IInv, WorkerHasSecret
  <2> QED
    BY <1>8, <2>2, <2>3 DEF JobsKept
<1>9. InitJobHasItsSecret'
  BY <1>8 DEF InitJobHasItsSecret, Alive, HasSecret
<1>10. OwnersBorn'
  BY <1>1, <1>3, <1>5, UidTypesAfter DEF OwnersBorn, ReposKept
<1> QED
  BY <1>6, <1>7, <1>9, <1>10

LEMMA IInvInit == Init => IInv
<1> SUFFICES ASSUME Init PROVE IInv
  OBVIOUS
<1>1. /\ Stored(repos) = [n \in Names |-> NoRepo]
      /\ Stored(jobs) = [n \in Names |-> NoJob]
      /\ Stored(secrets) = [n \in Names |-> NoSecret]
      /\ Seen(secrets) = {Stored(secrets)}
  BY Single DEF Init
<1>2. /\ ~NoJob.live
      /\ ~NoSecret.live /\ NoSecret.owner = 0
      /\ worker.pc = "idle" /\ born = [n \in Names |-> 0]
  BY DEF Init, Idle, NoJob, NoSecret
<1>3. OwnersBorn
  BY <1>1, <1>2 DEF OwnersBorn
<1>4. SecretStays /\ WorkerHasSecret /\ InitJobHasItsSecret
  BY <1>1, <1>2 DEF SecretStays, WorkerHasSecret, InitJobHasItsSecret
<1> QED
  BY <1>3, <1>4, TypeInit, CopiesInit DEF IInv

LEMMA IInvStep ==
  ASSUME IInv, [Next]_vars
  PROVE  IInv'
<1>1. TypeOK /\ Copies /\ WorkerPending /\ OwnersBorn
  BY DEF IInv
<1>2. TypeOK' /\ Copies' /\ WorkerPending'
  BY <1>1, TypeStep, CopiesStep, PendingStep
<1>3. ReposKept
  BY <1>1, RefinesStep, LifecycleKeeps
<1>4. SecretsKept /\ JobsKept /\ WorkerKept
  BY <1>1, SecretsStep, JobsStep, WorkerStep
<1>5. OwnersBorn' /\ SecretStays' /\ WorkerHasSecret' /\ InitJobHasItsSecret'
  BY <1>2, <1>3, <1>4, SecretsStay
<1> QED
  BY <1>2, <1>5 DEF IInv

(* As long as a Repository is alive, its init Job can mount the secret     *)
(* that startCreateRepoJob made for this very Repository, although the     *)
(* controller looks for it in a stale cache, and Jobs and secrets outlive  *)
(* their owners under the same names.                                      *)
THEOREM SecretAtHand == Spec => []InitJobHasItsSecret
<1>1. IInv => InitJobHasItsSecret
  BY DEF IInv
<1> QED
  BY <1>1, IInvInit, IInvStep, PTL DEF Spec
===============================================================================
