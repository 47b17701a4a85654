------------------------------- MODULE KeyProofs -------------------------------
(***************************************************************************)
(* Theorems about the Key controller, for every value of the constants:    *)
(* any number of Keys, Jobs, restic keys and passwords, any lag of the     *)
(* caches, any number of failures, restarts and edits, and any life of the *)
(* Repository that RepoLifecycle allows.                                   *)
(***************************************************************************)
EXTENDS Key, InformerProofs

-------------------------------------------------------------------------------
(* Every Job has the label that names its Key.                             *)
JobsLabelled == \A j \in JobIds : \A x \in Seen(jobs) : x[j].live => x[j].key \in Names

(* Nothing is said of a Key that does not exist.                           *)
KeysExist == \A n \in Names : \A s \in Seen(keys) : s[n].uid = 0 => ~Deleting(s[n])

(* What the worker knows of its copies past the early returns.             *)
WorkerKnows ==
  /\ worker.pc # "idle" => worker.repo \in L!RepoViews
  /\ worker.pc \in {"own", "plan", "makeJob"} => worker.key.phase = "pending" /\ worker.repo.uid # 0
  /\ worker.pc = "makeJob" => ~Deleting(worker.key) /\ IsCreated(worker.repo)

TInv == TypeOK /\ JobsLabelled /\ KeysExist /\ WorkerKnows

-------------------------------------------------------------------------------
(* The Repository, as its lifecycle lets it change.                        *)

LEMMA NoViewType == L!NoView \in L!RepoViews
BY DEF L!NoView, L!RepoViews, L!Phases

(* The d stands for TRUE: SMT updates a Boolean field only to a variable.  *)
LEMMA MarkedView ==
  ASSUME NEW v \in L!RepoViews
  PROVE  [v EXCEPT !.deleting = TRUE] \in L!RepoViews
<1>1. PICK d \in BOOLEAN : d = TRUE
  OBVIOUS
<1>2. [v EXCEPT !.deleting = d] \in L!RepoViews
  BY DEF L!RepoViews
<1> QED
  BY <1>1, <1>2, Zenon

LEMMA ViewsStay ==
  ASSUME NEW v \in L!RepoViews
  PROVE  /\ \A u \in Nat : L!Appears(v, u) \subseteq L!RepoViews
         /\ L!Progresses(v) \subseteq L!RepoViews
         /\ L!StartsDeletion(v) \subseteq L!RepoViews
         /\ L!Vanishes(v) \subseteq L!RepoViews
<1>1. \A u \in Nat : L!Appears(v, u) \subseteq L!RepoViews
  BY NoViewType DEF L!Appears, L!RepoViews
<1>2. L!Progresses(v) \subseteq L!RepoViews
  <2>1. L!Onward(v.phase) \subseteq L!Phases
    BY DEF L!Onward, L!Phases
  <2> QED
    BY <2>1 DEF L!Progresses, L!RepoViews
<1>3. L!StartsDeletion(v) \subseteq L!RepoViews
  BY MarkedView DEF L!StartsDeletion
<1>4. L!Vanishes(v) \subseteq L!RepoViews
  BY NoViewType DEF L!Vanishes
<1> QED
  BY <1>1, <1>2, <1>3, <1>4

-------------------------------------------------------------------------------
(* What the writes do.                                                     *)

LEMMA NoObjects ==
  /\ NoKey \in Key /\ NoJob \in Job /\ NoSecret \in Secret
  /\ NoKey.uid = 0 /\ ~NoJob.live /\ ~NoSecret.live /\ NoSecret.owner = 0
  /\ Idle \in Worker /\ Idle.pc = "idle"
<1>1. NoKey \in Key /\ NoJob \in Job /\ NoSecret \in Secret
  BY DEF NoKey, Key, NoJob, Job, NoSecret, Secret, L!Phases
<1>2. NoKey.uid = 0 /\ ~NoJob.live /\ ~NoSecret.live /\ NoSecret.owner = 0
  BY DEF NoKey, NoJob, NoSecret
<1>3. Idle \in Worker /\ Idle.pc = "idle"
  BY <1>1, NoViewType DEF Idle, Worker
<1> QED
  BY <1>1, <1>2, <1>3

(* The answer to a write: the copy with its new version.                   *)
Versioned(n, key) == [key EXCEPT !.rv = revision[n] + 1]

LEMMA VersionedIs ==
  ASSUME NEW n \in Names, revision \in [Names -> Nat], NEW x \in Key
  PROVE  /\ Versioned(n, x) \in Key
         /\ Versioned(n, x).rv = revision[n] + 1
         /\ Versioned(n, x).uid = x.uid
         /\ Versioned(n, x).phase = x.phase
         /\ Versioned(n, x).keyID = x.keyID
         /\ Versioned(n, x).finalizer = x.finalizer
         /\ Versioned(n, x).owner = x.owner
         /\ Versioned(n, x).deleting = x.deleting
<1>1. revision[n] + 1 \in Nat
  OBVIOUS
<1> QED
  BY <1>1 DEF Versioned, Key

LEMMA PutKeyWrites ==
  ASSUME TypeOK, NEW n \in Names, NEW x \in Key, PutKey(n, x)
  PROVE  /\ keys' \in Watched([Names -> Key])
         /\ revision' = [revision EXCEPT ![n] = @ + 1]
         /\ revision' \in [Names -> Nat]
         /\ Stored(keys)' = Changed(keys, n, Versioned(n, x))
         /\ Seen(keys)' = Seen(keys) \cup {Changed(keys, n, Versioned(n, x))}
<1>1. keys \in Watched([Names -> Key]) /\ revision \in [Names -> Nat]
  BY DEF TypeOK
<1>2. keys' = Write(keys, n, Versioned(n, x)) /\ revision' = [revision EXCEPT ![n] = @ + 1]
  BY DEF PutKey, Versioned
<1>3. revision' \in [Names -> Nat]
  BY <1>1, <1>2
<1>4. Changed(keys, n, Versioned(n, x)) \in [Names -> Key]
  BY <1>1, VersionedIs, Snapshots DEF Changed
<1> QED
  BY <1>1, <1>2, <1>3, <1>4, Written

LEMMA RemoveKeyWrites ==
  ASSUME TypeOK, NEW n \in Names, RemoveKey(n)
  PROVE  /\ keys' \in Watched([Names -> Key])
         /\ revision' = revision /\ revision' \in [Names -> Nat]
         /\ Stored(keys)' = Changed(keys, n, NoKey)
         /\ Seen(keys)' = Seen(keys) \cup {Changed(keys, n, NoKey)}
<1>1. keys \in Watched([Names -> Key]) /\ revision \in [Names -> Nat]
  BY DEF TypeOK
<1>2. keys' = Write(keys, n, NoKey) /\ revision' = revision
  BY DEF RemoveKey
<1>3. Changed(keys, n, NoKey) \in [Names -> Key]
  BY <1>1, NoObjects, Snapshots DEF Changed
<1> QED
  BY <1>1, <1>2, <1>3, Written

LEMMA PutJobWrites ==
  ASSUME TypeOK, NEW j \in JobIds, NEW x \in Job, PutJob(j, x)
  PROVE  /\ jobs' \in Watched([JobIds -> Job])
         /\ Stored(jobs)' = Changed(jobs, j, x)
         /\ Seen(jobs)' = Seen(jobs) \cup {Changed(jobs, j, x)}
<1>1. jobs \in Watched([JobIds -> Job])
  BY DEF TypeOK
<1>2. jobs' = Write(jobs, j, x)
  BY DEF PutJob
<1>3. Changed(jobs, j, x) \in [JobIds -> Job]
  BY <1>1, Snapshots DEF Changed
<1> QED
  BY <1>1, <1>2, <1>3, Written

LEMMA PutSecretWrites ==
  ASSUME TypeOK, NEW n \in Names, NEW x \in Secret, PutSecret(n, x)
  PROVE  /\ secrets' \in Watched([Names -> Secret])
         /\ Stored(secrets)' = Changed(secrets, n, x)
         /\ Seen(secrets)' = Seen(secrets) \cup {Changed(secrets, n, x)}
<1>1. secrets \in Watched([Names -> Secret])
  BY DEF TypeOK
<1>2. secrets' = Write(secrets, n, x)
  BY DEF PutSecret
<1>3. Changed(secrets, n, x) \in [Names -> Secret]
  BY <1>1, Snapshots DEF Changed
<1> QED
  BY <1>1, <1>2, <1>3, Written

LEMMA PutRepoWrites ==
  ASSUME TypeOK, NEW x \in L!RepoViews, PutRepo(x)
  PROVE  /\ repos' \in Watched([{RepoName} -> L!RepoViews])
         /\ Stored(repos)' = Changed(repos, RepoName, x)
         /\ Seen(repos)' = Seen(repos) \cup {Changed(repos, RepoName, x)}
<1>1. repos \in Watched([{RepoName} -> L!RepoViews])
  BY DEF TypeOK
<1>2. repos' = Write(repos, RepoName, x)
  BY DEF PutRepo
<1>3. Changed(repos, RepoName, x) \in [{RepoName} -> L!RepoViews]
  BY <1>1, Snapshots DEF Changed
<1> QED
  BY <1>1, <1>2, <1>3, Written

(* Every snapshot of a kind is well typed, and so is every object in it.   *)
LEMMA ObjectTypes ==
  ASSUME TypeOK
  PROVE  /\ Seen(repos) \subseteq [{RepoName} -> L!RepoViews]
         /\ Cached(repos) \in Seen(repos) /\ Stored(repos) \in Seen(repos)
         /\ Seen(keys) \subseteq [Names -> Key]
         /\ Cached(keys) \in Seen(keys) /\ Stored(keys) \in Seen(keys)
         /\ Seen(jobs) \subseteq [JobIds -> Job]
         /\ Cached(jobs) \in Seen(jobs) /\ Stored(jobs) \in Seen(jobs)
         /\ Seen(secrets) \subseteq [Names -> Secret]
         /\ Cached(secrets) \in Seen(secrets) /\ Stored(secrets) \in Seen(secrets)
BY Snapshots DEF TypeOK

(* A Job that is made for a Key.                                           *)
LEMMA MadeJobs ==
  ASSUME NEW n \in Names, NEW key \in Key, NEW repo \in L!RepoViews
  PROVE  /\ CreateAddKeyJob(n, repo, key) \in Job
         /\ CreateAddKeyJob(n, repo, key).live
         /\ CreateAddKeyJob(n, repo, key).key = n
         /\ CreateAddKeyJob(n, repo, key).owner = key.uid
         /\ CreateAddKeyJob(n, repo, key).op = "add"
         /\ CreateAddKeyJob(n, repo, key).store = repo.uid
         /\ CreateAddKeyJob(n, repo, key).state = "Active"
         /\ CreateDeleteKeyJob(n, repo, key) \in Job
         /\ CreateDeleteKeyJob(n, repo, key).live
         /\ CreateDeleteKeyJob(n, repo, key).key = n
         /\ CreateDeleteKeyJob(n, repo, key).owner = key.uid
         /\ CreateDeleteKeyJob(n, repo, key).op = "delete"
         /\ CreateDeleteKeyJob(n, repo, key).store = repo.uid
         /\ CreateDeleteKeyJob(n, repo, key).arg = key.keyID
         /\ CreateDeleteKeyJob(n, repo, key).state = "Active"
<1>1. PICK d \in BOOLEAN : d = TRUE
  OBVIOUS
<1>2. /\ key.uid \in Nat /\ key.keyID \in KeyIds \cup {None} /\ repo.uid \in Nat
  BY DEF Key, L!RepoViews
<1> DEFINE add == [NoJob EXCEPT !.live = d, !.key = n, !.owner = key.uid, !.op = "add", !.store = repo.uid]
           del == [NoJob EXCEPT !.live = d, !.key = n, !.owner = key.uid, !.op = "delete",
                                !.store = repo.uid, !.arg = key.keyID]
<1>3. /\ add \in Job /\ add.live = d /\ add.key = n /\ add.owner = key.uid /\ add.op = "add"
      /\ add.store = repo.uid /\ add.state = "Active"
  BY <1>2 DEF NoJob, Job
<1>4. /\ del \in Job /\ del.live = d /\ del.key = n /\ del.owner = key.uid /\ del.op = "delete"
      /\ del.store = repo.uid /\ del.arg = key.keyID /\ del.state = "Active"
  BY <1>2 DEF NoJob, Job
<1>5. CreateAddKeyJob(n, repo, key) = add
  BY <1>1, Zenon DEF CreateAddKeyJob
<1>6. CreateDeleteKeyJob(n, repo, key) = del
  BY <1>1, Zenon DEF CreateDeleteKeyJob
<1> HIDE DEF add, del
<1> QED
  BY <1>1, <1>3, <1>4, <1>5, <1>6

(* A pod that ends leaves the rest of its Job as it was.                   *)
SameJob(x, y) ==
  /\ x.live = y.live /\ x.key = y.key /\ x.owner = y.owner
  /\ x.op = y.op /\ x.store = y.store /\ x.arg = y.arg

LEMMA PodEnds ==
  ASSUME NEW x \in Job
  PROVE  /\ [x EXCEPT !.state = "Complete"] \in Job
         /\ SameJob([x EXCEPT !.state = "Complete"], x)
         /\ FailedPod(x) \in Job
         /\ SameJob(FailedPod(x), x)
         /\ FailedPod(x).state # "Complete"
<1>1. /\ [x EXCEPT !.state = "Complete"] \in Job
      /\ SameJob([x EXCEPT !.state = "Complete"], x)
  BY DEF Job, SameJob
<1>2. PICK s \in {"Failed", "Active"}, f \in Nat :
        s = (IF x.failed + 1 > Backoff THEN "Failed" ELSE "Active") /\ f = x.failed + 1
  BY DEF Job
<1>3. /\ [x EXCEPT !.failed = f, !.state = s] \in Job
      /\ SameJob([x EXCEPT !.failed = f, !.state = s], x)
      /\ [x EXCEPT !.failed = f, !.state = s].state # "Complete"
  BY DEF Job, SameJob
<1> QED
  BY <1>1, <1>2, <1>3 DEF FailedPod

-------------------------------------------------------------------------------
(* What one step can do to each kind, and to the worker.  Every step is    *)
(* classified once; types, lives, outcomes and secrets are then argued     *)
(* from the classes, not from the actions.                                 *)

KeysRest ==
  /\ keys' \in Watched([Names -> Key])
  /\ Stored(keys)' = Stored(keys)
  /\ Seen(keys)' \subseteq Seen(keys)
  /\ UNCHANGED <<revision, born>>

(* A write that says y where x was said.                                   *)
Same(x, y) ==
  /\ y.uid = x.uid
  /\ y.phase = x.phase /\ y.keyID = x.keyID
  /\ y.finalizer = x.finalizer /\ y.owner = x.owner
  /\ y.deleting = x.deleting

Initialises(x, y) == x.phase = "nil" /\ Same([x EXCEPT !.phase = "pending"], y)

Succeeds(x, y) ==
  /\ x.phase = "pending" /\ ~Deleting(x)
  /\ y.keyID # None /\ \E j \in JobsFor("add") : y.keyID \in logs[j]
  /\ y.phase = "created"
  /\ y.uid = x.uid /\ y.finalizer = x.finalizer /\ y.owner = x.owner /\ y.deleting = x.deleting

Fails(x, y) == x.phase = "pending" /\ ~Deleting(x) /\ Same([x EXCEPT !.phase = "failed"], y)

Holds(x, y) ==
  /\ x.phase = "pending" /\ ~Deleting(x) /\ worker.pc = "own"
  /\ y.finalizer /\ y.owner = worker.repo.uid
  /\ y.uid = x.uid /\ y.phase = x.phase /\ y.keyID = x.keyID /\ y.deleting = x.deleting

(* The worker may take the finalizer off.                                  *)
MayRelease ==
  /\ worker.pc # "idle" /\ Current(worker.key)
  /\ \/ worker.repo.uid = 0
     \/ worker.repo.deleting
     \/ \E j \in DeleteJobs : KeyRemoved(Cached(jobs)[j])

(* The worker writes from a copy that is not refused.                      *)
WorkerWrites(n, x, y) ==
  /\ worker.pc # "idle" /\ n = worker.name /\ x = worker.key /\ Current(x)
  /\ \/ Initialises(x, y)
     \/ Succeeds(x, y)
     \/ Fails(x, y)
     \/ Holds(x, y)
     \/ MayRelease /\ x.finalizer /\ x.deleting = "foreground" /\ ~y.finalizer
          /\ y.uid = x.uid /\ y.phase = x.phase /\ y.keyID = x.keyID
          /\ y.owner = x.owner /\ y.deleting = x.deleting

(* Users and the garbage collector write from what is stored.              *)
OthersWrite(n, x, y) ==
  /\ x = Stored(keys)[n] /\ x.uid # 0
  /\ \/ Same(x, y)
     \/ /\ ~Deleting(x)
        /\ \E policy \in {"foreground", "background"} :
             /\ policy = "background" => x.finalizer
             /\ Same([x EXCEPT !.deleting = policy], y)

Appears(n, y) ==
  /\ Stored(keys)[n].uid = 0
  /\ Same([NoKey EXCEPT !.uid = born[n] + 1], y)
  /\ born' = [born EXCEPT ![n] = @ + 1]

Disappears(n) ==
  /\ born' = born
  /\ \E x \in Key :
       /\ x.uid # 0
       /\ \/ x = Stored(keys)[n]
          \/ worker.pc # "idle" /\ n = worker.name /\ x = worker.key /\ Current(x)
       /\ ~x.finalizer \/ (MayRelease /\ n = worker.name /\ x.deleting = "background")

KeyStep ==
  \/ KeysRest
  \/ \E n \in Names : \E y \in Key :
       /\ PutKey(n, y)
       /\ \/ Appears(n, y)
          \/ born' = born /\ \E x \in Key : WorkerWrites(n, x, y) \/ OthersWrite(n, x, y)
  \/ \E n \in Names : RemoveKey(n) /\ Disappears(n)

(* Logs may go; only a pod of j adds what it said.                         *)
LogsShrink ==
  /\ logs' \in [JobIds -> SUBSET (KeyIds \cup {None})]
  /\ \A i \in JobIds : logs'[i] \subseteq logs[i]

Says(j, said) ==
  /\ logs' \in [JobIds -> SUBSET (KeyIds \cup {None})]
  /\ \A i \in JobIds : logs'[i] = IF i = j THEN logs[i] \cup said ELSE logs[i]

JobsRest ==
  /\ jobs' \in Watched([JobIds -> Job])
  /\ Stored(jobs)' = Stored(jobs)
  /\ Seen(jobs)' \subseteq Seen(jobs)
  /\ restic' = restic
  /\ LogsShrink

(* The worker starts a Job, and is done.                                   *)
Makes(j, x) ==
  /\ FreshJob(j)
  /\ worker.pc # "idle" /\ worker' = Idle /\ restic' = restic /\ logs' = logs
  /\ x.live /\ x.key = worker.name /\ x.owner = worker.key.uid /\ x.store = worker.repo.uid
  /\ x.state = "Active"
  /\ \/ x.op = "add" /\ worker.pc = "makeJob"
     \/ x.op = "delete" /\ Deleting(worker.key) /\ x.arg = worker.key.keyID /\ x.arg # None

(* A pod of the Job ends.                                                  *)
Ends(j, x) ==
  /\ Stored(jobs)[j].live
  /\ SameJob(x, Stored(jobs)[j])
  /\ x.op = "delete" /\ x.state = "Complete" => RemovesKey(j)
  /\ \/ (restic' = restic \/ RemovesKey(j)) /\ (Says(j, {None}) \/ Says(j, {}))
     \/ \E id \in KeyIds : AddsKey(j, id) /\ (Says(j, {id}) \/ Says(j, {None}))

Collected(j, x) ==
  /\ x = NoJob /\ restic' = restic /\ LogsShrink /\ logs'[j] = {}
  /\ Stored(jobs)[j].live /\ Orphaned(Stored(jobs)[j].key, Stored(jobs)[j].owner)

JobStep ==
  \/ JobsRest
  \/ \E j \in JobIds : \E x \in Job : PutJob(j, x) /\ (Makes(j, x) \/ Ends(j, x) \/ Collected(j, x))

SecretsRest ==
  /\ secrets' \in Watched([Names -> Secret])
  /\ Stored(secrets)' = Stored(secrets)
  /\ Seen(secrets)' \subseteq Seen(secrets)

(* The worker makes the secret, and goes on.                               *)
Fills(n, x) ==
  /\ worker.pc # "idle" /\ n = worker.name /\ worker' = [worker EXCEPT !.pc = "makeJob"]
  /\ ~Stored(secrets)[n].live
  /\ x.live /\ x.owner = worker.key.uid /\ x.pw \in Passwords

Dropped(n, x) ==
  x = NoSecret /\ Stored(secrets)[n].live /\ Orphaned(n, Stored(secrets)[n].owner)

SecretStep ==
  \/ SecretsRest
  \/ \E n \in Names : \E x \in Secret : PutSecret(n, x) /\ (Fills(n, x) \/ Dropped(n, x))

ReposRest ==
  /\ repos' \in Watched([{RepoName} -> L!RepoViews])
  /\ repos' = repos \/ (Len(repos) > 1 /\ repos' = Tail(repos)) \/ repos' = Relisted(repos)
  /\ Stored(repos)' = Stored(repos)
  /\ Seen(repos)' \subseteq Seen(repos)
  /\ repoBorn' = repoBorn

RepoStep ==
  \/ ReposRest
  \/ \E v \in L!RepoViews :
       /\ PutRepo(v)
       /\ \/ v \in L!Appears(TheRepo, repoBorn + 1) /\ repoBorn' = repoBorn + 1
          \/ /\ v \in L!Progresses(TheRepo) \cup L!StartsDeletion(TheRepo) \cup L!Vanishes(TheRepo)
             /\ repoBorn' = repoBorn

(* The worker takes copies, keeps the answer to a write, or goes on.       *)
TakesCopies ==
  /\ worker.pc = "idle"
  /\ \E n \in Names :
       /\ Found(Cached(keys)[n])
       /\ worker' = [pc |-> "begin", name |-> n, key |-> Cached(keys)[n], repo |-> Cached(repos)[RepoName]]

KeepsAnswer ==
  /\ worker.pc # "idle" /\ worker.repo.uid # 0
  /\ \E y \in Key, pc \in {"own", "plan"} :
       /\ y.phase = "pending" /\ y.uid = worker.key.uid
       /\ pc = "own" => worker.key.phase = "nil" /\ Current(worker.key)
       /\ PutKey(worker.name, y)
       /\ worker' = [worker EXCEPT !.pc = pc, !.key = Versioned(worker.name, y)]

HasSecret ==
  /\ Wanted /\ IsCreated(worker.repo)
  /\ worker' = [worker EXCEPT !.pc = "makeJob"]
  /\ \/ \E x \in Secret : PutSecret(worker.name, x) /\ Fills(worker.name, x)
     \/ Cached(secrets)[worker.name].live /\ OwnsSecret(worker.key, Cached(secrets)[worker.name])

WorkerStep == worker' = worker \/ worker' = Idle \/ TakesCopies \/ KeepsAnswer \/ HasSecret

Counted ==
  /\ queue' \subseteq Names /\ operator' \in Nat
  /\ touches' \in 0..MaxTouch /\ faults' \in 0..MaxFaults

Classified == KeyStep /\ JobStep /\ SecretStep /\ RepoStep /\ WorkerStep /\ Counted

LEMMA Rests ==
  ASSUME TypeOK
  PROVE  /\ UNCHANGED <<keys, revision, born>> => KeysRest
         /\ UNCHANGED <<jobs, restic, logs>> => JobsRest
         /\ UNCHANGED secrets => SecretsRest
         /\ UNCHANGED <<repos, repoBorn>> => ReposRest
<1>1. /\ keys \in Watched([Names -> Key]) /\ jobs \in Watched([JobIds -> Job])
      /\ secrets \in Watched([Names -> Secret]) /\ repos \in Watched([{RepoName} -> L!RepoViews])
      /\ logs \in [JobIds -> SUBSET (KeyIds \cup {None})]
  BY DEF TypeOK
<1> QED
  BY <1>1 DEF KeysRest, JobsRest, LogsShrink, SecretsRest, ReposRest

(* Nothing but the worker and the queue changes.                           *)
LEMMA OnlyWorker ==
  ASSUME TInv, UNCHANGED <<keys, jobs, secrets, revision, world>>, WorkerStep, queue' \subseteq Names
  PROVE  Classified
<1>1. TypeOK
  BY DEF TInv
<1>2. operator' \in Nat /\ touches' \in 0..MaxTouch /\ faults' \in 0..MaxFaults
  BY <1>1 DEF TypeOK, world
<1>3. KeysRest /\ JobsRest /\ SecretsRest /\ ReposRest
  BY <1>1, Rests DEF world
<1> QED
  BY <1>2, <1>3 DEF Classified, KeyStep, JobStep, SecretStep, RepoStep, Counted

LEMMA AtWork ==
  ASSUME TInv, worker.pc # "idle"
  PROVE  /\ worker.name \in Names
         /\ worker.key \in Key /\ worker.key.uid # 0
         /\ worker.repo \in L!RepoViews
         /\ queue \subseteq Names
BY DEF TInv, TypeOK, WorkerKnows, Worker

LEMMA Retried ==
  ASSUME TInv, worker.pc # "idle", Retry, UNCHANGED world
  PROVE  Classified
<1>1. queue' \subseteq Names
  BY AtWork DEF Retry
<1> QED
  BY <1>1, OnlyWorker DEF Retry, WorkerStep

LEMMA Stopped ==
  ASSUME TInv, worker.pc # "idle", Stop, UNCHANGED world
  PROVE  Classified
<1>1. queue' \subseteq Names
  BY AtWork DEF Stop, Return
<1> QED
  BY <1>1, OnlyWorker DEF Stop, Return, WorkerStep

(* Only the worker, the queue and Keys change.                             *)
LEMMA OnlyKeys ==
  ASSUME TInv, UNCHANGED <<jobs, secrets, operator, logs, restic, repos, repoBorn, touches, faults>>,
         KeyStep, WorkerStep, queue' \subseteq Names
  PROVE  Classified
<1>1. TypeOK
  BY DEF TInv
<1>2. operator' \in Nat /\ touches' \in 0..MaxTouch /\ faults' \in 0..MaxFaults
  BY <1>1 DEF TypeOK
<1>3. JobsRest /\ SecretsRest /\ ReposRest
  BY <1>1, Rests
<1> QED
  BY <1>2, <1>3 DEF Classified, JobStep, SecretStep, RepoStep, Counted

LEMMA ReleaseIs ==
  ASSUME TInv, worker.pc # "idle", NEW again \in SUBSET Names, Release(worker.key, again), UNCHANGED world,
         Current(worker.key) => MayRelease
  PROVE  Classified
<1> DEFINE n == worker.name
           x == worker.key
           y == [x EXCEPT !.finalizer = FALSE]
<1>1. n \in Names /\ x \in Key /\ x.uid # 0 /\ queue \subseteq Names
  BY AtWork
<1>2. CASE Retry
  BY <1>2, Retried
<1>3. CASE worker' = Idle /\ queue' = queue \cup again /\ UNCHANGED <<keys, jobs, secrets, revision>>
  BY <1>1, <1>3, OnlyWorker DEF WorkerStep
<1>4. CASE Current(x) /\ x.finalizer /\ x.deleting = "background" /\ RemoveKey(n)
           /\ worker' = Idle /\ queue' = queue \cup again /\ UNCHANGED <<jobs, secrets>>
  <2>1. Disappears(n)
    BY <1>1, <1>4 DEF Disappears, world
  <2>2. KeyStep
    BY <1>1, <1>4, <2>1 DEF KeyStep
  <2> QED
    BY <1>1, <1>4, <2>2, OnlyKeys DEF world, WorkerStep
<1>5. CASE Current(x) /\ x.finalizer /\ x.deleting = "foreground" /\ PutKey(n, y)
           /\ worker' = Idle /\ queue' = queue \cup again /\ UNCHANGED <<jobs, secrets>>
  <2>1. PICK d \in BOOLEAN : d = FALSE
    OBVIOUS
  <2>2. y = [x EXCEPT !.finalizer = d]
    BY <2>1, Zenon
  <2>3. /\ [x EXCEPT !.finalizer = d] \in Key
        /\ [x EXCEPT !.finalizer = d].finalizer = d
        /\ [x EXCEPT !.finalizer = d].uid = x.uid
        /\ [x EXCEPT !.finalizer = d].phase = x.phase
        /\ [x EXCEPT !.finalizer = d].keyID = x.keyID
        /\ [x EXCEPT !.finalizer = d].owner = x.owner
        /\ [x EXCEPT !.finalizer = d].deleting = x.deleting
    BY <1>1 DEF Key
  <2> HIDE DEF y
  <2>4. y \in Key /\ WorkerWrites(n, x, y)
    BY <1>5, <2>1, <2>2, <2>3 DEF WorkerWrites
  <2>5. KeyStep
    BY <1>1, <1>5, <2>4 DEF KeyStep, world
  <2> QED
    BY <1>1, <1>5, <2>5, OnlyKeys DEF world, WorkerStep
<1> QED
  BY <1>2, <1>3, <1>4, <1>5 DEF Release

LEMMA RecordIs ==
  ASSUME TInv, worker.pc # "idle", NEW y \in Key, Record(y), UNCHANGED world,
         y.rv = worker.key.rv,
         Succeeds(worker.key, y) \/ Fails(worker.key, y)
  PROVE  Classified
<1>1. worker.name \in Names /\ worker.key \in Key /\ queue \subseteq Names
  BY AtWork
<1>2. CASE Current(y) /\ PutKey(worker.name, y) /\ Return /\ UNCHANGED <<jobs, secrets>>
  <2>1. Current(worker.key)
    BY <1>2 DEF Current
  <2>2. WorkerWrites(worker.name, worker.key, y)
    BY <2>1 DEF WorkerWrites
  <2>3. KeyStep
    BY <1>1, <1>2, <2>2 DEF KeyStep, world
  <2> QED
    BY <1>1, <1>2, <2>3, OnlyKeys DEF world, Return, WorkerStep
<1>3. CASE Retry
  BY <1>3, Retried
<1> QED
  BY <1>2, <1>3 DEF Record

LEMMA CreateJobIs ==
  ASSUME TInv, worker.pc # "idle", NEW x \in Job, CreateJob(x), UNCHANGED world,
         \A j \in JobIds : FreshJob(j) /\ worker' = Idle => Makes(j, x)
  PROVE  Classified
<1>1. CASE Retry
  BY <1>1, Retried
<1>2. CASE (\E j \in JobIds : FreshJob(j) /\ PutJob(j, x)) /\ Return /\ UNCHANGED <<keys, secrets, revision>>
  <2>1. JobStep
    BY <1>2 DEF JobStep, Return
  <2>2. TypeOK
    BY DEF TInv
  <2>3. KeysRest /\ SecretsRest /\ ReposRest
    BY <1>2, <2>2, Rests DEF world
  <2>4. operator' \in Nat /\ touches' \in 0..MaxTouch /\ faults' \in 0..MaxFaults /\ queue' \subseteq Names
    BY <1>2, <2>2 DEF TypeOK, world, Return
  <2> QED
    BY <1>2, <2>1, <2>3, <2>4 DEF Classified, KeyStep, SecretStep, RepoStep, WorkerStep, Return, Counted
<1> QED
  BY <1>1, <1>2 DEF CreateJob

-------------------------------------------------------------------------------
(* The steps of the worker.                                                *)

LEMMA StepOfStart ==
  ASSUME TInv, NEW n \in Names, Start(n)
  PROVE  Classified
<1>1. queue' \subseteq Names /\ UNCHANGED <<keys, jobs, secrets, revision, world>>
  BY DEF TInv, TypeOK, Start
<1>2. WorkerStep
  BY DEF Start, WorkerStep, TakesCopies
<1> QED
  BY <1>1, <1>2, OnlyWorker

(* Past the early returns a Key has its conditions.                        *)
LEMMA Plans ==
  ASSUME TInv, Planning
  PROVE  worker.pc # "idle" /\ worker.repo.uid # 0 /\ worker.key.phase # "nil"
BY DEF Planning, TInv, WorkerKnows

LEMMA WantsOutcome ==
  ASSUME TInv, Wanted
  PROVE  /\ worker.pc # "idle" /\ worker.repo.uid # 0
         /\ worker.key.phase = "pending" /\ ~Deleting(worker.key)
<1>1. Planning /\ ~Deleting(worker.key) /\ ~Settled(worker.key)
  BY DEF Wanted
<1>2. worker.pc # "idle" /\ worker.repo.uid # 0 /\ worker.key.phase # "nil"
  BY <1>1, Plans
<1>3. worker.key.phase \in L!Phases
  BY <1>2, AtWork DEF Key
<1> QED
  BY <1>1, <1>2, <1>3 DEF Settled, IsCreated, IsFailed, L!Phases

LEMMA StepOfSetDefaults ==
  ASSUME TInv, SetDefaults
  PROVE  Classified
<1> DEFINE n == worker.name
           x == worker.key
           y == [x EXCEPT !.phase = "pending"]
<1>1. worker.pc = "begin" /\ worker.repo.uid # 0 /\ x.phase = "nil" /\ UNCHANGED world
  BY DEF SetDefaults
<1>2. n \in Names /\ x \in Key /\ queue \subseteq Names
  BY <1>1, AtWork
<1>3. y \in Key /\ y.phase = "pending" /\ y.uid = x.uid /\ Initialises(x, y)
  BY <1>1, <1>2 DEF Key, L!Phases, Initialises, Same
<1>4. CASE /\ Current(x) /\ PutKey(n, y)
           /\ worker' = [worker EXCEPT !.pc = "own", !.key = Versioned(n, y)]
           /\ UNCHANGED <<jobs, secrets, queue>>
  <2> HIDE DEF y
  <2>1. WorkerWrites(n, x, y)
    BY <1>1, <1>3, <1>4 DEF WorkerWrites
  <2>2. KeyStep
    BY <1>1, <1>2, <1>3, <1>4, <2>1 DEF KeyStep, world
  <2>3. KeepsAnswer
    BY <1>1, <1>3, <1>4 DEF KeepsAnswer
  <2> QED
    BY <1>1, <1>2, <1>4, <2>2, <2>3, OnlyKeys DEF world, WorkerStep
<1>5. CASE Retry
  BY <1>1, <1>5, Retried
<1> QED
  BY <1>4, <1>5 DEF SetDefaults, Versioned

LEMMA StepOfOwn ==
  ASSUME TInv, Own
  PROVE  Classified
<1> DEFINE n == worker.name
           x == worker.key
           y == [x EXCEPT !.owner = worker.repo.uid, !.finalizer = TRUE]
<1>1. worker.pc = "own" /\ UNCHANGED world
  BY DEF Own
<1>2. n \in Names /\ x \in Key /\ queue \subseteq Names /\ worker.repo.uid \in Nat
  BY <1>1, AtWork DEF L!RepoViews
<1>3. x.phase = "pending" /\ worker.repo.uid # 0
  BY <1>1 DEF TInv, WorkerKnows
<1>4. PICK d \in BOOLEAN : d = TRUE
  OBVIOUS
<1>5. y = [x EXCEPT !.owner = worker.repo.uid, !.finalizer = d]
  BY <1>4, Zenon
<1> HIDE DEF y
<1>6. /\ y \in Key /\ y.finalizer = d /\ y.owner = worker.repo.uid
      /\ y.uid = x.uid /\ y.phase = x.phase /\ y.keyID = x.keyID /\ y.deleting = x.deleting
  BY <1>2, <1>5 DEF Key
<1>7. CASE /\ Current(x) /\ ~Deleting(x) /\ PutKey(n, y)
           /\ worker' = [worker EXCEPT !.pc = "plan", !.key = Versioned(n, y)]
           /\ UNCHANGED <<jobs, secrets, queue>>
  <2>1. WorkerWrites(n, x, y)
    BY <1>1, <1>3, <1>4, <1>6, <1>7 DEF WorkerWrites, Holds
  <2>2. KeyStep
    BY <1>1, <1>2, <1>6, <1>7, <2>1 DEF KeyStep, world
  <2>3. KeepsAnswer
    BY <1>1, <1>3, <1>6, <1>7 DEF KeepsAnswer
  <2> QED
    BY <1>1, <1>2, <1>7, <2>2, <2>3, OnlyKeys DEF world, WorkerStep
<1>8. CASE Retry
  BY <1>1, <1>8, Retried
<1> QED
  BY <1>7, <1>8 DEF Own, Versioned, y

LEMMA StepOfEnsureSecret ==
  ASSUME TInv, EnsureSecret
  PROVE  Classified
<1> DEFINE n == worker.name
           next == worker' = [worker EXCEPT !.pc = "makeJob"] /\ UNCHANGED <<queue, keys, jobs, revision>>
<1>1. Wanted /\ IsCreated(worker.repo) /\ UNCHANGED world
  BY DEF EnsureSecret
<1>2. worker.pc # "idle" /\ n \in Names /\ worker.key \in Key /\ queue \subseteq Names
  BY <1>1, WantsOutcome, AtWork
<1>3. TypeOK
  BY DEF TInv
<1>4. ASSUME NEW pw \in Passwords, ~Stored(secrets)[n].live, next,
             PutSecret(n, [live |-> TRUE, owner |-> worker.key.uid, pw |-> pw])
      PROVE  Classified
  <2> DEFINE x == [live |-> TRUE, owner |-> worker.key.uid, pw |-> pw]
  <2>1. x \in Secret /\ x.live /\ x.owner = worker.key.uid /\ x.pw = pw
    BY <1>2 DEF Secret, Key
  <2>2. PutSecret(n, x)
    BY <1>4
  <2> HIDE DEF x
  <2>3. Fills(n, x)
    BY <1>2, <1>4, <2>1 DEF Fills
  <2>4. SecretStep /\ WorkerStep
    BY <1>1, <1>2, <1>4, <2>1, <2>2, <2>3 DEF SecretStep, WorkerStep, HasSecret
  <2>5. KeysRest /\ JobsRest /\ ReposRest
    BY <1>1, <1>3, <1>4, Rests DEF world
  <2>6. Counted
    BY <1>1, <1>2, <1>3, <1>4 DEF Counted, TypeOK, world
  <2> QED
    BY <2>4, <2>5, <2>6 DEF Classified, KeyStep, JobStep, RepoStep
<1>5. CASE Cached(secrets)[n].live /\ OwnsSecret(worker.key, Cached(secrets)[n]) /\ next /\ UNCHANGED secrets
  <2>1. WorkerStep
    BY <1>1, <1>5 DEF WorkerStep, HasSecret
  <2> QED
    BY <1>1, <1>2, <1>5, <2>1, OnlyWorker
<1>6. CASE Retry
  BY <1>1, <1>2, <1>6, Retried
<1> QED
  BY <1>4, <1>5, <1>6 DEF EnsureSecret

LEMMA StepOfRecording ==
  ASSUME TInv, RecordCreated \/ RecordFailed
  PROVE  Classified
<1> DEFINE x == worker.key
<1>1. Wanted /\ UNCHANGED world
  BY DEF RecordCreated, RecordFailed, CheckActiveJobStatus
<1>2. worker.pc # "idle" /\ x \in Key /\ x.phase = "pending" /\ ~Deleting(x)
  BY <1>1, WantsOutcome, AtWork
<1>3. CASE RecordCreated
  <2>1. PICK j \in JobsFor("add") : \E id \in logs[j] \ {None} : Record(SetCreatedCondition(x, id))
    BY <1>3 DEF RecordCreated
  <2>2. PICK id \in logs[j] \ {None} : Record(SetCreatedCondition(x, id))
    BY <2>1
  <2>3. id \in KeyIds
    BY <2>2 DEF TInv, TypeOK, JobsFor, KeyJobs
  <2> DEFINE y == SetCreatedCondition(x, id)
  <2>4. /\ y \in Key /\ y.rv = x.rv /\ y.phase = "created" /\ y.keyID = id
        /\ y.uid = x.uid /\ y.finalizer = x.finalizer /\ y.owner = x.owner /\ y.deleting = x.deleting
    BY <1>2, <2>3 DEF SetCreatedCondition, Key, L!Phases
  <2>5. Record(y)
    BY <2>2
  <2> HIDE DEF y
  <2>6. Succeeds(x, y)
    BY <1>2, <2>2, <2>4 DEF Succeeds
  <2> QED
    BY <1>1, <1>2, <2>4, <2>5, <2>6, RecordIs
<1>4. CASE RecordFailed
  <2> DEFINE y == SetFailedCondition(x)
  <2>1. y \in Key /\ y.rv = x.rv /\ Fails(x, y)
    BY <1>2 DEF SetFailedCondition, Fails, Same, Key, L!Phases
  <2>2. Record(y)
    BY <1>4 DEF RecordFailed
  <2> HIDE DEF y
  <2> QED
    BY <1>1, <1>2, <2>1, <2>2, RecordIs
<1> QED
  BY <1>3, <1>4

LEMMA StepOfJobs ==
  ASSUME TInv, StartAddJob \/ StartDeleteJob
  PROVE  Classified
<1>1. CASE StartAddJob
  <2> DEFINE x == CreateAddKeyJob(worker.name, worker.repo, worker.key)
  <2>1. worker.pc = "makeJob" /\ CreateJob(x) /\ UNCHANGED world
    BY <1>1 DEF StartAddJob
  <2>2. /\ x \in Job /\ x.live /\ x.key = worker.name /\ x.owner = worker.key.uid
        /\ x.op = "add" /\ x.store = worker.repo.uid /\ x.state = "Active"
    BY <2>1, AtWork, MadeJobs
  <2> HIDE DEF x
  <2>3. \A j \in JobIds : FreshJob(j) /\ worker' = Idle => Makes(j, x)
    BY <2>1, <2>2 DEF Makes, world
  <2> QED
    BY <2>1, <2>2, <2>3, CreateJobIs
<1>2. CASE StartDeleteJob
  <2> DEFINE x == CreateDeleteKeyJob(worker.name, worker.repo, worker.key)
  <2>1. worker.pc # "idle" /\ Deleting(worker.key) /\ UNCHANGED world
    BY <1>2, Plans DEF StartDeleteJob, Unwanted
  <2>2. /\ x \in Job /\ x.live /\ x.key = worker.name /\ x.owner = worker.key.uid
        /\ x.op = "delete" /\ x.store = worker.repo.uid /\ x.arg = worker.key.keyID
        /\ x.state = "Active"
    BY <2>1, AtWork, MadeJobs
  <2>3. CASE worker.key.keyID # None /\ CreateJob(x)
    <3> HIDE DEF x
    <3>1. \A j \in JobIds : FreshJob(j) /\ worker' = Idle => Makes(j, x)
      BY <2>1, <2>2, <2>3 DEF Makes, world
    <3> QED
      BY <2>1, <2>2, <2>3, <3>1, CreateJobIs
  <2>4. CASE Retry
    BY <2>1, <2>4, Retried
  <2> QED
    BY <1>2, <2>3, <2>4 DEF StartDeleteJob
<1> QED
  BY <1>1, <1>2

LEMMA StepOfWorker ==
  ASSUME TInv, Step
  PROVE  Classified
<1>1. CASE RepositoryGone
  <2>1. worker.pc # "idle" /\ UNCHANGED world
    BY <1>1 DEF RepositoryGone
  <2>2. Current(worker.key) => MayRelease
    BY <1>1 DEF RepositoryGone, MayRelease
  <2> QED
    BY <1>1, <2>1, <2>2, ReleaseIs, Retried DEF RepositoryGone
<1>2. CASE SettledAlready
  <2>1. worker.pc # "idle"
    BY <1>2, Plans DEF SettledAlready
  <2> QED
    BY <1>2, <2>1, Stopped DEF SettledAlready
<1>3. CASE RepositoryNotReady \/ NoMatch \/ NoPods
  <2>1. worker.pc # "idle" /\ UNCHANGED world /\ Retry
    BY <1>3, WantsOutcome DEF RepositoryNotReady, NoMatch, NoPods, CheckActiveJobStatus
  <2> QED
    BY <2>1, Retried
<1>4. CASE JobsRunning \/ NothingToRecord
  <2>1. worker.pc # "idle" /\ UNCHANGED world /\ Stop
    BY <1>4, WantsOutcome DEF JobsRunning, NothingToRecord, CheckActiveJobStatus
  <2> QED
    BY <2>1, Stopped
<1>5. CASE RepositoryGoing
  <2>1. worker.pc # "idle"
    BY <1>5, Plans DEF RepositoryGoing, Unwanted
  <2>2. Current(worker.key) => MayRelease
    BY <1>5, <2>1 DEF RepositoryGoing, MayRelease
  <2> QED
    BY <1>5, <2>1, <2>2, ReleaseIs DEF RepositoryGoing
<1>6. CASE CheckDeleteJobStatus
  <2>1. worker.pc # "idle" /\ UNCHANGED world
    BY <1>6, Plans DEF CheckDeleteJobStatus, Unwanted
  <2>2. \/ /\ Release(worker.key, {}) \/ Release(worker.key, {worker.name})
           /\ Current(worker.key) => MayRelease
        \/ Stop \/ Retry
    BY <1>6, <2>1 DEF CheckDeleteJobStatus, MayRelease
  <2>3. {} \subseteq Names /\ {worker.name} \subseteq Names
    BY <2>1, AtWork
  <2> QED
    BY <2>1, <2>2, <2>3, ReleaseIs, Stopped, Retried
<1> QED
  BY <1>1, <1>2, <1>3, <1>4, <1>5, <1>6, StepOfSetDefaults, StepOfOwn, StepOfEnsureSecret,
     StepOfRecording, StepOfJobs
     DEF Step, CreateSteps, DeleteSteps

-------------------------------------------------------------------------------
(* The steps of everything else.                                           *)

LEMMA OnlyJobs ==
  ASSUME TInv, UNCHANGED <<keys, secrets, operator, revision, born, repos, repoBorn, worker, touches, faults>>,
         JobStep, queue' \subseteq Names
  PROVE  Classified
<1>1. TypeOK
  BY DEF TInv
<1>2. operator' \in Nat /\ touches' \in 0..MaxTouch /\ faults' \in 0..MaxFaults
  BY <1>1 DEF TypeOK
<1>3. KeysRest /\ SecretsRest /\ ReposRest
  BY <1>1, Rests
<1> QED
  BY <1>2, <1>3 DEF Classified, KeyStep, SecretStep, RepoStep, WorkerStep, Counted

LEMMA OnlySecrets ==
  ASSUME TInv, UNCHANGED <<keys, jobs, queue, worker, revision, world>>, SecretStep
  PROVE  Classified
<1>1. TypeOK
  BY DEF TInv
<1>2. Counted
  BY <1>1 DEF Counted, TypeOK, world
<1>3. KeysRest /\ JobsRest /\ ReposRest
  BY <1>1, Rests DEF world
<1> QED
  BY <1>2, <1>3 DEF Classified, KeyStep, JobStep, RepoStep, WorkerStep

LEMMA OnlyRepos ==
  ASSUME TInv, RepoStep,
         UNCHANGED <<keys, jobs, secrets, logs, restic, queue, worker, born, revision, touches, faults>>,
         operator' \in Nat
  PROVE  Classified
<1>1. TypeOK
  BY DEF TInv
<1>2. Counted
  BY <1>1 DEF Counted, TypeOK
<1>3. KeysRest /\ JobsRest /\ SecretsRest
  BY <1>1, Rests
<1> QED
  BY <1>2, <1>3 DEF Classified, KeyStep, JobStep, SecretStep, WorkerStep

LEMMA StepOfFailures ==
  ASSUME TInv, CallFails \/ Restart
  PROVE  Classified
<1>1. TypeOK
  BY DEF TInv
<1>2. CASE CallFails
  <2>1. worker.pc # "idle" /\ faults' \in 0..MaxFaults /\ touches' \in 0..MaxTouch /\ operator' \in Nat
    BY <1>1, <1>2, BoundsAssumption DEF TypeOK, CallFails
  <2>2. queue' \subseteq Names /\ worker' = Idle
    BY <1>2, <2>1, AtWork DEF CallFails, Retry
  <2>3. KeysRest /\ JobsRest /\ SecretsRest /\ ReposRest
    BY <1>1, <1>2, Rests DEF CallFails, Retry
  <2> QED
    BY <2>1, <2>2, <2>3 DEF Classified, KeyStep, JobStep, SecretStep, RepoStep, WorkerStep, Counted
<1>3. CASE Restart
  <2>1. /\ keys \in Watched([Names -> Key]) /\ jobs \in Watched([JobIds -> Job])
        /\ secrets \in Watched([Names -> Secret]) /\ repos \in Watched([{RepoName} -> L!RepoViews])
    BY <1>1 DEF TypeOK
  <2>2. KeysRest /\ JobsRest /\ SecretsRest /\ ReposRest
    BY <1>1, <1>3, <2>1, Restarted, ObjectTypes
       DEF Restart, KeysRest, JobsRest, LogsShrink, TypeOK, SecretsRest, ReposRest
  <2>3. Counted
    BY <1>1, <1>3, BoundsAssumption DEF Counted, TypeOK, Restart
  <2> QED
    BY <1>3, <2>2, <2>3 DEF Classified, KeyStep, JobStep, SecretStep, RepoStep, WorkerStep, Restart
<1> QED
  BY <1>2, <1>3

LEMMA StepOfDeliver ==
  ASSUME TInv, Deliver
  PROVE  Classified
<1>1. TypeOK
  BY DEF TInv
<1>2. /\ keys \in Watched([Names -> Key]) /\ jobs \in Watched([JobIds -> Job])
      /\ secrets \in Watched([Names -> Secret]) /\ repos \in Watched([{RepoName} -> L!RepoViews])
      /\ queue \subseteq Names
  BY <1>1 DEF TypeOK
<1>3. CASE DeliverKey
  <2>1. KeysRest
    BY <1>2, <1>3, Delivered DEF DeliverKey, KeysRest, world
  <2>2. queue' \subseteq Names
    BY <1>2, <1>3, AnnouncedNames DEF DeliverKey
  <2> QED
    BY <1>3, <2>1, <2>2, OnlyKeys DEF DeliverKey, world, KeyStep, WorkerStep
<1>4. CASE DeliverJob
  <2>1. JobsRest
    BY <1>2, <1>4, Delivered DEF DeliverJob, JobsRest, LogsShrink, world, TInv, TypeOK
  <2>2. OwnersOf(jobs) \subseteq Names
    <3> SUFFICES ASSUME NEW i \in 1..2, NEW j \in Announced(jobs), jobs[i][j].key # None
                 PROVE  jobs[i][j].key \in Names
      BY DEF OwnersOf
    <3>1. jobs[i] \in Seen(jobs)
      BY <1>2, <1>4, Snapshots DEF DeliverJob, Seen
    <3>2. j \in JobIds
      BY <1>2, AnnouncedNames
    <3>3. jobs[i][j] \in Job
      BY <1>1, <3>1, <3>2, ObjectTypes
    <3> QED
      BY <3>3 DEF Job
  <2>3. queue' \subseteq Names
    BY <1>2, <1>4, <2>2 DEF DeliverJob
  <2> QED
    BY <1>4, <2>1, <2>3, OnlyJobs DEF DeliverJob, world, JobStep
<1>5. CASE DeliverSecret
  <2>1. SecretsRest
    BY <1>2, <1>5, Delivered DEF DeliverSecret, SecretsRest
  <2> QED
    BY <1>5, <2>1, OnlySecrets DEF DeliverSecret, SecretStep
<1>6. CASE DeliverRepo
  <2>1. ReposRest
    BY <1>2, <1>6, Delivered DEF DeliverRepo, ReposRest
  <2> QED
    BY <1>6, <2>1, OnlyRepos DEF DeliverRepo, RepoStep, TInv, TypeOK
<1> QED
  BY <1>3, <1>4, <1>5, <1>6 DEF Deliver

LEMMA StepOfResync ==
  ASSUME TInv, NEW n \in Names, Resync(n)
  PROVE  Classified
BY OnlyWorker DEF TInv, TypeOK, Resync, WorkerStep

(* A delete request, a user's or the garbage collector's.                  *)
LEMMA StepOfDelete ==
  ASSUME TInv, NEW n \in Names, NEW policy \in {"foreground", "background"}, Delete(n, policy)
  PROVE  Classified
<1> DEFINE x == Stored(keys)[n]
           y == [x EXCEPT !.deleting = policy]
<1>1. x \in Key /\ x.uid # 0 /\ ~Deleting(x) /\ UNCHANGED world
  BY ObjectTypes DEF TInv, Delete
<1>2. CASE policy = "background" /\ ~x.finalizer /\ RemoveKey(n)
  <2>1. Disappears(n)
    BY <1>1, <1>2 DEF Disappears, world
  <2>2. KeyStep
    BY <1>2, <2>1 DEF KeyStep
  <2> QED
    BY <2>2, OnlyKeys DEF Delete, world, WorkerStep, TInv, TypeOK
<1>3. CASE (policy = "foreground" \/ x.finalizer) /\ PutKey(n, y)
  <2>1. y \in Key /\ OthersWrite(n, x, y)
    BY <1>1, <1>3 DEF Key, OthersWrite, Same
  <2> HIDE DEF y
  <2>2. KeyStep
    BY <1>1, <1>3, <2>1 DEF KeyStep, world
  <2> QED
    BY <2>2, OnlyKeys DEF Delete, world, WorkerStep, TInv, TypeOK
<1> QED
  BY <1>2, <1>3 DEF Delete

LEMMA StepOfUser ==
  ASSUME TInv, NEW n \in Names, User(n)
  PROVE  Classified
<1>1. TypeOK
  BY DEF TInv
<1>2. CASE UserCreates(n)
  <2> DEFINE y == [NoKey EXCEPT !.uid = born[n] + 1]
  <2>1. born[n] + 1 \in Nat
    BY <1>1 DEF TypeOK
  <2>2. y \in Key /\ Appears(n, y)
    BY <1>2, <2>1 DEF UserCreates, Appears, Same, NoKey, Key, L!Phases
  <2>3. PutKey(n, y)
    BY <1>2 DEF UserCreates
  <2> HIDE DEF y
  <2>4. KeyStep
    BY <2>2, <2>3 DEF KeyStep
  <2> QED
    BY <1>1, <1>2, <2>4, OnlyKeys DEF UserCreates, WorkerStep, TypeOK
<1>3. CASE UserEdits(n)
  <2> DEFINE x == Stored(keys)[n]
  <2>1. x \in Key /\ OthersWrite(n, x, x) /\ PutKey(n, x)
    BY <1>1, <1>3, ObjectTypes DEF UserEdits, OthersWrite, Same
  <2> HIDE DEF x
  <2>2. KeyStep
    BY <1>3, <2>1 DEF KeyStep, UserEdits
  <2>3. operator' \in Nat /\ touches' \in 0..MaxTouch /\ faults' \in 0..MaxFaults /\ queue' \subseteq Names
    BY <1>1, <1>3, BoundsAssumption DEF TypeOK, UserEdits
  <2>4. JobsRest /\ SecretsRest /\ ReposRest
    BY <1>1, <1>3, Rests DEF UserEdits
  <2> QED
    BY <1>3, <2>2, <2>3, <2>4 DEF Classified, JobStep, SecretStep, RepoStep, WorkerStep, UserEdits, Counted
<1>4. CASE UserDeletes(n)
  BY <1>4, StepOfDelete, PoliciesAssumption DEF UserDeletes
<1> QED
  BY <1>2, <1>3, <1>4 DEF User

LEMMA StepOfCollect ==
  ASSUME TInv, NEW n \in Names, Collect(n)
  PROVE  Classified
<1>1. CASE CollectKey(n)
  BY <1>1, StepOfDelete DEF CollectKey
<1>2. CASE FinishKey(n)
  <2>1. Disappears(n)
    BY <1>2, ObjectTypes DEF TInv, KeysExist, Deleting, FinishKey, Disappears, world
  <2> QED
    BY <1>2, <2>1, OnlyKeys DEF FinishKey, world, KeyStep, WorkerStep, TInv, TypeOK
<1>3. CASE CollectSecret(n)
  <2>1. Dropped(n, NoSecret) /\ PutSecret(n, NoSecret) /\ NoSecret \in Secret
    BY <1>3, NoObjects DEF CollectSecret, Dropped
  <2> QED
    BY <1>3, <2>1, OnlySecrets DEF CollectSecret, SecretStep
<1> QED
  BY <1>1, <1>2, <1>3 DEF Collect

LEMMA StepOfRepo ==
  ASSUME TInv, RepoChanges
  PROVE  Classified
<1>1. TheRepo \in L!RepoViews /\ repoBorn \in Nat /\ operator \in Nat
  BY ObjectTypes DEF TInv, TypeOK, TheRepo
<1>2. repoBorn + 1 \in Nat /\ TheRepo.uid \in Nat
  BY <1>1 DEF L!RepoViews
<1>3. CASE RepoAppears \/ RepoProgresses \/ RepoStartsDeletion \/ RepoVanishes
  <2>1. RepoStep
    BY <1>1, <1>2, <1>3, ViewsStay
       DEF RepoAppears, RepoProgresses, RepoStartsDeletion, RepoVanishes, RepoStep
  <2> QED
    BY <1>1, <1>3, <2>1, OnlyRepos DEF RepoAppears, RepoProgresses, RepoStartsDeletion, RepoVanishes
<1>4. CASE OperatorSecretAppears \/ OperatorSecretCollected
  <2>1. RepoStep /\ operator' \in Nat
    BY <1>2, <1>4, Rests DEF OperatorSecretAppears, OperatorSecretCollected, RepoStep, TInv
  <2> QED
    BY <1>4, <2>1, OnlyRepos DEF OperatorSecretAppears, OperatorSecretCollected
<1> QED
  BY <1>3, <1>4 DEF RepoChanges

LEMMA LoggedSays ==
  ASSUME TypeOK, NEW j \in JobIds, NEW said \in KeyIds \cup {None}, Logged(j, said)
  PROVE  Says(j, {said})
<1>1. logs \in [JobIds -> SUBSET (KeyIds \cup {None})]
  BY DEF TypeOK
<1> QED
  BY <1>1 DEF Logged, Says

LEMMA StepOfJob ==
  ASSUME TInv, NEW j \in JobIds, CollectJob(j) \/ Pod(j) \/ LogsLost(j)
  PROVE  Classified
<1> DEFINE x == Stored(jobs)[j]
<1>1. x \in Job /\ TypeOK /\ logs \in [JobIds -> SUBSET (KeyIds \cup {None})]
  BY ObjectTypes DEF TInv, TypeOK
<1>2. CASE CollectJob(j)
  <2>1. LogsShrink /\ logs'[j] = {}
    BY <1>1, <1>2 DEF CollectJob, LogsShrink
  <2>2. Collected(j, NoJob) /\ PutJob(j, NoJob) /\ NoJob \in Job
    BY <1>2, <2>1, NoObjects DEF CollectJob, Collected
  <2> QED
    BY <1>2, <2>2, OnlyJobs DEF CollectJob, JobStep, TInv, TypeOK
<1>3. ASSUME JobStep, Elsewhere
      PROVE  Classified
  BY <1>3, OnlyJobs DEF Elsewhere, TInv, TypeOK
<1>4. ASSUME NEW y \in Job, PutJob(j, y), Ends(j, y), Elsewhere
      PROVE  Classified
  BY <1>3, <1>4 DEF JobStep
<1>5. CASE AddPodSucceeds(j)
  <2>1. PICK id \in KeyIds : AddsKey(j, id) /\ Logged(j, id)
    BY <1>5 DEF AddPodSucceeds
  <2> DEFINE y == [x EXCEPT !.state = "Complete"]
  <2>2. y \in Job /\ SameJob(y, x) /\ PutJob(j, y) /\ Elsewhere
    BY <1>1, <1>5, PodEnds DEF AddPodSucceeds
  <2> HIDE DEF y
  <2>3. Ends(j, y)
    BY <1>1, <2>1, <2>2, LoggedSays DEF Ends, AddsKey, Running, SameJob
  <2> QED
    BY <1>4, <2>2, <2>3
<1>6. CASE AddPodLost(j)
  <2>1. PICK id \in KeyIds : AddsKey(j, id) /\ (Logged(j, id) \/ Logged(j, None))
    BY <1>6 DEF AddPodLost
  <2>2. FailedPod(x) \in Job /\ SameJob(FailedPod(x), x) /\ PutJob(j, FailedPod(x)) /\ Elsewhere
    BY <1>1, <1>6, PodEnds DEF AddPodLost
  <2>3. Ends(j, FailedPod(x))
    BY <1>1, <2>1, <2>2, LoggedSays DEF Ends, AddsKey, Running, SameJob
  <2> QED
    BY <1>4, <2>2, <2>3
<1>7. CASE PodFails(j)
  <2>1. /\ FailedPod(x) \in Job /\ SameJob(FailedPod(x), x) /\ FailedPod(x).state # "Complete"
        /\ PutJob(j, FailedPod(x)) /\ Elsewhere /\ Says(j, {None})
    BY <1>1, <1>7, PodEnds, LoggedSays DEF PodFails
  <2>2. Ends(j, FailedPod(x))
    BY <1>7, <2>1 DEF PodFails, Ends, Running
  <2> QED
    BY <1>4, <2>1, <2>2
<1>8. CASE DeletePodSucceeds(j)
  <2> DEFINE y == [x EXCEPT !.state = "Complete"]
  <2>1. y \in Job /\ SameJob(y, x) /\ PutJob(j, y) /\ RemovesKey(j) /\ Elsewhere
    BY <1>1, <1>8, PodEnds DEF DeletePodSucceeds
  <2>2. Says(j, {})
    BY <1>1, <1>8 DEF DeletePodSucceeds, Says
  <2> HIDE DEF y
  <2>3. Ends(j, y)
    BY <2>1, <2>2 DEF Ends, RemovesKey, Running
  <2> QED
    BY <1>4, <2>1, <2>3
<1>9. CASE DeletePodLost(j)
  <2>1. /\ FailedPod(x) \in Job /\ SameJob(FailedPod(x), x) /\ PutJob(j, FailedPod(x))
        /\ RemovesKey(j) /\ Elsewhere /\ Says(j, {None})
    BY <1>1, <1>9, PodEnds, LoggedSays DEF DeletePodLost
  <2>2. Ends(j, FailedPod(x))
    BY <2>1 DEF Ends, RemovesKey, Running
  <2> QED
    BY <1>4, <2>1, <2>2
<1>10. CASE LogsLost(j)
  <2>1. LogsShrink
    BY <1>1, <1>10 DEF LogsLost, LogsShrink
  <2>2. JobsRest
    BY <1>1, <1>10, <2>1 DEF LogsLost, JobsRest, TypeOK
  <2> QED
    BY <1>3, <1>10, <2>2 DEF JobStep, LogsLost
<1> QED
  BY <1>2, <1>5, <1>6, <1>7, <1>8, <1>9, <1>10 DEF Pod

LEMMA EveryStep ==
  ASSUME TInv, [Next]_vars
  PROVE  Classified
<1>1. CASE Next
  BY <1>1, StepOfWorker, StepOfFailures, StepOfDeliver, StepOfRepo, StepOfStart, StepOfResync,
     StepOfUser, StepOfCollect, StepOfJob DEF Next
<1>2. CASE UNCHANGED vars
  BY <1>2, OnlyWorker DEF vars, world, WorkerStep, TInv, TypeOK
<1> QED
  BY <1>1, <1>2

-------------------------------------------------------------------------------
(* Type correctness.                                                       *)

LEMMA TypeInit == Init => TInv
<1> SUFFICES ASSUME Init PROVE TInv
  OBVIOUS
<1> USE DEF Init
<1>1. /\ [n \in {RepoName} |-> L!NoView] \in [{RepoName} -> L!RepoViews]
      /\ [n \in Names |-> NoKey] \in [Names -> Key]
      /\ [j \in JobIds |-> NoJob] \in [JobIds -> Job]
      /\ [n \in Names |-> NoSecret] \in [Names -> Secret]
  BY NoObjects, NoViewType
<1>2. /\ repos \in Watched([{RepoName} -> L!RepoViews]) /\ keys \in Watched([Names -> Key])
      /\ jobs \in Watched([JobIds -> Job]) /\ secrets \in Watched([Names -> Secret])
      /\ Seen(keys) = {[n \in Names |-> NoKey]} /\ Seen(jobs) = {[j \in JobIds |-> NoJob]}
  BY <1>1, Single
<1>3. worker \in Worker /\ worker.pc = "idle"
  BY NoObjects
<1>4. touches \in 0..MaxTouch /\ faults \in 0..MaxFaults
  BY BoundsAssumption
<1>5. restic \in [KeyIds -> ResticKey]
  BY DEF ResticKey
<1>6. TypeOK
  BY <1>2, <1>3, <1>4, <1>5 DEF TypeOK
<1>7. JobsLabelled /\ WorkerKnows
  BY <1>2, <1>3, NoObjects DEF JobsLabelled, WorkerKnows
<1>8. KeysExist
  <2>1. NoKey.deleting = "no"
    BY DEF NoKey
  <2>2. \A s \in Seen(keys), n \in Names : s[n] = NoKey
    BY <1>2
  <2> QED
    BY <2>1, <2>2 DEF KeysExist, Deleting
<1> QED
  BY <1>6, <1>7, <1>8 DEF TInv

LEMMA TypeKeys ==
  ASSUME TInv, KeyStep
  PROVE  /\ keys' \in Watched([Names -> Key]) /\ KeysExist'
         /\ revision' \in [Names -> Nat] /\ born' \in [Names -> Nat]
<1>1. TypeOK /\ KeysExist /\ revision \in [Names -> Nat] /\ born \in [Names -> Nat]
  BY DEF TInv, TypeOK
<1>2. Stored(keys) \in Seen(keys) /\ Seen(keys) \subseteq [Names -> Key]
  BY <1>1, ObjectTypes
<1>3. CASE KeysRest
  BY <1>1, <1>3 DEF KeysRest, KeysExist
<1>4. ASSUME NEW n \in Names, NEW y \in Key, PutKey(n, y), y.uid # 0
      PROVE  keys' \in Watched([Names -> Key]) /\ KeysExist' /\ revision' \in [Names -> Nat]
  <2>1. /\ keys' \in Watched([Names -> Key]) /\ revision' \in [Names -> Nat]
        /\ Seen(keys)' = Seen(keys) \cup {Changed(keys, n, Versioned(n, y))}
        /\ Versioned(n, y).uid # 0
    BY <1>1, <1>4, PutKeyWrites, VersionedIs
  <2>2. KeysExist'
    <3> SUFFICES ASSUME NEW m \in Names, NEW s \in Seen(keys)', s[m].uid = 0
                 PROVE  ~Deleting(s[m])
      BY DEF KeysExist
    <3>1. CASE s \in Seen(keys)
      BY <1>1, <3>1 DEF KeysExist
    <3>2. CASE s = Changed(keys, n, Versioned(n, y))
      BY <1>1, <1>2, <2>1, <3>2 DEF KeysExist, Changed
    <3> QED
      BY <2>1, <3>1, <3>2
  <2> QED
    BY <2>1, <2>2
<1>5. ASSUME NEW n \in Names, NEW y \in Key, PutKey(n, y), Appears(n, y)
      PROVE  y.uid # 0 /\ born' \in [Names -> Nat]
  <2>1. born[n] + 1 \in Nat /\ born[n] + 1 # 0
    BY <1>1
  <2>2. y.uid = born[n] + 1
    BY <1>5, <2>1 DEF Appears, Same, NoKey
  <2> QED
    BY <1>1, <1>5, <2>1, <2>2 DEF Appears
<1>6. ASSUME NEW n \in Names, NEW x \in Key, NEW y \in Key, WorkerWrites(n, x, y) \/ OthersWrite(n, x, y)
      PROVE  y.uid # 0
  <2>1. x.uid # 0
    BY <1>6, AtWork DEF WorkerWrites, OthersWrite
  <2>2. y.uid = x.uid
    BY <1>6 DEF WorkerWrites, OthersWrite, Same, Initialises, Succeeds, Fails, Holds, Key
  <2> QED
    BY <2>1, <2>2
<1>7. ASSUME NEW n \in Names, RemoveKey(n), Disappears(n)
      PROVE  /\ keys' \in Watched([Names -> Key]) /\ KeysExist'
             /\ revision' \in [Names -> Nat] /\ born' \in [Names -> Nat]
  <2>1. /\ keys' \in Watched([Names -> Key]) /\ revision' \in [Names -> Nat]
        /\ Seen(keys)' = Seen(keys) \cup {Changed(keys, n, NoKey)}
    BY <1>1, <1>7, RemoveKeyWrites
  <2>2. KeysExist'
    <3> SUFFICES ASSUME NEW m \in Names, NEW s \in Seen(keys)', s[m].uid = 0
                 PROVE  ~Deleting(s[m])
      BY DEF KeysExist
    <3>1. CASE s \in Seen(keys)
      BY <1>1, <3>1 DEF KeysExist
    <3>2. CASE s = Changed(keys, n, NoKey)
      BY <1>1, <1>2, <3>2 DEF KeysExist, Changed, NoKey, Deleting
    <3> QED
      BY <2>1, <3>1, <3>2
  <2> QED
    BY <1>1, <1>7, <2>1, <2>2 DEF Disappears
<1>8. ASSUME NEW n \in Names, NEW y \in Key, PutKey(n, y),
             Appears(n, y) \/ (born' = born /\ \E x \in Key : WorkerWrites(n, x, y) \/ OthersWrite(n, x, y))
      PROVE  /\ keys' \in Watched([Names -> Key]) /\ KeysExist'
             /\ revision' \in [Names -> Nat] /\ born' \in [Names -> Nat]
  <2>1. y.uid # 0 /\ born' \in [Names -> Nat]
    BY <1>1, <1>5, <1>6, <1>8
  <2> QED
    BY <1>4, <1>8, <2>1
<1> QED
  BY <1>1, <1>3, <1>7, <1>8 DEF KeyStep, KeysRest

LEMMA TypeJobs ==
  ASSUME TInv, JobStep
  PROVE  /\ jobs' \in Watched([JobIds -> Job]) /\ JobsLabelled'
         /\ restic' \in [KeyIds -> ResticKey]
         /\ logs' \in [JobIds -> SUBSET (KeyIds \cup {None})]
<1>1. TypeOK /\ JobsLabelled /\ restic \in [KeyIds -> ResticKey]
  BY DEF TInv, TypeOK
<1>2. Stored(jobs) \in Seen(jobs) /\ Seen(jobs) \subseteq [JobIds -> Job]
      /\ Stored(secrets) \in [Names -> Secret]
  BY <1>1, ObjectTypes
<1>3. CASE JobsRest
  BY <1>1, <1>3 DEF JobsRest, LogsShrink, JobsLabelled
<1>4. ASSUME NEW j \in JobIds, NEW x \in Job, PutJob(j, x), Makes(j, x) \/ Ends(j, x) \/ Collected(j, x)
      PROVE  /\ jobs' \in Watched([JobIds -> Job]) /\ JobsLabelled'
             /\ restic' \in [KeyIds -> ResticKey]
             /\ logs' \in [JobIds -> SUBSET (KeyIds \cup {None})]
  <2> DEFINE job == Stored(jobs)[j]
  <2>1. job \in Job /\ (job.live => job.key \in Names)
    BY <1>1, <1>2 DEF JobsLabelled
  <2>2. /\ jobs' \in Watched([JobIds -> Job])
        /\ Seen(jobs)' = Seen(jobs) \cup {Changed(jobs, j, x)}
    BY <1>1, <1>4, PutJobWrites
  <2>3. x.live => x.key \in Names
    BY <1>4, <2>1, AtWork, NoObjects DEF Makes, Ends, Collected, SameJob
  <2>4. JobsLabelled'
    <3> SUFFICES ASSUME NEW i \in JobIds, NEW s \in Seen(jobs)', s[i].live
                 PROVE  s[i].key \in Names
      BY DEF JobsLabelled
    <3>1. CASE s \in Seen(jobs)
      BY <1>1, <3>1 DEF JobsLabelled
    <3>2. CASE s = Changed(jobs, j, x)
      BY <1>1, <1>2, <2>3, <3>2 DEF JobsLabelled, Changed
    <3> QED
      BY <2>2, <3>1, <3>2
  <2>5. restic' \in [KeyIds -> ResticKey]
    <3>1. CASE restic' = restic
      BY <1>1, <3>1
    <3>2. ASSUME NEW id \in KeyIds, AddsKey(j, id)
          PROVE  restic' \in [KeyIds -> ResticKey]
      <4>1. job.live
        BY <3>2 DEF AddsKey, Running
      <4>2. job.key \in Names /\ job.store \in Nat
        BY <2>1, <4>1 DEF Job
      <4>3. Stored(secrets)[job.key] \in Secret
        BY <1>2, <4>2
      <4> QED
        BY <1>1, <3>2, <4>2, <4>3 DEF AddsKey, Secret, ResticKey
    <3>3. CASE RemovesKey(j)
      <4>1. restic' = [restic EXCEPT ![job.arg].pw = None]
        BY <3>3 DEF RemovesKey
      <4>2. CASE job.arg \in KeyIds
        BY <1>1, <4>1, <4>2 DEF ResticKey
      <4>3. CASE job.arg \notin KeyIds
        BY <1>1, <4>1, <4>3
      <4> QED
        BY <4>2, <4>3
    <3> QED
      BY <1>4, <3>1, <3>2, <3>3 DEF Makes, Ends, Collected
  <2>6. logs' \in [JobIds -> SUBSET (KeyIds \cup {None})]
    <3>1. logs \in [JobIds -> SUBSET (KeyIds \cup {None})]
      BY <1>1 DEF TypeOK
    <3> QED
      BY <1>4, <3>1 DEF Makes, Ends, Collected, Says, LogsShrink
  <2> QED
    BY <2>2, <2>4, <2>5, <2>6
<1> QED
  BY <1>3, <1>4 DEF JobStep

LEMMA TypeSecrets ==
  ASSUME TInv, SecretStep
  PROVE  secrets' \in Watched([Names -> Secret])
BY PutSecretWrites DEF TInv, SecretStep, SecretsRest

LEMMA TypeRepos ==
  ASSUME TInv, RepoStep
  PROVE  repos' \in Watched([{RepoName} -> L!RepoViews]) /\ repoBorn' \in Nat
<1>1. repoBorn \in Nat /\ TypeOK
  BY DEF TInv, TypeOK
<1>2. repoBorn + 1 \in Nat
  BY <1>1
<1> QED
  BY <1>1, <1>2, PutRepoWrites DEF RepoStep, ReposRest

LEMMA TypeWorker ==
  ASSUME TInv, WorkerStep
  PROVE  /\ worker' \in Worker /\ WorkerKnows'
         /\ worker'.pc # "idle" => worker'.name \in Names /\ worker'.key.uid # 0
<1>1. TypeOK /\ WorkerKnows
  BY DEF TInv
<1>2. CASE worker' = worker
  BY <1>1, <1>2 DEF TypeOK, WorkerKnows
<1>3. CASE worker' = Idle
  BY <1>3, NoObjects DEF WorkerKnows
<1>4. CASE TakesCopies
  <2>1. PICK n \in Names :
          /\ Found(Cached(keys)[n])
          /\ worker' = [pc |-> "begin", name |-> n, key |-> Cached(keys)[n], repo |-> Cached(repos)[RepoName]]
    BY <1>4 DEF TakesCopies
  <2>2. Cached(keys)[n] \in Key /\ Cached(keys)[n].uid # 0 /\ Cached(repos)[RepoName] \in L!RepoViews
    BY <1>1, <2>1, ObjectTypes DEF Found
  <2> QED
    BY <2>1, <2>2 DEF Worker, WorkerKnows
<1>5. CASE KeepsAnswer
  <2>1. PICK y \in Key, pc \in {"own", "plan"} :
          /\ y.phase = "pending" /\ y.uid = worker.key.uid
          /\ worker' = [worker EXCEPT !.pc = pc, !.key = Versioned(worker.name, y)]
    BY <1>5 DEF KeepsAnswer
  <2>2. worker.pc # "idle" /\ worker.repo.uid # 0
    BY <1>5 DEF KeepsAnswer
  <2>3. worker \in Worker /\ worker.name \in Names /\ worker.key.uid # 0 /\ revision \in [Names -> Nat]
    BY <1>1, <2>2 DEF TypeOK
  <2>4. Versioned(worker.name, y) \in Key /\ Versioned(worker.name, y).phase = "pending"
        /\ Versioned(worker.name, y).uid # 0
    BY <2>1, <2>3, VersionedIs
  <2> QED
    BY <2>1, <2>2, <2>3, <2>4 DEF Worker, WorkerKnows
<1>6. CASE HasSecret
  <2>1. /\ worker.pc # "idle" /\ worker.repo.uid # 0
        /\ worker.key.phase = "pending" /\ ~Deleting(worker.key) /\ IsCreated(worker.repo)
        /\ worker' = [worker EXCEPT !.pc = "makeJob"]
    BY <1>6, WantsOutcome DEF HasSecret
  <2>2. worker \in Worker /\ worker.name \in Names /\ worker.key.uid # 0
    BY <1>1, <2>1 DEF TypeOK
  <2>3. worker' \in Worker /\ worker'.name = worker.name /\ worker'.key = worker.key
        /\ worker'.repo = worker.repo /\ worker'.pc = "makeJob"
    BY <2>1, <2>2 DEF Worker
  <2> QED
    BY <2>1, <2>2, <2>3 DEF Worker, WorkerKnows
<1> QED
  BY <1>2, <1>3, <1>4, <1>5, <1>6 DEF WorkerStep

LEMMA TypeStep ==
  ASSUME TInv, [Next]_vars
  PROVE  TInv'
<1>1. KeyStep /\ JobStep /\ SecretStep /\ RepoStep /\ WorkerStep /\ Counted
  BY EveryStep DEF Classified
<1>2. TypeOK'
  BY <1>1, TypeKeys, TypeJobs, TypeSecrets, TypeRepos, TypeWorker DEF Counted, TypeOK
<1> QED
  BY <1>1, <1>2, TypeKeys, TypeJobs, TypeWorker DEF TInv

(* Type correctness: every Key, Job, secret and Repository in a cache, on  *)
(* its way there or in the worker's hands has the shape its type gives it. *)
THEOREM KeysTyped == Spec => []TypeOK
<1>1. TInv => TypeOK
  BY DEF TInv
<1> QED
  BY <1>1, TypeInit, TypeStep, PTL DEF Spec

-------------------------------------------------------------------------------
(* Copies of Keys.                                                         *)

(* A copy of Key n, wherever it is, is no newer than what the API server   *)
(* holds, and is the very same when it has the same version.  What it says *)
(* of a Key that is still there is still so.                               *)
StillSo(x, y) == (Deleting(x) => Deleting(y)) /\ (x.phase # "nil" => y.phase # "nil")

GoodCopy(n, x) ==
  /\ x.rv <= revision[n]
  /\ x.uid <= born[n]
  /\ x.rv = 0 \/ x.uid = 0 => x = NoKey
  /\ x.rv = Stored(keys)[n].rv => x = Stored(keys)[n]
  /\ x.uid = Stored(keys)[n].uid => StillSo(x, Stored(keys)[n])

Copies ==
  \A n \in Names :
    /\ \A s \in Seen(keys) : GoodCopy(n, s[n])
    /\ worker.pc # "idle" /\ worker.name = n => GoodCopy(n, worker.key)

CInv == TInv /\ Copies

(* What is written is written over what the writer knew.                   *)
Advances(n, y) ==
  LET x == Stored(keys)[n] IN
  /\ x.uid # 0 /\ y.uid = x.uid
  /\ born' = born
  /\ WorkerWrites(n, x, y) \/ OthersWrite(n, x, y)

Leaves(n) ==
  LET x == Stored(keys)[n] IN
  /\ x.uid # 0
  /\ born' = born
  /\ ~x.finalizer \/ (MayRelease /\ n = worker.name /\ x.deleting = "background")

LEMMA Unrefused ==
  ASSUME CInv, worker.pc # "idle", Current(worker.key)
  PROVE  worker.key = Stored(keys)[worker.name]
BY AtWork DEF CInv, Copies, GoodCopy, Current

LEMMA KeyChanges ==
  ASSUME CInv, KeyStep
  PROVE  \/ KeysRest
         \/ \E n \in Names : \E y \in Key : PutKey(n, y) /\ (Appears(n, y) \/ Advances(n, y))
         \/ \E n \in Names : RemoveKey(n) /\ Leaves(n)
<1>1. ASSUME NEW n \in Names, NEW x \in Key, NEW y \in Key, born' = born,
             WorkerWrites(n, x, y) \/ OthersWrite(n, x, y)
      PROVE  Advances(n, y)
  <2>1. x = Stored(keys)[n] /\ x.uid # 0
    BY <1>1, Unrefused, AtWork DEF WorkerWrites, OthersWrite, CInv
  <2>2. y.uid = x.uid
    BY <1>1 DEF WorkerWrites, OthersWrite, Same, Initialises, Succeeds, Fails, Holds, Key
  <2> QED
    BY <1>1, <2>1, <2>2 DEF Advances
<1>2. ASSUME NEW n \in Names, Disappears(n)
      PROVE  Leaves(n)
  BY <1>2, Unrefused DEF Disappears, Leaves
<1> QED
  BY <1>1, <1>2 DEF KeyStep

LEMMA Advancing ==
  ASSUME CInv, NEW n \in Names, NEW y \in Key, Advances(n, y)
  PROVE  StillSo(Stored(keys)[n], y)
<1> DEFINE x == Stored(keys)[n]
<1>1. x \in Key /\ (WorkerWrites(n, x, y) \/ OthersWrite(n, x, y))
  BY ObjectTypes DEF CInv, TInv, Advances
<1> SUFFICES StillSo(x, y)
  OBVIOUS
<1> HIDE DEF x
<1>2. CASE Same(x, y)
  BY <1>2 DEF Same, StillSo, Deleting
<1>3. CASE Initialises(x, y)
  BY <1>1, <1>3 DEF Initialises, Same, StillSo, Deleting, Key
<1>4. CASE Succeeds(x, y) \/ Holds(x, y)
  BY <1>4 DEF Succeeds, Holds, StillSo, Deleting
<1>5. CASE Fails(x, y)
  BY <1>1, <1>5 DEF Fails, Same, StillSo, Deleting, Key
<1>6. CASE y.phase = x.phase /\ y.deleting = x.deleting
  BY <1>6 DEF StillSo, Deleting
<1>7. ASSUME NEW policy \in {"foreground", "background"}, Same([x EXCEPT !.deleting = policy], y)
      PROVE  StillSo(x, y)
  BY <1>1, <1>7 DEF Same, StillSo, Deleting, Key
<1> QED
  BY <1>1, <1>2, <1>3, <1>4, <1>5, <1>6, <1>7 DEF WorkerWrites, OthersWrite

(* A written Key is newer than every copy of it.                           *)
LEMMA WrittenCopies ==
  ASSUME CInv, NEW n \in Names, NEW x \in Key, PutKey(n, x),
         Appears(n, x) \/ Advances(n, x)
  PROVE  /\ \A m \in Names : \A y \in Key : GoodCopy(m, y) => GoodCopy(m, y)'
         /\ \A m \in Names : \A s \in Seen(keys)' : GoodCopy(m, s[m])'
         /\ \A y \in Key : y = Versioned(n, x) => GoodCopy(n, y)'
<1>a. PICK new \in Key : new = Versioned(n, x)
  BY VersionedIs DEF CInv, TInv, TypeOK
<1>0. TInv /\ TypeOK /\ Copies
  BY DEF CInv, TInv
<1>1. /\ revision \in [Names -> Nat] /\ born \in [Names -> Nat]
      /\ revision' = [revision EXCEPT ![n] = @ + 1]
      /\ Stored(keys)' = Changed(keys, n, new)
      /\ Seen(keys)' = Seen(keys) \cup {Changed(keys, n, new)}
  BY <1>a, <1>0, PutKeyWrites DEF TypeOK
<1>2. Stored(keys) \in [Names -> Key] /\ Stored(keys) \in Seen(keys)
  BY <1>0, ObjectTypes
<1>3. GoodCopy(n, Stored(keys)[n])
  BY <1>0, <1>2 DEF Copies
<1>4. /\ new.rv = revision[n] + 1 /\ new.rv # 0
      /\ new.uid = x.uid /\ new.uid # 0 /\ new.uid <= born'[n]
      /\ \A m \in Names : born[m] <= born'[m]
  <2>1. new.rv = revision[n] + 1 /\ new.uid = x.uid /\ revision[n] \in Nat /\ born[n] \in Nat
    BY <1>a, <1>1, VersionedIs
  <2>2. CASE Appears(n, x)
    <3>1. x.uid = born[n] + 1
      BY <2>2 DEF Appears, Same, NoKey
    <3>2. born' = [born EXCEPT ![n] = @ + 1]
      BY <2>2 DEF Appears
    <3> QED
      BY <1>1, <2>1, <3>1, <3>2
  <2>3. CASE Advances(n, x)
    BY <1>1, <1>3, <2>1, <2>3 DEF Advances, GoodCopy
  <2> QED
    BY <2>1, <2>2, <2>3
<1>5. /\ Stored(keys)'[n] = new
      /\ \A m \in Names \ {n} : Stored(keys)'[m] = Stored(keys)[m]
      /\ revision'[n] = revision[n] + 1
      /\ \A m \in Names \ {n} : revision'[m] = revision[m]
      /\ born' \in [Names -> Nat]
  BY <1>1, <1>2 DEF Changed, Appears, Advances
<1>b. ASSUME NEW y \in Key, GoodCopy(n, y), y.uid = new.uid
      PROVE  StillSo(y, new)
  <2>1. new.uid = x.uid /\ new.phase = x.phase /\ new.deleting = x.deleting
    BY <1>a, <1>1, VersionedIs
  <2>2. CASE Appears(n, x)
    <3>1. y.uid \in Nat /\ born[n] \in Nat /\ y.uid <= born[n]
      BY <1>1, <1>b DEF GoodCopy, Key
    <3>2. x.uid = born[n] + 1
      BY <2>2 DEF Appears, Same, NoKey
    <3> QED
      BY <1>b, <2>1, <3>1, <3>2
  <2>3. CASE Advances(n, x)
    <3>1. StillSo(Stored(keys)[n], x) /\ x.uid = Stored(keys)[n].uid
      BY <2>3, Advancing DEF Advances
    <3>2. StillSo(y, Stored(keys)[n])
      BY <1>b, <2>1, <3>1 DEF GoodCopy
    <3> QED
      BY <2>1, <3>1, <3>2 DEF StillSo, Deleting
  <2> QED
    BY <2>2, <2>3
<1>6. ASSUME NEW m \in Names, NEW y \in Key, GoodCopy(m, y)
      PROVE  GoodCopy(m, y)'
  <2>1. /\ y.rv \in Nat /\ y.uid \in Nat /\ revision[m] \in Nat /\ born[m] \in Nat
        /\ born'[m] \in Nat /\ born[m] <= born'[m]
    BY <1>1, <1>4, <1>5 DEF Key
  <2>2. CASE m = n
    <3>1. revision'[m] = revision[m] + 1 /\ Stored(keys)'[m].rv = revision[m] + 1
      BY <1>4, <1>5, <2>2
    <3>2. y.uid = Stored(keys)'[m].uid => StillSo(y, Stored(keys)'[m])
      BY <1>b, <1>5, <1>6, <2>2
    <3> QED
      BY <1>6, <2>1, <3>1, <3>2 DEF GoodCopy
  <2>3. CASE m # n
    <3>1. revision'[m] = revision[m] /\ Stored(keys)'[m] = Stored(keys)[m]
      BY <1>5, <2>3
    <3> QED
      BY <1>6, <2>1, <3>1 DEF GoodCopy
  <2> QED
    BY <2>2, <2>3
<1>7. GoodCopy(n, new)'
  BY <1>1, <1>4, <1>5 DEF GoodCopy, StillSo
<1>8. ASSUME NEW m \in Names, NEW s \in Seen(keys)'
      PROVE  GoodCopy(m, s[m])'
  <2>1. CASE s \in Seen(keys)
    <3>1. s[m] \in Key /\ GoodCopy(m, s[m])
      BY <1>0, <2>1, ObjectTypes DEF Copies
    <3> QED
      BY <1>6, <3>1
  <2>2. CASE s = Changed(keys, n, new) /\ m = n
    BY <1>2, <1>7, <2>2 DEF Changed
  <2>3. CASE s = Changed(keys, n, new) /\ m # n
    <3>1. s[m] = Stored(keys)[m]
      BY <1>2, <2>3 DEF Changed
    <3> QED
      BY <1>0, <1>2, <1>6, <3>1 DEF Copies
  <2> QED
    BY <1>1, <2>1, <2>2, <2>3
<1> QED
  BY <1>a, <1>6, <1>7, <1>8

LEMMA RemovedCopies ==
  ASSUME CInv, NEW n \in Names, RemoveKey(n), Leaves(n)
  PROVE  /\ \A m \in Names : \A y \in Key : GoodCopy(m, y) => GoodCopy(m, y)'
         /\ \A m \in Names : \A s \in Seen(keys)' : GoodCopy(m, s[m])'
<1>0. TInv /\ TypeOK /\ Copies
  BY DEF CInv, TInv
<1>1. /\ revision \in [Names -> Nat] /\ born \in [Names -> Nat]
      /\ revision' = revision /\ born' = born
      /\ Stored(keys)' = Changed(keys, n, NoKey)
      /\ Seen(keys)' = Seen(keys) \cup {Changed(keys, n, NoKey)}
  BY <1>0, RemoveKeyWrites DEF Leaves, TypeOK
<1>2. Stored(keys) \in [Names -> Key] /\ Stored(keys) \in Seen(keys)
  BY <1>0, ObjectTypes
<1>3. /\ Stored(keys)'[n] = NoKey
      /\ \A m \in Names \ {n} : Stored(keys)'[m] = Stored(keys)[m]
  BY <1>1, <1>2 DEF Changed
<1>4. NoKey.rv = 0 /\ NoKey.uid = 0
  BY DEF NoKey
<1>5. ASSUME NEW m \in Names, NEW y \in Key, GoodCopy(m, y)
      PROVE  GoodCopy(m, y)'
  BY <1>1, <1>3, <1>4, <1>5 DEF GoodCopy, StillSo
<1>6. GoodCopy(n, NoKey)'
  BY <1>1, <1>3, <1>4 DEF GoodCopy, StillSo
<1>7. ASSUME NEW m \in Names, NEW s \in Seen(keys)'
      PROVE  GoodCopy(m, s[m])'
  <2>1. CASE s \in Seen(keys)
    <3>1. s[m] \in Key /\ GoodCopy(m, s[m])
      BY <1>0, <2>1, ObjectTypes DEF Copies
    <3> QED
      BY <1>5, <3>1
  <2>2. CASE s = Changed(keys, n, NoKey) /\ m = n
    BY <1>2, <1>6, <2>2 DEF Changed
  <2>3. CASE s = Changed(keys, n, NoKey) /\ m # n
    <3>1. s[m] = Stored(keys)[m]
      BY <1>2, <2>3 DEF Changed
    <3> QED
      BY <1>0, <1>2, <1>5, <3>1 DEF Copies
  <2> QED
    BY <1>1, <2>1, <2>2, <2>3
<1> QED
  BY <1>5, <1>7

(* What was good stays good, and what readers may now get is good.         *)
LEMMA CopiesStay ==
  ASSUME CInv, KeyStep
  PROVE  /\ \A m \in Names : \A y \in Key : GoodCopy(m, y) => GoodCopy(m, y)'
         /\ \A m \in Names : \A s \in Seen(keys)' : GoodCopy(m, s[m])'
<1>1. CASE KeysRest
  BY <1>1 DEF KeysRest, CInv, Copies, GoodCopy
<1> QED
  BY <1>1, KeyChanges, WrittenCopies, RemovedCopies

(* No write is two.                                                        *)
LEMMA OneWrite ==
  ASSUME CInv, NEW n \in Names, NEW x \in Key, PutKey(n, x), KeyStep
  PROVE  \E y \in Key : /\ PutKey(n, y)
                        /\ Appears(n, y) \/ Advances(n, y)
                        /\ Versioned(n, y) = Versioned(n, x)
<1>1. TypeOK /\ revision \in [Names -> Nat] /\ revision[n] \in Nat
  BY DEF CInv, TInv, TypeOK
<1>2. /\ revision' = [revision EXCEPT ![n] = @ + 1] /\ revision'[n] = revision[n] + 1
      /\ Stored(keys)' = Changed(keys, n, Versioned(n, x))
  BY <1>1, PutKeyWrites
<1>3. Stored(keys) \in [Names -> Key]
  BY <1>1, ObjectTypes
<1>4. ~KeysRest
  BY <1>1, <1>2 DEF KeysRest
<1>5. ASSUME NEW m \in Names, RemoveKey(m)
      PROVE  FALSE
  BY <1>1, <1>2, <1>5, RemoveKeyWrites
<1>6. PICK m \in Names, y \in Key : PutKey(m, y) /\ (Appears(m, y) \/ Advances(m, y))
  BY <1>4, <1>5, KeyChanges
<1>7. /\ revision' = [revision EXCEPT ![m] = @ + 1]
      /\ Stored(keys)' = Changed(keys, m, Versioned(m, y))
  BY <1>1, <1>6, PutKeyWrites
<1>8. m = n
  BY <1>1, <1>2, <1>7
<1>9. Versioned(n, y) = Versioned(n, x)
  BY <1>2, <1>3, <1>7, <1>8 DEF Changed
<1> QED
  BY <1>6, <1>8, <1>9

LEMMA CopiesStep ==
  ASSUME CInv, TInv', KeyStep, WorkerStep
  PROVE  Copies'
<1>0. TInv /\ TypeOK /\ Copies
  BY DEF CInv, TInv
<1>1. ASSUME NEW m \in Names, worker'.pc # "idle", worker'.name = m
      PROVE  GoodCopy(m, worker.key)'
  <2>1. worker'.key \in Key
    BY <1>1 DEF TInv, TypeOK, Worker
  <2>2. CASE worker.pc # "idle" /\ worker'.name = worker.name /\ worker'.key = worker.key
    <3>1. PICK y \in Key : y = worker.key /\ GoodCopy(m, y)
      BY <1>0, <1>1, <2>1, <2>2 DEF Copies
    <3>2. GoodCopy(m, y)'
      BY <3>1, CopiesStay
    <3> QED
      BY <2>2, <3>1, <3>2 DEF GoodCopy
  <2>3. CASE worker'.key = Cached(keys)[m]
    <3>1. PICK y \in Key : y = Cached(keys)[m] /\ GoodCopy(m, y)
      BY <1>0, ObjectTypes DEF Copies
    <3>2. GoodCopy(m, y)'
      BY <3>1, CopiesStay
    <3> QED
      BY <2>3, <3>1, <3>2 DEF GoodCopy
  <2>4. ASSUME NEW n \in Names, NEW x \in Key, PutKey(n, x),
               worker'.name = n, worker'.key = Versioned(n, x)
        PROVE  GoodCopy(m, worker.key)'
    <3>1. PICK y \in Key : /\ PutKey(n, y)
                           /\ Appears(n, y) \/ Advances(n, y)
                           /\ Versioned(n, y) = Versioned(n, x)
      BY <2>4, OneWrite
    <3>2. PICK z \in Key : z = Versioned(n, y)
      BY <1>0, VersionedIs DEF TypeOK
    <3>3. GoodCopy(n, z)'
      BY <3>1, <3>2, WrittenCopies
    <3> QED
      BY <1>1, <2>4, <3>1, <3>2, <3>3 DEF GoodCopy
  <2>5. CASE worker' = worker \/ HasSecret
    <3>1. worker.pc # "idle" /\ worker'.name = worker.name /\ worker'.key = worker.key
      <4>1. CASE worker' = worker
        BY <1>1, <4>1
      <4>2. CASE HasSecret
        BY <1>0, <4>2, WantsOutcome DEF HasSecret, TypeOK, Worker
      <4> QED
        BY <2>5, <4>1, <4>2
    <3> QED
      BY <2>2, <3>1
  <2>6. CASE worker' = Idle
    BY <1>1, <2>6, NoObjects
  <2>7. CASE TakesCopies
    BY <1>1, <2>3, <2>7 DEF TakesCopies
  <2>8. CASE KeepsAnswer
    <3>1. PICK y \in Key, pc \in {"own", "plan"} :
            /\ PutKey(worker.name, y)
            /\ worker' = [worker EXCEPT !.pc = pc, !.key = Versioned(worker.name, y)]
      BY <2>8 DEF KeepsAnswer
    <3>2. worker.pc # "idle" /\ worker.name \in Names /\ worker \in Worker
      BY <1>0, <2>8 DEF KeepsAnswer, TypeOK
    <3>3. worker'.name = worker.name /\ worker'.key = Versioned(worker.name, y)
      BY <3>1, <3>2 DEF Worker
    <3> QED
      BY <2>4, <3>1, <3>2, <3>3
  <2> QED
    BY <2>5, <2>6, <2>7, <2>8 DEF WorkerStep
<1> QED
  BY <1>1, CopiesStay DEF Copies

LEMMA CInvInit == Init => CInv
<1> SUFFICES ASSUME Init PROVE CInv
  OBVIOUS
<1>1. /\ Stored(keys) = [n \in Names |-> NoKey]
      /\ Seen(keys) = {Stored(keys)}
  BY Single DEF Init
<1>2. worker.pc = "idle"
  BY NoObjects DEF Init
<1>3. \A n \in Names : GoodCopy(n, NoKey)
  <2>1. /\ NoKey.rv = 0 /\ NoKey.uid = 0
        /\ \A n \in Names : revision[n] = 0 /\ born[n] = 0 /\ Stored(keys)[n] = NoKey
    BY <1>1 DEF Init, NoKey
  <2> QED
    BY <2>1 DEF GoodCopy, StillSo
<1>4. Copies
  BY <1>1, <1>2, <1>3 DEF Copies
<1> QED
  BY <1>4, TypeInit DEF CInv

LEMMA CInvStep ==
  ASSUME CInv, [Next]_vars
  PROVE  CInv'
<1>1. TInv' /\ Classified
  BY TypeStep, EveryStep DEF CInv
<1> QED
  BY <1>1, CopiesStep DEF CInv, Classified

-------------------------------------------------------------------------------
(* The writes are those of KeyLifecycle.                                   *)

(* The refinement mapping, of one object and of all.                       *)
ViewOf(x) == [uid |-> x.uid, phase |-> x.phase, keyID |-> x.keyID,
              finalizer |-> x.finalizer, deleting |-> x.deleting]

View == [n \in Names |-> [uid |-> Stored(keys)[n].uid,
                          phase |-> Stored(keys)[n].phase,
                          keyID |-> Stored(keys)[n].keyID,
                          finalizer |-> Stored(keys)[n].finalizer,
                          deleting |-> Stored(keys)[n].deleting]]

LEMMA ViewAfter ==
  ASSUME TypeOK, NEW n \in Names, NEW x \in Key, Stored(keys)' = Changed(keys, n, x)
  PROVE  View' = [View EXCEPT ![n] = ViewOf(x)]
<1>1. Stored(keys) \in [Names -> Key]
  BY ObjectTypes
<1>2. /\ Stored(keys)'[n] = x
      /\ \A m \in Names \ {n} : Stored(keys)'[m] = Stored(keys)[m]
  BY <1>1 DEF Changed
<1> QED
  BY <1>2 DEF View, ViewOf

LEMMA ViewIs ==
  ASSUME NEW w \in K!KeyViews, NEW y \in Key,
         y.uid = w.uid, y.phase = w.phase, y.keyID = w.keyID, y.finalizer = w.finalizer,
         y.deleting = w.deleting
  PROVE  ViewOf(y) = w
BY DEF ViewOf, Key, K!KeyViews

(* Each kind of write, on the view.                                        *)
LEMMA ViewHeld ==
  ASSUME NEW v \in K!KeyViews, v.phase = "pending", v.deleting = "no",
         NEW y \in Key, y.finalizer,
         y.uid = v.uid, y.phase = v.phase, y.keyID = v.keyID, y.deleting = v.deleting
  PROVE  ViewOf(y) \in K!Held(v)
<1>1. PICK d \in BOOLEAN : d = TRUE
  OBVIOUS
<1>2. y.finalizer = d
  BY <1>1 DEF Key
<1> DEFINE w == [v EXCEPT !.finalizer = d]
<1>3. ViewOf(y) = [v EXCEPT !.finalizer = d]
  <2>1. /\ w \in K!KeyViews /\ w.uid = v.uid /\ w.phase = v.phase /\ w.keyID = v.keyID
        /\ w.finalizer = d /\ w.deleting = v.deleting
    BY DEF K!KeyViews
  <2> HIDE DEF w
  <2>2. ViewOf(y) = w
    BY <1>2, <2>1, ViewIs
  <2> QED
    BY <2>2 DEF w
<1>4. [v EXCEPT !.finalizer = d] = [v EXCEPT !.finalizer = TRUE]
  BY <1>1, Zenon
<1>5. K!Held(v) = {[v EXCEPT !.finalizer = TRUE]}
  BY DEF K!Held
<1> QED
  BY <1>3, <1>4, <1>5, Zenon

LEMMA ViewReleased ==
  ASSUME NEW v \in K!KeyViews, v.finalizer, v.deleting = "foreground",
         NEW y \in Key, ~y.finalizer,
         y.uid = v.uid, y.phase = v.phase, y.keyID = v.keyID, y.deleting = v.deleting
  PROVE  ViewOf(y) \in K!Released(v)
<1>1. PICK d \in BOOLEAN : d = FALSE
  OBVIOUS
<1>2. y.finalizer = d
  BY <1>1 DEF Key
<1> DEFINE w == [v EXCEPT !.finalizer = d]
<1>3. ViewOf(y) = [v EXCEPT !.finalizer = d]
  <2>1. /\ w \in K!KeyViews /\ w.uid = v.uid /\ w.phase = v.phase /\ w.keyID = v.keyID
        /\ w.finalizer = d /\ w.deleting = v.deleting
    BY DEF K!KeyViews
  <2> HIDE DEF w
  <2>2. ViewOf(y) = w
    BY <1>2, <2>1, ViewIs
  <2> QED
    BY <2>2 DEF w
<1>4. [v EXCEPT !.finalizer = d] = [v EXCEPT !.finalizer = FALSE]
  BY <1>1, Zenon
<1>5. K!Released(v) = {[v EXCEPT !.finalizer = FALSE]}
  BY DEF K!Released
<1> QED
  BY <1>3, <1>4, <1>5, Zenon

LEMMA ViewMarked ==
  ASSUME NEW v \in K!KeyViews, v.deleting = "no",
         NEW policy \in {"foreground", "background"}, policy = "background" => v.finalizer,
         NEW y \in Key, y.deleting = policy,
         y.uid = v.uid, y.phase = v.phase, y.keyID = v.keyID, y.finalizer = v.finalizer
  PROVE  ViewOf(y) \in K!Marked(v)
<1>1. ViewOf(y) = [v EXCEPT !.deleting = policy]
  BY DEF ViewOf, Key, K!KeyViews
<1>2. policy \in {"foreground"} \cup (IF v.finalizer THEN {"background"} ELSE {})
  OBVIOUS
<1> QED
  BY <1>1, <1>2 DEF K!Marked

LEMMA ViewDecided ==
  ASSUME NEW v \in K!KeyViews, v.phase = "pending", v.deleting = "no",
         NEW y \in Key,
         \/ y.phase = "created" /\ y.keyID \in KeyIds
         \/ y.phase = "failed" /\ y.keyID = v.keyID,
         y.uid = v.uid, y.finalizer = v.finalizer, y.deleting = v.deleting
  PROVE  ViewOf(y) \in K!Decided(v)
<1>1. CASE y.phase = "created" /\ y.keyID \in KeyIds
  <2>1. PICK id \in KeyIds : y.keyID = id
    BY <1>1
  <2> DEFINE w == [v EXCEPT !.phase = "created", !.keyID = id]
  <2>2. ViewOf(y) = [v EXCEPT !.phase = "created", !.keyID = id]
    <3>1. /\ w \in K!KeyViews /\ w.uid = v.uid /\ w.phase = "created" /\ w.keyID = id
          /\ w.finalizer = v.finalizer /\ w.deleting = v.deleting
      BY DEF K!KeyViews, K!Phases
    <3> HIDE DEF w
    <3>2. ViewOf(y) = w
      BY <1>1, <2>1, <3>1, ViewIs
    <3> QED
      BY <3>2 DEF w
  <2> QED
    BY <2>2 DEF K!Decided
<1>2. CASE y.phase = "failed" /\ y.keyID = v.keyID
  <2>1. ViewOf(y) = [v EXCEPT !.phase = "failed"]
    BY <1>2 DEF ViewOf, Key, K!KeyViews
  <2> QED
    BY <2>1 DEF K!Decided
<1> QED
  BY <1>1, <1>2

LEMMA ViewInitialised ==
  ASSUME NEW v \in K!KeyViews, v.phase = "nil",
         NEW y \in Key, y.phase = "pending",
         y.uid = v.uid, y.keyID = v.keyID, y.finalizer = v.finalizer, y.deleting = v.deleting
  PROVE  ViewOf(y) \in K!Initialised(v)
BY DEF ViewOf, Key, K!KeyViews, K!Initialised

(* The outcome of a Key and its ID stay.                                   *)
Keeps(x, y) == y.phase = x.phase /\ y.keyID = x.keyID

LEMMA ViewAdvances ==
  ASSUME CInv, NEW n \in Names, NEW y \in Key, Advances(n, y)
  PROVE  LET x == Stored(keys)[n]
         IN  /\ ViewOf(y) = ViewOf(x) \/ ViewOf(y) \in K!Successors(ViewOf(x))
             /\ x.phase \in {"created", "failed"} => Keeps(x, y)
<1> DEFINE x == Stored(keys)[n]
           v == ViewOf(x)
<1>1. x \in Key /\ x.uid # 0 /\ y.uid = x.uid
  BY ObjectTypes DEF Advances, CInv, TInv
<1>2. /\ v \in K!KeyViews /\ v.uid = x.uid /\ v.phase = x.phase /\ v.keyID = x.keyID
      /\ v.finalizer = x.finalizer /\ v.deleting = x.deleting
  BY <1>1 DEF ViewOf, Key, K!KeyViews, K!Phases, L!Phases
<1>3. WorkerWrites(n, x, y) \/ OthersWrite(n, x, y)
  BY DEF Advances
<1> HIDE DEF x, v
<1> SUFFICES /\ ViewOf(y) = v \/ ViewOf(y) \in K!Successors(v)
             /\ x.phase \in {"created", "failed"} => Keeps(x, y)
  BY DEF x, v
<1>4. CASE Same(x, y)
  BY <1>4 DEF Same, ViewOf, v, Keeps
<1>5. CASE Initialises(x, y)
  <2>1. x.phase = "nil" /\ y.phase = "pending" /\ y.keyID = x.keyID /\ y.finalizer = x.finalizer
        /\ y.deleting = x.deleting
    BY <1>1, <1>5 DEF Initialises, Same, Key
  <2> QED
    BY <1>1, <1>2, <2>1, ViewInitialised DEF K!Successors
<1>6. CASE Succeeds(x, y)
  <2>1. \A j \in JobsFor("add") : logs[j] \subseteq KeyIds \cup {None}
    BY DEF CInv, TInv, TypeOK, JobsFor, KeyJobs
  <2>2. y.keyID \in KeyIds
    BY <1>6, <2>1 DEF Succeeds
  <2> QED
    BY <1>1, <1>2, <1>6, <2>2, ViewDecided DEF Succeeds, Deleting, K!Successors
<1>7. CASE Fails(x, y)
  <2>1. /\ x.phase = "pending" /\ x.deleting = "no" /\ y.phase = "failed"
        /\ y.keyID = x.keyID /\ y.finalizer = x.finalizer /\ y.deleting = x.deleting
    BY <1>1, <1>7 DEF Fails, Same, Key, Deleting
  <2> QED
    BY <1>1, <1>2, <2>1, ViewDecided DEF K!Successors
<1>8. CASE Holds(x, y)
  BY <1>1, <1>2, <1>8, ViewHeld DEF Holds, Deleting, K!Successors
<1>9. CASE /\ x.finalizer /\ x.deleting = "foreground" /\ ~y.finalizer
           /\ y.phase = x.phase /\ y.keyID = x.keyID /\ y.deleting = x.deleting
  BY <1>1, <1>2, <1>9, ViewReleased DEF K!Successors, Keeps
<1>10. ASSUME NEW policy \in {"foreground", "background"}, ~Deleting(x),
              policy = "background" => x.finalizer, Same([x EXCEPT !.deleting = policy], y)
       PROVE  /\ ViewOf(y) = v \/ ViewOf(y) \in K!Successors(v)
              /\ x.phase \in {"created", "failed"} => Keeps(x, y)
  <2>1. /\ y.deleting = policy /\ y.phase = x.phase /\ y.keyID = x.keyID /\ y.finalizer = x.finalizer
    BY <1>1, <1>10 DEF Same, Key
  <2> QED
    BY <1>1, <1>2, <1>10, <2>1, ViewMarked DEF Deleting, K!Successors, Keeps
<1> QED
  BY <1>3, <1>4, <1>5, <1>6, <1>7, <1>8, <1>9, <1>10 DEF WorkerWrites, OthersWrite

LEMMA RefinesStep ==
  ASSUME CInv, KeyStep
  PROVE  [K!Next]_(K!vars)
<1>0. TypeOK /\ born \in [Names -> Nat] /\ Stored(keys) \in [Names -> Key]
  BY ObjectTypes DEF CInv, TInv, TypeOK
<1>1. CASE KeysRest
  BY <1>1 DEF KeysRest, K!vars
<1>2. ASSUME NEW n \in Names, NEW y \in Key, PutKey(n, y), Appears(n, y) \/ Advances(n, y)
      PROVE  [K!Next]_(K!vars)
  <2>1. PICK new \in Key : new = Versioned(n, y) /\ ViewOf(new) = ViewOf(y)
    BY <1>0, VersionedIs DEF TypeOK, ViewOf
  <2>2. View' = [View EXCEPT ![n] = ViewOf(y)]
    BY <1>0, <1>2, <2>1, PutKeyWrites, ViewAfter
  <2>3. View[n] = ViewOf(Stored(keys)[n]) /\ View[n].uid = Stored(keys)[n].uid
    BY DEF View, ViewOf
  <2>4. CASE Appears(n, y)
    <3>1. born[n] + 1 \in Nat
      BY <1>0
    <3> DEFINE w == [K!NoView EXCEPT !.uid = born[n] + 1]
    <3>a. /\ w \in K!KeyViews /\ w.uid = born[n] + 1 /\ w.phase = "nil" /\ w.keyID = None
          /\ w.finalizer = FALSE /\ w.deleting = "no"
      BY <3>1 DEF K!NoView, K!KeyViews, K!Phases
    <3>b. /\ y.uid = born[n] + 1 /\ y.phase = "nil" /\ y.keyID = None
          /\ y.finalizer = FALSE /\ y.deleting = "no"
      BY <2>4, <3>1 DEF Appears, Same, NoKey
    <3>2. ViewOf(y) = [K!NoView EXCEPT !.uid = born[n] + 1]
      <4> HIDE DEF w
      <4>1. ViewOf(y) = w
        BY <3>a, <3>b, ViewIs
      <4> QED
        BY <4>1 DEF w
    <3>3. K!Create(n)
      BY <2>2, <2>3, <2>4, <3>2 DEF K!Create, Appears, View
    <3> QED
      BY <3>3 DEF K!Next
  <2>5. CASE Advances(n, y)
    <3>1. View[n].uid # 0 /\ born' = born
      BY <2>3, <2>5 DEF Advances
    <3>2. CASE ViewOf(y) = View[n]
      <4>1. View' = View
        BY <2>2, <3>2 DEF View
      <4> QED
        BY <3>1, <4>1 DEF K!vars, View
    <3>3. CASE ViewOf(y) \in K!Successors(View[n])
      <4>1. K!Change(n)
        BY <2>2, <3>1, <3>3 DEF K!Change, View
      <4> QED
        BY <4>1 DEF K!Next
    <3> QED
      BY <2>3, <2>5, <3>2, <3>3, ViewAdvances
  <2> QED
    BY <1>2, <2>4, <2>5
<1>3. ASSUME NEW n \in Names, RemoveKey(n), Leaves(n)
      PROVE  K!Next
  <2>1. View' = [View EXCEPT ![n] = ViewOf(NoKey)] /\ born' = born
    BY <1>0, <1>3, NoObjects, RemoveKeyWrites, ViewAfter DEF Leaves
  <2>2. ViewOf(NoKey) \in K!Successors(View[n]) /\ View[n].uid # 0
    BY <1>3 DEF Leaves, ViewOf, NoKey, K!Gone, K!NoView, K!Successors, View
  <2>3. K!Change(n)
    BY <2>1, <2>2 DEF K!Change, View
  <2> QED
    BY <2>3 DEF K!Next
<1> QED
  BY <1>1, <1>2, <1>3, KeyChanges

LEMMA RefinesInit == Init => K!Init
<1> SUFFICES ASSUME Init PROVE K!Init
  OBVIOUS
<1>1. Stored(keys) = [n \in Names |-> NoKey]
  BY Single DEF Init
<1>2. born = [n \in Names |-> 0]
  BY DEF Init
<1> QED
  BY <1>1, <1>2 DEF K!Init, K!NoView, NoKey

(* Every Key lives as KeyLifecycle says: whatever copies the controller,   *)
(* users and the garbage collector write from, a Key gets its conditions   *)
(* first, one outcome, and a deletion that is not taken back.              *)
THEOREM KeysLive == Spec => KeyLives
<1>1. CInv /\ [Next]_vars => CInv' /\ [K!Next]_(K!vars)
  BY CInvStep, EveryStep, RefinesStep DEF CInv, Classified
<1> QED
  BY <1>1, CInvInit, RefinesInit, PTL DEF Spec, KeyLives, K!Spec

LEMMA VerdictStays ==
  ASSUME CInv, KeyStep, NEW n \in Names,
         Stored(keys)[n].phase \in {"created", "failed"},
         Stored(keys)'[n].uid = Stored(keys)[n].uid
  PROVE  Keeps(Stored(keys)[n], Stored(keys)'[n])
<1>0. TypeOK /\ revision \in [Names -> Nat] /\ born \in [Names -> Nat]
      /\ Stored(keys) \in [Names -> Key]
  BY ObjectTypes DEF CInv, TInv, TypeOK
<1>1. CASE KeysRest
  BY <1>1 DEF KeysRest, Keeps
<1>2. ASSUME NEW m \in Names, NEW y \in Key, PutKey(m, y), Appears(m, y) \/ Advances(m, y)
      PROVE  Keeps(Stored(keys)[n], Stored(keys)'[n])
  <2>1. Stored(keys)' = Changed(keys, m, Versioned(m, y))
    BY <1>0, <1>2, PutKeyWrites
  <2>2. CASE m # n
    BY <1>0, <2>1, <2>2 DEF Changed, Keeps
  <2>3. CASE m = n
    <3>1. /\ Stored(keys)'[n].uid = y.uid /\ Stored(keys)'[n].phase = y.phase
          /\ Stored(keys)'[n].keyID = y.keyID
      BY <1>0, <2>1, <2>3, VersionedIs DEF Changed
    <3>2. ~Appears(n, y)
      <4>1. born[n] + 1 # 0
        BY <1>0
      <4>2. [NoKey EXCEPT !.uid = born[n] + 1].uid = born[n] + 1
        BY DEF NoKey
      <4> QED
        BY <3>1, <4>1, <4>2 DEF Appears, Same
    <3> QED
      BY <1>2, <2>3, <3>1, <3>2, ViewAdvances DEF Keeps
  <2> QED
    BY <2>2, <2>3
<1>3. ASSUME NEW m \in Names, RemoveKey(m), Leaves(m)
      PROVE  Keeps(Stored(keys)[n], Stored(keys)'[n])
  <2>1. Stored(keys)' = Changed(keys, m, NoKey)
    BY <1>0, <1>3, RemoveKeyWrites
  <2> QED
    BY <1>0, <1>3, <2>1, NoObjects DEF Changed, Leaves, Keeps
<1> QED
  BY <1>1, <1>2, <1>3, KeyChanges

(* The outcome of a Key and its ID are final: duplicate Jobs, the logs of  *)
(* other pods and stale copies take nothing back.                          *)
THEOREM VerdictsStay == Spec => VerdictFinal
<1>1. CInv /\ [Next]_vars =>
        [\A n \in Names :
           LET key == Stored(keys)[n]
               next == Stored(keys')[n]
           IN  key.phase \in {"created", "failed"} /\ next.uid = key.uid
                 => next.phase = key.phase /\ next.keyID = key.keyID]_vars
  <2>1. CInv /\ [Next]_vars => KeyStep
    BY EveryStep DEF CInv, Classified
  <2> QED
    BY <2>1, VerdictStays DEF Keeps
<1>2. CInv /\ [Next]_vars => CInv'
  BY CInvStep
<1> QED
  BY <1>1, <1>2, CInvInit, PTL DEF Spec, VerdictFinal

===============================================================================
