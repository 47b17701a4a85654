----------------------------- MODULE ForgetProofs ------------------------------
(***************************************************************************)
(* Theorems about the ForgetSchedule controller, for every value of the    *)
(* constants: any number of schedules and Repositories, any specs, any     *)
(* width of Go's integers, any lag of the caches, any number of failures,  *)
(* restarts and edits.                                                     *)
(***************************************************************************)
EXTENDS ForgetSchedule, InformerProofs

-------------------------------------------------------------------------------
(* The inductive invariant.                                                *)

(* What passed the webhook once, and whatever was made of it.              *)
Wanted(spec) == spec \in Specs /\ Admitted(spec)

SpecsAdmitted ==
  /\ \A n \in Names : \A x \in Seen(schedules) : x[n].uid # 0 => Wanted(x[n].spec)
  /\ worker.pc # "idle" => Wanted(worker.schedule.spec)
  /\ \A n \in Names : \A x \in Seen(crons) : x[n].live => Wanted(x[n].spec)

TInv == TypeOK /\ SpecsAdmitted

-------------------------------------------------------------------------------
(* The counts to keep.                                                     *)

(* Zeros have no sum: a policy that the webhook admits has an option.      *)
LEMMA SumOfZeros ==
  ASSUME NEW keep \in Policy, KeepsSomething(keep)
  PROVE  Options(keep) # {}
<1>1. /\ keep.last \in Nat /\ keep.hourly \in Nat /\ keep.daily \in Nat
      /\ keep.weekly \in Nat /\ keep.monthly \in Nat /\ keep.yearly \in Nat
      /\ DOMAIN keep = {"last", "hourly", "daily", "weekly", "monthly", "yearly"}
  BY HalfRangeAssumption DEF Policy, Counts
<1> SUFFICES ASSUME Options(keep) = {}
             PROVE  FALSE
  OBVIOUS
<1>2. /\ keep.last = 0 /\ keep.hourly = 0 /\ keep.daily = 0
      /\ keep.weekly = 0 /\ keep.monthly = 0 /\ keep.yearly = 0
  <2>1. \A rule \in DOMAIN keep : ~(keep[rule] > 0)
    BY DEF Options
  <2>2. /\ ~(keep["last"] > 0) /\ ~(keep["hourly"] > 0) /\ ~(keep["daily"] > 0)
        /\ ~(keep["weekly"] > 0) /\ ~(keep["monthly"] > 0) /\ ~(keep["yearly"] > 0)
    BY <1>1, <2>1
  <2> QED
    BY <1>1, <2>2
<1>3. GoSum(keep) = 0 % (2 * HalfRange)
  BY <1>2 DEF GoSum
<1>4. 0 % (2 * HalfRange) = 0
  <2>1. PICK m \in Nat \ {0} : m = 2 * HalfRange
    BY HalfRangeAssumption
  <2>2. 0 % m = 0
    BY <2>1
  <2> QED
    BY <2>1, <2>2
<1> QED
  BY <1>3, <1>4 DEF KeepsSomething

LEMMA WantedSpecs ==
  ASSUME NEW spec, Wanted(spec)
  PROVE  /\ spec \in Specs /\ spec.repo \in RepoNames
         /\ spec.keep \in Policy /\ KeepsSomething(spec.keep)
BY SpecsAssumption DEF Wanted, Admitted, ScheduleSpec

-------------------------------------------------------------------------------
(* What the writes do.                                                     *)

LEMMA NoObjects ==
  /\ NoRepo \in Repo /\ NoSchedule \in Schedule /\ NoCronJob \in CronJob
  /\ NoRepo.uid = 0 /\ NoSchedule.uid = 0 /\ ~NoCronJob.live
  /\ Idle \in Worker /\ Idle.pc = "idle"
<1>1. NoRepo \in Repo /\ NoSchedule \in Schedule /\ NoCronJob \in CronJob
  BY DEF NoRepo, Repo, NoSchedule, Schedule, NoCronJob, CronJob, L!Phases
<1>2. NoRepo.uid = 0 /\ NoSchedule.uid = 0 /\ ~NoCronJob.live
  BY DEF NoRepo, NoSchedule, NoCronJob
<1>3. Idle \in Worker /\ Idle.pc = "idle"
  BY <1>1 DEF Idle, Worker
<1> QED
  BY <1>1, <1>2, <1>3

(* The answer to a write: the copy with its new version.                   *)
Versioned(n, schedule) == [schedule EXCEPT !.rv = revision[n] + 1]

LEMMA VersionedIs ==
  ASSUME NEW n \in Names, revision \in [Names -> Nat], NEW x \in Schedule
  PROVE  /\ Versioned(n, x) \in Schedule
         /\ Versioned(n, x).rv = revision[n] + 1
         /\ Versioned(n, x).uid = x.uid
         /\ Versioned(n, x).spec = x.spec
         /\ Versioned(n, x).phase = x.phase
         /\ Versioned(n, x).deleting = x.deleting
<1>1. revision[n] + 1 \in Nat
  OBVIOUS
<1> QED
  BY <1>1 DEF Versioned, Schedule

(* Setting one Boolean leaves everything else as it was.                   *)
LEMMA Marked ==
  ASSUME NEW x \in Schedule, NEW d \in BOOLEAN
  PROVE  LET y == [x EXCEPT !.deleting = d] IN
         /\ y \in Schedule /\ y.deleting = d
         /\ y.uid = x.uid /\ y.spec = x.spec /\ y.phase = x.phase
BY DEF Schedule

LEMMA HasRun ==
  ASSUME NEW x \in CronJob, NEW d \in BOOLEAN
  PROVE  LET y == [x EXCEPT !.ran = d] IN
         y \in CronJob /\ y.live = x.live /\ y.owner = x.owner /\ y.spec = x.spec
BY DEF CronJob

LEMMA PutScheduleWrites ==
  ASSUME TypeOK, NEW n \in Names, NEW x \in Schedule, PutSchedule(n, x)
  PROVE  /\ schedules' \in Watched([Names -> Schedule])
         /\ revision' = [revision EXCEPT ![n] = @ + 1]
         /\ revision' \in [Names -> Nat]
         /\ Stored(schedules)' = Changed(schedules, n, Versioned(n, x))
         /\ Seen(schedules)' = Seen(schedules) \cup {Changed(schedules, n, Versioned(n, x))}
<1>1. schedules \in Watched([Names -> Schedule]) /\ revision \in [Names -> Nat]
  BY DEF TypeOK
<1>2. schedules' = Write(schedules, n, Versioned(n, x)) /\ revision' = [revision EXCEPT ![n] = @ + 1]
  BY DEF PutSchedule, Versioned
<1>3. revision' \in [Names -> Nat]
  BY <1>1, <1>2
<1>4. Changed(schedules, n, Versioned(n, x)) \in [Names -> Schedule]
  BY <1>1, VersionedIs, Snapshots DEF Changed
<1> QED
  BY <1>1, <1>2, <1>3, <1>4, Written

LEMMA RemoveScheduleWrites ==
  ASSUME TypeOK, NEW n \in Names, RemoveSchedule(n)
  PROVE  /\ schedules' \in Watched([Names -> Schedule])
         /\ revision' = revision
         /\ Stored(schedules)' = Changed(schedules, n, NoSchedule)
         /\ Seen(schedules)' = Seen(schedules) \cup {Changed(schedules, n, NoSchedule)}
<1>1. schedules \in Watched([Names -> Schedule])
  BY DEF TypeOK
<1>2. schedules' = Write(schedules, n, NoSchedule) /\ revision' = revision
  BY DEF RemoveSchedule
<1>3. Changed(schedules, n, NoSchedule) \in [Names -> Schedule]
  BY <1>1, NoObjects, Snapshots DEF Changed
<1> QED
  BY <1>1, <1>2, <1>3, Written

LEMMA PutCronJobWrites ==
  ASSUME TypeOK, NEW n \in Names, NEW x \in CronJob, PutCronJob(n, x)
  PROVE  /\ crons' \in Watched([Names -> CronJob])
         /\ Stored(crons)' = Changed(crons, n, x)
         /\ Seen(crons)' = Seen(crons) \cup {Changed(crons, n, x)}
<1>1. crons \in Watched([Names -> CronJob])
  BY DEF TypeOK
<1>2. crons' = Write(crons, n, x)
  BY DEF PutCronJob
<1>3. Changed(crons, n, x) \in [Names -> CronJob]
  BY <1>1, Snapshots DEF Changed
<1> QED
  BY <1>1, <1>2, <1>3, Written

LEMMA PutRepoWrites ==
  ASSUME TypeOK, NEW r \in RepoNames, NEW x \in Repo, PutRepo(r, x)
  PROVE  repos' \in Watched([RepoNames -> Repo])
<1>1. repos \in Watched([RepoNames -> Repo])
  BY DEF TypeOK
<1>2. repos' = Write(repos, r, x)
  BY DEF PutRepo
<1>3. Changed(repos, r, x) \in [RepoNames -> Repo]
  BY <1>1, Snapshots DEF Changed
<1> QED
  BY <1>1, <1>2, <1>3, Written

(* Every snapshot of a kind is well typed, and so is every object in it.   *)
LEMMA ObjectTypes ==
  ASSUME TypeOK
  PROVE  /\ Seen(repos) \subseteq [RepoNames -> Repo]
         /\ Cached(repos) \in Seen(repos) /\ Stored(repos) \in Seen(repos)
         /\ Seen(schedules) \subseteq [Names -> Schedule]
         /\ Cached(schedules) \in Seen(schedules) /\ Stored(schedules) \in Seen(schedules)
         /\ Seen(crons) \subseteq [Names -> CronJob]
         /\ Cached(crons) \in Seen(crons) /\ Stored(crons) \in Seen(crons)
BY Snapshots DEF TypeOK

(* A write of a schedule that the webhook would admit.                     *)
LEMMA PutScheduleKeeps ==
  ASSUME TInv, NEW n \in Names, NEW x \in Schedule, Wanted(x.spec), PutSchedule(n, x)
  PROVE  /\ schedules' \in Watched([Names -> Schedule])
         /\ revision' \in [Names -> Nat]
         /\ \A m \in Names : \A s \in Seen(schedules)' : s[m].uid # 0 => Wanted(s[m].spec)
         /\ Versioned(n, x) \in Schedule
         /\ Versioned(n, x).uid = x.uid
         /\ Versioned(n, x).spec = x.spec
<1>1. TypeOK /\ SpecsAdmitted /\ revision \in [Names -> Nat]
  BY DEF TInv, TypeOK
<1>2. Versioned(n, x).spec = x.spec /\ Stored(schedules) \in Seen(schedules)
      /\ Seen(schedules) \subseteq [Names -> Schedule]
  BY <1>1, VersionedIs, ObjectTypes
<1>3. \A m \in Names : \A s \in Seen(schedules)' : s[m].uid # 0 => Wanted(s[m].spec)
  <2> SUFFICES ASSUME NEW m \in Names, NEW s \in Seen(schedules)', s[m].uid # 0
               PROVE  Wanted(s[m].spec)
    OBVIOUS
  <2>1. CASE s \in Seen(schedules)
    BY <1>1, <2>1 DEF SpecsAdmitted
  <2>2. CASE s = Changed(schedules, n, Versioned(n, x))
    BY <1>1, <1>2, <2>2 DEF SpecsAdmitted, Changed
  <2> QED
    BY <1>1, <2>1, <2>2, PutScheduleWrites
<1> QED
  BY <1>1, <1>3, PutScheduleWrites, VersionedIs

LEMMA RemoveScheduleKeeps ==
  ASSUME TInv, NEW n \in Names, RemoveSchedule(n)
  PROVE  /\ schedules' \in Watched([Names -> Schedule])
         /\ revision' \in [Names -> Nat]
         /\ \A m \in Names : \A s \in Seen(schedules)' : s[m].uid # 0 => Wanted(s[m].spec)
<1>1. TypeOK /\ SpecsAdmitted /\ revision \in [Names -> Nat]
  BY DEF TInv, TypeOK
<1>2. /\ Stored(schedules) \in Seen(schedules)
      /\ Seen(schedules) \subseteq [Names -> Schedule]
  BY <1>1, ObjectTypes
<1>3. \A m \in Names : \A s \in Seen(schedules)' : s[m].uid # 0 => Wanted(s[m].spec)
  <2> SUFFICES ASSUME NEW m \in Names, NEW s \in Seen(schedules)', s[m].uid # 0
               PROVE  Wanted(s[m].spec)
    OBVIOUS
  <2>1. CASE s \in Seen(schedules)
    BY <1>1, <2>1 DEF SpecsAdmitted
  <2>2. CASE s = Changed(schedules, n, NoSchedule)
    BY <1>1, <1>2, <2>2, NoObjects DEF SpecsAdmitted, Changed
  <2> QED
    BY <1>1, <2>1, <2>2, RemoveScheduleWrites
<1> QED
  BY <1>1, <1>3, RemoveScheduleWrites

LEMMA PutCronJobKeeps ==
  ASSUME TInv, NEW n \in Names, NEW x \in CronJob, x.live => Wanted(x.spec), PutCronJob(n, x)
  PROVE  /\ crons' \in Watched([Names -> CronJob])
         /\ \A m \in Names : \A s \in Seen(crons)' : s[m].live => Wanted(s[m].spec)
<1>1. TypeOK /\ SpecsAdmitted
  BY DEF TInv
<1>2. /\ Stored(crons) \in Seen(crons)
      /\ Seen(crons) \subseteq [Names -> CronJob]
  BY <1>1, ObjectTypes
<1>3. \A m \in Names : \A s \in Seen(crons)' : s[m].live => Wanted(s[m].spec)
  <2> SUFFICES ASSUME NEW m \in Names, NEW s \in Seen(crons)', s[m].live
               PROVE  Wanted(s[m].spec)
    OBVIOUS
  <2>1. CASE s \in Seen(crons)
    BY <1>1, <2>1 DEF SpecsAdmitted
  <2>2. CASE s = Changed(crons, n, x)
    BY <1>1, <1>2, <2>2 DEF SpecsAdmitted, Changed
  <2> QED
    BY <1>1, <2>1, <2>2, PutCronJobWrites
<1> QED
  BY <1>1, <1>3, PutCronJobWrites

(* What the cache shows of a schedule is fit to start a Reconcile.         *)
LEMMA CachedSchedules ==
  ASSUME TInv, NEW n \in Names, Cached(schedules)[n].uid # 0
  PROVE  /\ Cached(schedules)[n] \in Schedule
         /\ Wanted(Cached(schedules)[n].spec)
         /\ RepoOf(Cached(schedules)[n]) \in Repo
<1>1. TypeOK /\ SpecsAdmitted
  BY DEF TInv
<1>2. Cached(schedules)[n] \in Schedule /\ Wanted(Cached(schedules)[n].spec)
  BY <1>1, ObjectTypes DEF SpecsAdmitted
<1>3. Cached(schedules)[n].spec.repo \in RepoNames
  BY <1>2, WantedSpecs
<1> QED
  BY <1>1, <1>2, <1>3, ObjectTypes DEF RepoOf

-------------------------------------------------------------------------------
(* Type correctness.                                                       *)

LEMMA TypeInit == Init => TInv
<1> SUFFICES ASSUME Init PROVE TInv
  OBVIOUS
<1> USE DEF Init
<1>1. /\ repos \in Watched([RepoNames -> Repo])
      /\ schedules \in Watched([Names -> Schedule])
      /\ crons \in Watched([Names -> CronJob])
  <2>1. /\ [r \in RepoNames |-> NoRepo] \in [RepoNames -> Repo]
        /\ [n \in Names |-> NoSchedule] \in [Names -> Schedule]
        /\ [n \in Names |-> NoCronJob] \in [Names -> CronJob]
    BY NoObjects
  <2> QED
    BY <2>1, Single
<1>2. worker \in Worker /\ worker.pc = "idle"
  BY NoObjects
<1>3. repoBorn \in 0..MaxRepoUid /\ touches \in 0..MaxTouch /\ faults \in 0..MaxFaults
      /\ remade \in 0..MaxRemade
  BY BoundsAssumption
<1>4. TypeOK
  BY <1>1, <1>2, <1>3 DEF TypeOK
<1>5. /\ Seen(schedules) = {[n \in Names |-> NoSchedule]}
      /\ Seen(crons) = {[n \in Names |-> NoCronJob]}
  BY Single
<1>6. SpecsAdmitted
  BY <1>2, <1>5, NoObjects DEF SpecsAdmitted
<1> QED
  BY <1>4, <1>6 DEF TInv

(* How a Reconcile ends, and how it goes on.                               *)
LEMMA WorkerRests ==
  ASSUME worker' = Idle
  PROVE  worker' \in Worker /\ worker'.pc = "idle"
BY NoObjects

LEMMA TypeStart ==
  ASSUME TInv, NEW n \in Names, Start(n)
  PROVE  TInv'
<1> USE DEF world
<1> DEFINE schedule == Cached(schedules)[n]
<1>1. CASE ReconcileNothing(n)
  <2>1. worker' = worker \/ worker' = Idle
    BY <1>1 DEF ReconcileNothing, Retry
  <2>2. queue' \subseteq Names
    BY <1>1 DEF TInv, TypeOK, ReconcileNothing, Retry
  <2> QED
    BY <1>1, <2>1, <2>2, NoObjects DEF TInv, TypeOK, SpecsAdmitted, ReconcileNothing
<1>2. CASE ReconcileDefaults(n)
  <2> DEFINE set == [schedule EXCEPT !.phase = "pending"]
  <2>1. /\ schedule \in Schedule /\ schedule.uid # 0 /\ Wanted(schedule.spec)
        /\ RepoOf(schedule) \in Repo /\ RepoOf(schedule).uid # 0
    BY <1>2, CachedSchedules DEF ReconcileDefaults, RepoFound
  <2>2. set \in Schedule /\ set.uid # 0 /\ Wanted(set.spec)
    BY <2>1 DEF Schedule, L!Phases
  <2>3. queue' \subseteq Names
    BY <1>2 DEF TInv, TypeOK, ReconcileDefaults, Retry
  <2>4. CASE /\ PutSchedule(n, set)
             /\ worker' = [pc |-> "own", name |-> n, schedule |-> Versioned(n, set), repo |-> RepoOf(schedule)]
    <3> HIDE DEF set
    <3>1. /\ schedules' \in Watched([Names -> Schedule]) /\ revision' \in [Names -> Nat]
          /\ \A m \in Names : \A s \in Seen(schedules)' : s[m].uid # 0 => Wanted(s[m].spec)
          /\ Versioned(n, set) \in Schedule /\ Versioned(n, set).uid # 0
          /\ Wanted(Versioned(n, set).spec)
      BY <2>2, <2>4, PutScheduleKeeps
    <3>2. worker' \in Worker /\ worker'.name = n /\ worker'.repo.uid # 0
          /\ worker'.schedule = Versioned(n, set)
      BY <2>1, <2>4, <3>1 DEF Worker
    <3> QED
      BY <1>2, <2>3, <3>1, <3>2 DEF TInv, TypeOK, SpecsAdmitted, ReconcileDefaults
  <2>5. CASE worker' = Idle /\ UNCHANGED <<schedules, revision>>
    BY <1>2, <2>3, <2>5, NoObjects DEF TInv, TypeOK, SpecsAdmitted, ReconcileDefaults
  <2> QED
    BY <1>2, <2>4, <2>5 DEF ReconcileDefaults, Retry, Versioned
<1>3. CASE ReconcileKnown(n)
  <2>1. /\ schedule \in Schedule /\ schedule.uid # 0 /\ Wanted(schedule.spec)
        /\ RepoOf(schedule) \in Repo /\ RepoOf(schedule).uid # 0
    BY <1>3, CachedSchedules DEF ReconcileKnown, RepoFound
  <2>2. worker' = [pc |-> "getCronJob", name |-> n, schedule |-> schedule, repo |-> RepoOf(schedule)]
    BY <1>3 DEF ReconcileKnown
  <2> HIDE DEF schedule
  <2>3. worker' \in Worker /\ worker'.name = n /\ worker'.repo.uid # 0 /\ worker'.schedule = schedule
    BY <2>1, <2>2 DEF Worker
  <2> QED
    BY <1>3, <2>1, <2>3 DEF TInv, TypeOK, SpecsAdmitted, ReconcileKnown
<1> QED
  BY <1>1, <1>2, <1>3 DEF Start

(* Where the worker is, past the early returns.                            *)
LEMMA AtWork ==
  ASSUME TInv, worker.pc # "idle"
  PROVE  /\ worker.name \in Names
         /\ worker.schedule \in Schedule /\ worker.schedule.uid # 0 /\ Wanted(worker.schedule.spec)
         /\ worker.repo \in Repo /\ worker.repo.uid # 0
BY DEF TInv, TypeOK, SpecsAdmitted, Worker

LEMMA MadeCronJob ==
  ASSUME TInv, worker.pc # "idle"
  PROVE  /\ CreateForgetJob(worker.schedule, worker.repo) \in CronJob
         /\ CreateForgetJob(worker.schedule, worker.repo).live
         /\ CreateForgetJob(worker.schedule, worker.repo).owner = worker.schedule.uid
         /\ CreateForgetJob(worker.schedule, worker.repo).spec = worker.schedule.spec
         /\ CreateForgetJob(worker.schedule, worker.repo).edition = worker.repo.edition
BY AtWork DEF CreateForgetJob, CronJob, Schedule, Repo, Wanted

LEMMA RefreshedCronJob ==
  ASSUME NEW existing \in CronJob, NEW job \in CronJob
  PROVE  /\ Refreshed(existing, job) \in CronJob
         /\ Refreshed(existing, job).live = existing.live
         /\ Refreshed(existing, job).owner = existing.owner
         /\ Refreshed(existing, job).spec = job.spec
BY DEF Refreshed, CronJob

LEMMA TypeReconcile ==
  ASSUME TInv, Step
  PROVE  TInv'
<1> USE DEF world
<1> DEFINE n == worker.name
<1>0. ASSUME worker' = Idle \/ worker' = [worker EXCEPT !.pc = "tell"], worker.pc # "idle"
      PROVE  /\ worker' \in Worker
             /\ worker'.pc # "idle" => worker'.name \in Names /\ worker'.schedule.uid # 0
                                       /\ worker'.repo.uid # 0 /\ Wanted(worker'.schedule.spec)
  BY <1>0, AtWork, NoObjects DEF Worker, TInv, TypeOK
<1>1. CASE Own
  <2> DEFINE copy == [worker.schedule EXCEPT !.owner = worker.repo.uid]
  <2>1. worker.pc # "idle"
    BY <1>1 DEF Own
  <2>2. n \in Names /\ copy \in Schedule /\ copy.uid # 0 /\ Wanted(copy.spec)
        /\ worker.repo \in Repo /\ worker.repo.uid # 0
    BY <2>1, AtWork DEF Schedule, Repo
  <2>3. queue' \subseteq Names
    BY <1>1, <2>2 DEF TInv, TypeOK, Own, Update, Retry
  <2>4. CASE /\ PutSchedule(n, copy)
             /\ worker' = [worker EXCEPT !.pc = "getCronJob", !.schedule = Versioned(n, copy)]
    <3> HIDE DEF copy
    <3>1. /\ schedules' \in Watched([Names -> Schedule]) /\ revision' \in [Names -> Nat]
          /\ \A m \in Names : \A s \in Seen(schedules)' : s[m].uid # 0 => Wanted(s[m].spec)
          /\ Versioned(n, copy) \in Schedule /\ Versioned(n, copy).uid # 0
          /\ Wanted(Versioned(n, copy).spec)
      BY <2>2, <2>4, PutScheduleKeeps
    <3>2. worker' \in Worker /\ worker'.name = n /\ worker'.repo = worker.repo
          /\ worker'.schedule = Versioned(n, copy)
      BY <2>1, <2>2, <2>4, <3>1 DEF Worker, TInv, TypeOK
    <3> QED
      BY <1>1, <2>2, <2>3, <3>1, <3>2 DEF TInv, TypeOK, SpecsAdmitted, Own
  <2>5. CASE worker' = Idle /\ UNCHANGED <<schedules, revision>>
    BY <1>1, <2>3, <2>5, NoObjects DEF TInv, TypeOK, SpecsAdmitted, Own
  <2> QED
    BY <1>1, <2>4, <2>5 DEF Own, Update, Retry, Versioned
<1>2. CASE CreateCronJob
  <2> DEFINE cron == CreateForgetJob(worker.schedule, worker.repo)
  <2>1. worker.pc # "idle"
    BY <1>2 DEF CreateCronJob
  <2>2. n \in Names /\ cron \in CronJob /\ Wanted(cron.spec)
    BY <2>1, AtWork, MadeCronJob
  <2>3. /\ crons' \in Watched([Names -> CronJob])
        /\ \A m \in Names : \A s \in Seen(crons)' : s[m].live => Wanted(s[m].spec)
    <3>1. CASE UNCHANGED crons
      BY <3>1 DEF TInv, TypeOK, SpecsAdmitted
    <3>2. CASE PutCronJob(n, cron)
      <4> HIDE DEF cron
      <4> QED
        BY <2>2, <3>2, PutCronJobKeeps
    <3> QED
      BY <1>2, <3>1, <3>2 DEF CreateCronJob
  <2>4. queue' \subseteq Names /\ (worker' = Idle \/ worker' = [worker EXCEPT !.pc = "tell"])
    BY <1>2, <2>2 DEF TInv, TypeOK, CreateCronJob, Retry
  <2>5. remade' \in 0..MaxRemade
    <3>1. CASE remade' = remade
      BY <3>1 DEF TInv, TypeOK
    <3>2. CASE remade' = remade + 1 /\ remade < MaxRemade
      BY <3>2, BoundsAssumption DEF TInv, TypeOK
    <3> QED
      BY <1>2, <3>1, <3>2 DEF CreateCronJob, Answer
  <2> HIDE DEF cron
  <2> QED
    BY <1>2, <1>0, <2>1, <2>3, <2>4, <2>5 DEF TInv, TypeOK, SpecsAdmitted, CreateCronJob
<1>3. CASE TellCreated
  <2> DEFINE done == [worker.schedule EXCEPT !.phase = "created"]
  <2>1. worker.pc # "idle"
    BY <1>3 DEF TellCreated
  <2>2. n \in Names /\ done \in Schedule /\ Wanted(done.spec)
    BY <2>1, AtWork DEF Schedule, L!Phases
  <2>3. /\ schedules' \in Watched([Names -> Schedule]) /\ revision' \in [Names -> Nat]
        /\ \A m \in Names : \A s \in Seen(schedules)' : s[m].uid # 0 => Wanted(s[m].spec)
    <3>1. CASE UNCHANGED <<schedules, revision>>
      BY <3>1 DEF TInv, TypeOK, SpecsAdmitted
    <3>2. CASE PutSchedule(n, done)
      <4> HIDE DEF done
      <4> QED
        BY <2>2, <3>2, PutScheduleKeeps
    <3> QED
      BY <1>3, <3>1, <3>2 DEF TellCreated
  <2>4. queue' \subseteq Names /\ worker' = Idle
    BY <1>3, <2>2 DEF TInv, TypeOK, TellCreated, Retry, Return
  <2> HIDE DEF done
  <2> QED
    BY <1>3, <2>3, <2>4, NoObjects DEF TInv, TypeOK, SpecsAdmitted, TellCreated
<1>4. CASE UpdateCronJob
  <2> DEFINE existing == Cached(crons)[n]
             job == Refreshed(existing, CreateForgetJob(worker.schedule, worker.repo))
  <2>1. worker.pc # "idle"
    BY <1>4 DEF UpdateCronJob
  <2>2. n \in Names /\ existing \in CronJob
    BY <2>1, AtWork, ObjectTypes DEF TInv
  <2>3. job \in CronJob /\ Wanted(job.spec)
    BY <2>1, <2>2, AtWork, MadeCronJob, RefreshedCronJob
  <2>4. /\ crons' \in Watched([Names -> CronJob])
        /\ \A m \in Names : \A s \in Seen(crons)' : s[m].live => Wanted(s[m].spec)
    <3>1. CASE UNCHANGED crons
      BY <3>1 DEF TInv, TypeOK, SpecsAdmitted
    <3>2. CASE PutCronJob(n, job)
      <4> HIDE DEF job
      <4> QED
        BY <2>2, <2>3, <3>2, PutCronJobKeeps
    <3> QED
      BY <1>4, <3>1, <3>2 DEF UpdateCronJob
  <2>5. queue' \subseteq Names /\ worker' = Idle
    BY <1>4, <2>2 DEF TInv, TypeOK, UpdateCronJob, Retry, Return
  <2> HIDE DEF job
  <2> QED
    BY <1>4, <2>4, <2>5, NoObjects DEF TInv, TypeOK, SpecsAdmitted, UpdateCronJob
<1> QED
  BY <1>1, <1>2, <1>3, <1>4 DEF Step

LEMMA TypeFailures ==
  ASSUME TInv, CallFails \/ Restart
  PROVE  TInv'
<1>1. CASE CallFails
  <2>1. worker.name \in Names /\ faults' \in 0..MaxFaults
    BY <1>1, BoundsAssumption DEF TInv, TypeOK, CallFails
  <2> QED
    BY <1>1, <2>1, NoObjects DEF TInv, TypeOK, SpecsAdmitted, CallFails, Retry
<1>2. CASE Restart
  <2>1. /\ repos' \in Watched([RepoNames -> Repo])
        /\ schedules' \in Watched([Names -> Schedule])
        /\ crons' \in Watched([Names -> CronJob])
        /\ Seen(schedules)' = {Stored(schedules)} /\ Stored(schedules) \in Seen(schedules)
        /\ Seen(crons)' = {Stored(crons)} /\ Stored(crons) \in Seen(crons)
    BY <1>2, Restarted, ObjectTypes DEF TInv, TypeOK, Restart
  <2>2. faults' \in 0..MaxFaults
    BY <1>2, BoundsAssumption DEF TInv, TypeOK, Restart
  <2>3. TypeOK'
    BY <1>2, <2>1, <2>2, NoObjects DEF TInv, TypeOK, Restart
  <2>4. SpecsAdmitted'
    BY <1>2, <2>1, NoObjects DEF TInv, SpecsAdmitted, Restart
  <2> QED
    BY <2>3, <2>4 DEF TInv
<1> QED
  BY <1>1, <1>2

LEMMA TypeDeliver ==
  ASSUME TInv, Deliver
  PROVE  TInv'
<1> USE DEF world
<1>1. CASE DeliverSchedule
  <2>1. /\ schedules' \in Watched([Names -> Schedule]) /\ Announced(schedules) \subseteq Names
        /\ Seen(schedules)' \subseteq Seen(schedules)
    BY <1>1, AnnouncedNames, Delivered DEF TInv, TypeOK, DeliverSchedule
  <2> QED
    BY <1>1, <2>1 DEF TInv, TypeOK, SpecsAdmitted, DeliverSchedule
<1>2. CASE DeliverCronJob
  <2>1. /\ crons' \in Watched([Names -> CronJob])
        /\ Seen(crons)' \subseteq Seen(crons)
    BY <1>2, Delivered DEF TInv, TypeOK, DeliverCronJob
  <2> QED
    BY <1>2, <2>1 DEF TInv, TypeOK, SpecsAdmitted, DeliverCronJob
<1>3. CASE DeliverRepo
  BY <1>3, Delivered DEF TInv, TypeOK, SpecsAdmitted, DeliverRepo
<1> QED
  BY <1>1, <1>2, <1>3 DEF Deliver

LEMMA TypeUser ==
  ASSUME TInv, NEW n \in Names, User(n)
  PROVE  TInv'
<1> USE DEF world
<1>1. /\ Stored(schedules)[n] \in Schedule
      /\ Stored(schedules)[n].uid # 0 => Wanted(Stored(schedules)[n].spec)
  BY ObjectTypes DEF TInv, SpecsAdmitted
<1>2. ASSUME NEW spec \in Specs, UserCreates(n, spec)
      PROVE  TInv'
  <2> DEFINE x == [NoSchedule EXCEPT !.uid = born[n] + 1, !.spec = spec]
  <2>1. born[n] + 1 \in Nat /\ born' \in [Names -> Nat]
    BY <1>2 DEF TInv, TypeOK, UserCreates
  <2>2. x \in Schedule /\ Wanted(x.spec)
    BY <1>2, <2>1 DEF UserCreates, Wanted, NoSchedule, Schedule, L!Phases
  <2>3. PutSchedule(n, x)
    BY <1>2 DEF UserCreates
  <2> HIDE DEF x
  <2> QED
    BY <1>2, <2>1, <2>2, <2>3, PutScheduleKeeps DEF TInv, TypeOK, SpecsAdmitted, UserCreates
<1>3. ASSUME NEW spec \in Specs, UserEdits(n, spec)
      PROVE  TInv'
  <2> DEFINE x == [Stored(schedules)[n] EXCEPT !.spec = spec]
  <2>1. x \in Schedule /\ Wanted(x.spec) /\ touches' \in 0..MaxTouch
    BY <1>1, <1>3, BoundsAssumption DEF TInv, TypeOK, UserEdits, Wanted, Schedule
  <2>2. PutSchedule(n, x)
    BY <1>3 DEF UserEdits
  <2> HIDE DEF x
  <2> QED
    BY <1>3, <2>1, <2>2, PutScheduleKeeps DEF TInv, TypeOK, SpecsAdmitted, UserEdits
<1>4. CASE UserDeletes(n)
  BY <1>4, RemoveScheduleKeeps DEF TInv, TypeOK, SpecsAdmitted, UserDeletes
<1>5. CASE UserDeletesForeground(n)
  <2> DEFINE x == [Stored(schedules)[n] EXCEPT !.deleting = TRUE]
  <2>1. x \in Schedule /\ x.spec = Stored(schedules)[n].spec
    BY <1>1, Marked
  <2>2. PutSchedule(n, x) /\ Stored(schedules)[n].uid # 0
    BY <1>5 DEF UserDeletesForeground
  <2>3. touches' \in 0..MaxTouch
    BY <1>5, BoundsAssumption DEF TInv, TypeOK, UserDeletesForeground
  <2> HIDE DEF x
  <2> QED
    BY <1>1, <1>5, <2>1, <2>2, <2>3, PutScheduleKeeps DEF TInv, TypeOK, SpecsAdmitted, UserDeletesForeground
<1> QED
  BY <1>2, <1>3, <1>4, <1>5 DEF User

LEMMA TypeRepos ==
  ASSUME TInv, NEW r \in RepoNames, RepoChanges(r)
  PROVE  TInv'
<1>1. Stored(repos)[r] \in Repo /\ repoBorn \in Nat
  BY ObjectTypes DEF TInv, TypeOK
<1>2. CASE RepoAppears(r)
  <2>1. \A edition \in Editions : [uid |-> repoBorn + 1, edition |-> edition] \in Repo
    BY <1>1 DEF Repo
  <2>2. repos' \in Watched([RepoNames -> Repo])
    BY <1>2, <2>1, PutRepoWrites DEF TInv, RepoAppears
  <2>3. repoBorn' \in 0..MaxRepoUid
    BY <1>1, <1>2, BoundsAssumption DEF RepoAppears
  <2> QED
    BY <1>2, <2>2, <2>3 DEF TInv, TypeOK, SpecsAdmitted, RepoAppears
<1>3. CASE RepoEdited(r)
  <2>1. \A edition \in Editions : [Stored(repos)[r] EXCEPT !.edition = edition] \in Repo
    BY <1>1 DEF Repo
  <2>2. repos' \in Watched([RepoNames -> Repo])
    BY <1>3, <2>1, PutRepoWrites DEF TInv, RepoEdited
  <2>3. touches' \in 0..MaxTouch
    BY <1>3, BoundsAssumption DEF TInv, TypeOK, RepoEdited
  <2> QED
    BY <1>3, <2>2, <2>3 DEF TInv, TypeOK, SpecsAdmitted, RepoEdited
<1>4. CASE RepoVanishes(r)
  BY <1>4, NoObjects, PutRepoWrites DEF TInv, TypeOK, SpecsAdmitted, RepoVanishes
<1> QED
  BY <1>2, <1>3, <1>4 DEF RepoChanges

LEMMA TypeCluster ==
  ASSUME TInv, NEW n \in Names, Resync(n) \/ Collect(n) \/ CronJobRuns(n)
  PROVE  TInv'
<1> USE DEF world
<1>1. CASE Resync(n)
  BY <1>1 DEF TInv, TypeOK, SpecsAdmitted, Resync
<1>2. CASE CollectSchedule(n)
  BY <1>2, RemoveScheduleKeeps DEF TInv, TypeOK, SpecsAdmitted, CollectSchedule
<1>3. CASE CollectCronJob(n)
  BY <1>3, NoObjects, PutCronJobKeeps DEF TInv, TypeOK, SpecsAdmitted, CollectCronJob
<1>4. CASE FinishSchedule(n)
  BY <1>4, RemoveScheduleKeeps DEF TInv, TypeOK, SpecsAdmitted, FinishSchedule
<1>5. CASE CronJobRuns(n)
  <2> DEFINE x == [Stored(crons)[n] EXCEPT !.ran = ~@]
  <2>1. Stored(crons)[n] \in CronJob /\ (Stored(crons)[n].live => Wanted(Stored(crons)[n].spec))
    BY ObjectTypes DEF TInv, SpecsAdmitted
  <2>2. x \in CronJob /\ (x.live => Wanted(x.spec))
    <3>1. (~Stored(crons)[n].ran) \in BOOLEAN
      OBVIOUS
    <3> QED
      BY <2>1, <3>1, HasRun
  <2>4. touches' \in 0..MaxTouch
    BY <1>5, BoundsAssumption DEF TInv, TypeOK, CronJobRuns
  <2>3. PutCronJob(n, x)
    BY <1>5 DEF CronJobRuns
  <2> HIDE DEF x
  <2> QED
    BY <1>5, <2>2, <2>3, <2>4, PutCronJobKeeps DEF TInv, TypeOK, SpecsAdmitted, CronJobRuns
<1> QED
  BY <1>1, <1>2, <1>3, <1>4, <1>5 DEF Collect

LEMMA TypeStep ==
  ASSUME TInv, [Next]_vars
  PROVE  TInv'
<1>1. CASE Next
  BY <1>1, TypeStart, TypeReconcile, TypeFailures, TypeDeliver, TypeUser, TypeRepos, TypeCluster DEF Next
<1>2. CASE UNCHANGED vars
  BY <1>2 DEF TInv, TypeOK, SpecsAdmitted, vars
<1> QED
  BY <1>1, <1>2

(* Type correctness, and why Reconcile always finds the field it reads:    *)
(* every schedule in a cache or on its way there has a spec of a user.     *)
THEOREM SchedulesTyped == Spec => []TypeOK
<1>1. TInv => TypeOK
  BY DEF TInv
<1> QED
  BY <1>1, TypeInit, TypeStep, PTL DEF Spec

(* For any width of Go's integers: what the webhook admits, however old    *)
(* the copy that a CronJob is made of, names at least one --keep option,   *)
(* so that no "restic forget" of the operator's runs without a policy.     *)
THEOREM RunsKeep == Spec => []EveryRunKeeps
<1>1. TInv => EveryRunKeeps
  <2> SUFFICES ASSUME TInv, NEW n \in Names, Stored(crons)[n].live
               PROVE  Options(Stored(crons)[n].spec.keep) # {}
    BY DEF EveryRunKeeps
  <2>1. Wanted(Stored(crons)[n].spec)
    BY ObjectTypes DEF TInv, SpecsAdmitted
  <2> QED
    BY <2>1, WantedSpecs, SumOfZeros
<1> QED
  BY <1>1, TypeInit, TypeStep, PTL DEF Spec

-------------------------------------------------------------------------------
(* Copies of schedules.                                                    *)

(* A copy of schedule n, wherever it is, is no newer than what the API     *)
(* server holds, and is the very same when it has the same version.        *)
GoodCopy(n, x) ==
  /\ x.rv <= revision[n]
  /\ x.uid <= born[n]
  /\ x.rv = 0 \/ x.uid = 0 => x = NoSchedule
  /\ x.rv = Stored(schedules)[n].rv => x = Stored(schedules)[n]

Copies ==
  \A n \in Names :
    /\ \A x \in Seen(schedules) : GoodCopy(n, x[n])
    /\ worker.pc # "idle" /\ worker.name = n => GoodCopy(n, worker.schedule)

(* The controller sets conditions to two values only, and works on         *)
(* schedules that have theirs.                                             *)
Phases ==
  /\ \A n \in Names : \A x \in Seen(schedules) : x[n].phase # "failed"
  /\ worker.pc # "idle" => worker.schedule.phase \in {"pending", "created"}

CInv == TInv /\ Copies /\ Phases

(* What one step does to the schedules, whoever takes it: nothing, create, *)
(* change or remove one.                                                   *)
Unwritten ==
  /\ Stored(schedules)' = Stored(schedules)
  /\ Seen(schedules)' \subseteq Seen(schedules)
  /\ UNCHANGED <<revision, born>>

Appears(n, x) ==
  /\ Stored(schedules)[n].uid = 0
  /\ x.uid = born[n] + 1 /\ x.phase = "nil" /\ ~x.deleting
  /\ born' = [born EXCEPT ![n] = @ + 1]

Tells(n) == worker.pc = "tell" /\ worker.name = n /\ worker.schedule.uid = Stored(schedules)[n].uid

Advances(n, x) ==
  LET old == Stored(schedules)[n] IN
  /\ old.uid # 0
  /\ x.uid = old.uid
  /\ born' = born
  /\ \/ x.phase = old.phase /\ x.deleting = old.deleting
     \/ x.phase = old.phase /\ x.deleting
     \/ x.deleting = old.deleting /\ old.phase = "nil" /\ x.phase = "pending"
     \/ x.deleting = old.deleting /\ old.phase \in {"pending", "created"} /\ x.phase = "created" /\ Tells(n)

Disappears(n) == RemoveSchedule(n) /\ Stored(schedules)[n].uid # 0 /\ born' = born

ScheduleStep ==
  \/ Unwritten
  \/ \E n \in Names : \E x \in Schedule : PutSchedule(n, x) /\ (Appears(n, x) \/ Advances(n, x))
  \/ \E n \in Names : Disappears(n)

(* Where the worker's copy comes from.                                     *)
WorkerCopy ==
  worker'.pc # "idle" =>
    \/ worker.pc # "idle" /\ worker'.name = worker.name /\ worker'.schedule = worker.schedule
    \/ /\ worker'.name \in Names
       /\ worker'.schedule = Cached(schedules)[worker'.name]
       /\ worker'.schedule.phase # "nil"
    \/ \E n \in Names : \E x \in Schedule :
         /\ PutSchedule(n, x)
         /\ x.phase \in {"pending", "created"}
         /\ worker'.name = n
         /\ worker'.schedule = Versioned(n, x)

(* An update that is not refused was computed from the stored schedule.    *)
LEMMA Unrefused ==
  ASSUME TInv, Copies, worker.pc # "idle", Current(worker.schedule)
  PROVE  worker.schedule = Stored(schedules)[worker.name]
BY AtWork DEF Copies, GoodCopy, Current

LEMMA StepOfWorker ==
  ASSUME CInv, Step
  PROVE  ScheduleStep /\ WorkerCopy
<1> USE DEF world
<1> DEFINE n == worker.name
           old == Stored(schedules)[n]
<1>0. TInv /\ Copies /\ Phases
  BY DEF CInv
<1>1. CASE Own
  <2> DEFINE x == [worker.schedule EXCEPT !.owner = worker.repo.uid]
  <2>1. worker.pc # "idle" /\ UNCHANGED born
    BY <1>1 DEF Own
  <2>2. /\ n \in Names /\ x \in Schedule /\ x.uid # 0
        /\ x.uid = worker.schedule.uid /\ x.phase = worker.schedule.phase
        /\ x.deleting = worker.schedule.deleting
    BY <1>0, <2>1, AtWork DEF Schedule, Repo
  <2>3. CASE /\ Current(worker.schedule)
             /\ PutSchedule(n, x)
             /\ worker' = [worker EXCEPT !.pc = "getCronJob", !.schedule = Versioned(n, x)]
    <3> HIDE DEF x
    <3>1. Advances(n, x)
      BY <1>0, <2>1, <2>2, <2>3, Unrefused DEF Advances
    <3>2. worker'.name = n /\ worker'.schedule = Versioned(n, x)
      BY <1>0, <2>3 DEF TInv, TypeOK, Worker
    <3>3. x.phase \in {"pending", "created"}
      BY <1>0, <2>1, <2>2 DEF Phases
    <3>4. ScheduleStep
      BY <2>2, <2>3, <3>1 DEF ScheduleStep
    <3>5. WorkerCopy
      BY <2>2, <2>3, <3>2, <3>3 DEF WorkerCopy
    <3> QED
      BY <3>4, <3>5
  <2>4. CASE worker' = Idle /\ UNCHANGED <<schedules, revision>>
    BY <2>1, <2>4, NoObjects DEF ScheduleStep, Unwritten, WorkerCopy
  <2> QED
    BY <1>1, <2>3, <2>4 DEF Own, Update, Retry, Versioned
<1>2. CASE CreateCronJob
  <2>1. worker' = Idle \/ worker' = [worker EXCEPT !.pc = "tell"]
    BY <1>2 DEF CreateCronJob, Retry
  <2>2. WorkerCopy
    BY <1>0, <1>2, <2>1, NoObjects DEF WorkerCopy, CreateCronJob, TInv, TypeOK, Worker
  <2> QED
    BY <1>2, <2>2 DEF CreateCronJob, ScheduleStep, Unwritten
<1>3. CASE TellCreated
  <2> DEFINE x == [worker.schedule EXCEPT !.phase = "created"]
  <2>1. worker.pc = "tell" /\ UNCHANGED born /\ worker' = Idle
    BY <1>3 DEF TellCreated, Retry, Return
  <2>2. /\ n \in Names /\ x \in Schedule /\ x.uid # 0
        /\ x.uid = worker.schedule.uid /\ x.phase = "created"
        /\ x.deleting = worker.schedule.deleting
    BY <1>0, <2>1, AtWork DEF Schedule, L!Phases
  <2>3. CASE Current(worker.schedule) /\ PutSchedule(n, x)
    <3> HIDE DEF x
    <3>1. worker.schedule = old /\ old.phase \in {"pending", "created"}
      BY <1>0, <2>1, <2>3, Unrefused DEF Phases
    <3>2. Advances(n, x)
      BY <2>1, <2>2, <3>1 DEF Advances, Tells
    <3> QED
      BY <2>1, <2>2, <2>3, <3>2, NoObjects DEF ScheduleStep, WorkerCopy
  <2>4. CASE UNCHANGED <<schedules, revision>>
    BY <2>1, <2>4, NoObjects DEF ScheduleStep, Unwritten, WorkerCopy
  <2> QED
    BY <1>3, <2>3, <2>4 DEF TellCreated
<1>4. CASE UpdateCronJob
  BY <1>4, NoObjects DEF UpdateCronJob, Return, Retry, ScheduleStep, Unwritten, WorkerCopy
<1> QED
  BY <1>1, <1>2, <1>3, <1>4 DEF Step

LEMMA StepOfStart ==
  ASSUME CInv, NEW n \in Names, Start(n)
  PROVE  ScheduleStep /\ WorkerCopy
<1> USE DEF world
<1> DEFINE schedule == Cached(schedules)[n]
<1>0. TInv /\ Copies /\ Phases
  BY DEF CInv
<1>1. CASE ReconcileNothing(n)
  BY <1>1, NoObjects DEF ReconcileNothing, Retry, ScheduleStep, Unwritten, WorkerCopy
<1>2. CASE ReconcileDefaults(n)
  <2> DEFINE x == [schedule EXCEPT !.phase = "pending"]
  <2>1. /\ schedule \in Schedule /\ schedule.uid # 0 /\ schedule.phase = "nil"
        /\ GoodCopy(n, schedule)
    BY <1>0, <1>2, CachedSchedules, ObjectTypes DEF ReconcileDefaults, NeedsDefaults, Copies, TInv
  <2>2. /\ x \in Schedule /\ x.uid = schedule.uid /\ x.phase = "pending"
        /\ x.deleting = schedule.deleting
    BY <2>1 DEF Schedule, L!Phases
  <2>3. CASE /\ Stored(schedules)[n].rv = schedule.rv
             /\ PutSchedule(n, x)
             /\ worker' = [pc |-> "own", name |-> n, schedule |-> Versioned(n, x), repo |-> RepoOf(schedule)]
    <3> HIDE DEF x
    <3>1. schedule = Stored(schedules)[n] /\ born' = born
      BY <1>2, <2>1, <2>3 DEF GoodCopy, ReconcileDefaults
    <3>2. Advances(n, x)
      BY <2>1, <2>2, <3>1 DEF Advances
    <3>3. ScheduleStep
      BY <2>2, <2>3, <3>2 DEF ScheduleStep
    <3>4. WorkerCopy
      BY <2>2, <2>3 DEF WorkerCopy
    <3> QED
      BY <3>3, <3>4
  <2>4. CASE worker' = Idle /\ UNCHANGED <<schedules, revision>>
    BY <1>2, <2>4, NoObjects DEF ReconcileDefaults, ScheduleStep, Unwritten, WorkerCopy
  <2> QED
    BY <1>2, <2>3, <2>4 DEF ReconcileDefaults, Retry, Versioned
<1>3. CASE ReconcileKnown(n)
  <2>1. worker'.name = n /\ worker'.schedule = schedule /\ schedule.phase # "nil"
    BY <1>3 DEF ReconcileKnown, NeedsDefaults
  <2> QED
    BY <1>3, <2>1 DEF ReconcileKnown, ScheduleStep, Unwritten, WorkerCopy
<1> QED
  BY <1>1, <1>2, <1>3 DEF Start

LEMMA StepOfUser ==
  ASSUME CInv, NEW n \in Names, User(n)
  PROVE  ScheduleStep
<1> USE DEF world
<1> DEFINE old == Stored(schedules)[n]
<1>1. old \in Schedule
  BY ObjectTypes DEF CInv, TInv
<1>2. ASSUME NEW spec \in Specs, UserCreates(n, spec)
      PROVE  ScheduleStep
  <2> DEFINE x == [NoSchedule EXCEPT !.uid = born[n] + 1, !.spec = spec]
  <2>1. born[n] + 1 \in Nat /\ PutSchedule(n, x)
    BY <1>2 DEF CInv, TInv, TypeOK, UserCreates
  <2>2. x \in Schedule /\ x.uid = born[n] + 1 /\ x.phase = "nil" /\ ~x.deleting
    BY <2>1 DEF NoSchedule, Schedule, L!Phases
  <2> HIDE DEF x
  <2>3. Appears(n, x)
    BY <1>2, <2>2 DEF Appears, UserCreates
  <2> QED
    BY <2>1, <2>2, <2>3 DEF ScheduleStep
<1>3. ASSUME NEW spec \in Specs, UserEdits(n, spec)
      PROVE  ScheduleStep
  <2> DEFINE x == [old EXCEPT !.spec = spec]
  <2>1. x \in Schedule /\ x.uid = old.uid /\ x.phase = old.phase /\ x.deleting = old.deleting
    BY <1>1 DEF Schedule
  <2>2. PutSchedule(n, x)
    BY <1>3 DEF UserEdits
  <2> HIDE DEF x
  <2>3. Advances(n, x)
    BY <1>3, <2>1 DEF Advances, UserEdits
  <2> QED
    BY <2>1, <2>2, <2>3 DEF ScheduleStep
<1>4. CASE UserDeletes(n)
  BY <1>4 DEF UserDeletes, ScheduleStep, Disappears
<1>5. CASE UserDeletesForeground(n)
  <2> DEFINE x == [old EXCEPT !.deleting = TRUE]
  <2>1. x \in Schedule /\ x.uid = old.uid /\ x.phase = old.phase /\ x.deleting
    BY <1>1, Marked
  <2>2. PutSchedule(n, x)
    BY <1>5 DEF UserDeletesForeground
  <2> HIDE DEF x
  <2>3. Advances(n, x)
    BY <1>5, <2>1 DEF Advances, UserDeletesForeground
  <2> QED
    BY <2>1, <2>2, <2>3 DEF ScheduleStep
<1> QED
  BY <1>2, <1>3, <1>4, <1>5 DEF User

(* A schedule that owns or is going exists.                                *)
LEMMA Exists ==
  ASSUME CInv, NEW n \in Names,
         Stored(schedules)[n].owner # 0 \/ Stored(schedules)[n].deleting
  PROVE  Stored(schedules)[n].uid # 0
<1>1. GoodCopy(n, Stored(schedules)[n])
  BY ObjectTypes DEF CInv, TInv, Copies
<1> QED
  BY <1>1 DEF GoodCopy, NoSchedule

LEMMA EveryStep ==
  ASSUME CInv, [Next]_vars
  PROVE  ScheduleStep /\ WorkerCopy
<1> USE DEF world
<1>1. CASE Step
  BY <1>1, StepOfWorker
<1>2. CASE CallFails
  BY <1>2, NoObjects DEF CallFails, Retry, ScheduleStep, Unwritten, WorkerCopy
<1>3. CASE Restart
  <2>1. Seen(schedules)' \subseteq Seen(schedules) /\ Stored(schedules)' = Stored(schedules)
    BY <1>3, ObjectTypes, Restarted DEF CInv, TInv, TypeOK, Restart
  <2> QED
    BY <1>3, <2>1, NoObjects DEF Restart, ScheduleStep, Unwritten, WorkerCopy
<1>4. CASE Deliver
  <2>1. CASE DeliverSchedule
    <3>1. Seen(schedules)' \subseteq Seen(schedules) /\ Stored(schedules)' = Stored(schedules)
      BY <2>1, Delivered DEF CInv, TInv, TypeOK, DeliverSchedule
    <3> QED
      BY <2>1, <3>1 DEF DeliverSchedule, ScheduleStep, Unwritten, WorkerCopy
  <2>2. CASE DeliverCronJob \/ DeliverRepo
    BY <2>2 DEF DeliverCronJob, DeliverRepo, ScheduleStep, Unwritten, WorkerCopy
  <2> QED
    BY <1>4, <2>1, <2>2 DEF Deliver
<1>5. ASSUME NEW n \in Names, Start(n)
      PROVE  ScheduleStep /\ WorkerCopy
  BY <1>5, StepOfStart
<1>6. ASSUME NEW n \in Names, Resync(n) \/ User(n) \/ Collect(n) \/ CronJobRuns(n)
      PROVE  ScheduleStep /\ WorkerCopy
  <2>1. CASE Resync(n) \/ CollectCronJob(n) \/ CronJobRuns(n)
    BY <2>1 DEF Resync, CollectCronJob, CronJobRuns, ScheduleStep, Unwritten, WorkerCopy
  <2>2. CASE User(n)
    <3>1. worker' = worker
      BY <2>2 DEF User, UserCreates, UserEdits, UserDeletes, UserDeletesForeground
    <3> QED
      BY <2>2, <3>1, StepOfUser DEF WorkerCopy
  <2>3. CASE CollectSchedule(n) \/ FinishSchedule(n)
    <3>1. RemoveSchedule(n) /\ born' = born /\ worker' = worker
      BY <2>3 DEF CollectSchedule, FinishSchedule
    <3>2. Stored(schedules)[n].uid # 0
      BY <2>3, Exists DEF CollectSchedule, FinishSchedule
    <3> QED
      BY <3>1, <3>2 DEF ScheduleStep, Disappears, WorkerCopy
  <2> QED
    BY <1>6, <2>1, <2>2, <2>3 DEF Collect
<1>7. ASSUME NEW r \in RepoNames, RepoChanges(r)
      PROVE  ScheduleStep /\ WorkerCopy
  BY <1>7 DEF RepoChanges, RepoAppears, RepoEdited, RepoVanishes, ScheduleStep, Unwritten, WorkerCopy
<1>8. CASE UNCHANGED vars
  BY <1>8 DEF vars, ScheduleStep, Unwritten, WorkerCopy
<1> QED
  BY <1>1, <1>2, <1>3, <1>4, <1>5, <1>6, <1>7, <1>8 DEF Next

(* A written schedule is newer than every copy of it.                      *)
LEMMA WrittenCopies ==
  ASSUME CInv, NEW n \in Names, NEW x \in Schedule, PutSchedule(n, x),
         Appears(n, x) \/ Advances(n, x)
  PROVE  /\ \A m \in Names : \A y \in Schedule : GoodCopy(m, y) => GoodCopy(m, y)'
         /\ \A m \in Names : \A s \in Seen(schedules)' : GoodCopy(m, s[m])'
         /\ \A y \in Schedule : y = Versioned(n, x) => GoodCopy(n, y)'
<1>a. PICK new \in Schedule : new = Versioned(n, x)
  BY VersionedIs DEF CInv, TInv, TypeOK
<1>0. TInv /\ TypeOK /\ Copies
  BY DEF CInv, TInv
<1>1. /\ revision \in [Names -> Nat] /\ born \in [Names -> Nat]
      /\ revision' = [revision EXCEPT ![n] = @ + 1]
      /\ Stored(schedules)' = Changed(schedules, n, new)
      /\ Seen(schedules)' = Seen(schedules) \cup {Changed(schedules, n, new)}
  BY <1>a, <1>0, PutScheduleWrites DEF TypeOK
<1>2. Stored(schedules) \in [Names -> Schedule] /\ Stored(schedules) \in Seen(schedules)
  BY <1>0, ObjectTypes
<1>3. GoodCopy(n, Stored(schedules)[n])
  BY <1>0, <1>2 DEF Copies
<1>4. /\ new.rv = revision[n] + 1 /\ new.rv # 0
      /\ new.uid = x.uid /\ new.uid # 0 /\ new.uid <= born'[n]
      /\ \A m \in Names : born[m] <= born'[m]
  <2>1. new.rv = revision[n] + 1 /\ new.uid = x.uid /\ revision[n] \in Nat /\ born[n] \in Nat
    BY <1>a, <1>1, VersionedIs
  <2>2. CASE Appears(n, x)
    BY <1>1, <2>1, <2>2 DEF Appears
  <2>3. CASE Advances(n, x)
    BY <1>1, <1>3, <2>1, <2>3 DEF Advances, GoodCopy
  <2> QED
    BY <2>1, <2>2, <2>3
<1>5. /\ Stored(schedules)'[n] = new
      /\ \A m \in Names \ {n} : Stored(schedules)'[m] = Stored(schedules)[m]
      /\ revision'[n] = revision[n] + 1
      /\ \A m \in Names \ {n} : revision'[m] = revision[m]
      /\ born' \in [Names -> Nat]
  BY <1>1, <1>2 DEF Changed, Appears, Advances
<1>6. ASSUME NEW m \in Names, NEW y \in Schedule, GoodCopy(m, y)
      PROVE  GoodCopy(m, y)'
  <2>1. /\ y.rv \in Nat /\ y.uid \in Nat /\ revision[m] \in Nat /\ born[m] \in Nat
        /\ born'[m] \in Nat /\ born[m] <= born'[m]
    BY <1>1, <1>4, <1>5 DEF Schedule
  <2>2. CASE m = n
    <3>1. revision'[m] = revision[m] + 1 /\ Stored(schedules)'[m].rv = revision[m] + 1
      BY <1>4, <1>5, <2>2
    <3> QED
      BY <1>6, <2>1, <3>1 DEF GoodCopy
  <2>3. CASE m # n
    <3>1. revision'[m] = revision[m] /\ Stored(schedules)'[m] = Stored(schedules)[m]
      BY <1>5, <2>3
    <3> QED
      BY <1>6, <2>1, <3>1 DEF GoodCopy
  <2> QED
    BY <2>2, <2>3
<1>7. GoodCopy(n, new)'
  BY <1>1, <1>4, <1>5 DEF GoodCopy
<1>8. ASSUME NEW m \in Names, NEW s \in Seen(schedules)'
      PROVE  GoodCopy(m, s[m])'
  <2>1. CASE s \in Seen(schedules)
    <3>1. s[m] \in Schedule /\ GoodCopy(m, s[m])
      BY <1>0, <2>1, ObjectTypes DEF Copies
    <3> QED
      BY <1>6, <3>1
  <2>2. CASE s = Changed(schedules, n, new) /\ m = n
    BY <1>2, <1>7, <2>2 DEF Changed
  <2>3. CASE s = Changed(schedules, n, new) /\ m # n
    <3>1. s[m] = Stored(schedules)[m]
      BY <1>2, <2>3 DEF Changed
    <3> QED
      BY <1>0, <1>2, <1>6, <3>1 DEF Copies
  <2> QED
    BY <1>1, <2>1, <2>2, <2>3
<1> QED
  BY <1>a, <1>6, <1>7, <1>8

LEMMA RemovedCopies ==
  ASSUME CInv, NEW n \in Names, Disappears(n)
  PROVE  /\ \A m \in Names : \A y \in Schedule : GoodCopy(m, y) => GoodCopy(m, y)'
         /\ \A m \in Names : \A s \in Seen(schedules)' : GoodCopy(m, s[m])'
<1>0. TInv /\ TypeOK /\ Copies
  BY DEF CInv, TInv
<1>1. /\ revision \in [Names -> Nat] /\ born \in [Names -> Nat]
      /\ revision' = revision /\ born' = born
      /\ Stored(schedules)' = Changed(schedules, n, NoSchedule)
      /\ Seen(schedules)' = Seen(schedules) \cup {Changed(schedules, n, NoSchedule)}
  BY <1>0, RemoveScheduleWrites DEF Disappears, TypeOK
<1>2. Stored(schedules) \in [Names -> Schedule] /\ Stored(schedules) \in Seen(schedules)
  BY <1>0, ObjectTypes
<1>3. /\ Stored(schedules)'[n] = NoSchedule
      /\ \A m \in Names \ {n} : Stored(schedules)'[m] = Stored(schedules)[m]
  BY <1>1, <1>2 DEF Changed
<1>4. NoSchedule.rv = 0 /\ NoSchedule.uid = 0
  BY DEF NoSchedule
<1>5. ASSUME NEW m \in Names, NEW y \in Schedule, GoodCopy(m, y)
      PROVE  GoodCopy(m, y)'
  BY <1>1, <1>3, <1>4, <1>5 DEF GoodCopy
<1>6. GoodCopy(n, NoSchedule)'
  BY <1>1, <1>3, <1>4 DEF GoodCopy
<1>7. ASSUME NEW m \in Names, NEW s \in Seen(schedules)'
      PROVE  GoodCopy(m, s[m])'
  <2>1. CASE s \in Seen(schedules)
    <3>1. s[m] \in Schedule /\ GoodCopy(m, s[m])
      BY <1>0, <2>1, ObjectTypes DEF Copies
    <3> QED
      BY <1>5, <3>1
  <2>2. CASE s = Changed(schedules, n, NoSchedule) /\ m = n
    BY <1>2, <1>6, <2>2 DEF Changed
  <2>3. CASE s = Changed(schedules, n, NoSchedule) /\ m # n
    <3>1. s[m] = Stored(schedules)[m]
      BY <1>2, <2>3 DEF Changed
    <3> QED
      BY <1>0, <1>2, <1>5, <3>1 DEF Copies
  <2> QED
    BY <1>1, <2>1, <2>2, <2>3
<1> QED
  BY <1>5, <1>7

(* The three kinds of step, for copies: what was good stays good, and what *)
(* readers may now get is good.                                            *)
LEMMA CopiesStay ==
  ASSUME CInv, ScheduleStep
  PROVE  /\ \A m \in Names : \A y \in Schedule : GoodCopy(m, y) => GoodCopy(m, y)'
         /\ \A m \in Names : \A s \in Seen(schedules)' : GoodCopy(m, s[m])'
<1>1. CASE Unwritten
  BY <1>1 DEF Unwritten, CInv, Copies, GoodCopy
<1> QED
  BY <1>1, WrittenCopies, RemovedCopies DEF ScheduleStep

(* No write is two.                                                        *)
LEMMA OneWrite ==
  ASSUME CInv, NEW n \in Names, NEW x \in Schedule, PutSchedule(n, x), ScheduleStep
  PROVE  \E y \in Schedule : /\ PutSchedule(n, y)
                             /\ Appears(n, y) \/ Advances(n, y)
                             /\ Versioned(n, y) = Versioned(n, x)
<1>1. TypeOK /\ revision \in [Names -> Nat] /\ revision[n] \in Nat
  BY DEF CInv, TInv, TypeOK
<1>2. /\ revision' = [revision EXCEPT ![n] = @ + 1] /\ revision'[n] = revision[n] + 1
      /\ Stored(schedules)' = Changed(schedules, n, Versioned(n, x))
  BY <1>1, PutScheduleWrites
<1>3. Stored(schedules) \in [Names -> Schedule]
  BY <1>1, ObjectTypes
<1>4. ~Unwritten
  BY <1>1, <1>2 DEF Unwritten
<1>5. ASSUME NEW m \in Names, Disappears(m)
      PROVE  FALSE
  BY <1>1, <1>2, <1>5, RemoveScheduleWrites DEF Disappears
<1>6. PICK m \in Names, y \in Schedule : PutSchedule(m, y) /\ (Appears(m, y) \/ Advances(m, y))
  BY <1>4, <1>5 DEF ScheduleStep
<1>7. /\ revision' = [revision EXCEPT ![m] = @ + 1]
      /\ Stored(schedules)' = Changed(schedules, m, Versioned(m, y))
  BY <1>1, <1>6, PutScheduleWrites
<1>8. m = n
  BY <1>1, <1>2, <1>7
<1>9. Versioned(n, y) = Versioned(n, x)
  BY <1>2, <1>3, <1>7, <1>8 DEF Changed
<1> QED
  BY <1>6, <1>8, <1>9

LEMMA CopiesStep ==
  ASSUME CInv, TInv', ScheduleStep, WorkerCopy
  PROVE  Copies'
<1>0. TInv /\ TypeOK /\ Copies
  BY DEF CInv, TInv
<1>1. ASSUME NEW m \in Names, worker'.pc # "idle", worker'.name = m
      PROVE  GoodCopy(m, worker.schedule)'
  <2>1. worker'.schedule \in Schedule
    BY <1>1, AtWork DEF TInv, TypeOK, Worker
  <2>2. CASE worker.pc # "idle" /\ worker'.name = worker.name /\ worker'.schedule = worker.schedule
    <3>1. PICK y \in Schedule : y = worker.schedule /\ GoodCopy(m, y)
      BY <1>0, <1>1, <2>1, <2>2 DEF Copies
    <3>2. GoodCopy(m, y)'
      BY <3>1, CopiesStay
    <3> QED
      BY <2>2, <3>1, <3>2 DEF GoodCopy
  <2>3. CASE worker'.schedule = Cached(schedules)[m]
    <3>1. PICK y \in Schedule : y = Cached(schedules)[m] /\ GoodCopy(m, y)
      BY <1>0, ObjectTypes DEF Copies
    <3>2. GoodCopy(m, y)'
      BY <3>1, CopiesStay
    <3> QED
      BY <2>3, <3>1, <3>2 DEF GoodCopy
  <2>4. ASSUME NEW n \in Names, NEW x \in Schedule, PutSchedule(n, x),
               worker'.name = n, worker'.schedule = Versioned(n, x)
        PROVE  GoodCopy(m, worker.schedule)'
    <3>1. PICK y \in Schedule : /\ PutSchedule(n, y)
                                /\ Appears(n, y) \/ Advances(n, y)
                                /\ Versioned(n, y) = Versioned(n, x)
      BY <2>4, OneWrite
    <3>2. PICK z \in Schedule : z = Versioned(n, y)
      BY <1>0, VersionedIs DEF TypeOK
    <3>3. GoodCopy(n, z)'
      BY <3>1, <3>2, WrittenCopies
    <3> QED
      BY <1>1, <2>4, <3>1, <3>2, <3>3 DEF GoodCopy
  <2> QED
    BY <1>1, <2>2, <2>3, <2>4 DEF WorkerCopy
<1> QED
  BY <1>1, CopiesStay DEF Copies

LEMMA PhasesStep ==
  ASSUME CInv, TInv', ScheduleStep, WorkerCopy
  PROVE  Phases'
<1>0. TInv /\ TypeOK /\ Phases /\ revision \in [Names -> Nat]
  BY DEF CInv, TInv, TypeOK
<1>1. /\ Stored(schedules) \in [Names -> Schedule] /\ Stored(schedules) \in Seen(schedules)
      /\ Cached(schedules) \in [Names -> Schedule] /\ Cached(schedules) \in Seen(schedules)
  BY <1>0, ObjectTypes
<1>2. ASSUME NEW m \in Names, NEW s \in Seen(schedules)'
      PROVE  s[m].phase # "failed"
  <2>1. CASE s \in Seen(schedules)
    BY <1>0, <2>1 DEF Phases
  <2>2. ASSUME NEW n \in Names, NEW x \in Schedule, Appears(n, x) \/ Advances(n, x),
               s = Changed(schedules, n, Versioned(n, x))
        PROVE  s[m].phase # "failed"
    <3>1. x.phase # "failed"
      BY <1>0, <1>1, <2>2 DEF Phases, Appears, Advances
    <3>2. Versioned(n, x).phase # "failed"
      BY <1>0, <3>1, VersionedIs
    <3> QED
      BY <1>0, <1>1, <2>2, <3>2 DEF Changed, Phases
  <2>3. ASSUME NEW n \in Names, s = Changed(schedules, n, NoSchedule)
        PROVE  s[m].phase # "failed"
    BY <1>0, <1>1, <2>3 DEF Changed, Phases, NoSchedule
  <2> QED
    BY <1>0, <2>1, <2>2, <2>3, PutScheduleWrites, RemoveScheduleWrites
       DEF ScheduleStep, Unwritten, Disappears
<1>3. ASSUME worker'.pc # "idle"
      PROVE  worker'.schedule.phase \in {"pending", "created"}
  <2>1. CASE worker.pc # "idle" /\ worker'.schedule = worker.schedule
    BY <1>0, <2>1 DEF Phases
  <2>2. CASE /\ worker'.name \in Names
             /\ worker'.schedule = Cached(schedules)[worker'.name]
             /\ worker'.schedule.phase # "nil"
    BY <1>0, <1>1, <2>2 DEF Phases, Schedule, L!Phases
  <2>3. ASSUME NEW n \in Names, NEW x \in Schedule, x.phase \in {"pending", "created"},
               worker'.schedule = Versioned(n, x)
        PROVE  worker'.schedule.phase \in {"pending", "created"}
    BY <1>0, <2>3, VersionedIs
  <2> QED
    BY <1>3, <2>1, <2>2, <2>3 DEF WorkerCopy
<1> QED
  BY <1>2, <1>3 DEF Phases

LEMMA CInvInit == Init => CInv
<1> SUFFICES ASSUME Init PROVE CInv
  OBVIOUS
<1>1. /\ Stored(schedules) = [n \in Names |-> NoSchedule]
      /\ Seen(schedules) = {Stored(schedules)}
  BY Single DEF Init
<1>2. worker.pc = "idle"
  BY DEF Init, Idle
<1>3. \A n \in Names : GoodCopy(n, NoSchedule)
  <2>1. /\ NoSchedule.rv = 0 /\ NoSchedule.uid = 0
        /\ \A n \in Names : revision[n] = 0 /\ born[n] = 0 /\ Stored(schedules)[n] = NoSchedule
    BY <1>1 DEF Init, NoSchedule
  <2> QED
    BY <2>1 DEF GoodCopy
<1>4. Copies
  BY <1>1, <1>2, <1>3 DEF Copies
<1>5. Phases
  BY <1>1, <1>2 DEF Phases, NoSchedule
<1> QED
  BY <1>4, <1>5, TypeInit DEF CInv

LEMMA CInvStep ==
  ASSUME CInv, [Next]_vars
  PROVE  CInv'
<1>1. TInv'
  BY TypeStep DEF CInv
<1>2. ScheduleStep /\ WorkerCopy
  BY EveryStep
<1> QED
  BY <1>1, <1>2, CopiesStep, PhasesStep DEF CInv

-------------------------------------------------------------------------------
(* The writes are those of RepoLifecycle.                                  *)

(* The refinement mapping, of one object and of all.                       *)
ViewOf(x) == [uid |-> x.uid, phase |-> x.phase, deleting |-> x.deleting]

View == [n \in Names |-> [uid |-> Stored(schedules)[n].uid,
                          phase |-> Stored(schedules)[n].phase,
                          deleting |-> Stored(schedules)[n].deleting]]

LEMMA ViewAfter ==
  ASSUME TypeOK, NEW n \in Names, NEW x \in Schedule, Stored(schedules)' = Changed(schedules, n, x)
  PROVE  View' = [View EXCEPT ![n] = ViewOf(x)]
<1>1. Stored(schedules) \in [Names -> Schedule]
  BY ObjectTypes
<1>2. /\ Stored(schedules)'[n] = x
      /\ \A m \in Names \ {n} : Stored(schedules)'[m] = Stored(schedules)[m]
  BY <1>1 DEF Changed
<1> QED
  BY <1>2 DEF View, ViewOf

(* The d stands for a Boolean: SMT updates such a field only to a variable. *)
LEMMA ViewMarked ==
  ASSUME NEW v \in L!RepoViews, NEW x \in Schedule, NEW d \in BOOLEAN,
         x.uid = v.uid, x.phase = v.phase, x.deleting = d
  PROVE  ViewOf(x) = [v EXCEPT !.deleting = d]
BY DEF ViewOf, Schedule, L!RepoViews

LEMMA ViewOfDeleting ==
  ASSUME NEW v \in L!RepoViews, v.uid # 0,
         NEW x \in Schedule, x.uid = v.uid, x.phase = v.phase, x.deleting
  PROVE  ViewOf(x) \in L!StartsDeletion(v)
<1>1. PICK d \in BOOLEAN : d = TRUE
  OBVIOUS
<1>2. x.deleting = d
  BY <1>1
<1>3. ViewOf(x) = [v EXCEPT !.deleting = d]
  BY <1>2, ViewMarked
<1>4. [v EXCEPT !.deleting = d] = [v EXCEPT !.deleting = TRUE]
  BY <1>1, Zenon
<1>5. L!StartsDeletion(v) = {[v EXCEPT !.deleting = TRUE]}
  BY DEF L!StartsDeletion
<1> QED
  BY <1>3, <1>4, <1>5, Zenon

LEMMA ViewOfProgress ==
  ASSUME NEW v \in L!RepoViews, v.uid # 0, NEW p \in L!Onward(v.phase),
         NEW x \in Schedule, x.uid = v.uid, x.phase = p, x.deleting = v.deleting
  PROVE  ViewOf(x) \in L!Progresses(v)
<1>1. ViewOf(x) = [v EXCEPT !.phase = p]
  BY DEF ViewOf, Schedule, L!RepoViews
<1> QED
  BY <1>1 DEF L!Progresses

LEMMA ViewOfNew ==
  ASSUME NEW u \in Nat, NEW x \in Schedule, x.uid = u, x.phase = "nil", ~x.deleting
  PROVE  ViewOf(x) = [L!NoView EXCEPT !.uid = u]
<1>1. L!NoView \in L!RepoViews /\ L!NoView.deleting = FALSE /\ L!NoView.phase = "nil"
  BY DEF L!NoView, L!RepoViews, L!Phases
<1> QED
  BY <1>1 DEF ViewOf, Schedule, L!RepoViews

LEMMA RefinesStep ==
  ASSUME CInv, ScheduleStep
  PROVE  [L!Next]_(L!vars)
<1>0. TypeOK /\ born \in [Names -> Nat]
  BY DEF CInv, TInv, TypeOK
<1>1. CASE Unwritten
  BY <1>1 DEF Unwritten, L!vars
<1>2. ASSUME NEW n \in Names, NEW x \in Schedule, PutSchedule(n, x), Appears(n, x) \/ Advances(n, x)
      PROVE  [L!Next]_(L!vars)
  <2> DEFINE old == Stored(schedules)[n]
             v == View[n]
  <2>1. PICK new \in Schedule : /\ new = Versioned(n, x)
                                /\ new.uid = x.uid /\ new.phase = x.phase /\ new.deleting = x.deleting
    BY <1>0, VersionedIs DEF TypeOK
  <2>2. View' = [View EXCEPT ![n] = ViewOf(new)]
    BY <1>0, <1>2, <2>1, PutScheduleWrites, ViewAfter
  <2>3. old \in Schedule /\ v = ViewOf(old) /\ v \in L!RepoViews
    BY <1>0, ObjectTypes DEF View, ViewOf, Schedule, L!RepoViews
  <2>4. v.uid = old.uid /\ v.phase = old.phase /\ v.deleting = old.deleting
    BY DEF View
  <2> HIDE DEF v
  <2>5. CASE Appears(n, x)
    <3>1. ViewOf(new) = [L!NoView EXCEPT !.uid = born[n] + 1]
      BY <1>0, <2>1, <2>5, ViewOfNew DEF Appears
    <3>2. L!Create(n)
      BY <2>2, <2>4, <2>5, <3>1 DEF L!Create, L!Appears, Appears, View, v
    <3> QED
      BY <3>2 DEF L!Next
  <2>6. ASSUME ViewOf(new) \in L!Progresses(v) \cup L!StartsDeletion(v), born' = born
        PROVE  L!Next
    <3>1. L!Change(n)
      BY <2>2, <2>6 DEF L!Change, View, v
    <3> QED
      BY <3>1 DEF L!Next
  <2>7. CASE Advances(n, x)
    <3>1. v.uid # 0 /\ new.uid = v.uid /\ born' = born
      BY <2>1, <2>4, <2>7 DEF Advances
    <3>2. CASE new.phase = v.phase /\ new.deleting = v.deleting
      <4>1. ViewOf(new) = View[n]
        BY <2>1, <2>3, <2>4, <3>1, <3>2 DEF ViewOf, v
      <4>2. View' = View
        BY <2>2, <4>1 DEF View
      <4> QED
        BY <3>1, <4>2 DEF L!vars, View
    <3>3. CASE new.phase = v.phase /\ new.deleting
      BY <2>3, <2>6, <3>1, <3>3, ViewOfDeleting
    <3>4. CASE new.deleting = v.deleting /\ new.phase \in L!Onward(v.phase)
      BY <2>3, <2>6, <3>1, <3>4, ViewOfProgress
    <3>5. CASE new.deleting = v.deleting /\ v.phase = "nil" /\ new.phase = "pending"
      BY <3>4, <3>5 DEF L!Onward
    <3>6. CASE new.deleting = v.deleting /\ v.phase \in {"pending", "created"} /\ new.phase = "created"
      BY <3>2, <3>4, <3>6 DEF L!Onward
    <3> QED
      BY <2>1, <2>4, <2>7, <3>2, <3>3, <3>5, <3>6 DEF Advances
  <2> QED
    BY <1>2, <2>5, <2>7
<1>3. ASSUME NEW n \in Names, Disappears(n)
      PROVE  L!Next
  <2>1. View' = [View EXCEPT ![n] = ViewOf(NoSchedule)] /\ born' = born
    BY <1>0, <1>3, NoObjects, RemoveScheduleWrites, ViewAfter DEF Disappears
  <2>2. ViewOf(NoSchedule) \in L!Vanishes(View[n])
    BY <1>3 DEF Disappears, ViewOf, NoSchedule, L!Vanishes, L!NoView, View
  <2>3. L!Change(n)
    BY <2>1, <2>2 DEF L!Change, View
  <2> QED
    BY <2>3 DEF L!Next
<1> QED
  BY <1>1, <1>2, <1>3 DEF ScheduleStep

LEMMA RefinesInit == Init => L!Init
<1> SUFFICES ASSUME Init PROVE L!Init
  OBVIOUS
<1>1. Stored(schedules) = [n \in Names |-> NoSchedule]
  BY Single DEF Init
<1>2. born = [n \in Names |-> 0]
  BY DEF Init
<1> QED
  BY <1>1, <1>2 DEF L!Init, L!NoView, NoSchedule

(* The conditions of a ForgetSchedule live as RepoLifecycle says of a      *)
(* Repository's: no stale Reconcile takes back Created, although           *)
(* ReconcileKnown starts again from any copy in the cache and TellCreated  *)
(* writes the condition without a look at what it was.                     *)
THEOREM SchedulesLive == Spec => Lifecycle
<1>1. CInv /\ [Next]_vars => CInv' /\ [L!Next]_(L!vars)
  BY CInvStep, EveryStep, RefinesStep
<1> QED
  BY <1>1, CInvInit, RefinesInit, PTL DEF Spec, Lifecycle, L!Spec

-------------------------------------------------------------------------------
(* Condition Created and the CronJob.                                      *)

HasCronJob(n) == Stored(crons)[n].live /\ Stored(crons)[n].owner = Stored(schedules)[n].uid

(* Between Create and the status update the CronJob stays.                 *)
CronJobStays ==
  \A n \in Names : Tells(n) /\ ~Stored(schedules)[n].deleting => HasCronJob(n)

HInv == CInv /\ CreatedHasCronJob /\ CronJobStays

(* What one step does to a CronJob whose schedule is alive, ...            *)
CronJobsKept ==
  \A n \in Names :
    HasCronJob(n) /\ ~Stored(schedules)[n].deleting
      => Stored(crons)'[n].live /\ Stored(crons)'[n].owner = Stored(crons)[n].owner

(* ... to a schedule, ...                                                  *)
SchedulesKept ==
  \A n \in Names :
    LET old == Stored(schedules)[n]
        new == Stored(schedules)'[n]
    IN  new.uid # 0 /\ ~new.deleting =>
          \/ new.uid = born[n] + 1 /\ new.phase = "nil"
          \/ new.uid = old.uid /\ ~old.deleting /\ (new.phase = "created" => old.phase = "created" \/ Tells(n))

(* ... and to the worker.                                                  *)
WorkerKept ==
  worker'.pc = "tell" =>
    /\ worker.pc # "idle" /\ worker'.name = worker.name /\ worker'.schedule = worker.schedule
    /\ \/ worker.pc = "tell"
       \/ /\ Stored(crons)'[worker.name].live
          /\ Stored(crons)'[worker.name].owner = worker.schedule.uid

LEMMA SchedulesKeep ==
  ASSUME CInv, ScheduleStep
  PROVE  SchedulesKept
<1>0. TypeOK /\ revision \in [Names -> Nat]
  BY DEF CInv, TInv, TypeOK
<1>1. Stored(schedules) \in [Names -> Schedule]
  BY <1>0, ObjectTypes
<1>2. CASE Unwritten
  BY <1>2 DEF Unwritten, SchedulesKept
<1>3. ASSUME NEW n \in Names, NEW x \in Schedule, PutSchedule(n, x), Appears(n, x) \/ Advances(n, x)
      PROVE  SchedulesKept
  <2>1. PICK new \in Schedule : /\ new = Versioned(n, x)
                                /\ new.uid = x.uid /\ new.phase = x.phase /\ new.deleting = x.deleting
    BY <1>0, VersionedIs
  <2>2. /\ Stored(schedules)'[n] = new
        /\ \A m \in Names \ {n} : Stored(schedules)'[m] = Stored(schedules)[m]
    BY <1>0, <1>1, <1>3, <2>1, PutScheduleWrites DEF Changed
  <2>3. ~new.deleting =>
          \/ new.uid = born[n] + 1 /\ new.phase = "nil"
          \/ /\ new.uid = Stored(schedules)[n].uid /\ ~Stored(schedules)[n].deleting
             /\ new.phase = "created" => Stored(schedules)[n].phase = "created" \/ Tells(n)
    BY <1>3, <2>1 DEF Appears, Advances
  <2> QED
    BY <2>2, <2>3 DEF SchedulesKept
<1>4. ASSUME NEW n \in Names, Disappears(n)
      PROVE  SchedulesKept
  <2>1. /\ Stored(schedules)'[n] = NoSchedule
        /\ \A m \in Names \ {n} : Stored(schedules)'[m] = Stored(schedules)[m]
    BY <1>0, <1>1, <1>4, RemoveScheduleWrites DEF Disappears, Changed
  <2> QED
    BY <2>1, NoObjects DEF SchedulesKept
<1> QED
  BY <1>2, <1>3, <1>4 DEF ScheduleStep

(* A write to a CronJob that keeps its owner, or of one without an owner   *)
(* that is alive.                                                          *)
LEMMA PutCronJobIsKept ==
  ASSUME TypeOK, NEW n \in Names, NEW x \in CronJob, PutCronJob(n, x),
         HasCronJob(n) /\ ~Stored(schedules)[n].deleting
           => x.live /\ x.owner = Stored(crons)[n].owner
  PROVE  CronJobsKept /\ Stored(crons)'[n] = x
<1>1. Stored(crons) \in [Names -> CronJob]
  BY ObjectTypes
<1>2. /\ Stored(crons)'[n] = x
      /\ \A m \in Names \ {n} : Stored(crons)'[m] = Stored(crons)[m]
  BY <1>1, PutCronJobWrites DEF Changed
<1> QED
  BY <1>2 DEF CronJobsKept, HasCronJob

LEMMA CronJobsStep ==
  ASSUME TInv, [Next]_vars
  PROVE  CronJobsKept /\ WorkerKept
<1> USE DEF world
<1>0. TypeOK
  BY DEF TInv
<1>1. CASE CreateCronJob
  <2> DEFINE n == worker.name
             cron == CreateForgetJob(worker.schedule, worker.repo)
  <2>1. /\ n \in Names /\ cron \in CronJob /\ cron.live
        /\ cron.owner = worker.schedule.uid /\ worker.pc # "idle"
    BY <1>1, AtWork, MadeCronJob DEF CreateCronJob
  <2>2. CASE Answer(n, cron) = "Created" /\ PutCronJob(n, cron)
    <3>1. ~Stored(crons)[n].live
      BY <2>2 DEF Answer
    <3> HIDE DEF cron
    <3>2. CronJobsKept /\ Stored(crons)'[n] = cron
      BY <1>0, <2>1, <2>2, <3>1, PutCronJobIsKept DEF HasCronJob
    <3>3. worker' = Idle \/ worker' = [worker EXCEPT !.pc = "tell"]
      BY <1>1 DEF CreateCronJob, Retry
    <3>4. WorkerKept
      BY <1>0, <2>1, <3>2, <3>3, NoObjects DEF WorkerKept, TypeOK, Worker
    <3> QED
      BY <3>2, <3>4
  <2>3. CASE Answer(n, cron) # "Created" /\ UNCHANGED crons
    <3>1. worker' = Idle
      BY <1>1, <2>3 DEF CreateCronJob, Fails, Retry
    <3> QED
      BY <2>3, <3>1, NoObjects DEF CronJobsKept, WorkerKept, HasCronJob
  <2> QED
    BY <1>1, <2>2, <2>3 DEF CreateCronJob
<1>2. CASE UpdateCronJob
  <2> DEFINE n == worker.name
             existing == Cached(crons)[n]
             job == Refreshed(existing, CreateForgetJob(worker.schedule, worker.repo))
  <2>1. n \in Names /\ existing \in CronJob /\ job \in CronJob
        /\ job.live = existing.live /\ job.owner = existing.owner
    BY <1>0, <1>2, AtWork, ObjectTypes, MadeCronJob, RefreshedCronJob DEF UpdateCronJob
  <2>2. existing.live /\ worker' = Idle
    BY <1>2 DEF UpdateCronJob, Return, Retry
  <2>3. CASE /\ \A i \in 1..Len(crons) : crons[i][n] = existing
             /\ PutCronJob(n, job)
    <3>1. Stored(crons)[n] = existing
      BY <1>0, <2>3, Snapshots DEF Stored, TypeOK
    <3> HIDE DEF job
    <3>2. CronJobsKept
      BY <1>0, <2>1, <2>2, <2>3, <3>1, PutCronJobIsKept
    <3> QED
      BY <2>2, <3>2, NoObjects DEF WorkerKept
  <2>4. CASE UNCHANGED crons
    BY <2>2, <2>4, NoObjects DEF CronJobsKept, WorkerKept, HasCronJob
  <2> QED
    BY <1>2, <2>3, <2>4 DEF UpdateCronJob
<1>3. ASSUME NEW n \in Names, CollectCronJob(n)
      PROVE  CronJobsKept /\ WorkerKept
  <2>1. ~(HasCronJob(n) /\ ~Stored(schedules)[n].deleting)
    BY <1>3 DEF CollectCronJob, HasCronJob
  <2>2. PutCronJob(n, NoCronJob) /\ worker' = worker
    BY <1>3 DEF CollectCronJob
  <2> QED
    BY <1>0, <2>1, <2>2, NoObjects, PutCronJobIsKept DEF WorkerKept
<1>4. ASSUME NEW n \in Names, CronJobRuns(n)
      PROVE  CronJobsKept /\ WorkerKept
  <2> DEFINE x == [Stored(crons)[n] EXCEPT !.ran = ~@]
  <2>1. Stored(crons)[n] \in CronJob /\ (~Stored(crons)[n].ran) \in BOOLEAN
    BY <1>0, ObjectTypes
  <2>2. x \in CronJob /\ x.live = Stored(crons)[n].live /\ x.owner = Stored(crons)[n].owner
    BY <2>1, HasRun
  <2>3. PutCronJob(n, x) /\ worker' = worker
    BY <1>4 DEF CronJobRuns
  <2> HIDE DEF x
  <2> QED
    BY <1>0, <2>2, <2>3, PutCronJobIsKept DEF WorkerKept, HasCronJob
<1>5. ASSUME Stored(crons)' = Stored(crons), worker' = worker \/ worker'.pc # "tell"
      PROVE  CronJobsKept /\ WorkerKept
  BY <1>5 DEF CronJobsKept, WorkerKept, HasCronJob
<1> QED
  <2>1. ASSUME Own \/ TellCreated
        PROVE  UNCHANGED crons /\ worker'.pc # "tell"
    BY <1>0, <2>1, NoObjects DEF Own, TellCreated, Update, Return, Retry, TypeOK, Worker
  <2>2. ASSUME NEW n \in Names, Start(n)
        PROVE  UNCHANGED crons /\ (worker' = worker \/ worker'.pc # "tell")
    BY <2>2, NoObjects DEF Start, ReconcileNothing, ReconcileDefaults, ReconcileKnown, Retry
  <2>3. ASSUME CallFails
        PROVE  UNCHANGED crons /\ worker'.pc # "tell"
    BY <2>3, NoObjects DEF CallFails, Retry
  <2>4. ASSUME Restart
        PROVE  Stored(crons)' = Stored(crons) /\ worker'.pc # "tell"
    BY <1>0, <2>4, NoObjects, Restarted DEF TypeOK, Restart
  <2>5. ASSUME Deliver
        PROVE  Stored(crons)' = Stored(crons) /\ worker' = worker
    BY <1>0, <2>5, Delivered DEF TypeOK, Deliver, DeliverSchedule, DeliverCronJob, DeliverRepo
  <2>6. ASSUME NEW n \in Names, Resync(n) \/ User(n) \/ CollectSchedule(n) \/ FinishSchedule(n)
        PROVE  UNCHANGED <<crons, worker>>
    BY <2>6 DEF Resync, User, UserCreates, UserEdits, UserDeletes, UserDeletesForeground,
                CollectSchedule, FinishSchedule
  <2>7. ASSUME NEW r \in RepoNames, RepoChanges(r)
        PROVE  UNCHANGED <<crons, worker>>
    BY <2>7 DEF RepoChanges, RepoAppears, RepoEdited, RepoVanishes
  <2>8. ASSUME UNCHANGED vars
        PROVE  UNCHANGED <<crons, worker>>
    BY <2>8 DEF vars
  <2> QED
    BY <1>1, <1>2, <1>3, <1>4, <1>5, <2>1, <2>2, <2>3, <2>4, <2>5, <2>6, <2>7, <2>8
       DEF Next, Step, Collect

LEMMA CreatedStays ==
  ASSUME HInv, CInv', CronJobsKept, SchedulesKept, WorkerKept
  PROVE  CreatedHasCronJob' /\ CronJobStays'
<1>1. /\ TypeOK /\ Copies /\ born \in [Names -> Nat]
      /\ Stored(schedules) \in [Names -> Schedule]
  BY ObjectTypes DEF HInv, CInv, TInv, TypeOK
<1>2. ASSUME NEW n \in Names, HasCronJob(n), ~Stored(schedules)[n].deleting,
             Stored(schedules)'[n].uid = Stored(schedules)[n].uid
      PROVE  HasCronJob(n)'
  BY <1>2 DEF CronJobsKept, HasCronJob
<1>3. CreatedHasCronJob'
  <2> SUFFICES ASSUME NEW n \in Names, Stored(schedules)'[n].phase = "created",
                      ~Stored(schedules)'[n].deleting
               PROVE  HasCronJob(n)'
    BY DEF CreatedHasCronJob, HasCronJob
  <2>1. Stored(schedules)'[n].uid # 0
    <3>1. GoodCopy(n, Stored(schedules)[n])'
      <4>1. Stored(schedules)' \in Seen(schedules)'
        BY Snapshots DEF CInv, TInv, TypeOK
      <4> QED
        BY <4>1 DEF CInv, Copies
    <3> QED
      BY <3>1 DEF GoodCopy, NoSchedule
  <2>2. /\ Stored(schedules)'[n].uid = Stored(schedules)[n].uid /\ ~Stored(schedules)[n].deleting
        /\ Stored(schedules)[n].phase = "created" \/ Tells(n)
    BY <2>1 DEF SchedulesKept
  <2>3. HasCronJob(n)
    BY <2>2 DEF HInv, CreatedHasCronJob, CronJobStays, HasCronJob
  <2> QED
    BY <1>2, <2>2, <2>3
<1>4. CronJobStays'
  <2> SUFFICES ASSUME NEW n \in Names, Tells(n)', ~Stored(schedules)'[n].deleting
               PROVE  HasCronJob(n)'
    BY DEF CronJobStays
  <2>1. /\ worker'.pc = "tell" /\ worker'.name = n
        /\ worker'.schedule.uid = Stored(schedules)'[n].uid
    BY DEF Tells
  <2>2. worker.pc # "idle" /\ worker.name = n /\ worker.schedule.uid = Stored(schedules)'[n].uid
    BY <2>1 DEF WorkerKept
  <2>3. worker.schedule.uid # 0 /\ worker.schedule.uid \in Nat /\ worker.schedule.uid <= born[n]
    BY <1>1, <2>2, AtWork DEF HInv, CInv, Copies, GoodCopy, Schedule
  <2>4. Stored(schedules)'[n].uid = Stored(schedules)[n].uid /\ ~Stored(schedules)[n].deleting
    BY <1>1, <2>2, <2>3 DEF SchedulesKept
  <2>5. CASE worker.pc = "tell"
    <3>1. HasCronJob(n)
      BY <2>2, <2>4, <2>5 DEF HInv, CronJobStays, Tells
    <3> QED
      BY <1>2, <2>4, <3>1
  <2>6. CASE Stored(crons)'[n].live /\ Stored(crons)'[n].owner = worker.schedule.uid
    BY <2>2, <2>6 DEF HasCronJob
  <2> QED
    BY <2>1, <2>2, <2>5, <2>6 DEF WorkerKept
<1> QED
  BY <1>3, <1>4

LEMMA HInvInit == Init => HInv
<1> SUFFICES ASSUME Init PROVE HInv
  OBVIOUS
<1>1. Stored(schedules) = [n \in Names |-> NoSchedule] /\ worker.pc = "idle"
  BY Single, NoObjects DEF Init
<1>2. CreatedHasCronJob /\ CronJobStays
  BY <1>1 DEF CreatedHasCronJob, CronJobStays, Tells, NoSchedule
<1> QED
  BY <1>2, CInvInit DEF HInv

LEMMA HInvStep ==
  ASSUME HInv, [Next]_vars
  PROVE  HInv'
<1>1. CInv /\ TInv
  BY DEF HInv, CInv
<1>2. CInv'
  BY <1>1, CInvStep
<1>3. SchedulesKept
  BY <1>1, EveryStep, SchedulesKeep
<1>4. CronJobsKept /\ WorkerKept
  BY <1>1, CronJobsStep
<1> QED
  BY <1>2, <1>3, <1>4, CreatedStays DEF HInv

(* Whoever reads condition Created of a schedule that is not being deleted *)
(* finds its CronJob, and not one that is left over from an earlier        *)
(* schedule of the name and about to be collected.                         *)
THEOREM CronJobAtHand == Spec => []CreatedHasCronJob
<1>1. HInv => CreatedHasCronJob
  BY DEF HInv
<1> QED
  BY <1>1, HInvInit, HInvStep, PTL DEF Spec

-------------------------------------------------------------------------------
(* No edit is lost.                                                        *)

(* A worker whose copy is old will be sent back to the schedule.           *)
WorkerHears ==
  worker.pc # "idle" =>
    \/ worker.schedule = Stored(schedules)[worker.name]
    \/ OnItsWay(schedules, worker.name)
    \/ worker.name \in queue

EInv == CInv /\ WorkerHears /\ EditsHeeded

(* Until a restart, an event is still on its way after a step or has       *)
(* queued its schedule, and what a step changes is on its way.             *)
SchedulesHeard ==
  \A n \in Names :
    OnItsWay(schedules, n) \/ Stored(schedules)'[n] # Stored(schedules)[n] =>
      OnItsWay(schedules, n)' \/ n \in queue'

LEMMA WriteHeard ==
  ASSUME TypeOK
  PROVE  /\ \A m, x : schedules' = Write(schedules, m, x) => SchedulesHeard
         /\ \A m, x : PutSchedule(m, x) => SchedulesHeard
         /\ \A m : RemoveSchedule(m) => SchedulesHeard
         /\ schedules' = schedules => SchedulesHeard
<1>1. schedules \in Watched([Names -> Schedule])
  BY DEF TypeOK
<1>2. ASSUME NEW m, NEW x, schedules' = Write(schedules, m, x)
      PROVE  SchedulesHeard
  <2>1. ASSUME NEW n, OnItsWay(schedules, n) \/ Stored(schedules)'[n] # Stored(schedules)[n]
        PROVE  OnItsWay(schedules, n)'
    BY <1>1, <1>2, <2>1, WriteAnnounces
  <2> QED
    BY <2>1 DEF SchedulesHeard
<1> QED
  BY <1>2 DEF PutSchedule, RemoveSchedule, SchedulesHeard

LEMMA StepHeard ==
  ASSUME TypeOK, Next, ~Restart
  PROVE  SchedulesHeard
<1> USE WriteHeard DEF world
<1>1. CASE DeliverSchedule
  <2>1. schedules \in Watched([Names -> Schedule])
    BY DEF TypeOK
  <2>2. ASSUME NEW n \in Names
        PROVE  /\ Stored(schedules)' = Stored(schedules)
               /\ OnItsWay(schedules, n) => OnItsWay(schedules, n)' \/ n \in queue'
    BY <1>1, <2>1, Delivered, DeliveryAnnounces DEF DeliverSchedule
  <2> QED
    BY <2>2 DEF SchedulesHeard
<1>2. CASE DeliverCronJob \/ DeliverRepo \/ CallFails
  BY <1>2 DEF DeliverCronJob, DeliverRepo, CallFails
<1>3. CASE Step
  BY <1>3 DEF Step, Own, Update, CreateCronJob, TellCreated, UpdateCronJob
<1>4. ASSUME NEW n \in Names, Start(n) \/ Resync(n) \/ CronJobRuns(n) \/ CollectCronJob(n)
      PROVE  SchedulesHeard
  BY <1>4 DEF Start, ReconcileNothing, ReconcileDefaults, ReconcileKnown, Resync, CronJobRuns,
              CollectCronJob
<1>5. ASSUME NEW n \in Names, User(n) \/ CollectSchedule(n) \/ FinishSchedule(n)
      PROVE  SchedulesHeard
  BY <1>5 DEF User, UserCreates, UserEdits, UserDeletes, UserDeletesForeground,
              CollectSchedule, FinishSchedule
<1>6. ASSUME NEW r \in RepoNames, RepoChanges(r)
      PROVE  SchedulesHeard
  BY <1>6 DEF RepoChanges, RepoAppears, RepoEdited, RepoVanishes
<1> QED
  BY <1>1, <1>2, <1>3, <1>4, <1>5, <1>6 DEF Next, Deliver, Collect

(* Only the start of a Reconcile and a restart take names from the queue.  *)
LEMMA QueueGrows ==
  ASSUME Next, ~Restart, NEW n \in queue
  PROVE  n \in queue' \/ (Start(n) /\ n \notin queue')
<1> USE DEF world
<1>1. CASE Step
  BY <1>1 DEF Step, Own, Update, CreateCronJob, TellCreated, UpdateCronJob, Retry, Return
<1>2. CASE CallFails \/ Deliver
  BY <1>2 DEF CallFails, Retry, Deliver, DeliverSchedule, DeliverCronJob, DeliverRepo
<1>3. ASSUME NEW m \in Names, Start(m)
      PROVE  n \in queue' \/ m = n
  BY <1>3 DEF Start, ReconcileNothing, ReconcileDefaults, ReconcileKnown, Retry
<1>4. ASSUME NEW m \in Names, Resync(m) \/ User(m) \/ Collect(m) \/ CronJobRuns(m)
      PROVE  n \in queue'
  BY <1>4 DEF Resync, User, UserCreates, UserEdits, UserDeletes, UserDeletesForeground,
              Collect, CollectSchedule, CollectCronJob, FinishSchedule, CronJobRuns
<1>5. ASSUME NEW r \in RepoNames, RepoChanges(r)
      PROVE  n \in queue'
  BY <1>5 DEF RepoChanges, RepoAppears, RepoEdited, RepoVanishes
<1> QED
  BY <1>1, <1>2, <1>3, <1>4, <1>5 DEF Next

(* A new copy is fresh, or stale because events are on their way.          *)
LEMMA WorkerHearsStep ==
  ASSUME EInv, CInv', Next, ~Restart
  PROVE  WorkerHears'
<1>0. TypeOK /\ CInv /\ WorkerHears
  BY DEF EInv, CInv, TInv
<1>1. /\ schedules \in Watched([Names -> Schedule])
      /\ Stored(schedules) \in [Names -> Schedule]
  BY <1>0, ObjectTypes DEF TypeOK
<1>2. SchedulesHeard /\ WorkerCopy
  BY <1>0, StepHeard, EveryStep
<1> SUFFICES ASSUME worker'.pc # "idle"
             PROVE  \/ worker'.schedule = Stored(schedules)'[worker'.name]
                    \/ OnItsWay(schedules, worker.name)'
                    \/ worker'.name \in queue'
  BY DEF WorkerHears
<1>3. PICK n \in Names : n = worker'.name
  BY AtWork DEF CInv, TInv, TypeOK, Worker
<1>4. SUFFICES \/ worker'.schedule = Stored(schedules)'[n]
               \/ OnItsWay(schedules, n)'
               \/ n \in queue'
  BY <1>3
<1>5. CASE worker.pc # "idle" /\ worker.name = n /\ worker'.schedule = worker.schedule
  <2>1. n \in queue => n \in queue'
    BY <1>5, QueueGrows DEF Start, ReconcileNothing, ReconcileDefaults, ReconcileKnown
  <2> QED
    BY <1>0, <1>2, <1>5, <2>1 DEF WorkerHears, SchedulesHeard
<1>6. CASE worker'.schedule = Cached(schedules)[n]
  <2>1. Cached(schedules)[n] # Stored(schedules)[n] => OnItsWay(schedules, n)
    BY <1>1, Behind
  <2> QED
    BY <1>2, <1>6, <2>1 DEF SchedulesHeard
<1>7. ASSUME NEW x \in Schedule, PutSchedule(n, x), worker'.schedule = Versioned(n, x)
      PROVE  worker'.schedule = Stored(schedules)'[n]
  BY <1>0, <1>1, <1>7, PutScheduleWrites DEF Changed
<1> QED
  BY <1>2, <1>3, <1>5, <1>6, <1>7 DEF WorkerCopy

(* The API server's copy of a CronJob after a write.                       *)
LEMMA OneCronJob ==
  ASSUME TypeOK, NEW m \in Names, NEW x \in CronJob, PutCronJob(m, x)
  PROVE  /\ Stored(crons)'[m] = x
         /\ \A n \in Names \ {m} : Stored(crons)'[n] = Stored(crons)[n]
BY PutCronJobWrites, ObjectTypes DEF Changed

(* As long as schedule n itself is still, and the cache knows it.          *)
Still(n) == Stored(schedules)'[n] = Stored(schedules)[n] /\ ~OnItsWay(schedules, n)

(* What a step that is not a start keeps in hand, if it leaves the spec of *)
(* the CronJob as it was.                                                  *)
SameSpec(n) ==
  /\ Stored(crons)'[n].live = Stored(crons)[n].live
  /\ Stored(crons)'[n].spec = Stored(crons)[n].spec

LEMMA HeededBefore ==
  ASSUME EditsHeeded, NEW n \in Names, Still(n), SameSpec(n), Outdated(n)'
  PROVE  InHand(n)
BY DEF EditsHeeded, Still, SameSpec, Outdated

(* A finished update has brought the spec of the schedule.                 *)
LEMMA UpdateHeeds ==
  ASSUME EInv, UpdateCronJob, NEW n \in Names, Still(n), Outdated(n)'
  PROVE  InHand(n)'
<1> DEFINE m == worker.name
           existing == Cached(crons)[m]
           job == Refreshed(existing, CreateForgetJob(worker.schedule, worker.repo))
<1>0. TypeOK /\ TInv /\ WorkerHears /\ EditsHeeded
  BY DEF EInv, CInv, TInv
<1>1. /\ m \in Names /\ existing \in CronJob /\ job \in CronJob
      /\ job.live = existing.live /\ job.spec = worker.schedule.spec
      /\ worker.pc # "idle"
  BY <1>0, AtWork, ObjectTypes, MadeCronJob, RefreshedCronJob DEF UpdateCronJob
<1>2. CASE Retry(m) /\ UNCHANGED crons
  BY <1>0, <1>2, HeededBefore DEF Retry, InHand, SameSpec
<1>3. CASE /\ \A i \in 1..Len(crons) : crons[i][m] = existing
           /\ job # existing => PutCronJob(m, job)
           /\ job = existing => UNCHANGED crons
           /\ Return
  <2>1. Stored(crons)[m] = existing
    BY <1>0, <1>3, Snapshots DEF Stored, TypeOK
  <2> HIDE DEF job
  <2>2. Stored(crons)'[m] = job /\ \A k \in Names \ {m} : Stored(crons)'[k] = Stored(crons)[k]
    BY <1>0, <1>1, <1>3, <2>1, OneCronJob
  <2>3. queue' = queue
    BY <1>3 DEF Return
  <2>4. CASE n = m
    <3>1. Stored(crons)'[n].spec = worker.schedule.spec
      BY <1>1, <2>2, <2>4
    <3>2. worker.schedule # Stored(schedules)[m]
      BY <2>4, <3>1 DEF Outdated, Still
    <3>3. n \in queue
      BY <1>0, <1>1, <2>4, <3>2 DEF WorkerHears, Still
    <3> QED
      BY <2>3, <3>3 DEF InHand
  <2>5. CASE n # m
    BY <1>0, <2>2, <2>3, <2>5, HeededBefore DEF InHand, SameSpec
  <2> QED
    BY <2>4, <2>5
<1> QED
  BY <1>2, <1>3 DEF UpdateCronJob

(* A Reconcile that has made the CronJob goes on to tell.                  *)
LEMMA CreateHeeds ==
  ASSUME EInv, CreateCronJob, NEW n \in Names, Still(n), Outdated(n)'
  PROVE  InHand(n)'
<1> DEFINE cron == CreateForgetJob(worker.schedule, worker.repo)
<1>0. TypeOK /\ TInv /\ EditsHeeded
  BY DEF EInv, CInv, TInv
<1>1. PICK m \in Names : m = worker.name
  BY <1>0, AtWork DEF CreateCronJob
<1>2. cron \in CronJob /\ worker.pc # "idle"
  BY <1>0, MadeCronJob DEF CreateCronJob
<1>3. /\ PutCronJob(m, cron) \/ UNCHANGED crons
      /\ \/ worker' = Idle /\ queue' = queue \cup {m}
         \/ worker' = [worker EXCEPT !.pc = "tell"] /\ queue' = queue
  BY <1>1 DEF CreateCronJob, Retry
<1> HIDE DEF cron
<1>4. CASE n = m
  BY <1>0, <1>1, <1>3, <1>4 DEF InHand, TypeOK, Worker
<1>5. CASE n # m
  <2>1. SameSpec(n)
    BY <1>0, <1>2, <1>3, <1>5, OneCronJob DEF SameSpec
  <2>2. n \in queue
    BY <1>0, <1>1, <1>5, <2>1, HeededBefore DEF InHand
  <2> QED
    BY <1>3, <2>2 DEF InHand
<1> QED
  BY <1>4, <1>5

(* A Reconcile that is over has changed the schedule.                      *)
LEMMA TellHeeds ==
  ASSUME EInv, TellCreated, NEW n \in Names, Still(n), Outdated(n)'
  PROVE  InHand(n)'
<1> DEFINE m == worker.name
           x == [worker.schedule EXCEPT !.phase = "created"]
<1>0. TypeOK /\ TInv /\ Copies /\ EditsHeeded /\ revision \in [Names -> Nat]
  BY DEF EInv, CInv, TInv, TypeOK
<1>1. worker.pc # "idle" /\ UNCHANGED crons
  BY DEF TellCreated
<1>2. InHand(n)
  BY <1>0, <1>1, HeededBefore DEF SameSpec
<1>3. CASE Retry(m)
  BY <1>2, <1>3 DEF InHand, Retry
<1>4. CASE PutSchedule(m, x) /\ Return
  <2>1. m \in Names /\ x \in Schedule
    BY <1>0, <1>1, AtWork DEF Schedule, L!Phases
  <2> HIDE DEF x
  <2>2. Stored(schedules)'[m].rv = revision[m] + 1
    BY <1>0, <1>4, <2>1, PutScheduleWrites, ObjectTypes, VersionedIs DEF Changed
  <2>3. Stored(schedules)[m].rv <= revision[m] /\ Stored(schedules)[m].rv \in Nat /\ revision[m] \in Nat
    <3>1. Stored(schedules) \in Seen(schedules) /\ Stored(schedules)[m] \in Schedule
      BY <1>0, <2>1, ObjectTypes
    <3> QED
      BY <1>0, <2>1, <3>1 DEF Copies, GoodCopy, Schedule
  <2>4. n # m
    BY <2>2, <2>3 DEF Still
  <2> QED
    BY <1>2, <1>4, <2>4 DEF InHand, Return
<1> QED
  BY <1>3, <1>4 DEF TellCreated

(* A Reconcile that does nothing found the schedule gone.                  *)
LEMMA StartHeeds ==
  ASSUME EInv, NEW m \in Names, Start(m), NEW n \in Names, Still(n), Outdated(n)'
  PROVE  InHand(n)'
<1> USE DEF world
<1>0. TypeOK /\ EditsHeeded /\ schedules \in Watched([Names -> Schedule])
  BY DEF EInv, CInv, TInv, TypeOK
<1>1. worker.pc = "idle" /\ UNCHANGED crons
  BY DEF Start, ReconcileNothing, ReconcileDefaults, ReconcileKnown
<1>2. n \in queue
  BY <1>0, <1>1, HeededBefore DEF SameSpec, InHand
<1>3. Cached(schedules)[n].uid # 0
  BY <1>0, Behind DEF Still, Outdated
<1>4. CASE ReconcileNothing(m)
  BY <1>2, <1>3, <1>4 DEF ReconcileNothing, Retry, InHand
<1>5. CASE ReconcileDefaults(m)
  BY <1>2, <1>5 DEF ReconcileDefaults, Retry, InHand
<1>6. CASE ReconcileKnown(m)
  BY <1>2, <1>6 DEF ReconcileKnown, InHand
<1> QED
  BY <1>4, <1>5, <1>6 DEF Start

(* Everybody else takes no name from the queue or the worker, and changes  *)
(* no spec.                                                                *)
LEMMA OthersHeed ==
  ASSUME EInv,
         \/ Own \/ CallFails \/ Deliver
         \/ \E m \in Names : Resync(m) \/ User(m) \/ Collect(m) \/ CronJobRuns(m)
         \/ \E r \in RepoNames : RepoChanges(r),
         NEW n \in Names, Still(n), Outdated(n)'
  PROVE  InHand(n)'
<1> USE DEF world
<1>0. TypeOK /\ EditsHeeded /\ worker \in Worker
  BY DEF EInv, CInv, TInv, TypeOK
<1>1. ASSUME SameSpec(n), queue \subseteq queue',
             \/ worker' = worker
             \/ worker.name \in queue'
             \/ worker'.pc # "idle" /\ worker'.name = worker.name
      PROVE  InHand(n)'
  BY <1>0, <1>1, HeededBefore DEF InHand
<1>2. CASE Own
  <2>1. UNCHANGED crons /\ queue \subseteq queue'
    BY <1>2 DEF Own, Update, Retry
  <2>2. worker.name \in queue' \/ (worker'.pc # "idle" /\ worker'.name = worker.name)
    BY <1>0, <1>2 DEF Own, Update, Retry, Worker
  <2> QED
    BY <1>1, <2>1, <2>2 DEF SameSpec
<1>3. CASE CallFails
  BY <1>1, <1>3 DEF CallFails, Retry, SameSpec
<1>4. CASE Deliver
  <2>1. Stored(crons)' = Stored(crons)
    BY <1>0, <1>4, Delivered DEF TypeOK, Deliver, DeliverSchedule, DeliverCronJob, DeliverRepo
  <2>2. queue \subseteq queue' /\ worker' = worker
    BY <1>4 DEF Deliver, DeliverSchedule, DeliverCronJob, DeliverRepo
  <2> QED
    BY <1>1, <2>1, <2>2 DEF SameSpec
<1>5. ASSUME NEW m \in Names, Resync(m) \/ User(m) \/ CollectSchedule(m) \/ FinishSchedule(m)
      PROVE  InHand(n)'
  <2>1. UNCHANGED <<crons, worker>> /\ queue \subseteq queue'
    BY <1>5 DEF Resync, User, UserCreates, UserEdits, UserDeletes, UserDeletesForeground,
                CollectSchedule, FinishSchedule
  <2> QED
    BY <1>1, <2>1 DEF SameSpec
<1>6. ASSUME NEW m \in Names, CollectCronJob(m)
      PROVE  InHand(n)'
  <2>1. UNCHANGED <<queue, worker>> /\ PutCronJob(m, NoCronJob)
    BY <1>6 DEF CollectCronJob
  <2>2. n # m
    BY <1>0, <2>1, NoObjects, OneCronJob DEF Outdated
  <2>3. SameSpec(n)
    BY <1>0, <2>1, <2>2, NoObjects, OneCronJob DEF SameSpec
  <2> QED
    BY <1>1, <2>1, <2>3
<1>7. ASSUME NEW m \in Names, CronJobRuns(m)
      PROVE  InHand(n)'
  <2> DEFINE x == [Stored(crons)[m] EXCEPT !.ran = ~@]
  <2>1. Stored(crons)[m] \in CronJob /\ (~Stored(crons)[m].ran) \in BOOLEAN
    BY <1>0, ObjectTypes
  <2>2. x \in CronJob /\ x.live = Stored(crons)[m].live /\ x.spec = Stored(crons)[m].spec
    BY <2>1, HasRun
  <2>3. PutCronJob(m, x) /\ UNCHANGED <<queue, worker>>
    BY <1>7 DEF CronJobRuns
  <2> HIDE DEF x
  <2>4. SameSpec(n)
    BY <1>0, <2>2, <2>3, OneCronJob DEF SameSpec
  <2> QED
    BY <1>1, <2>3, <2>4
<1>8. ASSUME NEW r \in RepoNames, RepoChanges(r)
      PROVE  InHand(n)'
  <2>1. UNCHANGED <<crons, worker, queue>>
    BY <1>8 DEF RepoChanges, RepoAppears, RepoEdited, RepoVanishes
  <2> QED
    BY <1>1, <2>1 DEF SameSpec
<1> QED
  BY <1>2, <1>3, <1>4, <1>5, <1>6, <1>7, <1>8 DEF Collect

LEMMA EInvInit == Init => EInv
<1> SUFFICES ASSUME Init PROVE EInv
  OBVIOUS
<1>1. Stored(schedules) = [n \in Names |-> NoSchedule] /\ worker.pc = "idle"
  BY Single, NoObjects DEF Init
<1>2. WorkerHears /\ EditsHeeded
  BY <1>1, NoObjects DEF WorkerHears, EditsHeeded, Outdated
<1> QED
  BY <1>2, CInvInit DEF EInv

LEMMA EInvStep ==
  ASSUME EInv, [Next]_vars
  PROVE  EInv'
<1>0. CInv /\ TypeOK
  BY DEF EInv, CInv, TInv
<1>1. CInv'
  BY <1>0, CInvStep
<1>2. CASE UNCHANGED vars
  BY <1>1, <1>2 DEF EInv, vars, WorkerHears, EditsHeeded, Outdated, InHand, OnItsWay
<1>3. CASE Restart
  <2>1. /\ worker'.pc = "idle" /\ Stored(schedules)' = Stored(schedules)
        /\ queue' = {n \in Names : Stored(schedules)[n].uid # 0}
    BY <1>0, <1>3, NoObjects, Restarted DEF Restart, TypeOK
  <2> QED
    BY <1>1, <2>1 DEF EInv, WorkerHears, EditsHeeded, Outdated, InHand
<1>4. CASE Next /\ ~Restart
  <2>1. WorkerHears' /\ SchedulesHeard
    BY <1>0, <1>1, <1>4, WorkerHearsStep, StepHeard
  <2>2. ASSUME NEW n \in Names, Outdated(n)', Still(n)
        PROVE  InHand(n)'
    BY <1>4, <2>2, UpdateHeeds, CreateHeeds, TellHeeds, StartHeeds, OthersHeed DEF Next, Step
  <2>3. ASSUME NEW n \in Names, Outdated(n)'
        PROVE  InHand(n)' \/ OnItsWay(schedules, n)'
    BY <2>1, <2>2, <2>3 DEF SchedulesHeard, Still, InHand
  <2> QED
    BY <1>1, <2>1, <2>3 DEF EInv, EditsHeeded
<1> QED
  BY <1>2, <1>3, <1>4

(* Whoever edits a schedule can rely on it that its CronJob is made anew:  *)
(* if a Reconcile that has not seen the edit yet makes, updates or accepts *)
(* the CronJob, the schedule is reconciled once more after that.           *)
THEOREM NoEditLost == Spec => []EditsHeeded
<1>1. EInv => EditsHeeded
  BY DEF EInv
<1> QED
  BY <1>1, EInvInit, EInvStep, PTL DEF Spec
===============================================================================
