---------------------------- MODULE ForgetSchedule -----------------------------
(***************************************************************************)
(* The ForgetSchedule controller (forgetschedule_controller.go): for every *)
(* ForgetSchedule one CronJob that runs "restic forget" on the Repository  *)
(* that the schedule names.                                                *)
(*                                                                         *)
(* The CronJob is made of the schedule's spec and the Repository's, and    *)
(* therefore modelled as the pair of the two.  The controller watches      *)
(* ForgetSchedules only: neither Repositories nor CronJobs start a         *)
(* Reconcile.                                                              *)
(***************************************************************************)
EXTENDS Informer, Retention

CONSTANTS
  Names,      \* names of ForgetSchedules; the CronJob of n is called forget-n
  RepoNames,  \* names of Repositories
  Editions,   \* what CreateForgetJob can find in the spec of a Repository
  Specs,      \* the specs that users ask for
  None,       \* no name, no spec, no Repository
  MaxUid,     \* bound: ForgetSchedules created under one name, one after another
  MaxRepoUid, \* bound: Repositories created
  MaxTouch,   \* bound: edits and foreground deletions by users, and CronJob runs
  MaxFaults,  \* bound: failed API calls and restarts of the operator
  MaxRemade,  \* bound: CronJobs made for schedules that are being deleted
  MaxLag      \* bound: changes of a kind that its cache has not seen

(* A ForgetScheduleSpec.  Its schedule is bad to cronexpr, the parser of   *)
(* the webhook, or extended, which the API server refuses in a CronJob, or *)
(* plain.                                                                  *)
ScheduleSpec == [repo : RepoNames, cron : {"bad", "extended", "plain"}, keep : Policy]

ASSUME NoneAssumption == None \notin Names \cup RepoNames \cup Editions \cup Specs
ASSUME SpecsAssumption == Specs \subseteq ScheduleSpec
ASSUME BoundsAssumption ==
  /\ MaxUid \in Nat /\ MaxRepoUid \in Nat /\ MaxTouch \in Nat
  /\ MaxFaults \in Nat /\ MaxRemade \in Nat /\ MaxLag \in Nat

VARIABLES
  repos,      \* the Repository kind
  schedules,  \* the ForgetSchedule kind
  crons,      \* the CronJob kind; forget-n at n
  queue,      \* the controller's work queue: a set of names
  worker,     \* where Reconcile is, with its copies
  born,       \* name -> uid given to the last ForgetSchedule of that name
  repoBorn,   \* uid given to the last Repository
  revision,   \* name -> resourceVersion given to the schedule's last write
  touches,    \* edits, foreground deletions and CronJob runs so far
  faults,     \* failed calls and restarts so far
  remade      \* CronJobs made so far for schedules that are being deleted

vars == <<repos, schedules, crons, queue, worker, born, repoBorn,
          revision, touches, faults, remade>>

(* Variables a step of the controller's worker never changes.              *)
world == <<repos, born, repoBorn, touches, faults>>

L == INSTANCE RepoLifecycle WITH
       view <- [n \in Names |-> [uid |-> Stored(schedules)[n].uid,
                                 phase |-> Stored(schedules)[n].phase,
                                 deleting |-> Stored(schedules)[n].deleting]]

-------------------------------------------------------------------------------
(* Objects.  An object that does not exist has uid 0, or is not live.      *)

Repo == [uid : Nat, edition : Editions \cup {None}]

NoRepo == [uid |-> 0, edition |-> None]

(* phase tells the conditions; owner is the uid of the Repository in the   *)
(* controller reference.                                                   *)
Schedule == [uid : Nat, rv : Nat, spec : Specs \cup {None}, phase : L!Phases,
             owner : Nat, deleting : BOOLEAN]

NoSchedule == [uid |-> 0, rv |-> 0, spec |-> None, phase |-> "nil",
               owner |-> 0, deleting |-> FALSE]

(* owner is the uid of the ForgetSchedule.  ran stands for the status that *)
(* the CronJob controller keeps.                                           *)
CronJob == [live : BOOLEAN, owner : Nat, spec : Specs \cup {None},
            edition : Editions \cup {None}, ran : BOOLEAN]

NoCronJob == [live |-> FALSE, owner |-> 0, spec |-> None, edition |-> None, ran |-> FALSE]

Worker == [pc : {"idle", "own", "getCronJob", "tell"}, name : Names \cup {None},
           schedule : Schedule, repo : Repo]

Idle == [pc |-> "idle", name |-> None, schedule |-> NoSchedule, repo |-> NoRepo]

-------------------------------------------------------------------------------
Init ==
  /\ repos = <<[r \in RepoNames |-> NoRepo]>>
  /\ schedules = <<[n \in Names |-> NoSchedule]>>
  /\ crons = <<[n \in Names |-> NoCronJob]>>
  /\ queue = {}
  /\ worker = Idle
  /\ born = [n \in Names |-> 0]
  /\ repoBorn = 0
  /\ revision = [n \in Names |-> 0]
  /\ touches = 0
  /\ faults = 0
  /\ remade = 0

(* Accepted writes.  A ForgetSchedule gets the next resourceVersion.       *)
PutSchedule(n, schedule) ==
  /\ Len(schedules) <= MaxLag
  /\ schedules' = Write(schedules, n, [schedule EXCEPT !.rv = revision[n] + 1])
  /\ revision' = [revision EXCEPT ![n] = @ + 1]

RemoveSchedule(n) ==
  /\ Len(schedules) <= MaxLag
  /\ schedules' = Write(schedules, n, NoSchedule)
  /\ UNCHANGED revision

PutCronJob(n, cron) ==
  /\ Len(crons) <= MaxLag
  /\ crons' = Write(crons, n, cron)

PutRepo(r, repo) ==
  /\ Len(repos) <= MaxLag
  /\ repos' = Write(repos, r, repo)

(* Reconcile returns an error or RequeueAfter: the name is handed out      *)
(* again.                                                                  *)
Retry(n) ==
  /\ worker' = Idle
  /\ queue' = queue \cup {n}

(* Reconcile returns without an error.                                     *)
Return ==
  /\ worker' = Idle
  /\ UNCHANGED queue

(* The API server refuses a copy that is not of the latest version.        *)
Current(schedule) == Stored(schedules)[worker.name].rv = schedule.rv

(* An Update of the worker's copy; the answer is the copy it goes on with. *)
Update(copy, next) ==
  \/ /\ Current(worker.schedule)
     /\ PutSchedule(worker.name, copy)
     /\ worker' = [worker EXCEPT !.pc = next,
                                 !.schedule = [copy EXCEPT !.rv = revision[worker.name] + 1]]
     /\ UNCHANGED queue
  \/ /\ ~Current(worker.schedule)
     /\ Retry(worker.name)
     /\ UNCHANGED <<schedules, revision>>

-------------------------------------------------------------------------------
(* The worker.                                                             *)

(* The Repository that the schedule names is in the cache.                 *)
RepoFoundMutant(repo) == TRUE
RepoFound(repo) == repo.uid # 0

(* SetDefaultConditions does something.                                    *)
NeedsDefaultsMutant(schedule) == TRUE
NeedsDefaults(schedule) == schedule.phase = "nil"

(* The Repository that a Reconcile of schedule gets.                       *)
RepoOf(schedule) == Cached(repos)[schedule.spec.repo]

(* The ForgetSchedule is gone, or its Repository is missing: RequeueAfter. *)
ReconcileNothing(n) ==
  LET schedule == Cached(schedules)[n] IN
  /\ worker.pc = "idle"
  /\ n \in queue
  /\ \/ schedule.uid = 0 /\ queue' = queue \ {n} /\ UNCHANGED worker
     \/ schedule.uid # 0 /\ ~RepoFound(RepoOf(schedule)) /\ Retry(n)
  /\ UNCHANGED <<schedules, crons, revision, remade, world>>

(* SetDefaultConditions and Status().Update.                               *)
ReconcileDefaults(n) ==
  LET schedule == Cached(schedules)[n]
      set == [schedule EXCEPT !.phase = "pending"]
  IN
  /\ worker.pc = "idle"
  /\ n \in queue
  /\ schedule.uid # 0
  /\ RepoFound(RepoOf(schedule))
  /\ NeedsDefaults(schedule)
  /\ \/ /\ Stored(schedules)[n].rv = schedule.rv
        /\ PutSchedule(n, set)
        /\ queue' = queue \ {n}
        /\ worker' = [pc |-> "own", name |-> n, schedule |-> [set EXCEPT !.rv = revision[n] + 1],
                      repo |-> RepoOf(schedule)]
     \/ /\ Stored(schedules)[n].rv # schedule.rv
        /\ Retry(n)
        /\ UNCHANGED <<schedules, revision>>
  /\ UNCHANGED <<crons, remade, world>>

(* Conditions are set already: on to the CronJob.                          *)
ReconcileKnown(n) ==
  LET schedule == Cached(schedules)[n] IN
  /\ worker.pc = "idle"
  /\ n \in queue
  /\ schedule.uid # 0
  /\ RepoFound(RepoOf(schedule))
  /\ ~NeedsDefaults(schedule)
  /\ queue' = queue \ {n}
  /\ worker' = [pc |-> "getCronJob", name |-> n, schedule |-> schedule, repo |-> RepoOf(schedule)]
  /\ UNCHANGED <<schedules, crons, revision, remade, world>>

(* SetControllerReference, the label and Update.                           *)
Own ==
  /\ worker.pc = "own"
  /\ Update([worker.schedule EXCEPT !.owner = worker.repo.uid], "getCronJob")
  /\ UNCHANGED <<crons, remade, world>>

(* The CronJob of restic.CreateForgetJob, with its controller reference.   *)
CreateForgetJob(schedule, repo) ==
  [live |-> TRUE, owner |-> schedule.uid, spec |-> schedule.spec,
   edition |-> repo.edition, ran |-> FALSE]

(* The API server parses the schedule of a CronJob more strictly.          *)
Valid(cron) == cron.spec.cron = "plain"

(* Create's answer.  The bound on remade counts as a refusal.              *)
Answer(n, cron) ==
  CASE Stored(crons)[n].live -> "AlreadyExists"
    [] ~Stored(crons)[n].live /\ Valid(cron) /\ (worker.schedule.deleting => remade < MaxRemade) -> "Created"
    [] OTHER -> "Invalid"

(* createForgetJob returns every error of Create.                          *)
FailsMutant(answer) == answer = "Invalid"
Fails(answer) == answer # "Created"

(* createForgetJob, up to Create.                                          *)
CreateCronJob ==
  LET n == worker.name
      cron == CreateForgetJob(worker.schedule, worker.repo)
      answer == Answer(n, cron)
  IN
  /\ worker.pc = "getCronJob"
  /\ ~Cached(crons)[n].live
  /\ \/ answer = "Created" /\ PutCronJob(n, cron)
     \/ answer # "Created" /\ UNCHANGED crons
  /\ \/ Fails(answer) /\ Retry(n)
     \/ ~Fails(answer) /\ worker' = [worker EXCEPT !.pc = "tell"] /\ UNCHANGED queue
  /\ remade' = IF answer = "Created" /\ worker.schedule.deleting THEN remade + 1 ELSE remade
  /\ UNCHANGED <<schedules, revision, world>>

(* SetCreatedCondition and Status().Update: a write even when the          *)
(* condition was True before, because its LastTransitionTime changes.      *)
TellCreated ==
  /\ worker.pc = "tell"
  /\ \/ /\ Current(worker.schedule)
        /\ PutSchedule(worker.name, [worker.schedule EXCEPT !.phase = "created"])
        /\ Return
     \/ /\ ~Current(worker.schedule)
        /\ Retry(worker.name)
        /\ UNCHANGED <<schedules, revision>>
  /\ UNCHANGED <<crons, remade, world>>

(* existingJob.Spec = job.Spec: labels and owner references stay.          *)
RefreshedMutant(existing, job) == existing
Refreshed(existing, job) == [existing EXCEPT !.spec = job.spec, !.edition = job.edition]

(* updateForgetJob.  The copy in the cache must be the stored one, and an  *)
(* update that changes nothing is not a write.                             *)
UpdateCronJob ==
  LET n == worker.name
      existing == Cached(crons)[n]
      job == Refreshed(existing, CreateForgetJob(worker.schedule, worker.repo))
      latest == \A i \in 1..Len(crons) : crons[i][n] = existing
  IN
  /\ worker.pc = "getCronJob"
  /\ existing.live
  /\ \/ latest /\ Valid(job) /\ job # existing /\ PutCronJob(n, job) /\ Return
     \/ latest /\ Valid(job) /\ job = existing /\ Return /\ UNCHANGED crons
     \/ ~(latest /\ Valid(job)) /\ Retry(n) /\ UNCHANGED crons
  /\ UNCHANGED <<schedules, revision, remade, world>>

(* An API call of the worker fails, or was made and its answer is lost.    *)
CallFails ==
  /\ worker.pc # "idle"
  /\ faults < MaxFaults
  /\ faults' = faults + 1
  /\ Retry(worker.name)
  /\ UNCHANGED <<repos, schedules, crons, born, repoBorn, revision, touches, remade>>

(* The operator restarts: caches are listed anew and every ForgetSchedule  *)
(* in them is queued.                                                      *)
Restart ==
  /\ faults < MaxFaults
  /\ faults' = faults + 1
  /\ worker' = Idle
  /\ repos' = Relisted(repos)
  /\ schedules' = Relisted(schedules)
  /\ crons' = Relisted(crons)
  /\ queue' = {n \in Names : Stored(schedules)[n].uid # 0}
  /\ UNCHANGED <<born, repoBorn, revision, touches, remade>>

-------------------------------------------------------------------------------
(* The one watch of SetupWithManager, and the informers that only cache.   *)

DeliverSchedule ==
  /\ Len(schedules) > 1
  /\ queue' = queue \cup Announced(schedules)
  /\ schedules' = Tail(schedules)
  /\ UNCHANGED <<crons, worker, revision, remade, world>>

DeliverCronJob ==
  /\ Len(crons) > 1
  /\ crons' = Tail(crons)
  /\ UNCHANGED <<schedules, queue, worker, revision, remade, world>>

DeliverRepo ==
  /\ Len(repos) > 1
  /\ repos' = Tail(repos)
  /\ UNCHANGED <<schedules, crons, queue, worker, born, repoBorn, revision, touches, faults, remade>>

(* The periodic resync of the cache queues what it holds.                  *)
Resync(n) ==
  /\ Cached(schedules)[n].uid # 0
  /\ n \notin queue
  /\ queue' = queue \cup {n}
  /\ UNCHANGED <<schedules, crons, worker, revision, remade, world>>

-------------------------------------------------------------------------------
(* Users.  Their requests pass the webhook: ValidateCreate and             *)
(* ValidateUpdate both are validateForgetScheduleSpec.                     *)

Admitted(spec) == spec.cron # "bad" /\ KeepsSomething(spec.keep)

UserCreates(n, spec) ==
  /\ Stored(schedules)[n].uid = 0
  /\ born[n] < MaxUid
  /\ Admitted(spec)
  /\ born' = [born EXCEPT ![n] = @ + 1]
  /\ PutSchedule(n, [NoSchedule EXCEPT !.uid = born[n] + 1, !.spec = spec])
  /\ UNCHANGED <<repos, crons, queue, worker, repoBorn, touches, faults, remade>>

(* Every field may change, spec.repository too.                            *)
UserEdits(n, spec) ==
  /\ Stored(schedules)[n].uid # 0
  /\ Stored(schedules)[n].spec # spec
  /\ Admitted(spec)
  /\ touches < MaxTouch
  /\ touches' = touches + 1
  /\ PutSchedule(n, [Stored(schedules)[n] EXCEPT !.spec = spec])
  /\ UNCHANGED <<repos, crons, queue, worker, born, repoBorn, faults, remade>>

(* Background deletion: a ForgetSchedule has no finalizer.                 *)
UserDeletes(n) ==
  /\ Stored(schedules)[n].uid # 0
  /\ RemoveSchedule(n)
  /\ UNCHANGED <<crons, queue, worker, remade, world>>

(* Foreground deletion, of the schedule or of its Repository.              *)
UserDeletesForeground(n) ==
  /\ Stored(schedules)[n].uid # 0
  /\ ~Stored(schedules)[n].deleting
  /\ touches < MaxTouch
  /\ touches' = touches + 1
  /\ PutSchedule(n, [Stored(schedules)[n] EXCEPT !.deleting = TRUE])
  /\ UNCHANGED <<repos, crons, queue, worker, born, repoBorn, faults, remade>>

RepoAppears(r) ==
  /\ Stored(repos)[r].uid = 0
  /\ repoBorn < MaxRepoUid
  /\ repoBorn' = repoBorn + 1
  /\ \E edition \in Editions : PutRepo(r, [uid |-> repoBorn + 1, edition |-> edition])
  /\ UNCHANGED <<schedules, crons, queue, worker, born, revision, touches, faults, remade>>

(* spec.env, spec.image and spec.nodeSelector of a Repository may change.  *)
RepoEdited(r) ==
  /\ Stored(repos)[r].uid # 0
  /\ touches < MaxTouch
  /\ touches' = touches + 1
  /\ \E edition \in Editions \ {Stored(repos)[r].edition} :
       PutRepo(r, [Stored(repos)[r] EXCEPT !.edition = edition])
  /\ UNCHANGED <<schedules, crons, queue, worker, born, repoBorn, revision, faults, remade>>

RepoVanishes(r) ==
  /\ Stored(repos)[r].uid # 0
  /\ PutRepo(r, NoRepo)
  /\ UNCHANGED <<schedules, crons, queue, worker, born, repoBorn, revision, touches, faults, remade>>

-------------------------------------------------------------------------------
(* The cluster: garbage collector and CronJob controller.                  *)

(* The Repository that owns the schedule is gone.                          *)
CollectSchedule(n) ==
  /\ Stored(schedules)[n].owner # 0
  /\ \A r \in RepoNames : Stored(repos)[r].uid # Stored(schedules)[n].owner
  /\ RemoveSchedule(n)
  /\ UNCHANGED <<crons, queue, worker, remade, world>>

CollectCronJob(n) ==
  /\ Stored(crons)[n].live
  /\ Stored(schedules)[n].uid # Stored(crons)[n].owner \/ Stored(schedules)[n].deleting
  /\ PutCronJob(n, NoCronJob)
  /\ UNCHANGED <<schedules, queue, worker, revision, remade, world>>

(* The end of a foreground deletion.                                       *)
FinishSchedule(n) ==
  /\ Stored(schedules)[n].deleting
  /\ ~(Stored(crons)[n].live /\ Stored(crons)[n].owner = Stored(schedules)[n].uid)
  /\ RemoveSchedule(n)
  /\ UNCHANGED <<crons, queue, worker, remade, world>>

(* The CronJob starts a Job and says so in its status.                     *)
CronJobRuns(n) ==
  /\ Stored(crons)[n].live
  /\ touches < MaxTouch
  /\ touches' = touches + 1
  /\ PutCronJob(n, [Stored(crons)[n] EXCEPT !.ran = ~@])
  /\ UNCHANGED <<repos, schedules, queue, worker, born, repoBorn, revision, faults, remade>>

-------------------------------------------------------------------------------
Start(n) == ReconcileNothing(n) \/ ReconcileDefaults(n) \/ ReconcileKnown(n)

Step == Own \/ CreateCronJob \/ TellCreated \/ UpdateCronJob

Deliver == DeliverSchedule \/ DeliverCronJob \/ DeliverRepo

User(n) ==
  \/ \E spec \in Specs : UserCreates(n, spec) \/ UserEdits(n, spec)
  \/ UserDeletes(n)
  \/ UserDeletesForeground(n)

Collect(n) == CollectSchedule(n) \/ CollectCronJob(n) \/ FinishSchedule(n)

RepoChanges(r) == RepoAppears(r) \/ RepoEdited(r) \/ RepoVanishes(r)

Next ==
  \/ Step
  \/ CallFails
  \/ Restart
  \/ Deliver
  \/ \E n \in Names : Start(n) \/ Resync(n) \/ User(n) \/ Collect(n) \/ CronJobRuns(n)
  \/ \E r \in RepoNames : RepoChanges(r)

Spec == Init /\ [][Next]_vars

(* Fairness: as in module Key.                                             *)
FairSpec ==
  /\ Spec
  /\ \A n \in Names :
       SF_vars(Start(n)) /\ WF_vars(Resync(n)) /\ WF_vars(CollectSchedule(n)) /\ WF_vars(CollectCronJob(n))
  /\ WF_vars(Step)
  /\ WF_vars(DeliverSchedule)
  /\ WF_vars(DeliverCronJob)
  /\ WF_vars(DeliverRepo)

-------------------------------------------------------------------------------
(* Properties.                                                             *)

(* Every variable, and every snapshot on its way to a cache, has the shape *)
(* that the API types of api/v1 and the Reconcile locals give it; past its *)
(* early returns, Reconcile has a schedule and a Repository.               *)
TypeOK ==
  /\ repos \in Watched([RepoNames -> Repo])
  /\ schedules \in Watched([Names -> Schedule])
  /\ crons \in Watched([Names -> CronJob])
  /\ queue \subseteq Names
  /\ worker \in Worker
  /\ worker.pc # "idle" => worker.name \in Names /\ worker.schedule.uid # 0 /\ worker.repo.uid # 0
  /\ born \in [Names -> Nat]
  /\ repoBorn \in 0..MaxRepoUid
  /\ revision \in [Names -> Nat]
  /\ touches \in 0..MaxTouch
  /\ faults \in 0..MaxFaults
  /\ remade \in 0..MaxRemade

(* Condition Created says that the CronJob exists and is this schedule's   *)
(* own: although CronJobs are found by name, outlive a deleted schedule    *)
(* until they are collected, and are looked up in a cache that may not     *)
(* know them yet.                                                          *)
CreatedHasCronJob ==
  \A n \in Names :
    LET schedule == Stored(schedules)[n]
        cron == Stored(crons)[n]
    IN  schedule.phase = "created" /\ ~schedule.deleting => cron.live /\ cron.owner = schedule.uid

(* No CronJob, however stale the copy it was made or updated from, runs    *)
(* "restic forget" without a --keep option, although the webhook compares  *)
(* one sum with zero and the script writes one option for every count.     *)
EveryRunKeeps ==
  \A n \in Names : Stored(crons)[n].live => Options(Stored(crons)[n].spec.keep) # {}

(* A ForgetSchedule's conditions go from none to pending to created, never *)
(* back, whatever stale copy of it a Reconcile starts from.                *)
Lifecycle == L!Spec

(* No edit is lost.  As long as the CronJob, be it one left by an earlier  *)
(* schedule of the name, was made of another spec than the schedule has    *)
(* now, the schedule is queued or at work, or a watch event that queues it *)
(* is on its way: however old the copies were that Reconcile made, updated *)
(* or accepted the CronJob from.                                           *)
InHand(n) == n \in queue \/ (worker.pc # "idle" /\ worker.name = n)

Outdated(n) ==
  /\ Stored(schedules)[n].uid # 0
  /\ Stored(crons)[n].live
  /\ Stored(crons)[n].spec # Stored(schedules)[n].spec

EditsHeeded == \A n \in Names : Outdated(n) => InHand(n) \/ OnItsWay(schedules, n)

(* When users leave a schedule and its Repository alone, its CronJob ends  *)
(* up its own and made of the latest specs of both: although no watch      *)
(* tells of Repositories and CronJobs, updates are refused while the cache *)
(* is stale, and the CronJob of a deleted schedule of the same name is     *)
(* updated first and collected later.                                      *)
Active(n) ==
  LET schedule == Stored(schedules)[n] IN
  /\ schedule.uid # 0
  /\ ~schedule.deleting
  /\ schedule.spec.cron = "plain"
  /\ Stored(repos)[schedule.spec.repo].uid # 0

UpToDate(n) ==
  LET schedule == Stored(schedules)[n]
      cron == Stored(crons)[n]
  IN
  /\ cron.live
  /\ cron.owner = schedule.uid
  /\ cron.spec = schedule.spec
  /\ cron.edition = Stored(repos)[schedule.spec.repo].edition

Converges == \A n \in Names : <>[]Active(n) => <>[](Active(n) /\ UpToDate(n))

(* The conditions represent the current state: while a schedule has the    *)
(* CronJob that it asks for, condition Created does not stay False.        *)
Unrecorded(n) == Stored(schedules)[n].phase = "pending" /\ Active(n) /\ UpToDate(n)

CreatedIsRecorded == \A n \in Names : Unrecorded(n) ~> ~Unrecorded(n)
===============================================================================
