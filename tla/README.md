# A formal model of restic-operator

restic-operator turns Kubernetes objects into restic repositories: a `Repository`
becomes an initialised storage, a `Key` becomes a key of that storage, a
`ForgetSchedule` becomes a CronJob that prunes snapshots. The operator never talks
to restic itself. It writes Jobs and Secrets, watches what becomes of them through
caches that lag behind, and keeps all its own state in the objects' status. What
can go wrong is therefore a matter of order: a Reconcile that works on an old copy,
a Job that outlives its owner, a pod that is lost after it did its work, an
operator that stops between two writes. These modules model those orders, TLC
explores them on small instances, and TLAPS proves all of their safety for every instance.

## The system

| Component | State | Operations | Interacts with | What makes it correct |
|---|---|---|---|---|
| Repository controller (`repository_controller.go`) | status conditions of Repository; operator Secret; init Job | Reconcile: defaults, secret, Job, verdict | API server, cache, Job controller, GC | Created means usable; secret and Job belong together; status only moves forward; every Repository gets a verdict |
| Key controller (`key_controller.go`) | status conditions and key ID of Key; its finalizer and owner; its Secret; add and delete Jobs | Reconcile: own, secret, add Job, record; delete Job, finalizer | the Repository (read only), cache, Jobs, pod logs, GC | Created means the secret opens the storage; the finalizer is released only after removal; verdicts are final; a completed add Job is recorded |
| ForgetSchedule controller (`forgetschedule_controller.go`) | status conditions and owner of ForgetSchedule; one CronJob | Reconcile: defaults, own, create the CronJob and record it, or overwrite its spec | the Repository (read only), cache, CronJob controller, GC | Created means the CronJob exists and is its own; no run without a `--keep`; the CronJob follows both specs |
| Webhooks (`internal/webhook/v1`) | none | validate and default requests | API server, before every write by a user | immutable fields, sane schedules |
| Condition helpers (`internal/conditions`, setters in `api/v1`) | none | find and replace conditions in a list | both controllers | one condition per type; the list says which phase the object is in |
| Job builders (`internal/restic`) | none | build init, add, delete and forget Jobs | controllers; restic in the pods | the right storage, key and password |
| Pod logs (`logs.go`) | none | read the log of a pod of a Job | Key and Repository controller | failures end the Reconcile; an outcome is recorded as long as there is a log to read |
| Manager (`cmd/main.go`) | caches, queues | start everything | all controllers | one worker per controller, reads from a cache; one operator at a time (`--leader-elect` in `config/manager/manager.yaml`) |

Hard behaviours: stale reads from the cache; events that arrive late; conflicts on
`resourceVersion`; failures and restarts between two writes of one Reconcile; names
that are used again while the garbage collector still has to remove what the
previous object owned; duplicate Jobs (generated names); lost pods and the retries
of the Job controller; deletion by either policy at any moment; liveness that rests
on the watches. PROJECT.json lists them one by one ("hazards").

## The modules

| Module | Models | Used by |
|---|---|---|
| `Informer` | the caching client: a kind of objects as a sequence of snapshots, from what the cache holds to what the API server holds | all |
| `RepoLifecycle` | abstract specification: how an object with the two conditions may live. What other controllers may rely on about Repository objects | refined by `Repository` and, for its own objects, by `ForgetSchedule`; environment of `Key` |
| `Repository` | the Repository controller, its webhook, its Job, users, GC, pods, storage | |
| `KeyLifecycle` | abstract specification: how a Key may live, with its outcome, its ID and its finalizer | refined by `Key` |
| `Key` | the Key controller, its Jobs, users, GC, pods, the keys that restic knows | |
| `Retention` | the counts of snapshots to keep: the webhook's sum in Go's arithmetic, and the options that the script writes | `ForgetSchedule` |
| `ForgetSchedule` | the ForgetSchedule controller, its webhook, users, GC, the Repositories it reads and the CronJobs it writes | |
| `Conditions` | condition lists and their setters; shows that one "phase" may stand for a list | justifies `phase` in `Repository` and `Key`; a ForgetSchedule has one condition, which its `phase` stands for directly |
| `InformerProofs` | lemmas about caches | the other proofs |
| `RepositoryProofs`, `UsableProofs` | theorems about `Repository`: types, lifecycle and secrets; what Created is worth, and the wakeups | |
| `KeyProofs`, `KeyOpensProofs`, `KeyFinalizerProofs` | theorems about `Key`: types, lifecycle and outcomes; secrets and what Created is worth; finalizers and the wakeups | |
| `ForgetProofs` | theorems about `ForgetSchedule` and `Retention` | |
| `ConditionsProofs` | theorems about `Conditions` | |
| `MCRepository`, `MCKey`, `MCForgetSchedule` | symmetry and the specs of users, for TLC (`Conditions` is checked directly) | |

`Key` does not contain the Repository controller. It takes the *writes* that
`RepoLifecycle` allows as its environment, and the property `Lifecycle` of run
`MCRepository_reuse` (`L!Spec`, a refinement with `view` mapped to the stored
objects) shows that the Repository controller makes no others. `ForgetSchedule`
reads of a Repository only that it exists, its uid and its spec; it has an
environment of its own that changes these at any time. Its *own* objects bear the
first of the two conditions, and its property `Lifecycle` is the same refinement for them.

`KeyLifecycle` is to Keys what `RepoLifecycle` is to Repositories, with two more things
to keep in step: the finalizer comes with the pending phase and only to a Key that is not
going, and goes only from a Key that is; the ID comes with condition Created.
`KeyLives` (`K!Spec` with `view` mapped to the stored Keys, their owner and
`resourceVersion` left out) says that all writers of Keys together, from copies of any
age, make only these steps.

### How state and actions correspond to the code

* **Caches and writes.** `Cached(w)` is what `r.Get` and `r.List` return,
  `Stored(w)` what the API server holds. A write appends a snapshot
  (`PutRepo`, `PutKey`, `PutJob`, `PutSecret`); the informer takes one snapshot off
  the front (`DeliverRepo`, ...), and queues what `SetupWithManager` says: the object
  itself (`For`) or its controller owner (`Owns(Job)`). Secrets, and Repositories
  for the Key controller, are cached but queue nothing.
* **Conflicts.** Every write of a Repository or Key gets the next
  `resourceVersion` (`rv`). `Update` and `Status().Update` succeed only from a copy
  with the stored `rv`; otherwise Reconcile returns the error and the name is queued
  again (`Retry`). `Create` fails when the name is taken.
* **Uids.** `uid` counts the objects of one name; 0 is no object. Owner references
  hold uids, so an orphan of an earlier object is told apart, as in the cluster.
* **One Reconcile, several steps.** `worker.pc` is where Reconcile is. A step runs up
  to the next call that changes the API server. Reads of *different* kinds are
  combined with the step that uses them, because each is of a cache that changes only
  with a delivery. In `Repository`: `ReconcileNothing`, `ReconcilePending`,
  `ReconcileDefaults` (Get, defaults, Status().Update) lead to `getJob`;
  `StartCreateRepoJob` (the secret) leads to `createJob`; `CreateInitJob`,
  `CheckCreateJobStatus` end. In `Key`: `Start` takes the Key and its Repository,
  then `RepositoryGone`, `SetDefaults`, `Own`, and the steps of `CreateSteps` and
  `DeleteSteps`. In `ForgetSchedule`: `ReconcileNothing`, `ReconcileDefaults` and
  `ReconcileKnown` start, `Own` writes the owner once (only the Reconcile that set the
  defaults comes here), and `getCronJob` leads to `UpdateCronJob`, or to
  `CreateCronJob` and then `TellCreated`, by what the cache knows of the CronJob.
* **Failures.** `CallFails` ends a Reconcile between any two of its steps: a call
  failed, or was made and its answer was lost. `Restart` also loses the queue and
  refills all caches. Panics (`Items[0]`, `[1]` of a missing match, a nil key ID) are
  recovered by controller-runtime and are therefore a `Retry`. They are no
  `CallFails`: they depend on the state and come back as long as it lasts (`LogInReach`,
  `NoPods`, `NoMatch`, `StartDeleteJob`).
* **Logs.** `logs` holds what the pods of a Job that are left have printed: in
  `Repository` whether there is such a pod, in `Key` the IDs, or `None` for a log without
  one. A pod may be removed at any time after it ended (`LogsLost`); of a Job that has
  lost all its pods no log is ever read again.
* **Mounts.** A pod runs only when the secrets it mounts exist (`PodCanRun`,
  `Mountable`). Both Jobs of a Key mount the operator secret of its Repository
  (`operator` is the uid of the Repository that owns it), so neither runs between the
  collection of that secret and the creation of another of the name.
* **Data.** A status is one `phase`: "nil" (no conditions), "pending", "created",
  "failed". A Job is its owner, URL or storage, state and count of failed pods. A
  storage is the password it was initialised with, or a function from key IDs to
  passwords. Passwords are fresh model values. A CronJob is the pair of the two specs
  it was made of, that of the schedule and that of the Repository (an `edition`), with
  its owner and a bit that stands for the status the CronJob controller keeps. A cron
  expression is one that the webhook refuses, one that only the API server refuses, or
  one that both take.
* **Around the operator** (external in "map"): users, the garbage collector (background
  and foreground), the Job controller and the pods. A pod can be lost *after* restic
  did its work (`InitPodLost`, `AddPodLost`, `DeletePodLost`). The pod of a Job that is
  collected at that very moment is such a lost pod followed by the collection.
* **Assumed of that environment.** Users do not delete or change the Secrets, Jobs and
  CronJobs that the operator made. They may remove pods. A pod mounts its secrets and ends
  in one step. `Repository`, `Key` and `ForgetSchedule` have no other program that writes
  a condition before the operator's first Reconcile (`Conditions` shows what comes of
  one). The webhooks are asked about creations and updates, never about deletions
  (`verbs=create;update`).

`FoundMutant`, `VerdictMutant` and the other operators whose names end in `Mutant` are
not part of the model. Each is a plausible mistake in the definition that
follows it; replacing the definition by it must violate the property that
PROJECT.json pairs with it, which shows that the property depends on the code.

## What is checked

| Run | Checks | Instance |
|---|---|---|
| `MCRepository_reuse` | `TypeOK`, `NeverForgotten`, `InitJobHasItsSecret`, `CreatedIsUsable`, `Lifecycle` | one name used twice, both deletion policies, one edit or foreign secret, one failure |
| `MCRepository_settles` | `Settles`, `CreatedIsUsable` | one Repository, two storages, one failure, one edit or foreign secret; logs vanish in all `MCRepository` runs |
| `MCRepository_adopted` | `CreatedAlwaysUsable` (violated) | one name used twice |
| `MCConditions` | `UniqueTypes`, `PhaseIsFaithful` | two foreign condition types |
| `MCKey_lifecycle` | `FinalizerHonoured`, `ForgottenOnlyWhenStuck`, `KeyLives` | one Key and one Repository, both policies for both, two Jobs, two key IDs, logs vanish |
| `MCKey_repos` | `TypeOK`, `CreatedKeyOpens`, `FinalizerHonoured` | one Key, two Repositories one after the other, two Jobs, one key ID, one pod retry |
| `MCKey_reuse` | `AddJobHasItsSecret`, `CreatedKeyOpens`, `ForgottenOnlyWhenStuck`, `VerdictFinal` | one Key name used twice, two passwords, one edit, one failure; the Repository stays |
| `MCKey_settles` | `AddedIsRecorded`, `GoesWithRepository` | one Key, one Repository deleted in the background, two Jobs, one key ID, logs vanish |
| `MCKey_adopted` | `CreatedKeyAlwaysOpens` (violated) | one Key name used twice |
| `MCKey_failed` | `FailureIsRecorded` (violated) | one Key |
| `MCForgetSchedule` | `TypeOK`, `CreatedHasCronJob`, `EveryRunKeeps`, `EditsHeeded`, `Lifecycle`, `Converges` | one schedule name used twice, three specs, one Repository, failures, edits and CronJob runs |
| `MCForgetSchedule_unrecorded` | `CreatedIsRecorded` (violated) | one schedule |

Bounds. One object of a kind is enough for most questions, because Reconciles of
different names share nothing but the worker and, for Repositories, a storage; that
several Repositories with one storage do not spoil each other's is proved for any
number of them (`CreatedUsable`). Two uids per name are needed, and enough, for the hazards of names
used again: what is left over is always the *previous* object's. `MaxLag = 1`
gives a cache that is one change behind on each of its kinds independently; the
kinds together lag by up to four changes. Two Jobs per Key give one duplicate
add Job, or an add and a delete Job. `MaxFaults = 1` is one failed call or one
restart at any moment; two of them in a row end in the same states, because either
leaves nothing behind but the queue. `MaxTouch` bounds edits and foreign secrets (in
`ForgetSchedule`: edits, foreground deletions and status changes of a CronJob).
`HalfRange = 4` makes Go's integers three bits wide, so that the three counts
3 + 3 + 2 of one policy already add up to zero, as six 64-bit counts can.
`MaxRemade` ends the race between a foreground deletion that removes the CronJob and a
Reconcile that makes it again.
`Key` has two more switches. `RepoPolicies` are the ways in which its Repository may be
deleted; with none it stays, which is enough for the questions about Key names used again.
`PodsVanish` says whether ended pods may be removed. Losing a log takes possibilities
away from the controller and adds nothing but another attempt, so the runs whose properties
say what is recorded, and not that something is, do without and spend their bounds on
pod retries (`MCKey_repos`) or on an edit and a failure (`MCKey_reuse`); the theorems hold
for either value. With one key ID, a duplicate add Job can only fail (`MCKey_repos`,
`MCKey_settles`); `MCKey_lifecycle` and `MCKey_reuse` have two.
Deadlock is not checked: when everything is settled and bounds are used up the
system may stop.

Fairness (`FairSpec`). The work queue serves every name that stays or keeps
coming back in it (strong fairness of the first step of a Reconcile: client-go's
queue is first in, first out, and a failing name is only delayed); the worker goes on
(weak); informers deliver; the garbage collector and Job controller do their
work. For `Key` the resync is also weakly fair (the manager's default of ten hours),
since nothing else brings a Key back when its *Repository* changes after the
Key's Reconcile ended, and so is reading the right log (`RecordCreated`): with
several pods, which log is read is arbitrary, and it is assumed not to be the wrong one
for ever. That is asked only of an ID that stays readable: nothing is assumed of
pods that are lost. `ForgetSchedule` is fair in the same way, and there the resync is what brings
a changed Repository or a lost CronJob to the controller's notice. Nothing is assumed of users, failures, restarts, or of the resync of
Repositories.

## What was found

1. A Repository created again under its name, before the old init Job is collected,
   adopts the old Job's verdict (`MCRepository_adopted`): `getCreateRepoJob` looks a
   Job up by name and does not compare owners. `CreatedIsUsable` shows that the first
   Repository of a name is safe.
2. The same of a Key and its add Job, found by a label (`MCKey_adopted`,
   `CreatedKeyOpens`).
3. A Key whose add Job has failed never gets condition Failed (`MCKey_failed`): the
   branch for it is behind a filter that keeps complete Jobs only.
4. A ForgetSchedule whose CronJob was created, but whose status update after that was
   lost or refused, keeps condition Created False for ever
   (`MCForgetSchedule_unrecorded`): the next Reconcile finds the CronJob, updates it,
   and returns without a look at the conditions.

Three more ends that the code can come to are named in the properties, as exceptions:

* `getJobPodLogs` takes the first of the Job's pods and panics when there is none. A
  failed init Job, or a complete add Job, that has lost its pods (with their nodes, by hand)
  is therefore never recorded: each Reconcile panics and is retried, and the Repository
  or Key keeps both conditions False for ever (`LogGone` in `Settles`, `LogsGone` in
  `AddedIsRecorded`). A complete init Job is recorded without its log.
* When a Repository goes in the background while a Job of one of its Keys has yet to
  run, the operator secret that the Job's pod mounts is collected, the pod never starts and
  the Job stays Active. Reconcile finds it and returns without an error, and no watch
  tells a Key of its Repository's end: only the resync brings the Key back, which then
  loses its finalizer (`Starves` in `ForgottenOnlyWhenStuck`; `GoesWithRepository`).
* A condition that another program writes before the operator's first Reconcile makes
  `SetDefaultConditions` do nothing. Created and Failed are then never in the list,
  `UpdateCondition` has nothing to replace, and no outcome is ever recorded (phase
  "foreign" of `Conditions`).

## What is proved

TLAPS checks the theorems below for every set of names, storages, Jobs, key IDs,
passwords and specs, for any lag of the caches, any number of edits, failures,
restarts and objects that bear one name, and condition lists of any length.

| Module | Theorem | States |
|---|---|---|
| `RepositoryProofs` | `TypeCorrect` | `Spec => []TypeOK` |
| | `RefinesLifecycle` | `Spec => Lifecycle`: `Repository` implements `RepoLifecycle` |
| | `SecretAtHand` | `Spec => []InitJobHasItsSecret` |
| `UsableProofs` | `CreatedUsable` | `Spec => []CreatedIsUsable` |
| | `AlwaysHeeded` | `Spec => []NeverForgotten` |
| `KeyProofs` | `KeysTyped` | `Spec => []TypeOK` |
| | `KeysLive` | `Spec => KeyLives`: `Key` implements `KeyLifecycle` |
| | `VerdictsStay` | `Spec => VerdictFinal` |
| `KeyOpensProofs` | `AddJobsHaveSecrets` | `Spec => []AddJobHasItsSecret` |
| | `CreatedKeysOpen` | `Spec => []CreatedKeyOpens` |
| `KeyFinalizerProofs` | `FinalizersHonoured` | `Spec => FinalizerHonoured` |
| | `KeysHeeded` | `Spec => []ForgottenOnlyWhenStuck` |
| `ForgetProofs` | `SchedulesTyped` | `Spec => []TypeOK` |
| | `RunsKeep` | `Spec => []EveryRunKeeps` |
| | `SchedulesLive` | `Spec => Lifecycle`: `ForgetSchedule` implements `RepoLifecycle` |
| | `CronJobAtHand` | `Spec => []CreatedHasCronJob` |
| | `NoEditLost` | `Spec => []EditsHeeded` |
| `ConditionsProofs` | `UpdateConditionReplaces` | what `UpdateCondition` makes of a list |
| | `ListsAreMaps` | `Spec => []UniqueTypes` |
| | `PhasesFaithful` | `Spec => []PhaseIsFaithful` |

The assumptions: the bounds are natural numbers (`BoundsAssumption` of each module),
`None` is none of the names, IDs and passwords (`NoneAssumption`), deletion is in the
background or in the foreground (`PoliciesAssumption`), Go's integers have an even number
of values, at least two (`HalfRangeAssumption`), the specs that users write are specs
(`SpecsAssumption`), and the conditions that other programs add to a list are of other
types (`OthersAssumption`). The Key proofs use of Repositories only what `RepoLifecycle` says.

### One argument for three controllers

The properties speak of what the API server holds, but a controller decides from its
cache and from locals that are older still. None of them is inductive. Each proof adds
what makes old knowledge safe to act upon:

* `Copies`: every copy of an object, in a cache, under way or in the worker, is no
  newer than the stored one, and *is* the stored one when it has the same
  `resourceVersion`. So a status update that is not refused was computed from the
  stored object, and each write is one that the abstract specification allows.
  This gives `RefinesLifecycle`, `KeysLive` and `SchedulesLive`. `KeysLive` needs
  besides what the worker knows at each point of Reconcile (`WorkerKnows`): that the
  finalizer is set only on a Key that was pending and not going when it was read.
* `OwnersBorn`: no dependent, not even one that only a cache still shows, is owned
  by a uid that has not been given out. A new object of an old name thus owns nothing.
* `SecretStays`, `CronJobStays`: when any snapshot shows a secret or CronJob of an object
  that is alive, the API server still holds it. Only the garbage collector removes what is
  owned, and only when the owner is gone or going.
* `WorkerHasSecret`: between the look at the secret and the `Create` of the Job, the
  secret cannot disappear unless its owner does.

Every action is looked at once. `LifecycleKeeps`, `EveryStep` and `ScheduleStep` classify
the steps by what they do to each kind of objects; everything after that is proved from
the classes, and mentions no action again.

### Created Repositories

`CreatedUsable` is about the first Repository of a name, and needs that a Job says
Complete only when restic initialised the storage with the password in *its* secret
(`JobsDone`), that the Job aims at the URL of the Repository it is owned by (`JobsAim`),
that this URL is the same in every copy once there is a Job (`OneUrl`: the
webhook refuses an edit from then on, and an earlier one has changed the
`resourceVersion`), that a Job of a first Repository is owned by it and not left over
(`JobsOwned`), and that secrets hold a password nobody else has (`SecretsFilled`).
Several Repositories with one storage race for it: the storage has one
password for good, whoever comes first, so at most one Job is ever done.

### Created Keys

`CreatedKeysOpen` is about the first Key of a name. A Key reports what it is *told*: by
the log of an add Job, as long as there is one to read, or by a copy of itself (`Known`).
Logs are found by the name of the Job, which its copy in the cache gives: `OneJob` says that
this copy and the stored Job of the name are one and the same Job, and `LogsLive` that
nothing is left to read of a Job that is gone. That logs vanish does no harm here, since
nothing is told by a missing one. The invariant `OInv`
of `KeyOpensProofs` follows that knowledge:

* What is known was added by a pod, and to one Key only (`KnownAdded`, `KnownApart`),
  so the delete Job of another Key never removes it.
* Readers see Repositories in the order in which they were born (`ReposInOrder`), hence
  none from before the owner of a Key (`OwnersPast`); a Job made later cannot aim at an
  older storage.
* The first Key has no Job and is told of nothing until it has its owner
  (`FirstQuiet`); every Job it has from then on adds keys, for its owner or for a later
  Repository (`FirstAdds`). So what it is told is opened by its secret, in
  a storage not older than its owner's (`FirstOpens`).
* While the owner is the Repository that is there, no storage is younger than
  it (`StoresBorn`), so the two bounds meet. When the Repository was replaced they do
  not, and the property does not speak of that state.

That a Key may have several add Jobs, and that a pod may add a key and be lost, is
harmless for the same reason: any ID that such a Job prints was added with the secret's
password.

### The end of Keys

`FinalizersHonoured` looks at the three occasions on which the worker takes the finalizer
off (`MayRelease`), and shows that what it saw is true when it writes:

* A complete delete Job in the cache: of a first Key, it was made from a copy of this
  very Key, and an ID once recorded stays (`IdsStay`), so it removed the ID that the Key
  records (`DeletesOwn`). It is complete only when the ID was removed, and an ID
  is not added twice (`DeletesDone`).
* The Repository was not found: whoever has once read the owner of a Key and now
  misses it, misses it because it is gone (`ReposGone`); a Key with a finalizer has an
  owner that was read (`HeldIsOwned`).
* The Repository was being deleted: it is the owner, and deletion is not taken back
  (`ReposGoing`); or it is younger than the owner, which is then gone
  (`OwnersPast`).

### Schedules

`RunsKeep` is the one theorem about arithmetic: the webhook adds six integers that
wrap around, so a sum that is not zero must be shown to have a summand that is
not zero (`SumOfZeros`), whatever the width. The converse does not hold and is not
claimed. What the controller writes comes from copies whose specs all passed the
webhook (`SpecsAdmitted`, which the type invariant needs already, because the
Repository is looked up by a name in the spec).

### Nobody is forgotten

A Reconcile that returns without an error is not called again unless something queues
the object. Whether something will is decided by caches: a Job that looks absent,
running or there already may be gone, finished or somebody else's by then. Three theorems
say that every such return is right, in terms of what can be seen at that moment, without
any fairness: `AlwaysHeeded`, `KeysHeeded` and `NoEditLost`. They are the safe part
of the liveness properties: for what they cover, only that the queue is served, events are
delivered, pods run and garbage is collected is left to fairness, and not the resync. They
do not cover what the controllers do need the resync for: a Key that gave up
(`GoesWithRepository`), a schedule whose CronJob was lost or whose Repository was edited
(`Converges`).

* `WriteAnnounces` and `DeliveryAnnounces` (`InformerProofs`): an event that is on its
  way to a cache stays so until it is delivered, and then it queues its object; a
  write that changes an object puts one on its way. `Behind`: when the cached object is
  not the stored one, an event is on its way (the first snapshot that differs exists
  because the natural numbers are well-founded). From the three, whatever a
  step changes has been heard of (`ReposHeard`, `KeysHeard`, `JobsHeard`,
  `SchedulesHeard`). A restart loses events, and queues everything that exists.
* A Reconcile that works on an old copy is the difficult case: the event may have been
  delivered before it returns. `UpToDate` (of Keys) and `WorkerHears` (of schedules)
  say that the worker's copy is the stored object, or an event is on its way, or the
  object is queued *while* it is being reconciled, which client-go's queue allows.
* `JobAnnounced`: a Job that makes `Create` answer "already exists" was not in the
  cache when the same Reconcile looked, so the event that announces it is still to come.
* `DeletesLate`: a delete Job is owned by a Key that is being deleted, or
  by one that is gone. A Key that waits for its outcome therefore never waits for a delete Job
  of its own, and the Jobs of an earlier Key of the name will be collected, which
  queues the name.

`KeysHeeded` names the three exceptions, which are those of the code: all Jobs of a Key
that has no outcome have failed (finding 3), a delete Job of a deleted Key has (`GaveUp`), or
an Active Job of its name waits for an operator secret that does not exist (`Starves`).
An Active Job counts as a promise only while its pod can run (`Moves`). The other
secret that an add Job mounts needs no exception: while its Key is alive and not being
collected it is there (`AddJobHasItsSecret`), and otherwise the Job is collected itself.

### Condition lists

`Repository` and `Key` keep one `phase` for a condition list. `PhasesFaithful` shows
for lists of any length that the tests on the list and on the phase agree, whatever
conditions other programs keep in it and whenever they come, and `ListsAreMaps` that no
type occurs twice. A foreign condition that comes first puts the object into a phase of
its own, "foreign": Created and Failed are then absent for good, the object is neither
created nor failed, and the four phases of the controllers' modules no longer describe it.
For all other objects they do. Both theorems rest on what the folds of `UpdateCondition` and `ContainsAnyConditionWithStatus` compute
of a list. The induction theorems of the library cannot be instantiated, but
that a set of numbers has a least element (`LeastNumber`, from `WFMin`) speaks of a set
and can be cited: the shortest prefix of a list for which a statement fails is not empty,
and the one before it contradicts that it is the shortest.

### Only model-checked

The liveness properties (`Settles`, `AddedIsRecorded`, `GoesWithRepository`,
`Converges`): fairness and ENABLED are beyond this prover. Every other property of the
passing runs is a theorem.

## Not modelled, and why

* **Keys of several Repositories in one namespace.** The secret name
  `restic-key-<repository>-<key>` is ambiguous when names contain dashes. Module `Key`
  has one Repository name.
* **Storages that Repositories of one name share.** In `Key` each Repository of the
  name has a storage of its own; sharing one storage is the subject of
  `Repository`.
* **Leaked restic keys.** Duplicate add Jobs leave keys in restic that no Key records.
  The model has them (`restic`); no property forbids them, since the code makes no
  attempt to.
* Names, images, environment, security contexts, events, logs, metrics, leader
  election, TLS: they decide nothing that the properties speak of.

## Plan

1. *(done)* `Informer`, `Repository` with `RepoLifecycle`, `Key`, `Conditions`; runs
   above; first theorems.
2. *(done)* `ForgetSchedule` with `Retention`: the CronJob between create and update, the
   status update that may be lost between them, no watch on the CronJob, the
   webhook's sum of integers that wrap around.
3. *(done)* `KeyLifecycle`, an abstract specification of a Key's life, refined by `Key`.
4. *(done)* Proofs: `CreatedIsUsable`; types, `KeyLives`, `VerdictFinal`,
   `AddJobHasItsSecret`, `CreatedKeyOpens` and `FinalizerHonoured` of `Key`; all safety
   properties of `ForgetSchedule`; condition lists of any length; that no Repository, no Key
   and no edit of a schedule is forgotten.
5. Keys whose deletion cannot complete (no key ID, failed Repository, failed delete
   Job): state exactly when a deleted Key goes. So far: with its Repository at the latest
   (`GoesWithRepository`), and until then it is woken up unless a delete Job failed
   or waits for the operator secret (`ForgottenOnlyWhenStuck`).
6. Keys of two Repositories, for the shared secret name.
