-------------------------- MODULE KeyFinalizerProofs --------------------------
(***************************************************************************)
(* The end of a Key, for every value of the constants: the finalizer of    *)
(* the first Key of a name stays until restic has forgotten the Key's ID,  *)
(* or the Repository that owns the Key is gone or going.  And what leads   *)
(* to the outcome of a Key and to its end: no Key is left waiting for      *)
(* nothing, save where the controller gives up or the operator secret is   *)
(* gone.                                                                   *)
(***************************************************************************)
EXTENDS KeyOpensProofs

-------------------------------------------------------------------------------
(* The parts of the invariant.                                             *)

(* An ID comes with an outcome, and is the ID of the Key as long as the    *)
(* Key is there.                                                           *)
Recorded(n, x) ==
  x.keyID # None =>
    /\ x.phase = "created"
    /\ x.uid = Stored(keys)[n].uid => Stored(keys)[n].keyID = x.keyID

IdsStay ==
  \A n \in Names :
    /\ \A s \in Seen(keys) : Recorded(n, s[n])
    /\ worker.pc # "idle" /\ worker.name = n => Recorded(n, worker.key)

(* A finalizer comes with an owner.                                        *)
HeldIsOwned == \A n \in Names : Stored(keys)[n].finalizer => OwnerOf(n) # 0

(* Delete Jobs of a first Key are its own, and remove what it recorded.    *)
Removes(x) == x.live /\ x.op = "delete"

DeletesOwn ==
  \A n \in Names : Stored(keys)[n].uid = 1 =>
    \A s \in Seen(jobs) : \A j \in JobIds :
      Removes(s[j]) /\ s[j].key = n => s[j].arg = Stored(keys)[n].keyID

(* A complete delete Job tells the truth.                                  *)
DoneJob(x) ==
  Removes(x) => x.arg \in KeyIds /\ (x.state = "Complete" => restic[x.arg].pw = None)

DeletesDone == \A s \in Seen(jobs) : \A j \in JobIds : DoneJob(s[j])

(* No reader that has seen the Repository u misses it while it is there.   *)
Past(u) == u # 0 => \A s \in Seen(repos) : s[RepoName].uid = 0 => TheRepo.uid # u

NoReturn(w) ==
  \A i, k \in 1..Len(w) :
    i <= k /\ w[i][RepoName].uid # 0 /\ w[k][RepoName].uid = 0
      => Stored(w)[RepoName].uid # w[i][RepoName].uid

ReposGone ==
  /\ NoReturn(repos)
  /\ worker.pc # "idle" => Past(worker.repo.uid)
  /\ \A n \in Names :
       /\ Past(OwnerOf(n))
       /\ worker.pc # "idle" /\ worker.repo.uid = 0 /\ OwnerOf(n) # 0 => TheRepo.uid # OwnerOf(n)

(* Deletion is not taken back.                                             *)
Going(r) == r.deleting /\ r.uid # 0 /\ r.uid = TheRepo.uid => TheRepo.deleting

ReposGoing ==
  /\ \A s \in Seen(repos) : Going(s[RepoName])
  /\ worker.pc # "idle" => Going(worker.repo)

FInv ==
  /\ OInv
  /\ IdsStay /\ HeldIsOwned
  /\ DeletesOwn /\ DeletesDone
  /\ ReposGone /\ ReposGoing

-------------------------------------------------------------------------------
(* Keys.                                                                   *)

(* What a step makes of one Key.                                           *)
LEMMA OneKey ==
  ASSUME CInv, KeyStep, NEW n \in Names
  PROVE  \/ Stored(keys)'[n] = Stored(keys)[n]
         \/ \E y \in Key : /\ Appears(n, y) \/ Advances(n, y)
                           /\ Stored(keys)'[n] = Versioned(n, y)
         \/ Leaves(n) /\ Stored(keys)'[n] = NoKey
<1>0. TypeOK /\ Stored(keys) \in [Names -> Key]
  BY ObjectTypes DEF CInv, TInv
<1>1. CASE KeysRest
  BY <1>1 DEF KeysRest
<1>2. ASSUME NEW m \in Names, NEW y \in Key, PutKey(m, y), Appears(m, y) \/ Advances(m, y)
      PROVE  \/ Stored(keys)'[n] = Stored(keys)[n]
             \/ (Appears(n, y) \/ Advances(n, y)) /\ Stored(keys)'[n] = Versioned(n, y)
  BY <1>0, <1>2, PutKeyWrites DEF Changed
<1>3. ASSUME NEW m \in Names, RemoveKey(m), Leaves(m)
      PROVE  Stored(keys)'[n] = Stored(keys)[n] \/ (Leaves(n) /\ Stored(keys)'[n] = NoKey)
  BY <1>0, <1>3, RemoveKeyWrites DEF Changed
<1> QED
  BY <1>1, <1>2, <1>3, KeyChanges

(* A Key that was born before the step was there before the step.          *)
LEMMA ThereBefore ==
  ASSUME CInv, KeyStep, NEW n \in Names,
         Stored(keys)'[n].uid # 0, Stored(keys)'[n].uid <= born[n]
  PROVE  Stored(keys)'[n].uid = Stored(keys)[n].uid
<1>0. revision \in [Names -> Nat] /\ born[n] \in Nat
  BY DEF CInv, TInv, TypeOK
<1>1. ASSUME NEW y \in Key, Appears(n, y), Stored(keys)'[n] = Versioned(n, y)
      PROVE  FALSE
  <2>1. Stored(keys)'[n].uid = y.uid
    BY <1>0, <1>1, VersionedIs
  <2>2. y.uid = born[n] + 1
    BY <1>1 DEF Appears, Same, NoKey
  <2> QED
    BY <1>0, <2>1, <2>2
<1>2. ASSUME NEW y \in Key, Advances(n, y), Stored(keys)'[n] = Versioned(n, y)
      PROVE  Stored(keys)'[n].uid = Stored(keys)[n].uid
  BY <1>0, <1>2, VersionedIs DEF Advances
<1> QED
  BY <1>1, <1>2, OneKey, NoObjects

(* What the next snapshot of the Keys shows.                               *)
LEMMA SeenKeys ==
  ASSUME CInv, KeyStep, NEW s \in Seen(keys)'
  PROVE  s \in Seen(keys) \/ s = Stored(keys)'
<1>0. TypeOK
  BY DEF CInv, TInv
<1> QED
  BY <1>0, KeyChanges, PutKeyWrites, RemoveKeyWrites DEF KeysRest

(* A copy that tells an ID goes on telling the ID of the Key.              *)
LEMMA RecordedStays ==
  ASSUME CInv, IdsStay, KeyStep, NEW n \in Names, NEW x \in Key, GoodCopy(n, x), Recorded(n, x)
  PROVE  Recorded(n, x)'
<1>0. Stored(keys) \in Seen(keys) /\ born[n] \in Nat
  BY ObjectTypes DEF CInv, TInv, TypeOK
<1> SUFFICES ASSUME x.keyID # None, x.uid = Stored(keys)'[n].uid
             PROVE  x.phase = "created" /\ Stored(keys)'[n].keyID = x.keyID
  BY DEF Recorded
<1>1. x # NoKey
  BY DEF NoKey
<1>2. x.uid # 0 /\ x.uid <= born[n]
  BY <1>1 DEF GoodCopy
<1>3. Stored(keys)'[n].uid = Stored(keys)[n].uid
  BY <1>2, ThereBefore
<1>4. x.phase = "created" /\ Stored(keys)[n].keyID = x.keyID
  BY <1>3 DEF Recorded
<1>5. Stored(keys)[n].phase = "created"
  BY <1>0, <1>4 DEF IdsStay, Recorded
<1> QED
  BY <1>3, <1>4, <1>5, VerdictStays DEF Keeps

(* An ID that a step writes comes with an outcome.                         *)
LEMMA RecordedAnew ==
  ASSUME CInv, IdsStay, KeyStep, NEW n \in Names
  PROVE  Stored(keys)'[n].keyID # None => Stored(keys)'[n].phase = "created"
<1>0. /\ revision \in [Names -> Nat] /\ Stored(keys) \in [Names -> Key]
      /\ Stored(keys) \in Seen(keys)
  BY ObjectTypes DEF CInv, TInv, TypeOK
<1> DEFINE x == Stored(keys)[n]
<1>1. x \in Key /\ (x.keyID # None => x.phase = "created")
  BY <1>0 DEF IdsStay, Recorded
<1>2. ASSUME NEW y \in Key, Appears(n, y)
      PROVE  y.keyID = None
  BY <1>2 DEF Appears, Same, NoKey
<1>3. ASSUME NEW y \in Key, Advances(n, y)
      PROVE  y.keyID # None => y.phase = "created"
  <2>1. WorkerWrites(n, x, y) \/ OthersWrite(n, x, y)
    BY <1>3 DEF Advances
  <2> HIDE DEF x
  <2>2. (y.phase = x.phase /\ y.keyID = x.keyID) \/ y.phase = "created"
        \/ (x.phase # "created" /\ y.keyID = x.keyID)
    BY <1>1, <2>1 DEF WorkerWrites, OthersWrite, Same, Initialises, Succeeds, Fails, Holds, Key
  <2> QED
    BY <1>1, <2>2
<1>4. NoKey.keyID = None
  BY NoIds
<1> QED
  BY <1>0, <1>1, <1>2, <1>3, <1>4, OneKey, VersionedIs

(* The steps keep each part of the invariant.                              *)
LEMMA IdsStayStep ==
  ASSUME CInv, IdsStay, KeyStep, WorkerStep
  PROVE  IdsStay'
<1>0. /\ TInv /\ TypeOK /\ Copies
      /\ Seen(keys) \subseteq [Names -> Key] /\ Cached(keys) \in Seen(keys)
      /\ Stored(keys) \in [Names -> Key]
  BY ObjectTypes DEF CInv, TInv
<1> SUFFICES ASSUME NEW n \in Names
             PROVE  /\ \A s \in Seen(keys)' : Recorded(n, s[n])'
                    /\ worker'.pc # "idle" /\ worker'.name = n => Recorded(n, worker.key)'
  BY DEF IdsStay
<1>1. ASSUME NEW s \in Seen(keys)
      PROVE  Recorded(n, s[n])'
  <2>1. s[n] \in Key /\ GoodCopy(n, s[n]) /\ Recorded(n, s[n])
    BY <1>0 DEF Copies, IdsStay
  <2> QED
    BY <2>1, RecordedStays
<1>2. Recorded(n, Stored(keys)[n])'
  BY RecordedAnew DEF Recorded
<1>3. \A s \in Seen(keys)' : Recorded(n, s[n])'
  BY <1>1, <1>2, SeenKeys DEF Recorded
<1>4. ASSUME worker'.pc # "idle", worker'.name = n
      PROVE  Recorded(n, worker.key)'
  <2>1. ASSUME worker.pc # "idle", worker.name = n, worker'.key = worker.key
        PROVE  Recorded(n, worker.key)'
    <3>1. worker.key \in Key /\ GoodCopy(n, worker.key) /\ Recorded(n, worker.key)
      BY <1>0, <2>1, AtWork DEF Copies, IdsStay
    <3>2. PICK x \in Key : x = worker.key /\ GoodCopy(n, x) /\ Recorded(n, x)
      BY <3>1
    <3>3. Recorded(n, x)'
      BY <3>2, RecordedStays
    <3> QED
      BY <2>1, <3>2, <3>3 DEF Recorded
  <2>2. CASE worker' = worker
    BY <1>4, <2>1, <2>2
  <2>3. CASE worker' = Idle
    BY <1>4, <2>3, NoObjects
  <2>4. CASE TakesCopies
    <3>1. worker'.key = Cached(keys)[n]
      BY <1>4, <2>4 DEF TakesCopies
    <3>2. PICK s \in Seen(keys) : s = Cached(keys)
      BY <1>0
    <3>3. Recorded(n, s[n])'
      BY <1>1
    <3> QED
      BY <3>1, <3>2, <3>3 DEF Recorded
  <2>5. CASE KeepsAnswer
    <3>1. PICK y \in Key, pc \in {"own", "plan"} :
            /\ PutKey(worker.name, y)
            /\ worker' = [worker EXCEPT !.pc = pc, !.key = Versioned(worker.name, y)]
      BY <2>5 DEF KeepsAnswer
    <3>2. worker.name \in Names /\ worker \in Worker
      BY <1>0, <2>5 DEF KeepsAnswer, TypeOK
    <3>3. worker.name = n /\ worker'.key = Versioned(n, y)
      BY <1>4, <3>1, <3>2 DEF Worker
    <3>4. Stored(keys)'[n] = Versioned(n, y)
      BY <1>0, <3>1, <3>3, PutKeyWrites DEF Changed
    <3> QED
      BY <1>2, <3>3, <3>4 DEF Recorded
  <2>6. CASE HasSecret
    <3>1. worker.pc # "idle" /\ worker' = [worker EXCEPT !.pc = "makeJob"] /\ worker \in Worker
      BY <1>0, <2>6, WantsOutcome DEF HasSecret, TypeOK
    <3>2. worker'.name = worker.name /\ worker'.key = worker.key
      BY <3>1 DEF Worker
    <3> QED
      BY <1>4, <2>1, <3>1, <3>2
  <2> QED
    BY <2>2, <2>3, <2>4, <2>5, <2>6 DEF WorkerStep
<1> QED
  BY <1>3, <1>4

LEMMA HeldIsOwnedStep ==
  ASSUME CInv, HeldIsOwned, KeyStep
  PROVE  HeldIsOwned'
<1>0. /\ TInv /\ revision \in [Names -> Nat] /\ Stored(keys) \in [Names -> Key]
  BY ObjectTypes DEF CInv, TInv, TypeOK
<1> SUFFICES ASSUME NEW n \in Names, Stored(keys)'[n].finalizer
             PROVE  Stored(keys)'[n].owner # 0
  BY DEF HeldIsOwned, OwnerOf
<1> DEFINE x == Stored(keys)[n]
<1>1. x \in Key /\ (x.finalizer => x.owner # 0)
  BY <1>0 DEF HeldIsOwned, OwnerOf
<1>2. ~NoKey.finalizer
  BY DEF NoKey
<1>3. ASSUME NEW y \in Key, Appears(n, y)
      PROVE  ~y.finalizer
  BY <1>3 DEF Appears, Same, NoKey
<1>4. ASSUME NEW y \in Key, Advances(n, y), y.finalizer
      PROVE  y.owner # 0
  <2>1. WorkerWrites(n, x, y) \/ OthersWrite(n, x, y)
    BY <1>4 DEF Advances
  <2> HIDE DEF x
  <2>2. (y.finalizer = x.finalizer /\ y.owner = x.owner)
        \/ (worker.pc = "own" /\ y.owner = worker.repo.uid)
    BY <1>1, <1>4, <2>1 DEF WorkerWrites, OthersWrite, Same, Initialises, Succeeds, Fails, Holds, Key
  <2> QED
    BY <1>0, <1>1, <1>4, <2>2 DEF TInv, WorkerKnows
<1> QED
  BY <1>0, <1>1, <1>2, <1>3, <1>4, OneKey, VersionedIs

-------------------------------------------------------------------------------
(* Delete Jobs.                                                            *)

(* The delete Job of a first Key was made from a copy of this very Key.    *)
LEMMA DeletesOwnStep ==
  ASSUME SInv, LatestKey, IdsStay, DeletesOwn, DeletesDone, KeyStep, WorkerStep, NEW i, JobStepOf(i)
  PROVE  DeletesOwn'
<1>0. /\ CInv /\ TInv /\ TypeOK /\ Stored(keys) \in Seen(keys) /\ born \in [Names -> Nat]
  BY ObjectTypes DEF SInv, CInv, TInv, TypeOK
<1> SUFFICES ASSUME NEW n \in Names, Stored(keys)'[n].uid = 1,
                    NEW s \in Seen(jobs)', NEW j \in JobIds, Removes(s[j]), s[j].key = n
             PROVE  s[j].arg = Stored(keys)'[n].keyID
  BY DEF DeletesOwn, Removes
<1>1. CASE born[n] = 0
  <2>1. Quiet(n)'
    BY <1>1, NewIsQuiet
  <2> QED
    BY <2>1 DEF Quiet, HasJob, Removes
<1>2. CASE born[n] # 0
  <2>0. 1 <= born[n]
    BY <1>0, <1>2
  <2>1. Stored(keys)[n].uid = 1
    BY <1>0, <2>0, ThereBefore
  <2>2. born[n] = 1
    BY <2>1 DEF LatestKey
  <2>3. s[j].arg # None /\ s[j].arg = Stored(keys)[n].keyID
    <3>1. ASSUME NEW t \in Seen(jobs), NEW k \in JobIds, SameJob(s[j], t[k])
          PROVE  s[j].arg # None /\ s[j].arg = Stored(keys)[n].keyID
      BY <2>1, <3>1, NoIds DEF SameJob, Removes, DeletesOwn, DeletesDone, DoneJob
    <3>2. ASSUME NEW x \in Job, Makes(i, x), s[j] = x
          PROVE  s[j].arg # None /\ s[j].arg = Stored(keys)[n].keyID
      <4>1. /\ worker.pc # "idle" /\ worker.name = n
            /\ s[j].arg = worker.key.keyID /\ s[j].arg # None
        BY <3>2 DEF Makes, Removes
      <4>2. PICK u \in Nat : u = worker.key.uid /\ u # 0 /\ u <= born[n]
        BY <1>0, <4>1, WorkerBorn
      <4>3. worker.key.uid = Stored(keys)[n].uid
        BY <2>1, <2>2, <4>2
      <4> QED
        BY <4>1, <4>3 DEF IdsStay, Recorded
    <3> QED
      BY <1>0, <3>1, <3>2, JobsBefore DEF Removes
  <2>4. Stored(keys)[n].phase = "created"
    BY <1>0, <2>3 DEF IdsStay, Recorded
  <2> QED
    BY <1>0, <2>1, <2>3, <2>4, VerdictStays DEF Keeps
<1> QED
  BY <1>1, <1>2

(* A delete Job keeps its word: an ID that it knows is not added again.    *)
LEMMA DoneStays ==
  ASSUME CInv, KnownAdded, NEW i, JobStepOf(i), NEW s \in Seen(jobs), NEW j \in JobIds,
         DoneJob(s[j])
  PROVE  DoneJob(s[j])'
<1>0. TInv /\ restic \in [KeyIds -> ResticKey]
  BY DEF CInv, TInv, TypeOK
<1> SUFFICES ASSUME Removes(s[j]), s[j].state = "Complete"
             PROVE  restic'[s[j].arg].pw = None
  BY DEF DoneJob, Removes
<1>1. PICK id \in KeyIds : id = s[j].arg /\ restic[id].pw = None
  BY DEF DoneJob
<1>2. PICK n \in Names : Tells(s[j], n, id)
  BY <1>0, <1>1 DEF TInv, JobsLabelled, Tells, Removes
<1>3. restic[id].store # 0
  BY <1>2 DEF KnownAdded, Known
<1>4. ~(i \in JobIds /\ RemovesKey(i) /\ Stored(jobs)[i].arg = id)
  BY <1>1 DEF RemovesKey
<1> QED
  BY <1>1, <1>3, <1>4, ResticChanges

LEMMA DeletesDoneStep ==
  ASSUME CInv, KnownAdded, DeletesDone, NEW i, JobStepOf(i)
  PROVE  DeletesDone'
<1>0. /\ TypeOK /\ Stored(jobs) \in Seen(jobs) /\ Stored(jobs) \in [JobIds -> Job]
      /\ restic \in [KeyIds -> ResticKey]
  BY ObjectTypes DEF CInv, TInv, TypeOK
<1> SUFFICES ASSUME NEW s \in Seen(jobs)', NEW j \in JobIds
             PROVE  DoneJob(s[j])'
  BY DEF DeletesDone
<1>1. ASSUME NEW t \in Seen(jobs)
      PROVE  DoneJob(t[j])'
  BY <1>1, DoneStays DEF DeletesDone
<1>2. ASSUME i \in JobIds, NEW x \in Job, PutJob(i, x), Makes(i, x) \/ Ends(i, x) \/ Collected(i, x),
             s = Changed(jobs, i, x)
      PROVE  DoneJob(s[j])'
  <2>1. CASE i # j
    <3>1. s[j] = Stored(jobs)[j]
      BY <1>0, <1>2, <2>1 DEF Changed
    <3> QED
      BY <1>0, <1>1, <3>1 DEF DoneJob, Removes
  <2>2. CASE i = j
    <3>1. s[j] = x
      BY <1>0, <1>2, <2>2 DEF Changed
    <3>2. CASE Makes(i, x)
      <4>1. x.op = "delete" => x.arg \in KeyIds /\ x.state # "Complete"
        BY <3>2 DEF Makes, Job
      <4> QED
        BY <3>1, <4>1 DEF DoneJob, Removes
    <3>3. CASE Ends(i, x)
      <4>1. /\ Stored(jobs)[i].live /\ SameJob(x, Stored(jobs)[i])
            /\ x.op = "delete" /\ x.state = "Complete" => RemovesKey(i)
        BY <3>3 DEF Ends
      <4>2. x.op = "delete" => x.arg \in KeyIds /\ Stored(jobs)[i].arg = x.arg
        BY <1>0, <1>2, <4>1 DEF SameJob, DeletesDone, DoneJob, Removes
      <4>3. x.op = "delete" /\ RemovesKey(i) => restic'[x.arg].pw = None
        BY <1>0, <4>2 DEF RemovesKey, ResticKey
      <4> QED
        BY <3>1, <4>1, <4>2, <4>3 DEF DoneJob, Removes
    <3>4. CASE Collected(i, x)
      BY <3>1, <3>4, NoObjects DEF Collected, DoneJob, Removes
    <3> QED
      BY <1>2, <3>2, <3>3, <3>4
  <2> QED
    BY <2>1, <2>2
<1>3. CASE s \in Seen(jobs)
  BY <1>1, <1>3
<1> QED
  BY <1>0, <1>2, <1>3, PutJobWrites DEF JobStepOf, JobsRest

-------------------------------------------------------------------------------
(* Repositories that go.                                                   *)

LEMMA TheRepoIs ==
  ASSUME TypeOK
  PROVE  /\ TheRepo \in L!RepoViews /\ TheRepo = Stored(repos)[RepoName]
         /\ Stored(repos) \in Seen(repos)
         /\ \A v : Changed(repos, RepoName, v)[RepoName] = v
BY ObjectTypes DEF TheRepo, Changed

(* A Repository that was born before the step and is there after it was    *)
(* there before it, and readers find it or what they found before.         *)
LEMMA RepoThere ==
  ASSUME TypeOK, RepoStep, TheRepo'.uid # 0, TheRepo'.uid <= repoBorn
  PROVE  /\ TheRepo'.uid = TheRepo.uid
         /\ \A s \in Seen(repos)' : s \in Seen(repos) \/ s[RepoName] = TheRepo'
<1>0. repoBorn \in Nat
  BY DEF TypeOK
<1>1. CASE ReposRest
  BY <1>1 DEF ReposRest, TheRepo
<1>2. ASSUME NEW v \in L!RepoViews, PutRepo(v),
             \/ v.uid = repoBorn + 1 /\ repoBorn' = repoBorn + 1
             \/ (v.uid = TheRepo.uid \/ v.uid = 0) /\ repoBorn' = repoBorn
      PROVE  /\ TheRepo'.uid = TheRepo.uid
             /\ \A s \in Seen(repos)' : s \in Seen(repos) \/ s[RepoName] = TheRepo'
  <2>1. /\ Stored(repos)' = Changed(repos, RepoName, v)
        /\ Seen(repos)' = Seen(repos) \cup {Changed(repos, RepoName, v)}
    BY <1>2, PutRepoWrites
  <2>2. TheRepo' = v
    BY <2>1, TheRepoIs DEF TheRepo
  <2>3. v.uid = TheRepo.uid
    BY <1>0, <1>2, <2>2
  <2> QED
    BY <2>1, <2>2, <2>3, TheRepoIs
<1> QED
  BY <1>1, <1>2, ReposGrow

(* What a reader does not miss it goes on not missing.                     *)
LEMMA PastStays ==
  ASSUME TypeOK, RepoStep, NEW u \in Nat, u <= repoBorn, Past(u)
  PROVE  Past(u)'
<1> SUFFICES ASSUME u # 0, NEW s \in Seen(repos)', s[RepoName].uid = 0, TheRepo'.uid = u
             PROVE  FALSE
  BY DEF Past
<1>1. TheRepo.uid = u /\ (s \in Seen(repos) \/ s[RepoName] = TheRepo')
  BY RepoThere
<1> QED
  BY <1>1 DEF Past

LEMMA NoReturnTail ==
  ASSUME NEW w \in Watched([{RepoName} -> L!RepoViews]), NoReturn(w), Len(w) > 1
  PROVE  NoReturn(Tail(w))
<1>1. /\ Len(w) \in Nat /\ Len(Tail(w)) = Len(w) - 1
      /\ \A i \in 1..(Len(w) - 1) : Tail(w)[i] = w[i + 1]
  BY DEF Watched
<1>2. Stored(Tail(w)) = Stored(w)
  BY Delivered
<1> SUFFICES ASSUME NEW i \in 1..(Len(w) - 1), NEW k \in 1..(Len(w) - 1), i <= k,
                    w[i + 1][RepoName].uid # 0, w[k + 1][RepoName].uid = 0
             PROVE  Stored(w)[RepoName].uid # w[i + 1][RepoName].uid
  BY <1>1, <1>2 DEF NoReturn
<1>3. i + 1 \in 1..Len(w) /\ k + 1 \in 1..Len(w) /\ i + 1 <= k + 1
  BY <1>1
<1> QED
  BY <1>3 DEF NoReturn

LEMMA NoReturnSingle ==
  ASSUME NEW x \in [{RepoName} -> L!RepoViews]
  PROVE  NoReturn(<<x>>)
<1>1. \A i \in 1..Len(<<x>>) : <<x>>[i] = x
  OBVIOUS
<1> QED
  BY <1>1 DEF NoReturn

(* A Repository that was seen may be gone on, not come back.               *)
LEMMA NoReturnAppend ==
  ASSUME NEW w \in Watched([{RepoName} -> L!RepoViews]), NoReturn(w),
         NEW x \in [{RepoName} -> L!RepoViews],
         \/ x[RepoName].uid = 0
         \/ x[RepoName].uid = Stored(w)[RepoName].uid
         \/ \A s \in Seen(w) : s[RepoName].uid # x[RepoName].uid
  PROVE  NoReturn(Append(w, x))
<1>1. /\ Len(w) \in Nat /\ Len(Append(w, x)) = Len(w) + 1
      /\ Append(w, x)[Len(w) + 1] = x
      /\ \A i \in 1..Len(w) : Append(w, x)[i] = w[i]
  BY DEF Watched
<1>2. Stored(Append(w, x)) = x
  BY <1>1 DEF Stored
<1> SUFFICES ASSUME NEW i \in 1..(Len(w) + 1), NEW k \in 1..(Len(w) + 1), i <= k,
                    Append(w, x)[i][RepoName].uid # 0, Append(w, x)[k][RepoName].uid = 0
             PROVE  x[RepoName].uid # Append(w, x)[i][RepoName].uid
  BY <1>1, <1>2 DEF NoReturn
<1>3. CASE x[RepoName].uid = 0
  BY <1>3
<1>4. CASE x[RepoName].uid # 0
  <2>1. k \in 1..Len(w) /\ i \in 1..Len(w)
    BY <1>1, <1>4
  <2>2. w[i] \in Seen(w) /\ Append(w, x)[i] = w[i] /\ Append(w, x)[k] = w[k]
    BY <1>1, <2>1 DEF Seen
  <2> QED
    BY <1>4, <2>1, <2>2 DEF NoReturn
<1> QED
  BY <1>3, <1>4

LEMMA NoReturnStep ==
  ASSUME TypeOK, ReposInOrder, NoReturn(repos), RepoStep
  PROVE  NoReturn(repos)'
<1>1. /\ repos \in Watched([{RepoName} -> L!RepoViews]) /\ repoBorn \in Nat
      /\ Stored(repos) \in [{RepoName} -> L!RepoViews]
      /\ Seen(repos) \subseteq [{RepoName} -> L!RepoViews]
  BY ObjectTypes DEF TypeOK
<1>2. CASE ReposRest
  <2>1. repos' = repos \/ NoReturn(repos')
    BY <1>1, <1>2, NoReturnTail, NoReturnSingle DEF ReposRest, Relisted
  <2>2. repos' = repos => NoReturn(repos')
    OBVIOUS
  <2> QED
    BY <2>1, <2>2 DEF NoReturn
<1>3. ASSUME NEW v \in L!RepoViews, PutRepo(v),
             \/ v.uid = repoBorn + 1 /\ repoBorn' = repoBorn + 1
             \/ (v.uid = TheRepo.uid \/ v.uid = 0) /\ repoBorn' = repoBorn
      PROVE  NoReturn(repos)'
  <2> DEFINE x == Changed(repos, RepoName, v)
  <2>1. repos' = Append(repos, x)
    BY <1>3 DEF PutRepo, Write, Changed
  <2>2. x \in [{RepoName} -> L!RepoViews] /\ x[RepoName] = v
    BY <1>1 DEF Changed
  <2>3. v.uid = repoBorn + 1 => \A s \in Seen(repos) : s[RepoName].uid # v.uid
    <3>1. \A s \in Seen(repos) : s[RepoName].uid \in Nat /\ s[RepoName].uid <= repoBorn
      BY <1>1 DEF ReposInOrder, L!RepoViews
    <3> QED
      BY <1>1, <3>1
  <2> HIDE DEF x
  <2>4. NoReturn(Append(repos, x))
    BY <1>1, <1>3, <2>2, <2>3, NoReturnAppend DEF TheRepo
  <2> QED
    BY <2>1, <2>4 DEF NoReturn
<1> QED
  BY <1>2, <1>3, ReposGrow

LEMMA ReposGoneStep ==
  ASSUME CInv, ReposInOrder, OwnersPast, ReposGone, KeyStep, RepoStep, WorkerStep
  PROVE  ReposGone'
<1>0. /\ TInv /\ TypeOK /\ Stored(keys) \in [Names -> Key]
      /\ repos \in Watched([{RepoName} -> L!RepoViews])
      /\ Cached(repos) \in Seen(repos) /\ Seen(repos) \subseteq [{RepoName} -> L!RepoViews]
  BY ObjectTypes DEF CInv, TInv, TypeOK
<1>1. NoReturn(repos)'
  BY <1>0, NoReturnStep DEF ReposGone
<1>2. ASSUME NEW u \in Nat, u <= repoBorn, u # 0, TheRepo.uid # u
      PROVE  TheRepo'.uid # u
  BY <1>0, <1>2, RepoThere
<1>3. ASSUME worker'.pc # "idle"
      PROVE  Past(worker.repo.uid)'
  <2>1. PICK u \in Nat : u = worker'.repo.uid /\ u <= repoBorn /\ Past(u)
    <3>1. CASE worker.pc # "idle" /\ worker'.repo = worker.repo
      BY <1>0, <3>1, AtWork DEF ReposInOrder, ReposGone, L!RepoViews
    <3>2. CASE worker'.repo = Cached(repos)[RepoName]
      <4>1. Past(Cached(repos)[RepoName].uid)
        <5> SUFFICES ASSUME Cached(repos)[RepoName].uid # 0,
                            NEW s \in Seen(repos), s[RepoName].uid = 0
                     PROVE  TheRepo.uid # Cached(repos)[RepoName].uid
          BY DEF Past
        <5>1. PICK k \in 1..Len(repos) : s = repos[k]
          BY DEF Seen
        <5>2. 1 \in 1..Len(repos) /\ 1 <= k
          BY <1>0, <5>1, Snapshots
        <5> QED
          BY <5>1, <5>2 DEF ReposGone, NoReturn, Cached, TheRepo
      <4> QED
        BY <1>0, <3>2, <4>1, CachedRepo
    <3> QED
      BY <1>0, <1>3, <3>1, <3>2, WorkerRepo
  <2>2. Past(u)'
    BY <1>0, <2>1, PastStays
  <2> QED
    BY <2>1, <2>2 DEF Past
<1>4. ASSUME NEW n \in Names
      PROVE  /\ Past(OwnerOf(n))'
             /\ worker'.pc # "idle" /\ worker'.repo.uid = 0 /\ OwnerOf(n)' # 0
                  => TheRepo'.uid # OwnerOf(n)'
  <2>1. ASSUME NEW u \in Nat, OwnerOf(n)' = u, u <= repoBorn, Past(u),
               u # 0 /\ worker.pc # "idle" /\ worker.repo.uid = 0 => TheRepo.uid # u
        PROVE  /\ Past(OwnerOf(n))'
               /\ worker'.pc # "idle" /\ worker'.repo.uid = 0 /\ OwnerOf(n)' # 0
                    => TheRepo'.uid # OwnerOf(n)'
    <3>1. Past(u)'
      BY <1>0, <2>1, PastStays
    <3>2. ASSUME worker'.pc # "idle", worker'.repo.uid = 0, u # 0
          PROVE  TheRepo.uid # u
      <4>1. CASE worker.pc # "idle" /\ worker'.repo = worker.repo
        BY <2>1, <3>2, <4>1
      <4>2. CASE worker'.repo = Cached(repos)[RepoName]
        BY <1>0, <2>1, <3>2, <4>2 DEF Past
      <4> QED
        BY <1>0, <3>2, <4>1, <4>2, WorkerRepo
    <3> QED
      BY <1>2, <2>1, <3>1, <3>2 DEF Past
  <2>2. CASE OwnerOf(n)' = OwnerOf(n)
    <3>1. OwnerOf(n) \in Nat
      BY <1>0 DEF OwnerOf, Key
    <3> QED
      BY <2>1, <2>2, <3>1 DEF OwnersPast, ReposGone
  <2>3. CASE OwnerOf(n)' = 0
    BY <2>3 DEF Past
  <2>4. CASE worker.pc = "own" /\ OwnerOf(n)' = worker.repo.uid
    <3>1. worker.repo.uid # 0 /\ worker.repo.uid \in Nat /\ worker.repo.uid <= repoBorn
      BY <1>0, <2>4, AtWork DEF TInv, WorkerKnows, ReposInOrder, L!RepoViews
    <3> QED
      BY <2>1, <2>4, <3>1 DEF ReposGone
  <2> QED
    BY <2>2, <2>3, <2>4, OwnerStays
<1> QED
  BY <1>1, <1>3, <1>4 DEF ReposGone

(* What was being deleted and is still there is being deleted.             *)
LEMMA StillDeleting ==
  ASSUME TypeOK, RepoStep, TheRepo'.uid # 0, TheRepo'.uid <= repoBorn, TheRepo.deleting
  PROVE  TheRepo'.deleting
<1>0. repoBorn \in Nat /\ TheRepo \in L!RepoViews
  BY TheRepoIs DEF TypeOK
<1>1. CASE ReposRest
  BY <1>1 DEF ReposRest, TheRepo
<1>2. ASSUME NEW v \in L!RepoViews, PutRepo(v)
      PROVE  TheRepo' = v
  <2>1. Stored(repos)' = Changed(repos, RepoName, v)
    BY <1>2, PutRepoWrites
  <2> QED
    BY <2>1, TheRepoIs DEF TheRepo
<1>3. ASSUME NEW v \in L!Appears(TheRepo, repoBorn + 1)
      PROVE  v.uid = repoBorn + 1
  BY <1>0 DEF L!Appears, L!NoView
<1>4. ASSUME NEW v \in L!Progresses(TheRepo)
      PROVE  v.deleting
  BY <1>0 DEF L!Progresses, L!RepoViews
<1>5. ASSUME NEW v \in L!StartsDeletion(TheRepo)
      PROVE  v.deleting
  <2>1. PICK d \in BOOLEAN : d = TRUE
    OBVIOUS
  <2>2. v = [TheRepo EXCEPT !.deleting = TRUE]
    BY DEF L!StartsDeletion
  <2>3. v = [TheRepo EXCEPT !.deleting = d]
    BY <2>1, <2>2, Zenon
  <2> QED
    BY <1>0, <2>1, <2>3 DEF L!RepoViews
<1>6. ASSUME NEW v \in L!Vanishes(TheRepo)
      PROVE  v.uid = 0
  BY DEF L!Vanishes, L!NoView
<1> QED
  BY <1>0, <1>1, <1>2, <1>3, <1>4, <1>5, <1>6 DEF RepoStep

(* So what a copy says of the deletion of a Repository remains true.       *)
LEMMA GoingStays ==
  ASSUME TypeOK, RepoStep, NEW r \in L!RepoViews, r.uid <= repoBorn, Going(r)
  PROVE  Going(r)'
<1> SUFFICES ASSUME r.deleting, r.uid # 0, r.uid = TheRepo'.uid
             PROVE  TheRepo'.deleting
  BY DEF Going
<1>1. TheRepo.uid = r.uid
  BY RepoThere
<1>2. TheRepo.deleting
  BY <1>1 DEF Going
<1> QED
  BY <1>2, StillDeleting

LEMMA ReposGoingStep ==
  ASSUME TInv, ReposInOrder, ReposGoing, RepoStep, WorkerStep
  PROVE  ReposGoing'
<1>0. /\ TypeOK /\ Cached(repos) \in Seen(repos) /\ Stored(repos) \in Seen(repos)
      /\ Seen(repos) \subseteq [{RepoName} -> L!RepoViews]
  BY ObjectTypes DEF TInv
<1>1. ASSUME NEW s \in Seen(repos)
      PROVE  Going(s[RepoName])'
  <2>1. PICK r \in L!RepoViews : r = s[RepoName] /\ r.uid <= repoBorn /\ Going(r)
    BY <1>0 DEF ReposInOrder, ReposGoing
  <2>2. Going(r)'
    BY <1>0, <2>1, GoingStays
  <2> QED
    BY <2>1, <2>2 DEF Going
<1>2. ASSUME NEW s \in Seen(repos)'
      PROVE  Going(s[RepoName])'
  <2>1. CASE s \in Seen(repos)
    BY <1>1, <2>1
  <2>2. CASE s \notin Seen(repos)
    <3>1. PICK v \in L!RepoViews : PutRepo(v)
      BY <1>0, <2>2 DEF RepoStep, ReposRest
    <3>2. /\ Stored(repos)' = Changed(repos, RepoName, v)
          /\ s = Changed(repos, RepoName, v)
      BY <1>0, <2>2, <3>1, PutRepoWrites
    <3>3. s[RepoName] = TheRepo'
      BY <3>2 DEF TheRepo
    <3> QED
      BY <3>3 DEF Going
  <2> QED
    BY <2>1, <2>2
<1>3. ASSUME worker'.pc # "idle"
      PROVE  Going(worker.repo)'
  <2>1. CASE worker.pc # "idle" /\ worker'.repo = worker.repo
    <3>1. PICK r \in L!RepoViews : r = worker.repo /\ r.uid <= repoBorn /\ Going(r)
      BY <2>1, AtWork DEF ReposInOrder, ReposGoing
    <3>2. Going(r)'
      BY <1>0, <3>1, GoingStays
    <3> QED
      BY <2>1, <3>1, <3>2 DEF Going
  <2>2. CASE worker'.repo = Cached(repos)[RepoName]
    <3>1. PICK s \in Seen(repos) : s = Cached(repos)
      BY <1>0
    <3>2. Going(s[RepoName])'
      BY <1>1
    <3> QED
      BY <2>2, <3>1, <3>2 DEF Going
  <2> QED
    BY <1>3, <2>1, <2>2, WorkerRepo
<1> QED
  BY <1>2, <1>3 DEF ReposGoing

-------------------------------------------------------------------------------
LEMMA FInvInit == Init => FInv
<1> SUFFICES ASSUME Init PROVE FInv
  OBVIOUS
<1>1. OInv
  BY OInvInit
<1>2. /\ Seen(jobs) = {[j \in JobIds |-> NoJob]} /\ Seen(keys) = {[n \in Names |-> NoKey]}
      /\ Stored(keys) = [n \in Names |-> NoKey]
      /\ Seen(repos) = {[n \in {RepoName} |-> L!NoView]}
      /\ Stored(repos) = [n \in {RepoName} |-> L!NoView]
      /\ repos = <<[n \in {RepoName} |-> L!NoView]>>
  BY Single DEF Init
<1>3. worker.pc = "idle"
  BY NoObjects DEF Init
<1>4. /\ NoKey.uid = 0 /\ NoKey.owner = 0 /\ NoKey.keyID = None /\ ~NoKey.finalizer
      /\ ~NoJob.live /\ L!NoView.uid = 0
  BY NoObjects DEF NoKey, L!NoView
<1>5. IdsStay /\ HeldIsOwned /\ DeletesOwn /\ DeletesDone
  BY <1>2, <1>3, <1>4 DEF IdsStay, Recorded, HeldIsOwned, DeletesOwn, DeletesDone, DoneJob, Removes
<1>6. NoReturn(repos)
  <2>1. [n \in {RepoName} |-> L!NoView] \in [{RepoName} -> L!RepoViews]
    BY NoViewType
  <2> QED
    BY <1>2, <2>1, NoReturnSingle
<1>7. ReposGone
  BY <1>2, <1>3, <1>4, <1>6 DEF ReposGone, Past, OwnerOf
<1>8. ReposGoing
  BY <1>2, <1>3, <1>4 DEF ReposGoing, Going
<1> QED
  BY <1>1, <1>5, <1>7, <1>8 DEF FInv

LEMMA FInvStep ==
  ASSUME FInv, [Next]_vars
  PROVE  FInv'
<1>1. /\ OInv /\ SInv /\ CInv /\ TInv /\ TypeOK
      /\ LatestKey /\ ReposInOrder /\ OwnersPast /\ KnownAdded
      /\ IdsStay /\ HeldIsOwned /\ DeletesOwn /\ DeletesDone /\ ReposGone /\ ReposGoing
  BY DEF FInv, OInv, SInv, CInv, TInv
<1>2. OInv' /\ KeyStep /\ JobStep /\ RepoStep /\ WorkerStep
  BY <1>1, OInvStep, EveryStep DEF Classified
<1>3. PICK i : JobStepOf(i)
  BY <1>2 DEF JobStep, JobStepOf
<1>4. IdsStay' /\ HeldIsOwned'
  BY <1>1, <1>2, IdsStayStep, HeldIsOwnedStep
<1>5. DeletesOwn' /\ DeletesDone'
  BY <1>1, <1>2, <1>3, DeletesOwnStep, DeletesDoneStep
<1>6. ReposGone' /\ ReposGoing'
  BY <1>1, <1>2, ReposGoneStep, ReposGoingStep
<1> QED
  BY <1>2, <1>4, <1>5, <1>6 DEF FInv

-------------------------------------------------------------------------------
(* What the worker saw when it took the finalizer off was true.            *)
LEMMA ReleaseIsRight ==
  ASSUME FInv, MayRelease, NEW n \in Names, n = worker.name,
         Stored(keys)[n].uid = 1, Stored(keys)[n].finalizer
  PROVE  Removed(Stored(keys)[n]) \/ TheRepo.uid # OwnerOf(n) \/ TheRepo.deleting
<1>0. /\ CInv /\ TInv /\ TypeOK /\ ReposInOrder /\ OwnersPast
      /\ DeletesOwn /\ DeletesDone /\ ReposGone /\ ReposGoing
      /\ OwnerOf(n) # 0 /\ OwnerOf(n) \in Nat /\ repoBorn \in Nat
      /\ worker.pc # "idle" /\ worker.repo \in L!RepoViews
  <2>1. CInv /\ TInv /\ TypeOK
    BY DEF FInv, OInv, SInv, CInv, TInv
  <2>2. Stored(keys) \in [Names -> Key]
    BY <2>1, ObjectTypes
  <2> QED
    BY <2>1, <2>2, AtWork DEF FInv, OInv, HeldIsOwned, OwnerOf, Key, MayRelease, TypeOK
<1>1. CASE worker.repo.uid = 0
  BY <1>0, <1>1 DEF ReposGone
<1>2. CASE worker.repo.uid # 0 /\ worker.repo.deleting
  <2>1. CASE OwnerOf(n) = worker.repo.uid
    BY <1>0, <1>2, <2>1 DEF ReposGoing, Going
  <2>2. CASE OwnerOf(n) # worker.repo.uid
    <3>1. /\ worker.repo.uid \in Nat /\ OwnerOf(n) <= worker.repo.uid
          /\ worker.repo.uid <= repoBorn
      BY <1>0, <1>2 DEF OwnersPast, ReposInOrder, L!RepoViews
    <3>2. OwnerOf(n) # repoBorn
      BY <1>0, <2>2, <3>1
    <3> QED
      BY <1>0, <3>2 DEF ReposInOrder
  <2> QED
    BY <2>1, <2>2
<1>3. CASE \E j \in DeleteJobs : KeyRemoved(Cached(jobs)[j])
  <2>1. PICK j \in JobIds : /\ Removes(Cached(jobs)[j]) /\ Cached(jobs)[j].key = n
                            /\ Cached(jobs)[j].state = "Complete"
    BY <1>3 DEF DeleteJobs, JobsFor, KeyJobs, KeyRemoved, Removes
  <2>2. PICK s \in Seen(jobs) : s = Cached(jobs)
    BY <1>0, ObjectTypes
  <2>3. s[j].arg = Stored(keys)[n].keyID
    BY <1>0, <2>1, <2>2 DEF DeletesOwn
  <2>4. s[j].arg \in KeyIds /\ restic[s[j].arg].pw = None
    BY <1>0, <2>1, <2>2 DEF DeletesDone, DoneJob
  <2> QED
    BY <2>3, <2>4, NoIds DEF Removed
<1> QED
  BY <1>1, <1>2, <1>3 DEF MayRelease

(* Only a release takes the finalizer off.                                 *)
LEMMA FinalizerStays ==
  ASSUME FInv, [Next]_vars, NEW n \in Names,
         Stored(keys)[n].uid = 1, Stored(keys)[n].finalizer,
         ~(Stored(keys)'[n].uid = 1 /\ Stored(keys)'[n].finalizer)
  PROVE  MayRelease /\ n = worker.name
<1>0. /\ CInv /\ revision \in [Names -> Nat]
      /\ Stored(keys)[n] \in Key
  BY ObjectTypes DEF FInv, OInv, SInv, CInv, TInv, TypeOK
<1>1. KeyStep
  BY <1>0, EveryStep DEF CInv, Classified
<1>2. ASSUME NEW y \in Key, Appears(n, y)
      PROVE  FALSE
  BY <1>2 DEF Appears
<1>3. ASSUME NEW y \in Key, Advances(n, y), Stored(keys)'[n] = Versioned(n, y)
      PROVE  MayRelease /\ n = worker.name
  <2> DEFINE x == Stored(keys)[n]
  <2>1. x \in Key /\ x.finalizer /\ (WorkerWrites(n, x, y) \/ OthersWrite(n, x, y))
    BY <1>0, <1>3 DEF Advances
  <2>2. ~y.finalizer
    BY <1>0, <1>3, VersionedIs DEF Advances
  <2> HIDE DEF x
  <2> QED
    BY <2>1, <2>2 DEF WorkerWrites, OthersWrite, Same, Initialises, Succeeds, Fails, Holds, Key
<1>4. Leaves(n) => MayRelease /\ n = worker.name
  BY DEF Leaves
<1> QED
  BY <1>0, <1>1, <1>2, <1>3, <1>4, OneKey

(* The first Key of a name keeps its finalizer until restic has forgotten  *)
(* the ID that the Key recorded, or the Repository that owns it is gone or *)
(* going: no delete Job of another Key, no stale "not found" and no stale  *)
(* copy of a Repository that is replaced ends it early.                    *)
THEOREM FinalizersHonoured == Spec => FinalizerHonoured
<1>1. FInv /\ [Next]_vars =>
        [\A n \in Names :
           LET key == Stored(keys)[n]
               next == Stored(keys')[n]
           IN  key.uid = 1 /\ key.finalizer /\ ~(next.uid = 1 /\ next.finalizer)
                 => Removed(key) \/ TheRepo.uid # key.owner \/ TheRepo.deleting]_vars
  BY FinalizerStays, ReleaseIsRight DEF OwnerOf
<1>2. FInv /\ [Next]_vars => FInv'
  BY FInvStep
<1> QED
  BY <1>1, <1>2, FInvInit, PTL DEF Spec, FinalizerHonoured

-------------------------------------------------------------------------------
(* Keys are forgotten only when they are stuck.                            *)

(* What a Job means to Key n, and the changes of it that are on their way. *)
Of(n, job) == IF job.key = n THEN job ELSE NoJob

Coming(w, n) ==
  \E i \in 2..Len(w) : \E j \in JobIds : Of(n, w[i][j]) # Of(n, w[i - 1][j])

LEMMA EventIs ==
  ASSUME NEW n \in Names
  PROVE  JobEvent(n) <=> Coming(jobs, n)
<1>1. NoJob.key # n
  BY NoneAssumption DEF NoJob
<1>2. ASSUME NEW x, NEW y
      PROVE  (x # y /\ n \in {x.key, y.key}) <=> Of(n, x) # Of(n, y)
  BY <1>1 DEF Of
<1>3. \A i \in 2..Len(jobs), j \in JobIds :
        (jobs[i][j] # jobs[i - 1][j] /\ n \in {jobs[i][j].key, jobs[i - 1][j].key})
          <=> Of(n, jobs[i][j]) # Of(n, jobs[i - 1][j])
  BY <1>2
<1> HIDE DEF Of
<1> QED
  BY <1>3 DEF JobEvent, Coming

LEMMA WriteComing ==
  ASSUME NEW S, NEW w \in Watched(S), NEW j, NEW x, NEW n, NEW k \in JobIds,
         Coming(w, n) \/ Of(n, Stored(Write(w, j, x))[k]) # Of(n, Stored(w)[k])
  PROVE  Coming(Write(w, j, x), n)
<1> DEFINE new == Changed(w, j, x)
           A == S \cup {new}
<1>1. w \in Seq(A) /\ new \in A /\ w # <<>>
  BY DEF Watched
<1> HIDE DEF new, A
<1>2. /\ Len(w) \in Nat \ {0}
      /\ Len(Append(w, new)) = Len(w) + 1
      /\ Append(w, new)[Len(w) + 1] = new
      /\ \A i \in 1..Len(w) : Append(w, new)[i] = w[i]
  BY <1>1
<1>3. CASE Coming(w, n)
  <2>1. PICK i \in 2..Len(w), h \in JobIds : Of(n, w[i][h]) # Of(n, w[i - 1][h])
    BY <1>3 DEF Coming
  <2>2. /\ i \in 2..Len(Append(w, new))
        /\ Append(w, new)[i] = w[i] /\ Append(w, new)[i - 1] = w[i - 1]
    BY <1>2
  <2>3. Coming(Append(w, new), n)
    BY <2>1, <2>2 DEF Coming
  <2> QED
    BY <2>3 DEF Write, Changed, new
<1>4. CASE Of(n, Stored(Append(w, new))[k]) # Of(n, Stored(w)[k])
  <2> DEFINE i == Len(w) + 1
  <2>1. /\ i \in 2..Len(Append(w, new))
        /\ Append(w, new)[i] = Stored(Append(w, new)) /\ Append(w, new)[i - 1] = Stored(w)
    BY <1>2 DEF Stored
  <2> HIDE DEF i
  <2>2. Coming(Append(w, new), n)
    BY <1>4, <2>1 DEF Coming
  <2> QED
    BY <2>2 DEF Write, Changed, new
<1> QED
  BY <1>3, <1>4 DEF Write, Changed, new

(* The delivery of a change queues the owners of the Job before and after. *)
LEMMA DeliveryComing ==
  ASSUME NEW w \in Watched([JobIds -> Job]), Len(w) > 1, NEW n \in Names, Coming(w, n)
  PROVE  Coming(Tail(w), n) \/ n \in OwnersOf(w)
<1>1. /\ Len(w) \in Nat
      /\ Len(Tail(w)) = Len(w) - 1
      /\ \A i \in 1..(Len(w) - 1) : Tail(w)[i] = w[i + 1]
      /\ DOMAIN w[1] = JobIds
  BY DEF Watched
<1>2. PICK i \in 2..Len(w), j \in JobIds : Of(n, w[i][j]) # Of(n, w[i - 1][j])
  BY DEF Coming
<1>3. CASE i = 2
  <2>1. j \in Announced(w)
    BY <1>1, <1>2, <1>3 DEF Announced
  <2>2. w[1][j].key = n \/ w[2][j].key = n
    BY <1>2, <1>3 DEF Of
  <2>3. n # None
    BY NoneAssumption
  <2> QED
    BY <2>1, <2>2, <2>3 DEF OwnersOf
<1>4. CASE i # 2
  <2>1. /\ i - 1 \in 2..Len(Tail(w))
        /\ Tail(w)[i - 1] = w[i] /\ Tail(w)[(i - 1) - 1] = w[i - 1]
    BY <1>1, <1>4
  <2> QED
    BY <1>2, <2>1 DEF Coming
<1> QED
  BY <1>3, <1>4

(* Whoever lists other Jobs of n than there are will hear of it.           *)
LEMMA ListBehind ==
  ASSUME NEW w \in Watched([JobIds -> Job]), NEW n, NEW j \in JobIds,
         Of(n, Cached(w)[j]) # Of(n, Stored(w)[j])
  PROVE  Coming(w, n)
<1> DEFINE v == [i \in 1..Len(w) |-> [k \in {j} |-> Of(n, w[i][k])]]
           S == {v[i] : i \in 1..Len(w)}
<1>1. Len(w) \in Nat \ {0}
  BY DEF Watched
<1>2. v \in Seq(S) /\ Len(v) = Len(w)
  BY <1>1
<1>3. v \in Watched(S)
  BY <1>1, <1>2 DEF Watched
<1>4. \A i \in 1..Len(w) : v[i][j] = Of(n, w[i][j])
  OBVIOUS
<1> HIDE DEF v, S
<1>5. Cached(v)[j] # Stored(v)[j]
  BY <1>1, <1>2, <1>4 DEF Cached, Stored
<1>6. PICK i \in 2..Len(v) : v[i][j] # v[i - 1][j]
  BY <1>3, <1>5, Behind DEF OnItsWay
<1>7. i \in 2..Len(w) /\ i - 1 \in 1..Len(w) /\ i \in 1..Len(w)
  BY <1>1, <1>2
<1> QED
  BY <1>4, <1>6, <1>7 DEF Coming

-------------------------------------------------------------------------------
(* Until a restart, every event is still on its way after a step or has    *)
(* queued its Key, and what a step changes is on its way.                  *)
KeysHeard ==
  \A n \in Names :
    OnItsWay(keys, n) \/ Stored(keys)'[n] # Stored(keys)[n] =>
      OnItsWay(keys, n)' \/ n \in queue'

JobsHeard ==
  \A n \in Names : \A j \in JobIds :
    Coming(jobs, n) \/ Of(n, Stored(jobs)'[j]) # Of(n, Stored(jobs)[j]) =>
      Coming(jobs, n)' \/ n \in queue'

LEMMA WriteHeard ==
  ASSUME TypeOK, NEW m, NEW x
  PROVE  /\ keys' = Write(keys, m, x) => KeysHeard
         /\ jobs' = Write(jobs, m, x) => JobsHeard
<1>1. keys \in Watched([Names -> Key]) /\ jobs \in Watched([JobIds -> Job])
  BY DEF TypeOK
<1>2. ASSUME NEW n, keys' = Write(keys, m, x),
             OnItsWay(keys, n) \/ Stored(keys)'[n] # Stored(keys)[n]
      PROVE  OnItsWay(keys, n)'
  BY <1>1, <1>2, WriteAnnounces
<1>3. ASSUME NEW n, NEW j \in JobIds, jobs' = Write(jobs, m, x),
             Coming(jobs, n) \/ Of(n, Stored(jobs)'[j]) # Of(n, Stored(jobs)[j])
      PROVE  Coming(jobs, n)'
  BY <1>1, <1>3, WriteComing
<1> QED
  BY <1>2, <1>3 DEF KeysHeard, JobsHeard

LEMMA RestHeard ==
  /\ keys' = keys => KeysHeard
  /\ jobs' = jobs => JobsHeard
BY DEF KeysHeard, JobsHeard

LEMMA DeliveryHeard ==
  ASSUME TypeOK, Deliver
  PROVE  KeysHeard /\ JobsHeard
<1>1. keys \in Watched([Names -> Key]) /\ jobs \in Watched([JobIds -> Job])
  BY DEF TypeOK
<1>2. CASE DeliverKey
  <2>1. ASSUME NEW n \in Names
        PROVE  /\ Stored(keys)' = Stored(keys)
               /\ OnItsWay(keys, n) => OnItsWay(keys, n)' \/ n \in queue'
    BY <1>1, <1>2, Delivered, DeliveryAnnounces DEF DeliverKey
  <2>2. jobs' = jobs
    BY <1>2 DEF DeliverKey
  <2> QED
    BY <2>1, <2>2, RestHeard DEF KeysHeard
<1>3. CASE DeliverJob
  <2>1. ASSUME NEW n \in Names
        PROVE  /\ Stored(jobs)' = Stored(jobs)
               /\ Coming(jobs, n) => Coming(jobs, n)' \/ n \in queue'
    BY <1>1, <1>3, Delivered, DeliveryComing DEF DeliverJob
  <2>2. keys' = keys
    BY <1>3 DEF DeliverJob
  <2> QED
    BY <2>1, <2>2, RestHeard DEF JobsHeard
<1>4. CASE DeliverSecret \/ DeliverRepo
  BY <1>4, RestHeard DEF DeliverSecret, DeliverRepo
<1> QED
  BY <1>2, <1>3, <1>4 DEF Deliver

LEMMA StepHeard ==
  ASSUME TypeOK, Next, ~Restart
  PROVE  KeysHeard /\ JobsHeard
<1> USE WriteHeard, RestHeard DEF world
<1>1. ASSUME Retry \/ Stop
      PROVE  KeysHeard /\ JobsHeard
  BY <1>1 DEF Retry, Stop
<1>2. ASSUME NEW key, NEW again, Release(key, again) \/ Record(key)
      PROVE  KeysHeard /\ JobsHeard
  BY <1>1, <1>2 DEF Release, Record, PutKey, RemoveKey
<1>3. ASSUME NEW job, CreateJob(job)
      PROVE  KeysHeard /\ JobsHeard
  BY <1>1, <1>3 DEF CreateJob, PutJob
<1>4. CASE RepositoryGone \/ SetDefaults \/ Own \/ EnsureSecret
  BY <1>1, <1>2, <1>4 DEF RepositoryGone, SetDefaults, Own, EnsureSecret, PutKey
<1>5. CASE CreateSteps
  BY <1>1, <1>2, <1>3, <1>4, <1>5 DEF CreateSteps, SettledAlready, RepositoryNotReady, StartAddJob,
     JobsRunning, RecordCreated, NoMatch, NoPods, RecordFailed, NothingToRecord
<1>6. CASE DeleteSteps
  BY <1>1, <1>2, <1>3, <1>6 DEF DeleteSteps, RepositoryGoing, CheckDeleteJobStatus, StartDeleteJob
<1>7. CASE CallFails \/ RepoChanges
  BY <1>1, <1>7 DEF CallFails, RepoChanges, RepoAppears, RepoProgresses, RepoStartsDeletion, RepoVanishes,
     OperatorSecretAppears, OperatorSecretCollected
<1>8. ASSUME NEW n \in Names, Start(n) \/ Resync(n) \/ User(n) \/ Collect(n)
      PROVE  KeysHeard /\ JobsHeard
  <2>1. ASSUME NEW policy, Delete(n, policy)
        PROVE  KeysHeard /\ JobsHeard
    BY <2>1 DEF Delete, PutKey, RemoveKey
  <2>2. CASE Start(n) \/ Resync(n)
    BY <2>2 DEF Start, Resync
  <2>3. CASE User(n)
    BY <2>1, <2>3 DEF User, UserCreates, UserEdits, UserDeletes, PutKey
  <2>4. CASE Collect(n)
    BY <2>1, <2>4 DEF Collect, CollectKey, FinishKey, CollectSecret, RemoveKey
  <2> QED
    BY <1>8, <2>2, <2>3, <2>4
<1>9. ASSUME NEW j \in JobIds, CollectJob(j) \/ Pod(j) \/ LogsLost(j)
      PROVE  KeysHeard /\ JobsHeard
  BY <1>9 DEF CollectJob, Pod, AddPodSucceeds, AddPodLost, PodFails, DeletePodSucceeds,
              DeletePodLost, LogsLost, Elsewhere, PutJob
<1> QED
  BY <1>4, <1>5, <1>6, <1>7, <1>8, <1>9, DeliveryHeard DEF Next, Step

(* Steps that take no name from the queue or the worker.                   *)
LEMMA OthersKeepInHand ==
  ASSUME \/ CallFails \/ Deliver \/ RepoChanges
         \/ \E n \in Names : Resync(n) \/ User(n) \/ Collect(n)
         \/ \E j \in JobIds : CollectJob(j) \/ Pod(j) \/ LogsLost(j)
  PROVE  /\ queue \subseteq queue'
         /\ \/ worker' = worker
            \/ worker' = Idle /\ worker.name \in queue'
<1> USE DEF world
<1>1. CASE CallFails
  BY <1>1 DEF CallFails, Retry
<1>2. CASE Deliver
  BY <1>2 DEF Deliver, DeliverKey, DeliverJob, DeliverSecret, DeliverRepo
<1>3. CASE RepoChanges
  BY <1>3 DEF RepoChanges, RepoAppears, RepoProgresses, RepoStartsDeletion, RepoVanishes,
     OperatorSecretAppears, OperatorSecretCollected
<1>4. ASSUME NEW n \in Names, Resync(n) \/ User(n) \/ Collect(n)
      PROVE  queue \subseteq queue' /\ worker' = worker
  BY <1>4 DEF Resync, User, UserCreates, UserEdits, UserDeletes, Collect, CollectKey, FinishKey,
              CollectSecret, Delete
<1>5. ASSUME NEW j \in JobIds, CollectJob(j) \/ Pod(j) \/ LogsLost(j)
      PROVE  queue \subseteq queue' /\ worker' = worker
  BY <1>5 DEF CollectJob, Pod, AddPodSucceeds, AddPodLost, PodFails, DeletePodSucceeds, DeletePodLost,
              LogsLost, Elsewhere
<1> QED
  BY <1>1, <1>2, <1>3, <1>4, <1>5

-------------------------------------------------------------------------------
(* The parts of the invariant.                                             *)

(* A delete Job is made for a Key that is being deleted.                   *)
DeletesLate ==
  \A n \in Names : \A s \in Seen(jobs) : \A j \in JobIds :
    Removes(s[j]) /\ s[j].key = n /\ s[j].owner = Stored(keys)[n].uid
      => Deleting(Stored(keys)[n])

(* A worker whose copy is old will be sent back to the Key.                *)
UpToDate ==
  worker.pc # "idle" =>
    \/ worker.key = Stored(keys)[worker.name]
    \/ OnItsWay(keys, worker.name)
    \/ worker.name \in queue

HInv == SInv /\ DeletesLate /\ UpToDate /\ ForgottenOnlyWhenStuck

LEMMA DeletingStays ==
  ASSUME CInv, KeyStep, NEW n \in Names, Deleting(Stored(keys)[n]),
         Stored(keys)'[n].uid = Stored(keys)[n].uid, Stored(keys)[n].uid # 0
  PROVE  Deleting(Stored(keys)'[n])
<1>0. revision \in [Names -> Nat]
  BY DEF CInv, TInv, TypeOK
<1>1. ASSUME NEW y \in Key, Appears(n, y)
      PROVE  FALSE
  BY <1>1 DEF Appears
<1>2. ASSUME NEW y \in Key, Advances(n, y), Stored(keys)'[n] = Versioned(n, y)
      PROVE  Deleting(Stored(keys)'[n])
  BY <1>0, <1>2, Advancing, VersionedIs DEF StillSo, Deleting
<1> QED
  BY <1>1, <1>2, OneKey, NoObjects

LEMMA DeletesLateStep ==
  ASSUME SInv, DeletesLate, KeyStep, JobStep
  PROVE  DeletesLate'
<1>0. CInv /\ TypeOK /\ Seen(jobs) \subseteq [JobIds -> Job]
  BY ObjectTypes DEF SInv, CInv, TInv
<1> SUFFICES ASSUME NEW n \in Names, NEW s \in Seen(jobs)', NEW j \in JobIds, Removes(s[j]),
                    s[j].key = n, s[j].owner = Stored(keys)'[n].uid
             PROVE  Deleting(Stored(keys)'[n])
  BY DEF DeletesLate, Removes, Deleting
<1>1. ASSUME NEW u \in Nat, u = s[j].owner, u # 0, u <= born[n],
             Stored(keys)[n].uid = u => Deleting(Stored(keys)[n])
      PROVE  Deleting(Stored(keys)'[n])
  <2>1. Stored(keys)'[n].uid = Stored(keys)[n].uid
    BY <1>0, <1>1, ThereBefore
  <2> QED
    BY <1>0, <1>1, <2>1, DeletingStays
<1>2. ASSUME NEW t \in Seen(jobs), NEW k \in JobIds, SameJob(s[j], t[k])
      PROVE  Deleting(Stored(keys)'[n])
  <2>1. Removes(t[k]) /\ t[k].key = n /\ t[k].owner = s[j].owner
    BY <1>2 DEF SameJob, Removes
  <2>2. t[k].owner \in Nat /\ t[k].owner # 0 /\ t[k].owner <= born[n]
    BY <1>0, <2>1 DEF SInv, OwnersBorn, Job, Removes
  <2>3. Stored(keys)[n].uid = t[k].owner => Deleting(Stored(keys)[n])
    BY <2>1 DEF DeletesLate
  <2> QED
    BY <1>1, <2>1, <2>2, <2>3
<1>3. ASSUME NEW i, NEW x \in Job, Makes(i, x), s[j] = x
      PROVE  Deleting(Stored(keys)'[n])
  <2>1. worker.pc # "idle" /\ worker.name = n /\ worker.key.uid = s[j].owner /\ Deleting(worker.key)
    BY <1>3 DEF Makes, Removes
  <2>2. worker.key.uid \in Nat /\ worker.key.uid # 0 /\ worker.key.uid <= born[n]
    BY <1>0, <2>1, WorkerBorn
  <2>3. Stored(keys)[n].uid = worker.key.uid => Deleting(Stored(keys)[n])
    BY <1>0, <2>1 DEF CInv, Copies, GoodCopy, StillSo
  <2> QED
    BY <1>1, <2>1, <2>2, <2>3
<1>4. PICK i : JobStepOf(i)
  BY DEF JobStep, JobStepOf
<1> QED
  BY <1>0, <1>2, <1>3, <1>4, JobsBefore DEF Removes

(* Only Start takes a name from the queue, for an idle worker.             *)
LEMMA QueueGrows ==
  ASSUME Next, ~Restart, worker.pc # "idle"
  PROVE  queue \subseteq queue'
<1>1. Retry => queue \subseteq queue'
  BY DEF Retry
<1>2. Stop => queue \subseteq queue'
  BY DEF Stop, Return
<1>3. ASSUME NEW key, NEW again, Release(key, again) \/ Record(key)
      PROVE  queue \subseteq queue'
  BY <1>1, <1>2, <1>3 DEF Release, Record, Return
<1>4. ASSUME NEW job, CreateJob(job)
      PROVE  queue \subseteq queue'
  BY <1>1, <1>4 DEF CreateJob, Return
<1>5. RepositoryGone \/ SetDefaults \/ Own \/ EnsureSecret => queue \subseteq queue'
  BY <1>1, <1>3 DEF RepositoryGone, SetDefaults, Own, EnsureSecret
<1>6. CreateSteps => queue \subseteq queue'
  BY <1>1, <1>2, <1>3, <1>4, <1>5 DEF CreateSteps, SettledAlready, RepositoryNotReady, StartAddJob,
     JobsRunning, RecordCreated, NoMatch, NoPods, RecordFailed, NothingToRecord
<1>7. DeleteSteps => queue \subseteq queue'
  BY <1>1, <1>2, <1>3, <1>4 DEF DeleteSteps, RepositoryGoing, CheckDeleteJobStatus, StartDeleteJob
<1> QED
  BY <1>5, <1>6, <1>7, OthersKeepInHand DEF Next, Step, Start

LEMMA UpToDateStep ==
  ASSUME CInv, UpToDate, Next, ~Restart, WorkerStep
  PROVE  UpToDate'
<1>0. /\ TInv /\ TypeOK /\ KeysHeard
      /\ worker \in Worker /\ keys \in Watched([Names -> Key])
      /\ Stored(keys) \in [Names -> Key]
  BY StepHeard, ObjectTypes DEF CInv, TInv, TypeOK
<1> SUFFICES ASSUME NEW n, worker'.pc # "idle", n = worker'.name
             PROVE  \/ worker'.key = Stored(keys)'[n]
                    \/ OnItsWay(keys, n)'
                    \/ n \in queue'
  BY DEF UpToDate
<1>1. CASE worker.pc # "idle" /\ worker'.name = worker.name /\ worker'.key = worker.key
  <2>1. n \in Names /\ queue \subseteq queue'
    BY <1>0, <1>1, AtWork, QueueGrows
  <2> QED
    BY <1>0, <1>1, <2>1 DEF UpToDate, KeysHeard
<1>2. CASE worker' = worker
  BY <1>1, <1>2
<1>3. CASE worker' = Idle
  BY <1>3, NoObjects
<1>4. CASE TakesCopies
  <2>1. n \in Names /\ worker'.key = Cached(keys)[n]
    BY <1>4 DEF TakesCopies
  <2>2. Cached(keys)[n] = Stored(keys)[n] \/ OnItsWay(keys, n)
    BY <1>0, Behind
  <2> QED
    BY <1>0, <2>1, <2>2 DEF KeysHeard
<1>5. CASE KeepsAnswer
  <2>1. PICK y \in Key, pc \in {"own", "plan"} :
          /\ PutKey(worker.name, y)
          /\ worker' = [worker EXCEPT !.pc = pc, !.key = Versioned(worker.name, y)]
    BY <1>5 DEF KeepsAnswer
  <2>2. worker.name \in Names
    BY <1>0, <1>5, AtWork DEF KeepsAnswer
  <2>3. worker'.name = worker.name /\ worker'.key = Versioned(worker.name, y)
    BY <1>0, <2>1 DEF Worker
  <2>4. Stored(keys)'[worker.name] = Versioned(worker.name, y)
    BY <1>0, <2>1, <2>2, PutKeyWrites DEF Changed
  <2> QED
    BY <2>3, <2>4
<1>6. CASE HasSecret
  <2>1. worker.pc # "idle" /\ worker' = [worker EXCEPT !.pc = "makeJob"]
    BY <1>0, <1>6, WantsOutcome DEF HasSecret
  <2>2. worker'.name = worker.name /\ worker'.key = worker.key
    BY <1>0, <2>1 DEF Worker
  <2> QED
    BY <1>1, <2>1, <2>2
<1> QED
  BY <1>2, <1>3, <1>4, <1>5, <1>6 DEF WorkerStep

(* A Job that will make an event, or would if it could mount the operator  *)
(* secret.                                                                 *)
Comes(n, job) == Moves(n, job) \/ Starves(n, job)

(* A Job that is still active does, or is about to be collected: an add    *)
(* Job has the secret of the Key that owns it.                             *)
ActivesMove ==
  \A n \in Names : \A j \in JobIds :
    LET job == Stored(jobs)[j] IN
    Waits(n) /\ job.live /\ job.key = n /\ job.state = "Active" => Comes(n, job)

LEMMA ActiveMoves == SInv => ActivesMove
BY DEF SInv, AddJobHasItsSecret, ActivesMove, Comes, Moves, Starves, Mountable, Waits, Orphaned

-------------------------------------------------------------------------------
(* Reconcile heeds the Key it works on.                                    *)

(* Nothing that is stored of Key n or of its Jobs changes in the step, and *)
(* no event of it is on its way.                                           *)
Still(n) ==
  /\ Stored(keys)'[n] = Stored(keys)[n] /\ ~OnItsWay(keys, n)
  /\ ~Coming(jobs, n)
  /\ \A j \in JobIds : Of(n, Stored(jobs)'[j]) = Of(n, Stored(jobs)[j])

(* What is done with n when its worker returns and n is not queued again.  *)
Heeded(n) == (\E j \in JobIds : Comes(n, Stored(jobs)[j])) \/ GaveUp(n)

LEMMA WorkerKnowsKey ==
  ASSUME UpToDate, worker.pc # "idle", ~OnItsWay(keys, worker.name), worker.name \notin queue
  PROVE  worker.key = Stored(keys)[worker.name]
BY DEF UpToDate

(* The list of Jobs is that of the stored ones.                            *)
LEMMA ListsAll ==
  ASSUME TypeOK, worker.name \in Names, ~Coming(jobs, worker.name), NEW j \in JobIds
  PROVE  /\ j \in KeyJobs <=> (Stored(jobs)[j].live /\ Stored(jobs)[j].key = worker.name)
         /\ j \in KeyJobs => Cached(jobs)[j] = Stored(jobs)[j]
<1> DEFINE n == worker.name
<1>1. jobs \in Watched([JobIds -> Job])
  BY DEF TypeOK
<1>2. Of(n, Cached(jobs)[j]) = Of(n, Stored(jobs)[j])
  BY <1>1, ListBehind
<1>3. ~NoJob.live
  BY NoObjects
<1> QED
  BY <1>2, <1>3 DEF Of, KeyJobs

(* A write of the worker changes the Key.                                  *)
LEMMA WritesShow ==
  ASSUME CInv, NEW n \in Names, NEW y \in Key, PutKey(n, y)
  PROVE  Stored(keys)'[n] # Stored(keys)[n]
<1>1. /\ TypeOK /\ revision \in [Names -> Nat] /\ Stored(keys) \in [Names -> Key]
      /\ Stored(keys) \in Seen(keys)
  BY ObjectTypes DEF CInv, TInv, TypeOK
<1>2. Stored(keys)'[n].rv = revision[n] + 1
  BY <1>1, PutKeyWrites, VersionedIs DEF Changed
<1>3. Stored(keys)[n].rv \in Nat /\ Stored(keys)[n].rv <= revision[n] /\ revision[n] \in Nat
  BY <1>1 DEF CInv, Copies, GoodCopy, Key
<1> QED
  BY <1>2, <1>3

(* A release of the finalizer takes it, and writes; or there is none.      *)
LEMMA ReleaseHeeds ==
  ASSUME CInv, UpToDate, NEW n \in Names, n = worker.name, worker.pc # "idle",
         Deleting(worker.key), NEW again, Release(worker.key, again), Still(n), Waits(n)
  PROVE  n \in queue'
<1> DEFINE x == worker.key
<1>1. TInv /\ TypeOK /\ x \in Key /\ Stored(keys) \in [Names -> Key]
  BY AtWork, ObjectTypes DEF CInv, TInv
<1>2. CASE RemoveKey(n)
  <2>1. Stored(keys)'[n] = NoKey
    BY <1>1, <1>2, RemoveKeyWrites DEF Changed
  <2> QED
    BY <2>1, NoObjects DEF Still, Waits
<1>3. ~PutKey(n, [x EXCEPT !.finalizer = FALSE])
  <2>1. PICK d \in BOOLEAN : d = FALSE
    OBVIOUS
  <2>2. [x EXCEPT !.finalizer = FALSE] = [x EXCEPT !.finalizer = d]
    BY <2>1, Zenon
  <2>3. [x EXCEPT !.finalizer = d] \in Key
    BY <1>1 DEF Key
  <2> QED
    BY <2>2, <2>3, WritesShow DEF Still
<1>4. CASE Current(x) /\ ~x.finalizer
  BY <1>4, Unrefused DEF Waits
<1>5. CASE Retry
  BY <1>5 DEF Retry
<1> QED
  BY <1>2, <1>3, <1>4, <1>5 DEF Release

LEMMA RecordHeeds ==
  ASSUME CInv, NEW y \in Key, worker.name \in Names, Record(y), Still(worker.name)
  PROVE  worker.name \in queue'
BY WritesShow DEF Record, Retry, Still

LEMMA CreateHeeds ==
  ASSUME TypeOK, NEW x \in Job, x.live, x.key = worker.name, CreateJob(x), Still(worker.name)
  PROVE  worker.name \in queue'
<1>1. CASE Retry
  BY <1>1 DEF Retry
<1>2. ASSUME NEW j \in JobIds, FreshJob(j), PutJob(j, x)
      PROVE  FALSE
  <2>1. jobs \in Watched([JobIds -> Job])
    BY DEF TypeOK
  <2>2. ~Stored(jobs)[j].live
    BY <1>2, <2>1, Snapshots DEF FreshJob, Stored
  <2>3. Stored(jobs)'[j] = x
    BY <1>2, PutJobWrites, ObjectTypes DEF Changed
  <2>4. Of(worker.name, Stored(jobs)'[j]).live /\ ~Of(worker.name, Stored(jobs)[j]).live
    BY <2>2, <2>3, NoObjects DEF Of
  <2> QED
    BY <2>4 DEF Still
<1> QED
  BY <1>1, <1>2 DEF CreateJob

(* A Key whose Jobs are still running, or have all failed, waits for them, *)
(* or was given up.                                                        *)
LEMMA RunningHeeds ==
  ASSUME SInv, UpToDate, JobsRunning, NEW n \in Names, n = worker.name, n \notin queue,
         Still(n), Waits(n)
  PROVE  Heeded(n)
<1>0. CInv /\ TypeOK /\ ActivesMove /\ Stored(jobs) \in [JobIds -> Job]
  BY ActiveMoves, ObjectTypes DEF SInv, CInv, TInv
<1>1. worker.pc # "idle" /\ ~Deleting(worker.key)
  BY <1>0, WantsOutcome DEF JobsRunning, CInv
<1>2. ~Deleting(Stored(keys)[n])
  BY <1>1, WorkerKnowsKey DEF Still
<1>3. \A j \in JobIds :
        /\ j \in KeyJobs <=> (Stored(jobs)[j].live /\ Stored(jobs)[j].key = n)
        /\ j \in KeyJobs => Stored(jobs)[j].state # "Complete"
  BY <1>0, ListsAll DEF Still, JobsRunning, Finished
<1>4. CASE \E j \in KeyJobs : Stored(jobs)[j].state = "Active"
  BY <1>0, <1>3, <1>4 DEF KeyJobs, ActivesMove, Heeded
<1>5. CASE \A j \in KeyJobs : Stored(jobs)[j].state # "Active"
  <2>1. \A j \in KeyJobs : Stored(jobs)[j].state = "Failed"
    BY <1>0, <1>3, <1>5 DEF KeyJobs, Job
  <2>2. KeyJobs # {} /\ KeyJobs = {j \in JobIds : Stored(jobs)[j].live /\ Stored(jobs)[j].key = n}
    BY <1>3 DEF JobsRunning, KeyJobs
  <2> HIDE DEF KeyJobs
  <2>3. AllFailed(n)
    BY <2>1, <2>2 DEF AllFailed
  <2> QED
    BY <1>2, <2>3 DEF GaveUp, Heeded
<1> QED
  BY <1>4, <1>5

(* A complete Job, none of which is to add the key, is a delete Job of an  *)
(* earlier Key of the name, which will be collected.                       *)
LEMMA NothingHeeds ==
  ASSUME SInv, DeletesLate, UpToDate, NothingToRecord, NEW n \in Names, n = worker.name,
         n \notin queue, Still(n), Waits(n)
  PROVE  Heeded(n)
<1>0. /\ CInv /\ TypeOK /\ ActivesMove /\ Stored(jobs) \in [JobIds -> Job]
      /\ Stored(jobs) \in Seen(jobs)
  BY ActiveMoves, ObjectTypes DEF SInv, CInv, TInv
<1>1. worker.pc # "idle" /\ ~Deleting(worker.key)
  BY <1>0, WantsOutcome DEF NothingToRecord, CheckActiveJobStatus, CInv
<1>2. ~Deleting(Stored(keys)[n])
  BY <1>1, WorkerKnowsKey DEF Still
<1>3. \A j \in JobIds :
        /\ j \in KeyJobs <=> (Stored(jobs)[j].live /\ Stored(jobs)[j].key = n)
        /\ j \in KeyJobs => Cached(jobs)[j] = Stored(jobs)[j]
  BY <1>0, ListsAll DEF Still
<1>4. ASSUME NEW j \in JobsFor("add"), Cached(jobs)[j].state = "Active"
      PROVE  Heeded(n)
  <2>1. j \in JobIds /\ j \in KeyJobs
    BY DEF JobsFor, KeyJobs
  <2> QED
    BY <1>0, <1>3, <1>4, <2>1 DEF ActivesMove, Heeded
<1>5. CASE JobsFor("add") = {}
  <2>1. PICK j \in KeyJobs : TRUE
    BY DEF NothingToRecord, CheckActiveJobStatus
  <2>2. j \in JobIds /\ Stored(jobs)[j].live /\ Stored(jobs)[j].key = n
    BY <1>3, <2>1 DEF KeyJobs
  <2>3. Stored(jobs)[j].op # "add"
    BY <1>3, <1>5, <2>1, <2>2 DEF JobsFor
  <2>4. Removes(Stored(jobs)[j])
    BY <1>0, <2>2, <2>3 DEF Removes, Job
  <2>5. Comes(n, Stored(jobs)[j])
    BY <1>0, <1>2, <2>2, <2>4 DEF DeletesLate, Comes, Moves, Orphaned
  <2> QED
    BY <2>2, <2>5 DEF Heeded
<1> QED
  BY <1>4, <1>5 DEF NothingToRecord

LEMMA DeleteStatusHeeds ==
  ASSUME SInv, UpToDate, CheckDeleteJobStatus, NEW n \in Names, n = worker.name, n \notin queue,
         Still(n), Waits(n)
  PROVE  Heeded(n) \/ n \in queue'
<1>0. CInv /\ TInv /\ TypeOK /\ ActivesMove
  BY ActiveMoves DEF SInv, CInv, TInv
<1>1. worker.pc # "idle" /\ Deleting(worker.key)
  BY <1>0, Plans DEF CheckDeleteJobStatus, Unwanted
<1>2. Deleting(Stored(keys)[n])
  BY <1>1, WorkerKnowsKey DEF Still
<1>3. PICK j \in DeleteJobs :
        LET job == Cached(jobs)[j] IN
        \/ \E again \in SUBSET Names : Release(worker.key, again)
        \/ job.state = "Active"
        \/ job.state = "Failed"
        \/ Retry
  BY <1>0, <1>1, AtWork DEF CheckDeleteJobStatus
<1>4. j \in JobIds /\ j \in KeyJobs /\ Cached(jobs)[j].op = "delete"
  BY <1>3 DEF DeleteJobs, JobsFor, KeyJobs
<1>5. Stored(jobs)[j].live /\ Stored(jobs)[j].key = n /\ Cached(jobs)[j] = Stored(jobs)[j]
  BY <1>0, <1>4, ListsAll DEF Still
<1>6. CASE \E again \in SUBSET Names : Release(worker.key, again)
  BY <1>0, <1>1, <1>6, ReleaseHeeds
<1>7. CASE Cached(jobs)[j].state = "Active"
  BY <1>0, <1>4, <1>5, <1>7 DEF ActivesMove, Heeded
<1>8. CASE Cached(jobs)[j].state = "Failed"
  BY <1>2, <1>4, <1>5, <1>8 DEF DeleteFailed, GaveUp, Heeded
<1>9. CASE Retry
  BY <1>9 DEF Retry
<1> QED
  BY <1>3, <1>6, <1>7, <1>8, <1>9

LEMMA StepHeeds ==
  ASSUME SInv, DeletesLate, UpToDate, Step, NEW n \in Names, n = worker.name, worker.pc # "idle",
         n \notin queue, Still(n), Waits(n)
  PROVE  Heeded(n) \/ n \in queue' \/ (worker'.pc # "idle" /\ worker'.name = n)
<1>0. CInv /\ TInv /\ TypeOK /\ worker \in Worker /\ worker.key \in Key /\ worker.repo \in L!RepoViews
  BY AtWork DEF SInv, CInv, TInv, TypeOK
<1>r. Retry => n \in queue'
  BY DEF Retry
<1>1. CASE RepositoryGone \/ RepositoryGoing
  BY <1>0, <1>1, <1>r, ReleaseHeeds DEF RepositoryGone, RepositoryGoing, Unwanted
<1>2. CASE SetDefaults \/ Own \/ EnsureSecret
  <2>1. \/ Retry
        \/ \E pc \in {"own", "plan"} : \E y : worker' = [worker EXCEPT !.pc = pc, !.key = y]
        \/ worker' = [worker EXCEPT !.pc = "makeJob"]
    BY <1>2 DEF SetDefaults, Own, EnsureSecret
  <2> QED
    BY <1>0, <1>r, <2>1 DEF Worker
<1>3. CASE SettledAlready
  <2>1. worker.key = Stored(keys)[n]
    BY WorkerKnowsKey DEF Still
  <2> QED
    BY <1>3, <2>1 DEF SettledAlready, Waits
<1>4. CASE RepositoryNotReady \/ NoMatch \/ NoPods
  BY <1>4, <1>r DEF RepositoryNotReady, NoMatch, NoPods
<1>5. CASE StartAddJob
  BY <1>0, <1>5, MadeJobs, CreateHeeds DEF StartAddJob
<1>6. CASE StartDeleteJob
  BY <1>0, <1>6, <1>r, MadeJobs, CreateHeeds DEF StartDeleteJob
<1>7. CASE RecordCreated
  <2>1. PICK j \in JobsFor("add") : \E id \in logs[j] \ {None} : Record(SetCreatedCondition(worker.key, id))
    BY <1>7 DEF RecordCreated
  <2>2. PICK id \in logs[j] \ {None} : Record(SetCreatedCondition(worker.key, id))
    BY <2>1
  <2>3. id \in KeyIds
    <3>1. j \in JobIds
      BY <2>1 DEF JobsFor, KeyJobs
    <3>2. logs[j] \subseteq KeyIds \cup {None}
      BY <1>0, <3>1 DEF TypeOK
    <3> QED
      BY <2>2, <3>2
  <2>4. SetCreatedCondition(worker.key, id) \in Key
    BY <1>0, <2>3 DEF SetCreatedCondition, Key, L!Phases
  <2> QED
    BY <1>0, <2>2, <2>4, RecordHeeds
<1>8. CASE RecordFailed
  <2>1. SetFailedCondition(worker.key) \in Key
    BY <1>0 DEF SetFailedCondition, Key, L!Phases
  <2> QED
    BY <1>0, <1>8, <2>1, RecordHeeds DEF RecordFailed
<1> QED
  BY <1>1, <1>2, <1>3, <1>4, <1>5, <1>6, <1>7, <1>8, RunningHeeds, NothingHeeds, DeleteStatusHeeds
     DEF Step, CreateSteps, DeleteSteps

-------------------------------------------------------------------------------
(* What was heeded is heeded as long as nothing changes.                   *)
LEMMA HeededStays ==
  ASSUME NEW n \in Names, Still(n), Waits(n)', ActivesMove', Heeded(n)
  PROVE  Heeded(n)'
<1>1. NoJob.live = FALSE
  BY NoObjects
<1>2. ASSUME NEW j \in JobIds
      PROVE  /\ Stored(jobs)[j].live /\ Stored(jobs)[j].key = n =>
                  Stored(jobs)'[j] = Stored(jobs)[j]
             /\ Stored(jobs)'[j].live /\ Stored(jobs)'[j].key = n =>
                  Stored(jobs)'[j] = Stored(jobs)[j]
  BY <1>1 DEF Still, Of, NoJob
<1>3. ASSUME NEW j \in JobIds, Comes(n, Stored(jobs)[j])
      PROVE  Comes(n, Stored(jobs)[j])'
  <2>1. /\ Stored(jobs)'[j] = Stored(jobs)[j]
        /\ Stored(jobs)[j].live /\ Stored(jobs)[j].key = n
    BY <1>2, <1>3 DEF Comes, Moves, Starves
  <2>2. CASE Orphaned(n, Stored(jobs)[j].owner)
    BY <2>1, <2>2 DEF Comes, Moves, Orphaned, Still
  <2>3. CASE Stored(jobs)[j].state = "Active"
    BY <2>1, <2>3 DEF ActivesMove
  <2> QED
    BY <1>3, <2>2, <2>3 DEF Comes, Moves, Starves
<1>4. AllFailed(n) => AllFailed(n)'
  BY <1>2 DEF AllFailed
<1>5. \A j \in JobIds : DeleteFailed(n, Stored(jobs)[j]) => DeleteFailed(n, Stored(jobs)[j])'
  BY <1>2 DEF DeleteFailed
<1>6. GaveUp(n) => GaveUp(n)'
  BY <1>4, <1>5 DEF GaveUp, Still
<1> QED
  BY <1>3, <1>6 DEF Heeded

LEMMA NotForgotten ==
  ASSUME TypeOK
  PROVE  ForgottenOnlyWhenStuck <=>
           \A n \in Names :
             Waits(n) => InHand(n) \/ OnItsWay(keys, n) \/ Coming(jobs, n) \/ Heeded(n)
BY EventIs DEF ForgottenOnlyWhenStuck, Heeded, Comes

LEMMA ForgottenStep ==
  ASSUME SInv, DeletesLate, UpToDate, ForgottenOnlyWhenStuck, SInv', [Next]_vars
  PROVE  ForgottenOnlyWhenStuck'
<1>0. TypeOK /\ TypeOK' /\ ActivesMove'
  <2>1. ActivesMove'
    BY ActiveMoves, PTL
  <2> QED
    BY <2>1 DEF SInv, CInv, TInv
<1>1. CASE Restart
  <2>1. Stored(keys)' = Stored(keys)
    BY <1>0, <1>1, Restarted DEF Restart, TypeOK
  <2> QED
    BY <1>1, <2>1 DEF Restart, ForgottenOnlyWhenStuck, Waits, InHand
<1>2. CASE UNCHANGED vars
  BY <1>2 DEF vars, ForgottenOnlyWhenStuck, Waits, InHand, JobEvent, Moves, Starves, Mountable, Orphaned,
     GaveUp, AllFailed, DeleteFailed
<1>3. CASE Next /\ ~Restart
  <2> SUFFICES ASSUME NEW n \in Names, Waits(n)'
               PROVE  (InHand(n) \/ OnItsWay(keys, n) \/ Coming(jobs, n) \/ Heeded(n))'
    <3>1. (TypeOK => (ForgottenOnlyWhenStuck <=>
           \A n \in Names :
             Waits(n) => InHand(n) \/ OnItsWay(keys, n) \/ Coming(jobs, n) \/ Heeded(n)))'
      BY NotForgotten, PTL
    <3> QED
      BY <1>0, <3>1
  <2>1. KeysHeard /\ JobsHeard
    BY <1>0, <1>3, StepHeard
  <2>2. CASE ~Still(n)
    <3>1. Coming(jobs, n) => \E j \in JobIds : TRUE
      BY DEF Coming
    <3> QED
      BY <2>1, <2>2, <3>1 DEF Still, KeysHeard, JobsHeard, InHand
  <2>3. CASE Still(n)
    <3>1. Waits(n)
      BY <2>3 DEF Still, Waits
    <3>2. InHand(n) \/ Heeded(n)
      BY <1>0, <2>3, <3>1, NotForgotten DEF Still
    <3>3. CASE Heeded(n)
      BY <1>0, <2>3, <3>3, HeededStays
    <3>4. ASSUME n \notin queue', ~(worker'.pc # "idle" /\ worker'.name = n), InHand(n)
          PROVE  Heeded(n) \/ OnItsWay(keys, n)
      <4>1. CASE Step /\ worker.pc # "idle"
        <5>1. n \notin queue
          BY <1>3, <3>4, <4>1, QueueGrows
        <5> QED
          BY <2>3, <3>1, <3>4, <4>1, <5>1, StepHeeds DEF InHand
      <4>2. CASE Step /\ worker.pc = "idle"
        <5>1. TInv
          BY DEF SInv, CInv
        <5> QED
          BY <4>2, <5>1, Plans, WantsOutcome
             DEF Step, RepositoryGone, SetDefaults, Own, CreateSteps, DeleteSteps, SettledAlready,
                 RepositoryNotReady, EnsureSecret, StartAddJob, JobsRunning, RecordCreated, NoMatch,
                 NoPods, RecordFailed, NothingToRecord, CheckActiveJobStatus, RepositoryGoing, Unwanted,
                 CheckDeleteJobStatus, StartDeleteJob
      <4>3. ASSUME NEW m \in Names, Start(m)
            PROVE  OnItsWay(keys, n)
        <5>1. n = m /\ ~Found(Cached(keys)[n])
          BY <3>4, <4>3 DEF Start, InHand
        <5>2. Cached(keys)[n] # Stored(keys)[n]
          BY <3>1, <5>1 DEF Found, Waits
        <5> QED
          BY <1>0, <5>2, Behind DEF TypeOK
      <4>4. CASE ~Step /\ ~\E m \in Names : Start(m)
        BY <1>3, <3>4, <4>4, OthersKeepInHand DEF Next, InHand
      <4> QED
        BY <4>1, <4>2, <4>3, <4>4
    <3> QED
      BY <2>3, <3>2, <3>3, <3>4 DEF InHand, Still
  <2> QED
    BY <2>2, <2>3
<1> QED
  BY <1>1, <1>2, <1>3

(* No Key is left waiting for what will not come, save where the           *)
(* controller gives up and where an active Job cannot mount the operator   *)
(* secret, which went with the Repository: Jobs of this and of earlier     *)
(* Keys of the name, found by name in caches of any age, do not make       *)
(* Reconcile return with nothing under way, and whatever else a pod mounts *)
(* is there.                                                               *)
THEOREM KeysHeeded == Spec => []ForgottenOnlyWhenStuck
<1>1. Init => HInv
  <2> SUFFICES ASSUME Init PROVE HInv
    OBVIOUS
  <2>1. SInv
    BY SInvInit
  <2>2. Seen(jobs) = {[j \in JobIds |-> NoJob]} /\ Stored(keys) = [n \in Names |-> NoKey]
    BY Single DEF Init
  <2>3. DeletesLate
    BY <2>2, NoObjects DEF DeletesLate, Removes
  <2>4. UpToDate
    BY NoObjects DEF Init, UpToDate
  <2>5. ForgottenOnlyWhenStuck
    BY <2>2, NoObjects DEF ForgottenOnlyWhenStuck, Waits
  <2> QED
    BY <2>1, <2>3, <2>4, <2>5 DEF HInv
<1>2. HInv /\ [Next]_vars => HInv'
  <2> SUFFICES ASSUME HInv, [Next]_vars PROVE HInv'
    OBVIOUS
  <2>1. /\ SInv /\ CInv /\ TInv /\ TypeOK /\ SInv'
        /\ DeletesLate /\ UpToDate /\ ForgottenOnlyWhenStuck
    BY SInvStep DEF HInv, SInv, CInv, TInv
  <2>2. KeyStep /\ JobStep /\ WorkerStep
    BY <2>1, EveryStep DEF Classified
  <2>3. DeletesLate'
    BY <2>1, <2>2, DeletesLateStep
  <2>4. UpToDate'
    <3>1. CASE Restart
      BY <3>1, NoObjects DEF Restart, UpToDate
    <3>2. CASE UNCHANGED vars
      BY <2>1, <3>2 DEF vars, UpToDate
    <3> QED
      BY <2>1, <2>2, <3>1, <3>2, UpToDateStep
  <2>5. ForgottenOnlyWhenStuck'
    BY <2>1, ForgottenStep
  <2> QED
    BY <2>1, <2>3, <2>4, <2>5 DEF HInv
<1>3. HInv => ForgottenOnlyWhenStuck
  BY DEF HInv
<1> QED
  BY <1>1, <1>2, <1>3, PTL DEF Spec
===============================================================================
