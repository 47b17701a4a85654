---------------------------- MODULE KeyOpensProofs ----------------------------
(***************************************************************************)
(* What condition Created of a Key is worth, for every value of the        *)
(* constants: an add Job has the secret of its Key, and the first Key of a *)
(* name that says Created can be opened with its secret.                   *)
(***************************************************************************)
EXTENDS KeyProofs

-------------------------------------------------------------------------------
(* Secrets.                                                                *)

(* The Key with this uid is there, and its dependents are not collected.   *)
Alive(n, u) ==
  /\ u # 0
  /\ Stored(keys)[n].uid = u
  /\ Stored(keys)[n].deleting # "foreground"

(* Nobody owns anything before birth.                                      *)
OwnersBorn ==
  \A n \in Names :
    /\ \A s \in Seen(secrets) : s[n].live => s[n].owner <= born[n]
    /\ \A s \in Seen(jobs) : \A j \in JobIds :
         s[j].live /\ s[j].key = n => s[j].owner <= born[n] /\ s[j].owner # 0

(* The secret of a Key that is alive does not go, and is not another.      *)
SecretStays ==
  \A n \in Names : \A s \in Seen(secrets) :
    s[n].live /\ Alive(n, s[n].owner) => Stored(secrets)[n] = s[n]

HasItsSecret(n, u) == Stored(secrets)[n].live /\ Stored(secrets)[n].owner = u

WorkerHasSecret ==
  worker.pc = "makeJob" /\ Alive(worker.name, worker.key.uid)
    => HasItsSecret(worker.name, worker.key.uid)

(* All readers see one Job under a name, as long as it is there; its name  *)
(* is not given again before they have seen it go.                         *)
OneJob ==
  \A s \in Seen(jobs) : \A j \in JobIds :
    s[j].live /\ Stored(jobs)[j].live => SameJob(s[j], Stored(jobs)[j])

(* No Job, no pods.                                                        *)
LogsLive == \A j \in JobIds : ~Stored(jobs)[j].live => logs[j] = {}

SInv ==
  /\ CInv /\ OwnersBorn /\ SecretStays /\ WorkerHasSecret /\ AddJobHasItsSecret
  /\ OneJob /\ LogsLive

(* A Key that is alive was so before the step, or is new.                  *)
LEMMA AliveBefore ==
  ASSUME CInv, KeyStep, NEW n \in Names, NEW u \in Nat, u <= born[n], Alive(n, u)'
  PROVE  Alive(n, u)
<1>0. TypeOK /\ revision \in [Names -> Nat] /\ born \in [Names -> Nat]
      /\ Stored(keys) \in [Names -> Key]
  BY ObjectTypes DEF CInv, TInv, TypeOK
<1>1. CASE KeysRest
  BY <1>1 DEF KeysRest, Alive
<1>2. ASSUME NEW m \in Names, NEW y \in Key, PutKey(m, y), Appears(m, y) \/ Advances(m, y)
      PROVE  Alive(n, u)
  <2>1. Stored(keys)' = Changed(keys, m, Versioned(m, y))
    BY <1>0, <1>2, PutKeyWrites
  <2>2. CASE m # n
    <3>1. Stored(keys)'[n] = Stored(keys)[n]
      BY <1>0, <2>1, <2>2 DEF Changed
    <3> QED
      BY <3>1 DEF Alive
  <2>3. CASE m = n
    <3>1. Stored(keys)'[n].uid = y.uid /\ Stored(keys)'[n].deleting = y.deleting
      BY <1>0, <2>1, <2>3, VersionedIs DEF Changed
    <3>2. y.uid = u /\ y.deleting # "foreground" /\ u # 0
      BY <3>1 DEF Alive
    <3>3. CASE Appears(n, y)
      <4>1. y.uid = born[n] + 1 /\ born[n] \in Nat
        BY <1>0, <3>3 DEF Appears, Same, NoKey
      <4> QED
        BY <3>2, <4>1
    <3>4. CASE Advances(n, y)
      <4>1. y.uid = Stored(keys)[n].uid
        BY <3>4 DEF Advances
      <4>2. Stored(keys)[n].deleting # "foreground"
        <5> DEFINE x == Stored(keys)[n]
        <5>1. x \in Key /\ (WorkerWrites(n, x, y) \/ OthersWrite(n, x, y))
          BY <1>0, <3>4 DEF Advances
        <5> HIDE DEF x
        <5>2. x.deleting = y.deleting \/ ~Deleting(x)
          BY <5>1 DEF WorkerWrites, OthersWrite, Same, Initialises, Succeeds, Fails, Holds, Key
        <5> QED
          BY <3>2, <5>2 DEF Deleting, x
      <4> QED
        BY <3>2, <4>1, <4>2 DEF Alive
    <3> QED
      BY <1>2, <2>3, <3>3, <3>4
  <2> QED
    BY <2>2, <2>3
<1>3. ASSUME NEW m \in Names, RemoveKey(m), Leaves(m)
      PROVE  Alive(n, u)
  <2>1. Stored(keys)' = Changed(keys, m, NoKey)
    BY <1>0, <1>3, RemoveKeyWrites
  <2>2. CASE m # n
    <3>1. Stored(keys)'[n] = Stored(keys)[n]
      BY <1>0, <2>1, <2>2 DEF Changed
    <3> QED
      BY <3>1 DEF Alive
  <2>3. CASE m = n
    BY <1>0, <2>1, <2>3, NoObjects DEF Changed, Alive
  <2> QED
    BY <2>2, <2>3
<1> QED
  BY <1>1, <1>2, <1>3, KeyChanges

LEMMA BornGrows ==
  ASSUME CInv, KeyStep, NEW n \in Names
  PROVE  born[n] \in Nat /\ born'[n] \in Nat /\ born[n] <= born'[n]
<1>1. born \in [Names -> Nat]
  BY DEF CInv, TInv, TypeOK
<1>2. born' = born \/ \E m \in Names : born' = [born EXCEPT ![m] = @ + 1]
  BY KeyChanges DEF KeysRest, Appears, Advances, Leaves
<1> QED
  BY <1>1, <1>2

(* The worker works for a Key that was born.                               *)
LEMMA WorkerBorn ==
  ASSUME CInv, worker.pc # "idle"
  PROVE  /\ worker.name \in Names
         /\ worker.key.uid \in Nat /\ worker.key.uid # 0 /\ worker.key.uid <= born[worker.name]
<1>1. worker.name \in Names /\ worker.key \in Key /\ worker.key.uid # 0
  BY AtWork DEF CInv
<1>2. GoodCopy(worker.name, worker.key)
  BY <1>1 DEF CInv, Copies
<1> QED
  BY <1>1, <1>2 DEF GoodCopy, Key

LEMMA SecretsOwned ==
  ASSUME CInv, OwnersBorn, KeyStep, SecretStep, NEW n \in Names, NEW s \in Seen(secrets)', s[n].live
  PROVE  s[n].owner <= born'[n]
<1>0. TypeOK
  BY DEF CInv, TInv
<1>1. Stored(secrets) \in Seen(secrets) /\ Seen(secrets) \subseteq [Names -> Secret]
  BY <1>0, ObjectTypes
<1>2. born[n] \in Nat /\ born'[n] \in Nat /\ born[n] <= born'[n]
  BY BornGrows
<1>3. CASE s \in Seen(secrets)
  <2>1. s[n].owner \in Nat /\ s[n].owner <= born[n]
    BY <1>1, <1>3 DEF OwnersBorn, Secret
  <2> QED
    BY <1>2, <2>1
<1>4. ASSUME NEW m \in Names, NEW x \in Secret, Fills(m, x) \/ Dropped(m, x), s = Changed(secrets, m, x)
      PROVE  s[n].owner <= born'[n]
  <2>1. CASE m # n
    <3>1. s[n] = Stored(secrets)[n]
      BY <1>1, <1>4, <2>1 DEF Changed
    <3>2. s[n].owner \in Nat /\ s[n].owner <= born[n]
      BY <1>1, <3>1 DEF OwnersBorn, Secret
    <3> QED
      BY <1>2, <3>2
  <2>2. CASE m = n
    <3>1. s[n] = x
      BY <1>1, <1>4, <2>2 DEF Changed
    <3>2. Fills(n, x)
      BY <1>4, <2>2, <3>1, NoObjects DEF Dropped
    <3>3. x.owner \in Nat /\ x.owner <= born[n]
      BY <3>2, WorkerBorn DEF Fills
    <3> QED
      BY <1>2, <3>1, <3>3
  <2> QED
    BY <2>1, <2>2
<1> QED
  BY <1>0, <1>3, <1>4, PutSecretWrites DEF SecretStep, SecretsRest

LEMMA JobsOwned ==
  ASSUME CInv, OwnersBorn, KeyStep, JobStep, NEW n \in Names, NEW s \in Seen(jobs)', NEW j \in JobIds,
         s[j].live, s[j].key = n
  PROVE  s[j].owner <= born'[n] /\ s[j].owner # 0
<1>0. TypeOK
  BY DEF CInv, TInv
<1>1. Stored(jobs) \in Seen(jobs) /\ Seen(jobs) \subseteq [JobIds -> Job]
  BY <1>0, ObjectTypes
<1>2. born[n] \in Nat /\ born'[n] \in Nat /\ born[n] <= born'[n]
  BY BornGrows
<1>3. ASSUME NEW t \in Seen(jobs), NEW i \in JobIds, t[i].live, t[i].key = n
      PROVE  t[i].owner <= born'[n] /\ t[i].owner # 0
  <2>1. t[i].owner \in Nat /\ t[i].owner <= born[n] /\ t[i].owner # 0
    BY <1>1, <1>3 DEF OwnersBorn, Job
  <2> QED
    BY <1>2, <2>1
<1>4. ASSUME NEW i \in JobIds, NEW x \in Job, Makes(i, x) \/ Ends(i, x) \/ Collected(i, x),
             s = Changed(jobs, i, x)
      PROVE  s[j].owner <= born'[n] /\ s[j].owner # 0
  <2>1. CASE i # j
    <3>1. s[j] = Stored(jobs)[j]
      BY <1>1, <1>4, <2>1 DEF Changed
    <3> QED
      BY <1>1, <1>3, <3>1
  <2>2. CASE i = j
    <3>1. s[j] = x
      BY <1>1, <1>4, <2>2 DEF Changed
    <3>2. CASE Makes(j, x)
      <4>1. x.owner \in Nat /\ x.owner # 0 /\ x.owner <= born[n]
        BY <3>1, <3>2, WorkerBorn DEF Makes
      <4> QED
        BY <1>2, <3>1, <4>1
    <3>3. CASE Ends(j, x)
      BY <1>1, <1>3, <3>1, <3>3 DEF Ends, SameJob
    <3>4. CASE Collected(j, x)
      BY <3>1, <3>4, NoObjects DEF Collected
    <3> QED
      BY <1>4, <2>2, <3>2, <3>3, <3>4
  <2> QED
    BY <2>1, <2>2
<1> QED
  BY <1>0, <1>3, <1>4, PutJobWrites DEF JobStep, JobsRest

(* The secret of a Key that stays alive is left alone.                     *)
LEMMA SecretKept ==
  ASSUME CInv, KeyStep, SecretStep, NEW n \in Names, NEW u \in Nat, u <= born[n], Alive(n, u)',
         HasItsSecret(n, u)
  PROVE  Stored(secrets)'[n] = Stored(secrets)[n]
<1>0. TypeOK
  BY DEF CInv, TInv
<1>1. Stored(secrets) \in [Names -> Secret]
  BY <1>0, ObjectTypes
<1>2. Alive(n, u)
  BY AliveBefore
<1>3. CASE SecretsRest
  BY <1>3 DEF SecretsRest
<1>4. ASSUME NEW m \in Names, NEW x \in Secret, PutSecret(m, x), Fills(m, x) \/ Dropped(m, x)
      PROVE  Stored(secrets)'[n] = Stored(secrets)[n]
  <2>1. Stored(secrets)' = Changed(secrets, m, x)
    BY <1>0, <1>4, PutSecretWrites
  <2>2. m # n
    BY <1>2, <1>4 DEF Fills, Dropped, Orphaned, Alive, HasItsSecret
  <2> QED
    BY <1>1, <2>1, <2>2 DEF Changed
<1> QED
  BY <1>3, <1>4 DEF SecretStep

LEMMA SecretStaysStep ==
  ASSUME SInv, KeyStep, SecretStep
  PROVE  SecretStays'
<1>0. CInv /\ TypeOK /\ OwnersBorn /\ SecretStays
  BY DEF SInv, CInv, TInv
<1>1. Stored(secrets) \in Seen(secrets) /\ Seen(secrets) \subseteq [Names -> Secret]
  BY <1>0, ObjectTypes
<1> SUFFICES ASSUME NEW n \in Names, NEW s \in Seen(secrets)', s[n].live, Alive(n, s[n].owner)'
             PROVE  Stored(secrets)'[n] = s[n]
  BY DEF SecretStays
<1>2. ASSUME NEW t \in Seen(secrets), t[n] = s[n]
      PROVE  Stored(secrets)'[n] = s[n]
  <2>1. t[n].owner \in Nat /\ t[n].owner <= born[n]
    BY <1>0, <1>1, <1>2 DEF OwnersBorn, Secret
  <2>2. PICK u \in Nat : u = s[n].owner
    BY <1>2, <2>1
  <2>3. Alive(n, u)'
    BY <2>2
  <2>4. Alive(n, u)
    BY <1>0, <1>2, <2>1, <2>2, <2>3, AliveBefore
  <2>5. Stored(secrets)[n] = t[n]
    BY <1>0, <1>2, <2>2, <2>4 DEF SecretStays
  <2>6. HasItsSecret(n, u)
    BY <1>2, <2>2, <2>5 DEF HasItsSecret
  <2>7. Stored(secrets)'[n] = Stored(secrets)[n]
    BY <1>0, <1>2, <2>1, <2>2, <2>3, <2>6, SecretKept
  <2> QED
    BY <1>2, <2>5, <2>7
<1>3. CASE s \in Seen(secrets)
  BY <1>2, <1>3
<1>4. ASSUME NEW m \in Names, NEW x \in Secret, PutSecret(m, x), s = Changed(secrets, m, x)
      PROVE  Stored(secrets)'[n] = s[n]
  <2>1. Stored(secrets)' = s
    BY <1>0, <1>4, PutSecretWrites
  <2> QED
    BY <2>1
<1> QED
  BY <1>0, <1>3, <1>4, PutSecretWrites DEF SecretStep, SecretsRest

LEMMA WorkerHasSecretStep ==
  ASSUME SInv, KeyStep, SecretStep, WorkerStep
  PROVE  WorkerHasSecret'
<1>0. CInv /\ TInv /\ TypeOK /\ OwnersBorn /\ SecretStays /\ WorkerHasSecret
  BY DEF SInv, CInv, TInv
<1> SUFFICES ASSUME worker'.pc = "makeJob", Alive(worker.name, worker.key.uid)'
             PROVE  HasItsSecret(worker.name, worker.key.uid)'
  BY DEF WorkerHasSecret
<1>1. /\ worker'.name = worker.name /\ worker'.key = worker.key /\ worker.pc # "idle"
      /\ worker' = worker \/ HasSecret
  <2>1. CASE worker' = worker
    BY <2>1
  <2>2. CASE HasSecret
    <3>1. worker.pc # "idle" /\ worker' = [worker EXCEPT !.pc = "makeJob"]
      BY <1>0, <2>2, WantsOutcome DEF HasSecret
    <3> QED
      BY <1>0, <2>2, <3>1 DEF TypeOK, Worker
  <2>3. ~TakesCopies
    BY DEF TakesCopies
  <2>4. ~KeepsAnswer
    <3> SUFFICES ASSUME KeepsAnswer PROVE FALSE
      OBVIOUS
    <3>1. worker \in Worker
      BY <1>0 DEF TypeOK
    <3>2. PICK y \in Key, pc \in {"own", "plan"} :
            worker' = [worker EXCEPT !.pc = pc, !.key = Versioned(worker.name, y)]
      BY DEF KeepsAnswer
    <3>3. worker'.pc = pc
      BY <3>1, <3>2 DEF Worker
    <3> QED
      BY <3>3
  <2> QED
    BY <2>1, <2>2, <2>3, <2>4, NoObjects DEF WorkerStep
<1>2. PICK n \in Names, u \in Nat : n = worker.name /\ u = worker.key.uid /\ u <= born[n]
  BY <1>0, <1>1, WorkerBorn
<1>3. Alive(n, u)'
  BY <1>1, <1>2
<1>4. Alive(n, u)
  BY <1>0, <1>2, <1>3, AliveBefore
<1>5. ASSUME HasItsSecret(n, u)
      PROVE  HasItsSecret(worker.name, worker.key.uid)'
  <2>1. Stored(secrets)'[n] = Stored(secrets)[n]
    BY <1>0, <1>2, <1>3, <1>5, SecretKept
  <2> QED
    BY <1>1, <1>2, <1>5, <2>1 DEF HasItsSecret
<1>6. CASE worker' = worker
  BY <1>0, <1>1, <1>2, <1>4, <1>5, <1>6 DEF WorkerHasSecret
<1>7. ASSUME NEW x \in Secret, PutSecret(n, x), Fills(n, x)
      PROVE  HasItsSecret(worker.name, worker.key.uid)'
  <2>1. Stored(secrets)' = Changed(secrets, n, x) /\ Stored(secrets) \in [Names -> Secret]
    BY <1>0, <1>7, PutSecretWrites, ObjectTypes
  <2>2. Stored(secrets)'[n] = x
    BY <2>1 DEF Changed
  <2> QED
    BY <1>1, <1>2, <1>7, <2>2 DEF HasItsSecret, Fills
<1>8. CASE Cached(secrets)[n].live /\ OwnsSecret(worker.key, Cached(secrets)[n])
  <2>1. Cached(secrets) \in Seen(secrets)
    BY <1>0, ObjectTypes
  <2>2. Stored(secrets)[n] = Cached(secrets)[n]
    BY <1>0, <1>2, <1>4, <1>8, <2>1 DEF SecretStays, OwnsSecret
  <2> QED
    BY <1>2, <1>5, <1>8, <2>2 DEF HasItsSecret, OwnsSecret
<1> QED
  BY <1>1, <1>2, <1>6, <1>7, <1>8 DEF HasSecret

LEMMA AddJobsStep ==
  ASSUME SInv, KeyStep, SecretStep, JobStep
  PROVE  AddJobHasItsSecret'
<1>0. CInv /\ TInv /\ TypeOK /\ OwnersBorn /\ WorkerHasSecret /\ AddJobHasItsSecret
  BY DEF SInv, CInv, TInv
<1>1. Stored(jobs) \in Seen(jobs) /\ Stored(jobs) \in [JobIds -> Job]
  BY <1>0, ObjectTypes
<1> SUFFICES ASSUME NEW n \in Names, NEW j \in JobIds,
                    Stored(keys)'[n].uid # 0, Stored(keys)'[n].deleting # "foreground",
                    Stored(jobs)'[j].live, Stored(jobs)'[j].op = "add", Stored(jobs)'[j].key = n,
                    Stored(jobs)'[j].owner = Stored(keys)'[n].uid
             PROVE  HasItsSecret(n, Stored(keys)[n].uid)'
  BY DEF AddJobHasItsSecret, HasItsSecret
<1> DEFINE u == Stored(jobs)'[j].owner
<1>2. ASSUME u \in Nat, u <= born[n], Alive(n, u) => HasItsSecret(n, u)
      PROVE  HasItsSecret(n, Stored(keys)[n].uid)'
  <2>1. PICK v \in Nat : v = u
    BY <1>2
  <2>2. Alive(n, v)'
    BY <2>1 DEF Alive
  <2>3. Alive(n, v)
    BY <1>0, <1>2, <2>1, <2>2, AliveBefore
  <2>4. HasItsSecret(n, v)
    BY <1>2, <2>1, <2>3
  <2>5. Stored(secrets)'[n] = Stored(secrets)[n]
    BY <1>0, <1>2, <2>1, <2>2, <2>4, SecretKept
  <2> QED
    BY <2>1, <2>4, <2>5 DEF HasItsSecret
<1>3. ASSUME NEW i \in JobIds, Stored(jobs)[i].live, Stored(jobs)[i].op = "add", Stored(jobs)[i].key = n,
             Stored(jobs)[i].owner = u
      PROVE  HasItsSecret(n, Stored(keys)[n].uid)'
  <2>1. u \in Nat /\ u <= born[n]
    BY <1>0, <1>1, <1>3 DEF OwnersBorn, Job
  <2>2. Alive(n, u) => HasItsSecret(n, u)
    BY <1>0, <1>3 DEF AddJobHasItsSecret, Alive, HasItsSecret
  <2> QED
    BY <1>2, <2>1, <2>2
<1>4. CASE JobsRest
  BY <1>3, <1>4 DEF JobsRest
<1>5. ASSUME NEW i \in JobIds, NEW x \in Job, PutJob(i, x), Makes(i, x) \/ Ends(i, x) \/ Collected(i, x)
      PROVE  HasItsSecret(n, Stored(keys)[n].uid)'
  <2>1. Stored(jobs)' = Changed(jobs, i, x)
    BY <1>0, <1>5, PutJobWrites
  <2>2. CASE i # j
    <3>1. Stored(jobs)'[j] = Stored(jobs)[j]
      BY <1>1, <2>1, <2>2 DEF Changed
    <3> QED
      BY <1>3, <3>1
  <2>3. CASE i = j
    <3>1. Stored(jobs)'[j] = x
      BY <1>1, <2>1, <2>3 DEF Changed
    <3>2. CASE Makes(j, x)
      <4>1. worker.pc = "makeJob" /\ worker.name = n /\ worker.key.uid = u
        BY <3>1, <3>2 DEF Makes
      <4>2. u \in Nat /\ u <= born[n]
        BY <1>0, <4>1, WorkerBorn
      <4> QED
        BY <1>0, <1>2, <4>1, <4>2 DEF WorkerHasSecret
    <3>3. CASE Ends(j, x)
      BY <1>3, <3>1, <3>3 DEF Ends, SameJob
    <3>4. CASE Collected(j, x)
      BY <3>1, <3>4, NoObjects DEF Collected
    <3> QED
      BY <1>5, <2>3, <3>2, <3>3, <3>4
  <2> QED
    BY <2>2, <2>3
<1> QED
  BY <1>4, <1>5 DEF JobStep

LEMMA FreshJobs ==
  ASSUME TypeOK, NEW j \in JobIds, FreshJob(j), NEW s \in Seen(jobs)
  PROVE  ~s[j].live
BY DEF FreshJob, Seen

LEMMA OneJobStep ==
  ASSUME CInv, OneJob, LogsLive, JobStep
  PROVE  OneJob' /\ LogsLive'
<1>0. TypeOK
  BY DEF CInv, TInv
<1>1. /\ Stored(jobs) \in Seen(jobs) /\ Stored(jobs) \in [JobIds -> Job]
      /\ logs \in [JobIds -> SUBSET (KeyIds \cup {None})]
  BY <1>0, ObjectTypes DEF TypeOK
<1>2. CASE JobsRest
  BY <1>2 DEF JobsRest, LogsShrink, OneJob, LogsLive
<1>3. ASSUME NEW i \in JobIds, NEW x \in Job, PutJob(i, x), Makes(i, x) \/ Ends(i, x) \/ Collected(i, x)
      PROVE  OneJob' /\ LogsLive'
  <2>1. /\ Stored(jobs)' = Changed(jobs, i, x)
        /\ Seen(jobs)' = Seen(jobs) \cup {Changed(jobs, i, x)}
    BY <1>0, <1>3, PutJobWrites
  <2>2. /\ Stored(jobs)'[i] = x
        /\ \A j \in JobIds \ {i} : Stored(jobs)'[j] = Stored(jobs)[j]
    BY <1>1, <2>1 DEF Changed
  <2>3. ASSUME NEW s \in Seen(jobs), NEW j \in JobIds, s[j].live, Stored(jobs)'[j].live
        PROVE  SameJob(s[j], Stored(jobs)'[j])
    <3>1. CASE j # i
      BY <2>2, <2>3, <3>1 DEF OneJob
    <3>2. CASE j = i
      <4>1. ~Makes(i, x)
        BY <1>0, <2>3, <3>2, FreshJobs DEF Makes
      <4>2. ~Collected(i, x)
        BY <2>2, <2>3, <3>2, NoObjects DEF Collected
      <4>3. Stored(jobs)[i].live /\ SameJob(x, Stored(jobs)[i])
        BY <1>3, <4>1, <4>2 DEF Ends
      <4> QED
        BY <2>2, <2>3, <3>2, <4>3 DEF OneJob, SameJob
    <3> QED
      BY <3>1, <3>2
  <2>4. OneJob'
    <3> SUFFICES ASSUME NEW s \in Seen(jobs)', NEW j \in JobIds, s[j].live, Stored(jobs)'[j].live
                 PROVE  SameJob(s[j], Stored(jobs)'[j])
      BY DEF OneJob
    <3>1. CASE s = Stored(jobs)'
      BY <3>1 DEF SameJob
    <3> QED
      BY <2>1, <2>3, <3>1
  <2>5. ASSUME NEW j \in JobIds, ~Stored(jobs)'[j].live
        PROVE  logs'[j] = {}
    <3>1. CASE Makes(i, x)
      BY <2>2, <2>5, <3>1 DEF Makes, LogsLive
    <3>2. CASE Ends(i, x)
      <4>1. j # i
        BY <2>2, <2>5, <3>2 DEF Ends, SameJob
      <4>2. logs[j] = {}
        BY <2>2, <2>5, <4>1 DEF LogsLive
      <4> QED
        BY <3>2, <4>1, <4>2 DEF Ends, Says
    <3>3. CASE Collected(i, x)
      BY <2>2, <2>5, <3>3 DEF Collected, LogsShrink, LogsLive
    <3> QED
      BY <1>3, <3>1, <3>2, <3>3
  <2> QED
    BY <2>4, <2>5 DEF LogsLive
<1> QED
  BY <1>2, <1>3 DEF JobStep

LEMMA SInvInit == Init => SInv
<1> SUFFICES ASSUME Init PROVE SInv
  OBVIOUS
<1>1. /\ Seen(secrets) = {[n \in Names |-> NoSecret]} /\ Seen(jobs) = {[j \in JobIds |-> NoJob]}
      /\ Stored(jobs) = [j \in JobIds |-> NoJob]
  BY Single DEF Init
<1>2. worker.pc = "idle"
  BY NoObjects DEF Init
<1>3. OwnersBorn /\ SecretStays /\ WorkerHasSecret /\ AddJobHasItsSecret
  BY <1>1, <1>2, NoObjects DEF OwnersBorn, SecretStays, WorkerHasSecret, AddJobHasItsSecret
<1>4. OneJob /\ LogsLive
  BY <1>1, NoObjects DEF OneJob, LogsLive, Init
<1> QED
  BY <1>3, <1>4, CInvInit DEF SInv

LEMMA SInvStep ==
  ASSUME SInv, [Next]_vars
  PROVE  SInv'
<1>1. CInv /\ OwnersBorn /\ CInv' /\ OneJob /\ LogsLive
  BY CInvStep DEF SInv
<1>2. KeyStep /\ JobStep /\ SecretStep /\ WorkerStep
  BY <1>1, EveryStep DEF CInv, Classified
<1>3. OwnersBorn'
  BY <1>1, <1>2, SecretsOwned, JobsOwned DEF OwnersBorn
<1> QED
  BY <1>1, <1>2, <1>3, SecretStaysStep, WorkerHasSecretStep, AddJobsStep, OneJobStep DEF SInv

(* An add Job never runs without, or with another Key's, secret: neither a *)
(* secret left by an earlier Key of the name, nor one that the cache still *)
(* or not yet shows, nor duplicate Jobs get in the way.                    *)
THEOREM AddJobsHaveSecrets == Spec => []AddJobHasItsSecret
<1>1. SInv => AddJobHasItsSecret
  BY DEF SInv
<1> QED
  BY <1>1, SInvInit, SInvStep, PTL DEF Spec

-------------------------------------------------------------------------------
(* What the proof follows.                                                 *)

First(n) == Stored(keys)[n].uid = 1 /\ ~Deleting(Stored(keys)[n])

OwnerOf(n) == Stored(keys)[n].owner

(* Key n has been told of this restic key: a Job of its name has it in its *)
(* logs or is to remove it, or a copy of the Key has recorded it.          *)
Logs(j, n, id) == Stored(jobs)[j].live /\ Stored(jobs)[j].key = n /\ id \in logs[j]

Tells(x, n, id) == x.live /\ x.key = n /\ x.op = "delete" /\ x.arg = id

Known(n, id) ==
  \/ \E j \in JobIds : Logs(j, n, id)
  \/ \E s \in Seen(jobs) : \E j \in JobIds : Tells(s[j], n, id)
  \/ \E s \in Seen(keys) : s[n].keyID = id
  \/ worker.pc # "idle" /\ worker.name = n /\ worker.key.keyID = id

HasJob(n) == \E s \in Seen(jobs) : \E j \in JobIds : s[j].live /\ s[j].key = n

(* Nobody has been told of anything for this name.                         *)
Quiet(n) == ~HasJob(n) /\ \A id \in KeyIds : ~Known(n, id)

(* It has no owner yet.                                                    *)
Early(n) == Stored(keys)[n].phase = "nil" \/ (worker.pc = "own" /\ worker.name = n)

(* The restic key is opened by the secret of the first Key of the name, in *)
(* the storage of its Repository or of a later one.                        *)
Opened(n, id) ==
  /\ HasItsSecret(n, 1)
  /\ restic[id].pw = Stored(secrets)[n].pw
  /\ OwnerOf(n) <= restic[id].store

-------------------------------------------------------------------------------
(* The parts of the invariant.                                             *)

(* The last Key born is the one that is there.                             *)
LatestKey == \A n \in Names : Stored(keys)[n].uid # 0 => Stored(keys)[n].uid = born[n]

(* Condition Created comes with an ID.                                     *)
CreatedHasId == \A n \in Names : IsCreated(Stored(keys)[n]) => Stored(keys)[n].keyID \in KeyIds

(* Readers see Repositories in the order in which they were born.          *)
NotBefore(u) == \A s \in Seen(repos) : s[RepoName].uid # 0 => u <= s[RepoName].uid

Ordered(w) ==
  \A i, k \in 1..Len(w) :
    i <= k /\ w[i][RepoName].uid # 0 /\ w[k][RepoName].uid # 0
      => w[i][RepoName].uid <= w[k][RepoName].uid

ReposInOrder ==
  /\ Ordered(repos)
  /\ \A s \in Seen(repos) : s[RepoName].uid <= repoBorn
  /\ TheRepo.uid # 0 => TheRepo.uid = repoBorn
  /\ worker.pc # "idle" => worker.repo.uid <= repoBorn
  /\ worker.pc # "idle" /\ worker.repo.uid # 0 => NotBefore(worker.repo.uid)

(* No reader sees a Repository from before that which owns a Key.          *)
OwnersPast ==
  \A n \in Names :
    /\ OwnerOf(n) <= repoBorn
    /\ NotBefore(OwnerOf(n))
    /\ worker.pc # "idle" /\ worker.repo.uid # 0 => OwnerOf(n) <= worker.repo.uid

(* Nothing is aimed at the storage of a Repository that was never there.   *)
StoresBorn ==
  /\ \A id \in KeyIds : restic[id].store <= repoBorn
  /\ \A s \in Seen(jobs) : \A j \in JobIds :
       s[j].live => s[j].store <= repoBorn /\ (s[j].op = "add" => s[j].store # 0)

(* Only restic keys that were added are known,                             *)
KnownAdded == \A n \in Names : \A id \in KeyIds : Known(n, id) => restic[id].store # 0

(* and none to two Keys.                                                   *)
KnownApart ==
  \A n, m \in Names : \A id \in KeyIds : Known(n, id) /\ Known(m, id) => n = m

(* The first Key of a name has no Job before it has an owner,              *)
FirstQuiet == \A n \in Names : First(n) /\ Early(n) => Quiet(n)

(* from then on its Jobs add keys for that Repository or a later one,      *)
FirstAdds ==
  \A n \in Names : First(n) =>
    \A s \in Seen(jobs) : \A j \in JobIds :
      s[j].live /\ s[j].key = n => s[j].op = "add" /\ OwnerOf(n) <= s[j].store

(* and what they add is opened by its secret.                              *)
FirstOpens == \A n \in Names : \A id \in KeyIds : First(n) /\ Known(n, id) => Opened(n, id)

OInv ==
  /\ SInv
  /\ LatestKey /\ CreatedHasId
  /\ ReposInOrder /\ OwnersPast /\ StoresBorn
  /\ KnownAdded /\ KnownApart
  /\ FirstQuiet /\ FirstAdds /\ FirstOpens

-------------------------------------------------------------------------------
(* How it comes that a Key is told of a restic key.                        *)

(* The Job that changes, if any.                                           *)
JobStepOf(i) ==
  \/ JobsRest
  \/ i \in JobIds /\ \E x \in Job : PutJob(i, x) /\ (Makes(i, x) \/ Ends(i, x) \/ Collected(i, x))

(* A pod of this Job adds the restic key for Key n.                        *)
Adds(i, n, id) ==
  /\ i \in JobIds /\ AddsKey(i, id)
  /\ Stored(jobs)[i].live /\ Stored(jobs)[i].key = n

(* No Key, no ID.                                                          *)
LEMMA NoIds == NoKey.keyID = None /\ None \notin KeyIds
BY NoneAssumption DEF NoKey

(* A name that was never used is not known to anybody.                     *)
LEMMA Unborn ==
  ASSUME SInv, NEW n \in Names, born[n] = 0
  PROVE  Quiet(n) /\ ~(worker.pc # "idle" /\ worker.name = n)
<1>0. CInv /\ TypeOK /\ OwnersBorn /\ Copies
  BY DEF SInv, CInv, TInv
<1>1. /\ Seen(jobs) \subseteq [JobIds -> Job] /\ Seen(keys) \subseteq [Names -> Key]
  BY <1>0, ObjectTypes
<1>2. ~(worker.pc # "idle" /\ worker.name = n)
  <2> SUFFICES ASSUME worker.pc # "idle", worker.name = n PROVE FALSE
    OBVIOUS
  <2>1. PICK u \in Nat : u = worker.key.uid /\ u # 0 /\ u <= born[worker.name]
    BY <1>0, WorkerBorn
  <2> QED
    BY <2>1
<1>3. ~HasJob(n)
  <2> SUFFICES ASSUME NEW s \in Seen(jobs), NEW j \in JobIds, s[j].live, s[j].key = n PROVE FALSE
    BY DEF HasJob
  <2>1. s[j].owner \in Nat /\ s[j].owner <= born[n] /\ s[j].owner # 0
    BY <1>0, <1>1 DEF OwnersBorn, Job
  <2> QED
    BY <2>1
<1>4. ASSUME NEW s \in Seen(keys)
      PROVE  s[n].keyID \notin KeyIds
  <2>1. s[n].uid \in Nat /\ GoodCopy(n, s[n])
    BY <1>0, <1>1 DEF Copies, Key
  <2>2. s[n].uid <= 0
    BY <2>1 DEF GoodCopy
  <2>3. s[n] = NoKey
    BY <2>1, <2>2 DEF GoodCopy
  <2> QED
    BY <2>3, NoIds
<1>5. Stored(jobs) \in Seen(jobs)
  BY <1>0, ObjectTypes
<1> QED
  BY <1>2, <1>3, <1>4, <1>5 DEF Quiet, Known, HasJob, Tells, Logs

(* A Job seen after a step was seen before, or is the one just made.       *)
LEMMA JobsBefore ==
  ASSUME CInv, NEW i, JobStepOf(i), NEW s \in Seen(jobs)', NEW j \in JobIds, s[j].live
  PROVE  \/ \E t \in Seen(jobs) : \E k \in JobIds : SameJob(s[j], t[k])
         \/ i \in JobIds /\ \E x \in Job : PutJob(i, x) /\ Makes(i, x) /\ s[j] = x
<1>0. TypeOK
  BY DEF CInv, TInv
<1>1. Stored(jobs) \in Seen(jobs) /\ Stored(jobs) \in [JobIds -> Job]
  BY <1>0, ObjectTypes
<1>2. CASE s \in Seen(jobs)
  BY <1>2 DEF SameJob
<1>3. ASSUME i \in JobIds, NEW x \in Job, PutJob(i, x), Makes(i, x) \/ Ends(i, x) \/ Collected(i, x),
             s = Changed(jobs, i, x)
      PROVE  \/ \E t \in Seen(jobs) : \E k \in JobIds : SameJob(s[j], t[k])
             \/ i \in JobIds /\ \E y \in Job : PutJob(i, y) /\ Makes(i, y) /\ s[j] = y
  <2>1. CASE i # j
    <3>1. s[j] = Stored(jobs)[j]
      BY <1>1, <1>3, <2>1 DEF Changed
    <3> QED
      BY <1>1, <3>1 DEF SameJob
  <2>2. CASE i = j
    <3>1. s[j] = x
      BY <1>1, <1>3, <2>2 DEF Changed
    <3>2. ~Collected(i, x)
      BY <3>1, NoObjects DEF Collected
    <3>3. CASE Ends(i, x)
      BY <1>1, <1>3, <3>1, <3>3 DEF Ends
    <3> QED
      BY <1>3, <3>1, <3>2, <3>3
  <2> QED
    BY <2>1, <2>2
<1> QED
  BY <1>0, <1>2, <1>3, PutJobWrites DEF JobStepOf, JobsRest

(* What logs tell was known, or a pod has just added it.                   *)
LEMMA KnownFromLogs ==
  ASSUME SInv, NEW i, JobStepOf(i), NEW n \in Names, NEW id \in KeyIds, NEW j \in JobIds, Logs(j, n, id)'
  PROVE  Known(n, id) \/ Adds(i, n, id)
<1>0. TypeOK /\ LogsLive /\ id # None
  BY NoIds DEF SInv, CInv, TInv
<1>1. Stored(jobs) \in Seen(jobs) /\ Stored(jobs) \in [JobIds -> Job]
  BY <1>0, ObjectTypes
<1>2. Stored(jobs)'[j].live /\ Stored(jobs)'[j].key = n /\ id \in logs'[j]
  BY DEF Logs
<1>3. CASE JobsRest
  BY <1>2, <1>3 DEF JobsRest, LogsShrink, Known, Logs
<1>4. ASSUME i \in JobIds, NEW x \in Job, PutJob(i, x), Makes(i, x) \/ Ends(i, x) \/ Collected(i, x)
      PROVE  Known(n, id) \/ Adds(i, n, id)
  <2>1. Stored(jobs)' = Changed(jobs, i, x)
    BY <1>0, <1>4, PutJobWrites
  <2>2. CASE i # j
    <3>1. Stored(jobs)'[j] = Stored(jobs)[j]
      BY <1>1, <2>1, <2>2 DEF Changed
    <3>2. logs'[j] \subseteq logs[j]
      BY <1>4, <2>2 DEF Makes, Ends, Collected, LogsShrink, Says
    <3> QED
      BY <1>2, <3>1, <3>2 DEF Known, Logs
  <2>3. CASE i = j
    <3>1. Stored(jobs)'[j] = x
      BY <1>1, <2>1, <2>3 DEF Changed
    <3>2. ~Collected(i, x)
      BY <1>2, <2>3 DEF Collected
    <3>3. ~Makes(i, x)
      <4>1. FreshJob(i) => logs[i] = {}
        BY <1>0, <1>1, <1>4, FreshJobs DEF LogsLive
      <4> QED
        BY <1>2, <2>3, <4>1 DEF Makes
    <3>4. /\ Stored(jobs)[i].live /\ SameJob(x, Stored(jobs)[i])
          /\ id \in logs[i] \/ AddsKey(i, id)
      <4>1. Ends(i, x)
        BY <1>4, <3>2, <3>3
      <4>2. \/ Says(i, {None}) \/ Says(i, {})
            \/ \E d \in KeyIds : AddsKey(i, d) /\ (Says(i, {d}) \/ Says(i, {None}))
        BY <4>1 DEF Ends
      <4>3. id \in logs[i] \/ AddsKey(i, id)
        BY <1>0, <1>2, <2>3, <4>2 DEF Says
      <4> QED
        BY <4>1, <4>3 DEF Ends
    <3>5. Stored(jobs)[i].key = n
      BY <1>2, <3>1, <3>4 DEF SameJob
    <3> QED
      BY <1>4, <3>4, <3>5 DEF Known, Logs, Adds
  <2> QED
    BY <2>2, <2>3
<1> QED
  BY <1>3, <1>4 DEF JobStepOf

(* What a Job is to remove was known.                                      *)
LEMMA KnownFromJobs ==
  ASSUME CInv, NEW i, JobStepOf(i), NEW n \in Names, NEW id \in KeyIds,
         NEW s \in Seen(jobs)', NEW j \in JobIds, Tells(s[j], n, id)
  PROVE  Known(n, id)
<1>0. TypeOK
  BY DEF CInv, TInv
<1>1. Stored(jobs) \in Seen(jobs) /\ Stored(jobs) \in [JobIds -> Job]
  BY <1>0, ObjectTypes
<1>2. CASE s \in Seen(jobs)
  BY <1>2 DEF Known
<1>3. ASSUME i \in JobIds, NEW x \in Job, PutJob(i, x), Makes(i, x) \/ Ends(i, x) \/ Collected(i, x),
             s = Changed(jobs, i, x)
      PROVE  Known(n, id)
  <2>1. CASE i # j
    <3>1. s[j] = Stored(jobs)[j]
      BY <1>1, <1>3, <2>1 DEF Changed
    <3> QED
      BY <1>1, <3>1 DEF Known
  <2>2. CASE i = j
    <3>1. s[j] = x
      BY <1>1, <1>3, <2>2 DEF Changed
    <3>2. ~Collected(i, x)
      BY <3>1, NoObjects DEF Collected, Tells
    <3>3. CASE Makes(i, x)
      BY <3>1, <3>3 DEF Makes, Tells, Known
    <3>4. CASE Ends(i, x)
      <4>1. Tells(Stored(jobs)[i], n, id)
        BY <3>1, <3>4 DEF Ends, SameJob, Tells
      <4> QED
        BY <1>1, <1>3, <4>1 DEF Known
    <3> QED
      BY <1>3, <3>2, <3>3, <3>4
  <2> QED
    BY <2>1, <2>2
<1> QED
  BY <1>0, <1>2, <1>3, PutJobWrites DEF JobStepOf, JobsRest

(* What a copy of a Key tells was known.                                   *)
LEMMA KnownFromKeys ==
  ASSUME SInv, KeyStep, NEW n \in Names, NEW id \in KeyIds, NEW s \in Seen(keys)', s[n].keyID = id
  PROVE  Known(n, id)
<1>0. CInv /\ TypeOK /\ revision \in [Names -> Nat] /\ OneJob /\ LogsLive
  BY DEF SInv, CInv, TInv, TypeOK
<1>1. /\ Stored(keys) \in Seen(keys) /\ Stored(keys) \in [Names -> Key]
      /\ Cached(jobs) \in Seen(jobs)
  BY <1>0, ObjectTypes
<1>2. CASE s \in Seen(keys)
  BY <1>2 DEF Known
<1>3. ASSUME NEW m \in Names, NEW y \in Key, s = Changed(keys, m, Versioned(m, y)),
             Appears(m, y) \/ Advances(m, y)
      PROVE  Known(n, id)
  <2>1. CASE m # n
    <3>1. s[n] = Stored(keys)[n]
      BY <1>1, <1>3, <2>1 DEF Changed
    <3> QED
      BY <1>1, <3>1 DEF Known
  <2>2. CASE m = n
    <3>1. y.keyID = id
      BY <1>0, <1>1, <1>3, <2>2, VersionedIs DEF Changed
    <3>2. ~Appears(m, y)
      <4>1. Appears(m, y) => y.keyID = None
        BY DEF Appears, Same, NoKey
      <4> QED
        BY <3>1, <4>1, NoIds
    <3> DEFINE x == Stored(keys)[n]
    <3>3. x \in Key /\ (WorkerWrites(n, x, y) \/ OthersWrite(n, x, y))
      BY <1>1, <1>3, <2>2, <3>2 DEF Advances
    <3>4. CASE x.keyID = id
      BY <1>1, <3>4 DEF Known
    <3>5. CASE worker.pc # "idle" /\ n = worker.name /\ Succeeds(x, y)
      <4>1. PICK j \in JobsFor("add") : id \in logs[j]
        BY <3>1, <3>5 DEF Succeeds
      <4>2. j \in JobIds /\ Cached(jobs)[j].live /\ Cached(jobs)[j].key = n
        BY <3>5, <4>1 DEF JobsFor, KeyJobs
      <4>3. Stored(jobs)[j].live /\ Stored(jobs)[j].key = n
        BY <1>0, <1>1, <4>1, <4>2 DEF LogsLive, OneJob, SameJob
      <4> QED
        BY <4>1, <4>2, <4>3 DEF Known, Logs
    <3> HIDE DEF x
    <3>6. y.keyID = x.keyID \/ (worker.pc # "idle" /\ n = worker.name /\ Succeeds(x, y))
      BY <3>3 DEF WorkerWrites, OthersWrite, Same, Initialises, Fails, Holds, Key
    <3> QED
      BY <3>1, <3>4, <3>5, <3>6
  <2> QED
    BY <2>1, <2>2
<1>4. ASSUME NEW m \in Names, s = Changed(keys, m, NoKey)
      PROVE  Known(n, id)
  <2>1. s[n] = Stored(keys)[n] \/ s[n] = NoKey
    BY <1>1, <1>4 DEF Changed
  <2> QED
    BY <1>1, <2>1, NoIds DEF Known
<1>5. CASE KeysRest
  BY <1>2, <1>5 DEF KeysRest
<1> QED
  BY <1>0, <1>2, <1>3, <1>4, <1>5, KeyChanges, PutKeyWrites, RemoveKeyWrites

(* What the worker reads a cache still shows, or it was known.             *)
LEMMA KnownFromWorker ==
  ASSUME CInv, WorkerStep, NEW n \in Names, NEW id \in KeyIds,
         worker'.pc # "idle", worker'.name = n, worker'.key.keyID = id
  PROVE  Known(n, id) \/ \E s \in Seen(keys)' : s[n].keyID = id
<1>0. TInv /\ TypeOK
  BY DEF CInv, TInv
<1>1. CASE worker' = worker
  BY <1>1 DEF Known
<1>2. CASE worker' = Idle
  BY <1>2, NoObjects
<1>3. CASE TakesCopies
  <2>1. worker'.key = Cached(keys)[n] /\ Cached(keys) \in Seen(keys)
    BY <1>0, <1>3, ObjectTypes DEF TakesCopies
  <2> QED
    BY <2>1 DEF Known
<1>4. CASE KeepsAnswer
  <2>1. PICK y \in Key, pc \in {"own", "plan"} :
          /\ PutKey(worker.name, y)
          /\ worker' = [worker EXCEPT !.pc = pc, !.key = Versioned(worker.name, y)]
    BY <1>4 DEF KeepsAnswer
  <2>2. worker.name \in Names /\ worker \in Worker
    BY <1>0, <1>4 DEF KeepsAnswer, TypeOK
  <2>3. worker.name = n /\ worker'.key = Versioned(n, y)
    BY <2>1, <2>2 DEF Worker
  <2>4. /\ Changed(keys, n, Versioned(n, y)) \in Seen(keys)'
        /\ Stored(keys) \in [Names -> Key]
    BY <1>0, <2>1, <2>3, PutKeyWrites, ObjectTypes
  <2>5. Changed(keys, n, Versioned(n, y))[n] = Versioned(n, y)
    BY <2>4 DEF Changed
  <2> QED
    BY <2>3, <2>4, <2>5
<1>5. CASE HasSecret
  <2>1. worker.pc # "idle" /\ worker' = [worker EXCEPT !.pc = "makeJob"] /\ worker \in Worker
    BY <1>0, <1>5, WantsOutcome DEF HasSecret, TypeOK
  <2>2. worker'.name = worker.name /\ worker'.key = worker.key
    BY <2>1 DEF Worker
  <2> QED
    BY <2>1, <2>2 DEF Known
<1> QED
  BY <1>1, <1>2, <1>3, <1>4, <1>5 DEF WorkerStep

(* Together: a restic key becomes known only by being added.               *)
LEMMA KnownBefore ==
  ASSUME SInv, KeyStep, WorkerStep, NEW i, JobStepOf(i), NEW n \in Names, NEW id \in KeyIds, Known(n, id)'
  PROVE  Known(n, id) \/ Adds(i, n, id)
<1>1. CInv
  BY DEF SInv
<1> QED
  BY <1>1, KnownFromLogs, KnownFromJobs, KnownFromKeys, KnownFromWorker DEF Known

(* A Key without Jobs is told of nothing, unless it gets a Job.            *)
LEMMA QuietStays ==
  ASSUME SInv, KeyStep, WorkerStep, NEW i, JobStepOf(i), NEW n \in Names, Quiet(n),
         \A x \in Job : ~(Makes(i, x) /\ worker.name = n)
  PROVE  Quiet(n)'
<1>0. CInv
  BY DEF SInv
<1>1. ~HasJob(n)'
  <2> SUFFICES ASSUME NEW s \in Seen(jobs)', NEW j \in JobIds, s[j].live, s[j].key = n PROVE FALSE
    BY DEF HasJob
  <2>1. ASSUME NEW t \in Seen(jobs), NEW k \in JobIds, SameJob(s[j], t[k])
        PROVE  FALSE
    BY <2>1 DEF SameJob, Quiet, HasJob
  <2>2. ASSUME NEW x \in Job, Makes(i, x), s[j] = x
        PROVE  FALSE
    BY <2>2 DEF Makes
  <2> QED
    BY <1>0, <2>1, <2>2, JobsBefore
<1>2. \A id \in KeyIds : ~Adds(i, n, id)
  <2>1. Stored(jobs) \in Seen(jobs)
    BY <1>0, ObjectTypes DEF CInv, TInv
  <2> QED
    BY <2>1 DEF Quiet, HasJob, Adds
<1>3. \A id \in KeyIds : ~Known(n, id)'
  BY <1>2, KnownBefore DEF Quiet
<1> QED
  BY <1>1, <1>3 DEF Quiet

-------------------------------------------------------------------------------
(* First Keys.                                                             *)

LEMMA FirstBefore ==
  ASSUME CInv, KeyStep, NEW n \in Names, born[n] # 0, First(n)'
  PROVE  /\ First(n)
         /\ Stored(keys)'[n].phase = "nil" => Stored(keys)[n].phase = "nil"
<1>0. TypeOK /\ born[n] \in Nat /\ Stored(keys) \in Seen(keys) /\ Stored(keys) \in [Names -> Key]
  BY ObjectTypes DEF CInv, TInv, TypeOK
<1>1. Alive(n, 1)'
  BY DEF First, Deleting, Alive
<1>2. 1 \in Nat /\ 1 <= born[n]
  BY <1>0
<1>3. Stored(keys)[n].uid = 1
  BY <1>1, <1>2, AliveBefore DEF Alive
<1>4. PICK y \in Key : y = Stored(keys)[n] /\ GoodCopy(n, y)
  BY <1>0 DEF CInv, Copies
<1>5. GoodCopy(n, y)'
  BY <1>4, CopiesStay
<1>6. StillSo(y, Stored(keys)'[n])
  BY <1>3, <1>4, <1>5 DEF GoodCopy, First
<1> QED
  BY <1>3, <1>4, <1>6 DEF StillSo, First

(* Only the worker that adopts a Key gives it an owner.                    *)
LEMMA OwnerStays ==
  ASSUME CInv, KeyStep, NEW n \in Names
  PROVE  \/ OwnerOf(n)' = OwnerOf(n)
         \/ OwnerOf(n)' = 0
         \/ worker.pc = "own" /\ worker.name = n /\ OwnerOf(n)' = worker.repo.uid
<1>0. TypeOK /\ revision \in [Names -> Nat] /\ Stored(keys) \in [Names -> Key]
  BY ObjectTypes DEF CInv, TInv, TypeOK
<1>1. CASE KeysRest
  BY <1>1 DEF KeysRest, OwnerOf
<1>2. ASSUME NEW m \in Names, NEW y \in Key, PutKey(m, y), Appears(m, y) \/ Advances(m, y)
      PROVE  \/ OwnerOf(n)' = OwnerOf(n)
             \/ OwnerOf(n)' = 0
             \/ worker.pc = "own" /\ worker.name = n /\ OwnerOf(n)' = worker.repo.uid
  <2>1. Stored(keys)' = Changed(keys, m, Versioned(m, y))
    BY <1>0, <1>2, PutKeyWrites
  <2>2. CASE m # n
    BY <1>0, <2>1, <2>2 DEF Changed, OwnerOf
  <2>3. CASE m = n
    <3>1. OwnerOf(n)' = y.owner
      BY <1>0, <2>1, <2>3, VersionedIs DEF Changed, OwnerOf
    <3>2. CASE Appears(n, y)
      <4>1. y.owner = 0
        BY <3>2 DEF Appears, Same, NoKey
      <4> QED
        BY <3>1, <4>1
    <3>3. CASE Advances(n, y)
      <4> DEFINE x == Stored(keys)[n]
      <4>1. x \in Key /\ (WorkerWrites(n, x, y) \/ OthersWrite(n, x, y))
        BY <1>0, <3>3 DEF Advances
      <4>2. OwnerOf(n) = x.owner
        BY DEF OwnerOf
      <4> HIDE DEF x
      <4>3. y.owner = x.owner \/ (worker.pc = "own" /\ worker.name = n /\ y.owner = worker.repo.uid)
        BY <4>1 DEF WorkerWrites, OthersWrite, Same, Initialises, Succeeds, Fails, Holds, Key
      <4> QED
        BY <3>1, <4>2, <4>3
    <3> QED
      BY <1>2, <2>3, <3>2, <3>3
  <2> QED
    BY <2>2, <2>3
<1>3. ASSUME NEW m \in Names, RemoveKey(m)
      PROVE  OwnerOf(n)' = OwnerOf(n) \/ OwnerOf(n)' = 0
  <2>1. Stored(keys)' = Changed(keys, m, NoKey)
    BY <1>0, <1>3, RemoveKeyWrites
  <2>2. Stored(keys)'[n] = Stored(keys)[n] \/ Stored(keys)'[n] = NoKey
    BY <1>0, <2>1 DEF Changed
  <2> QED
    BY <2>2 DEF OwnerOf, NoKey
<1> QED
  BY <1>1, <1>2, <1>3, KeyChanges

LEMMA LatestStep ==
  ASSUME CInv, LatestKey, KeyStep
  PROVE  LatestKey'
<1>0. /\ TypeOK /\ revision \in [Names -> Nat] /\ born \in [Names -> Nat]
      /\ Stored(keys) \in [Names -> Key]
  BY ObjectTypes DEF CInv, TInv, TypeOK
<1> SUFFICES ASSUME NEW n \in Names, Stored(keys)'[n].uid # 0
             PROVE  Stored(keys)'[n].uid = born'[n]
  BY DEF LatestKey
<1>1. CASE KeysRest
  BY <1>1 DEF KeysRest, LatestKey
<1>2. ASSUME NEW m \in Names, NEW y \in Key, PutKey(m, y), Appears(m, y) \/ Advances(m, y)
      PROVE  Stored(keys)'[n].uid = born'[n]
  <2>1. Stored(keys)' = Changed(keys, m, Versioned(m, y))
    BY <1>0, <1>2, PutKeyWrites
  <2>2. CASE m # n
    <3>1. Stored(keys)'[n] = Stored(keys)[n]
      BY <1>0, <2>1, <2>2 DEF Changed
    <3>2. born'[n] = born[n]
      BY <1>0, <1>2, <2>2 DEF Appears, Advances
    <3> QED
      BY <3>1, <3>2 DEF LatestKey
  <2>3. CASE m = n
    <3>1. Stored(keys)'[n].uid = y.uid
      BY <1>0, <2>1, <2>3, VersionedIs DEF Changed
    <3>2. CASE Appears(n, y)
      <4>1. y.uid = born[n] + 1 /\ born'[n] = born[n] + 1
        BY <1>0, <3>2 DEF Appears, Same, NoKey
      <4> QED
        BY <3>1, <4>1
    <3>3. CASE Advances(n, y)
      BY <3>1, <3>3 DEF Advances, LatestKey
    <3> QED
      BY <1>2, <2>3, <3>2, <3>3
  <2> QED
    BY <2>2, <2>3
<1>3. ASSUME NEW m \in Names, RemoveKey(m), Leaves(m)
      PROVE  Stored(keys)'[n].uid = born'[n]
  <2>1. Stored(keys)' = Changed(keys, m, NoKey)
    BY <1>0, <1>3, RemoveKeyWrites
  <2>2. Stored(keys)'[n] = Stored(keys)[n] \/ Stored(keys)'[n] = NoKey
    BY <1>0, <2>1 DEF Changed
  <2> QED
    BY <1>3, <2>2, NoObjects DEF Leaves, LatestKey
<1> QED
  BY <1>1, <1>2, <1>3, KeyChanges

LEMMA CreatedHasIdStep ==
  ASSUME CInv, CreatedHasId, KeyStep
  PROVE  CreatedHasId'
<1>0. /\ TypeOK /\ revision \in [Names -> Nat]
      /\ Stored(keys) \in [Names -> Key]
      /\ logs \in [JobIds -> SUBSET (KeyIds \cup {None})]
  BY ObjectTypes DEF CInv, TInv, TypeOK
<1> SUFFICES ASSUME NEW n \in Names, Stored(keys)'[n].phase = "created"
             PROVE  Stored(keys)'[n].keyID \in KeyIds
  BY DEF CreatedHasId, IsCreated
<1>1. CASE KeysRest
  BY <1>1 DEF KeysRest, CreatedHasId, IsCreated
<1>2. ASSUME NEW m \in Names, NEW y \in Key, PutKey(m, y), Appears(m, y) \/ Advances(m, y)
      PROVE  Stored(keys)'[n].keyID \in KeyIds
  <2>1. Stored(keys)' = Changed(keys, m, Versioned(m, y))
    BY <1>0, <1>2, PutKeyWrites
  <2>2. CASE m # n
    BY <1>0, <2>1, <2>2 DEF Changed, CreatedHasId, IsCreated
  <2>3. CASE m = n
    <3>1. Stored(keys)'[n].keyID = y.keyID /\ Stored(keys)'[n].phase = y.phase
      BY <1>0, <2>1, <2>3, VersionedIs DEF Changed
    <3>2. CASE Appears(n, y)
      <4>1. y.phase = "nil"
        BY <3>2 DEF Appears, Same, NoKey
      <4> QED
        BY <3>1, <4>1
    <3>3. CASE Advances(n, y)
      <4> DEFINE x == Stored(keys)[n]
      <4>1. x \in Key /\ (WorkerWrites(n, x, y) \/ OthersWrite(n, x, y))
        BY <1>0, <3>3 DEF Advances
      <4>2. x.phase = "created" => x.keyID \in KeyIds
        BY DEF CreatedHasId, IsCreated
      <4> HIDE DEF x
      <4>3. (y.phase = x.phase /\ y.keyID = x.keyID) \/ y.phase # "created" \/ Succeeds(x, y)
        BY <4>1 DEF WorkerWrites, OthersWrite, Same, Initialises, Fails, Holds, Key
      <4>4. Succeeds(x, y) => y.keyID \in KeyIds
        BY <1>0 DEF Succeeds, JobsFor, KeyJobs
      <4> QED
        BY <3>1, <4>2, <4>3, <4>4
    <3> QED
      BY <1>2, <2>3, <3>2, <3>3
  <2> QED
    BY <2>2, <2>3
<1>3. ASSUME NEW m \in Names, RemoveKey(m), Leaves(m)
      PROVE  Stored(keys)'[n].keyID \in KeyIds
  <2>1. Stored(keys)' = Changed(keys, m, NoKey)
    BY <1>0, <1>3, RemoveKeyWrites
  <2>2. Stored(keys)'[n] = Stored(keys)[n] \/ Stored(keys)'[n] = NoKey
    BY <1>0, <2>1 DEF Changed
  <2>3. NoKey.phase = "nil"
    BY DEF NoKey
  <2> QED
    BY <2>2, <2>3 DEF CreatedHasId, IsCreated
<1> QED
  BY <1>1, <1>2, <1>3, KeyChanges

-------------------------------------------------------------------------------
(* Repositories.                                                           *)

LEMMA OrderedTail ==
  ASSUME NEW w \in Watched([{RepoName} -> L!RepoViews]), Ordered(w), Len(w) > 1
  PROVE  Ordered(Tail(w))
<1>1. /\ Len(w) \in Nat /\ Len(Tail(w)) = Len(w) - 1
      /\ \A i \in 1..(Len(w) - 1) : Tail(w)[i] = w[i + 1]
  BY DEF Watched
<1> SUFFICES ASSUME NEW i \in 1..(Len(w) - 1), NEW k \in 1..(Len(w) - 1), i <= k,
                    w[i + 1][RepoName].uid # 0, w[k + 1][RepoName].uid # 0
             PROVE  w[i + 1][RepoName].uid <= w[k + 1][RepoName].uid
  BY <1>1 DEF Ordered
<1>2. i + 1 \in 1..Len(w) /\ k + 1 \in 1..Len(w) /\ i + 1 <= k + 1
  BY <1>1
<1> QED
  BY <1>2 DEF Ordered

LEMMA OrderedSingle ==
  ASSUME NEW x \in [{RepoName} -> L!RepoViews]
  PROVE  Ordered(<<x>>)
<1>1. x[RepoName].uid \in Nat
  BY DEF L!RepoViews
<1>2. \A i \in 1..Len(<<x>>) : <<x>>[i] = x
  OBVIOUS
<1>3. x[RepoName].uid <= x[RepoName].uid
  BY <1>1
<1> QED
  BY <1>2, <1>3 DEF Ordered

LEMMA OrderedAppend ==
  ASSUME NEW w \in Watched([{RepoName} -> L!RepoViews]), Ordered(w),
         NEW x \in [{RepoName} -> L!RepoViews],
         \A s \in Seen(w) : s[RepoName].uid # 0 /\ x[RepoName].uid # 0 => s[RepoName].uid <= x[RepoName].uid
  PROVE  Ordered(Append(w, x))
<1>1. /\ Len(w) \in Nat /\ Len(Append(w, x)) = Len(w) + 1
      /\ Append(w, x)[Len(w) + 1] = x
      /\ \A i \in 1..Len(w) : Append(w, x)[i] = w[i]
  BY DEF Watched
<1> SUFFICES ASSUME NEW i \in 1..(Len(w) + 1), NEW k \in 1..(Len(w) + 1), i <= k,
                    Append(w, x)[i][RepoName].uid # 0, Append(w, x)[k][RepoName].uid # 0
             PROVE  Append(w, x)[i][RepoName].uid <= Append(w, x)[k][RepoName].uid
  BY <1>1 DEF Ordered
<1>2. CASE k \in 1..Len(w)
  <2>1. i \in 1..Len(w)
    BY <1>1, <1>2
  <2> QED
    BY <1>1, <1>2, <2>1 DEF Ordered
<1>3. CASE k = Len(w) + 1 /\ i \in 1..Len(w)
  <2>1. w[i] \in Seen(w)
    BY <1>3 DEF Seen
  <2> QED
    BY <1>1, <1>3, <2>1
<1>4. CASE k = Len(w) + 1 /\ i = Len(w) + 1
  <2>1. x[RepoName].uid \in Nat
    BY DEF L!RepoViews
  <2>2. x[RepoName].uid <= x[RepoName].uid
    BY <2>1
  <2> QED
    BY <1>1, <1>4, <2>2
<1> QED
  BY <1>1, <1>2, <1>3, <1>4

(* A write of the Repository: a new one, or what becomes of the last.      *)
LEMMA ReposGrow ==
  ASSUME TypeOK, RepoStep
  PROVE  \/ ReposRest
         \/ \E v \in L!RepoViews :
              /\ PutRepo(v)
              /\ \/ v.uid = repoBorn + 1 /\ repoBorn' = repoBorn + 1
                 \/ (v.uid = TheRepo.uid \/ v.uid = 0) /\ repoBorn' = repoBorn
<1>1. TheRepo \in L!RepoViews /\ repoBorn \in Nat /\ repoBorn + 1 \in Nat
  BY ObjectTypes DEF TypeOK, TheRepo
<1>2. ASSUME NEW v \in L!Appears(TheRepo, repoBorn + 1)
      PROVE  v.uid = repoBorn + 1
  BY <1>1 DEF L!Appears, L!NoView
<1>3. ASSUME NEW v \in L!Progresses(TheRepo)
      PROVE  v.uid = TheRepo.uid
  BY <1>1 DEF L!Progresses, L!RepoViews
<1>4. ASSUME NEW v \in L!StartsDeletion(TheRepo)
      PROVE  v.uid = TheRepo.uid
  <2>1. PICK d \in BOOLEAN : d = TRUE
    OBVIOUS
  <2>2. v = [TheRepo EXCEPT !.deleting = TRUE]
    BY DEF L!StartsDeletion
  <2>3. v = [TheRepo EXCEPT !.deleting = d]
    BY <2>1, <2>2, Zenon
  <2> QED
    BY <1>1, <2>3 DEF L!RepoViews
<1>5. ASSUME NEW v \in L!Vanishes(TheRepo)
      PROVE  v.uid = 0
  BY DEF L!Vanishes, L!NoView
<1> QED
  BY <1>2, <1>3, <1>4, <1>5 DEF RepoStep

LEMMA RepoBornGrows ==
  ASSUME TypeOK, RepoStep
  PROVE  repoBorn \in Nat /\ repoBorn' \in Nat /\ repoBorn <= repoBorn'
BY ReposGrow DEF TypeOK, ReposRest

LEMMA SeenRepos ==
  ASSUME TypeOK, RepoStep, NEW s \in Seen(repos)'
  PROVE  \/ s \in Seen(repos)
         \/ s[RepoName].uid = repoBorn + 1 /\ repoBorn' = repoBorn + 1
         \/ s[RepoName].uid = TheRepo.uid \/ s[RepoName].uid = 0
<1>1. Stored(repos) \in [{RepoName} -> L!RepoViews]
  BY ObjectTypes
<1>2. \A v : Changed(repos, RepoName, v)[RepoName] = v
  BY <1>1 DEF Changed
<1> QED
  BY <1>2, ReposGrow, PutRepoWrites DEF ReposRest

LEMMA NotBeforeStays ==
  ASSUME TypeOK, RepoStep, NEW u \in Nat, u <= repoBorn, NotBefore(u)
  PROVE  NotBefore(u)'
<1>1. Stored(repos) \in Seen(repos) /\ repoBorn \in Nat
  BY ObjectTypes DEF TypeOK
<1> SUFFICES ASSUME NEW s \in Seen(repos)', s[RepoName].uid # 0
             PROVE  u <= s[RepoName].uid
  BY DEF NotBefore
<1>2. CASE s \in Seen(repos)
  BY <1>2 DEF NotBefore
<1>3. CASE s[RepoName].uid = repoBorn + 1
  BY <1>1, <1>3
<1>4. CASE s[RepoName].uid = TheRepo.uid
  BY <1>1, <1>4 DEF NotBefore, TheRepo
<1> QED
  BY <1>2, <1>3, <1>4, SeenRepos

LEMMA OrderStep ==
  ASSUME TypeOK, ReposInOrder, RepoStep
  PROVE  /\ Ordered(repos)'
         /\ \A s \in Seen(repos)' : s[RepoName].uid <= repoBorn'
         /\ TheRepo'.uid # 0 => TheRepo'.uid = repoBorn'
<1>1. /\ repos \in Watched([{RepoName} -> L!RepoViews])
      /\ Stored(repos) \in Seen(repos) /\ Stored(repos) \in [{RepoName} -> L!RepoViews]
      /\ Seen(repos) \subseteq [{RepoName} -> L!RepoViews]
  BY ObjectTypes DEF TypeOK
<1>2. repoBorn \in Nat /\ repoBorn' \in Nat /\ repoBorn <= repoBorn' /\ 0 <= repoBorn'
  BY RepoBornGrows
<1>3. ASSUME NEW s \in Seen(repos)
      PROVE  s[RepoName].uid \in Nat /\ s[RepoName].uid <= repoBorn /\ s[RepoName].uid <= repoBorn'
  <2>1. s[RepoName].uid \in Nat
    BY <1>1 DEF L!RepoViews
  <2> QED
    BY <1>2, <2>1 DEF ReposInOrder
<1>4. ASSUME NEW s \in Seen(repos)'
      PROVE  s[RepoName].uid <= repoBorn'
  <2>1. TheRepo.uid <= repoBorn'
    BY <1>1, <1>3 DEF TheRepo
  <2>2. repoBorn + 1 = repoBorn' => repoBorn + 1 <= repoBorn'
    BY <1>2
  <2> QED
    BY <1>2, <1>3, <2>1, <2>2, SeenRepos
<1>5. CASE ReposRest
  <2>1. Ordered(repos)'
    BY <1>1, <1>5, OrderedTail, OrderedSingle DEF ReposRest, Relisted, ReposInOrder
  <2>2. TheRepo' = TheRepo
    BY <1>5 DEF ReposRest, TheRepo
  <2> QED
    BY <1>4, <1>5, <2>1, <2>2 DEF ReposRest, ReposInOrder
<1>6. ASSUME NEW v \in L!RepoViews, PutRepo(v),
             \/ v.uid = repoBorn + 1 /\ repoBorn' = repoBorn + 1
             \/ (v.uid = TheRepo.uid \/ v.uid = 0) /\ repoBorn' = repoBorn
      PROVE  Ordered(repos)' /\ (TheRepo'.uid # 0 => TheRepo'.uid = repoBorn')
  <2>1. /\ repos' = Append(repos, Changed(repos, RepoName, v))
        /\ Stored(repos)' = Changed(repos, RepoName, v)
    BY <1>6, PutRepoWrites DEF PutRepo, Write, Changed
  <2>2. Changed(repos, RepoName, v) \in [{RepoName} -> L!RepoViews] /\ Changed(repos, RepoName, v)[RepoName] = v
    BY <1>1 DEF Changed
  <2>3. TheRepo.uid # 0 => TheRepo.uid = repoBorn
    BY DEF ReposInOrder
  <2>4. TheRepo' = v
    BY <2>1, <2>2 DEF TheRepo
  <2>5. v.uid # 0 => v.uid = repoBorn'
    BY <1>6, <2>3
  <2>6. Ordered(Append(repos, Changed(repos, RepoName, v)))
    <3>1. \A s \in Seen(repos) : v.uid # 0 => s[RepoName].uid <= v.uid
      BY <1>3, <2>5
    <3> QED
      BY <1>1, <2>2, <3>1, OrderedAppend DEF ReposInOrder
  <2> QED
    BY <2>1, <2>4, <2>5, <2>6
<1> QED
  BY <1>4, <1>5, <1>6, ReposGrow

(* Where the worker's copy of the Repository comes from.                   *)
LEMMA WorkerRepo ==
  ASSUME TInv, WorkerStep, worker'.pc # "idle"
  PROVE  \/ worker.pc # "idle" /\ worker'.repo = worker.repo
         \/ worker.pc = "idle" /\ worker'.repo = Cached(repos)[RepoName]
<1>0. worker \in Worker
  BY DEF TInv, TypeOK
<1>1. CASE worker' = worker
  BY <1>1
<1>2. CASE worker' = Idle
  BY <1>2, NoObjects
<1>3. CASE TakesCopies
  BY <1>3 DEF TakesCopies
<1>4. CASE KeepsAnswer
  BY <1>0, <1>4 DEF KeepsAnswer, Worker
<1>5. CASE HasSecret
  BY <1>0, <1>5, WantsOutcome DEF HasSecret, Worker
<1> QED
  BY <1>1, <1>2, <1>3, <1>4, <1>5 DEF WorkerStep

(* The cache holds the oldest Repository that readers may get.             *)
LEMMA CachedRepo ==
  ASSUME TypeOK, ReposInOrder
  PROVE  /\ Cached(repos)[RepoName].uid \in Nat
         /\ Cached(repos)[RepoName].uid <= repoBorn
         /\ Cached(repos)[RepoName].uid # 0 => NotBefore(Cached(repos)[RepoName].uid)
<1>1. Cached(repos) \in Seen(repos) /\ Seen(repos) \subseteq [{RepoName} -> L!RepoViews]
  BY ObjectTypes
<1>2. Cached(repos)[RepoName].uid \in Nat /\ Cached(repos)[RepoName].uid <= repoBorn
  BY <1>1 DEF L!RepoViews, ReposInOrder
<1>3. ASSUME Cached(repos)[RepoName].uid # 0, NEW s \in Seen(repos), s[RepoName].uid # 0
      PROVE  Cached(repos)[RepoName].uid <= s[RepoName].uid
  <2>1. PICK k \in 1..Len(repos) : s = repos[k]
    BY DEF Seen
  <2>2. 1 \in 1..Len(repos) /\ 1 <= k
    BY <2>1, Snapshots DEF TypeOK
  <2> QED
    BY <1>3, <2>1, <2>2 DEF ReposInOrder, Ordered, Cached
<1> QED
  BY <1>2, <1>3 DEF NotBefore

LEMMA ReposInOrderStep ==
  ASSUME TInv, ReposInOrder, RepoStep, WorkerStep
  PROVE  ReposInOrder'
<1>0. TypeOK /\ repoBorn \in Nat /\ repoBorn' \in Nat /\ repoBorn <= repoBorn'
  BY RepoBornGrows DEF TInv
<1>1. ASSUME worker'.pc # "idle"
      PROVE  /\ worker'.repo.uid <= repoBorn'
             /\ worker'.repo.uid # 0 => NotBefore(worker.repo.uid)'
  <2>1. PICK u \in Nat : u = worker'.repo.uid /\ u <= repoBorn /\ (u # 0 => NotBefore(u))
    <3>1. CASE worker.pc # "idle" /\ worker'.repo = worker.repo
      BY <3>1, AtWork DEF ReposInOrder, L!RepoViews
    <3>2. CASE worker'.repo = Cached(repos)[RepoName]
      BY <1>0, <3>2, CachedRepo
    <3> QED
      BY <1>1, <3>1, <3>2, WorkerRepo
  <2>2. u # 0 => NotBefore(u)'
    BY <1>0, <2>1, NotBeforeStays
  <2>3. u <= repoBorn'
    BY <1>0, <2>1
  <2> QED
    BY <2>1, <2>2, <2>3 DEF NotBefore
<1> QED
  BY <1>0, <1>1, OrderStep DEF ReposInOrder

LEMMA OwnersPastStep ==
  ASSUME CInv, ReposInOrder, OwnersPast, KeyStep, RepoStep, WorkerStep
  PROVE  OwnersPast'
<1>0. /\ TInv /\ TypeOK /\ Stored(keys) \in [Names -> Key]
      /\ repoBorn \in Nat /\ repoBorn' \in Nat /\ repoBorn <= repoBorn'
  BY RepoBornGrows, ObjectTypes DEF CInv, TInv
<1> SUFFICES ASSUME NEW n \in Names
             PROVE  /\ OwnerOf(n)' <= repoBorn'
                    /\ NotBefore(OwnerOf(n))'
                    /\ worker'.pc # "idle" /\ worker'.repo.uid # 0 => OwnerOf(n)' <= worker'.repo.uid
  BY DEF OwnersPast
<1>1. ASSUME NEW u \in Nat, OwnerOf(n)' = u, u <= repoBorn, NotBefore(u),
             worker.pc # "idle" /\ worker.repo.uid # 0 => u <= worker.repo.uid
      PROVE  /\ OwnerOf(n)' <= repoBorn'
             /\ NotBefore(OwnerOf(n))'
             /\ worker'.pc # "idle" /\ worker'.repo.uid # 0 => OwnerOf(n)' <= worker'.repo.uid
  <2>1. u <= repoBorn' /\ NotBefore(u)'
    BY <1>0, <1>1, NotBeforeStays
  <2>2. ASSUME worker'.pc # "idle", worker'.repo.uid # 0
        PROVE  u <= worker'.repo.uid
    <3>1. CASE worker.pc # "idle" /\ worker'.repo = worker.repo
      BY <1>1, <2>2, <3>1
    <3>2. CASE worker'.repo = Cached(repos)[RepoName]
      BY <1>0, <1>1, <2>2, <3>2, ObjectTypes DEF NotBefore
    <3> QED
      BY <1>0, <2>2, <3>1, <3>2, WorkerRepo
  <2> QED
    BY <1>1, <2>1, <2>2 DEF NotBefore
<1>2. CASE OwnerOf(n)' = OwnerOf(n)
  <2>1. OwnerOf(n) \in Nat
    BY <1>0 DEF OwnerOf, Key
  <2> QED
    BY <1>1, <1>2, <2>1 DEF OwnersPast
<1>3. CASE OwnerOf(n)' = 0
  <2>1. /\ \A s \in Seen(repos) : 0 <= s[RepoName].uid
        /\ worker.pc # "idle" => 0 <= worker.repo.uid
        /\ 0 <= repoBorn
    BY <1>0, ObjectTypes, AtWork DEF L!RepoViews
  <2> QED
    BY <1>1, <1>3, <2>1 DEF NotBefore
<1>4. CASE worker.pc = "own" /\ OwnerOf(n)' = worker.repo.uid
  <2>1. worker.repo.uid # 0 /\ worker.repo.uid \in Nat
    BY <1>0, <1>4, AtWork DEF TInv, WorkerKnows, L!RepoViews
  <2>2. worker.repo.uid <= worker.repo.uid
    BY <2>1
  <2>3. worker.repo.uid <= repoBorn /\ NotBefore(worker.repo.uid)
    BY <1>4, <2>1 DEF ReposInOrder
  <2> QED
    BY <1>1, <1>4, <2>1, <2>2, <2>3
<1> QED
  BY <1>2, <1>3, <1>4, OwnerStays

LEMMA StoresStep ==
  ASSUME CInv, ReposInOrder, StoresBorn, NEW i, JobStepOf(i), RepoStep
  PROVE  StoresBorn'
<1>0. /\ TInv /\ TypeOK /\ Seen(jobs) \subseteq [JobIds -> Job] /\ Stored(jobs) \in Seen(jobs)
      /\ restic \in [KeyIds -> ResticKey]
      /\ repoBorn \in Nat /\ repoBorn' \in Nat /\ repoBorn <= repoBorn'
  BY RepoBornGrows, ObjectTypes DEF CInv, TInv, TypeOK
<1>1. ASSUME NEW s \in Seen(jobs)', NEW j \in JobIds, s[j].live
      PROVE  s[j].store <= repoBorn' /\ (s[j].op = "add" => s[j].store # 0)
  <2>1. ASSUME NEW t \in Seen(jobs), NEW k \in JobIds, SameJob(s[j], t[k])
        PROVE  s[j].store <= repoBorn' /\ (s[j].op = "add" => s[j].store # 0)
    <3>1. /\ t[k].store \in Nat /\ t[k].store <= repoBorn /\ (t[k].op = "add" => t[k].store # 0)
          /\ s[j].store = t[k].store /\ s[j].op = t[k].op
      BY <1>0, <1>1, <2>1 DEF SameJob, StoresBorn, Job
    <3> QED
      BY <1>0, <3>1
  <2>2. ASSUME NEW x \in Job, Makes(i, x), s[j] = x
        PROVE  s[j].store <= repoBorn' /\ (s[j].op = "add" => s[j].store # 0)
    <3>1. worker.pc # "idle" /\ x.store = worker.repo.uid /\ (x.op = "add" => worker.pc = "makeJob")
      BY <2>2 DEF Makes
    <3>2. worker.repo.uid \in Nat /\ worker.repo.uid <= repoBorn
      BY <1>0, <3>1, AtWork DEF ReposInOrder, L!RepoViews
    <3>3. worker.pc = "makeJob" => worker.repo.uid # 0
      BY <1>0 DEF TInv, WorkerKnows
    <3> QED
      BY <1>0, <2>2, <3>1, <3>2, <3>3
  <2> QED
    BY <1>1, <2>1, <2>2, JobsBefore
<1>2. ASSUME NEW id \in KeyIds
      PROVE  restic'[id].store <= repoBorn'
  <2>1. restic[id].store \in Nat /\ restic[id].store <= repoBorn
    BY <1>0 DEF StoresBorn, ResticKey
  <2>2. restic[id].store <= repoBorn'
    BY <1>0, <2>1
  <2>3. CASE restic' = restic
    BY <2>2, <2>3
  <2>4. ASSUME NEW k \in JobIds, RemovesKey(k)
        PROVE  restic'[id].store <= repoBorn'
    <3>1. restic'[id].store = restic[id].store
      BY <1>0, <2>4 DEF RemovesKey, ResticKey
    <3> QED
      BY <2>2, <3>1
  <2>5. ASSUME NEW k \in JobIds, NEW d \in KeyIds, AddsKey(k, d)
        PROVE  restic'[id].store <= repoBorn'
    <3>1. Stored(jobs)[k].live /\ Stored(jobs)[k].store \in Nat
      BY <1>0, <2>5 DEF AddsKey, Running, Job
    <3>2. Stored(jobs)[k].store <= repoBorn
      BY <1>0, <3>1 DEF StoresBorn
    <3>3. restic'[id].store = restic[id].store \/ restic'[id].store = Stored(jobs)[k].store
      BY <1>0, <2>5 DEF AddsKey, ResticKey
    <3> QED
      BY <1>0, <2>2, <3>1, <3>2, <3>3
  <2> QED
    BY <2>3, <2>4, <2>5 DEF JobStepOf, JobsRest, Makes, Ends, Collected
<1> QED
  BY <1>1, <1>2 DEF StoresBorn

-------------------------------------------------------------------------------
(* Restic keys.                                                            *)

(* What a step does to one restic key.                                     *)
LEMMA ResticChanges ==
  ASSUME CInv, NEW i, JobStepOf(i), NEW id \in KeyIds
  PROVE  \/ restic'[id] = restic[id]
         \/ i \in JobIds /\ RemovesKey(i) /\ Stored(jobs)[i].arg = id /\ restic'[id].store = restic[id].store
         \/ /\ i \in JobIds /\ AddsKey(i, id) /\ restic[id].store = 0
            /\ restic'[id] = [store |-> Stored(jobs)[i].store,
                              pw |-> Stored(secrets)[Stored(jobs)[i].key].pw]
<1>0. restic \in [KeyIds -> ResticKey]
  BY DEF CInv, TInv, TypeOK
<1>1. CASE restic' = restic
  BY <1>1
<1>2. CASE i \in JobIds /\ RemovesKey(i)
  <2>1. Stored(jobs)[i].arg # id => restic'[id] = restic[id]
    BY <1>0, <1>2 DEF RemovesKey
  <2>2. restic'[id].store = restic[id].store
    BY <1>0, <1>2 DEF RemovesKey, ResticKey
  <2> QED
    BY <1>2, <2>1, <2>2
<1>3. ASSUME i \in JobIds, NEW d \in KeyIds, AddsKey(i, d)
      PROVE  \/ restic'[id] = restic[id]
             \/ /\ AddsKey(i, id) /\ restic[id].store = 0
                /\ restic'[id] = [store |-> Stored(jobs)[i].store,
                                  pw |-> Stored(secrets)[Stored(jobs)[i].key].pw]
  BY <1>0, <1>3 DEF AddsKey
<1> QED
  BY <1>1, <1>2, <1>3 DEF JobStepOf, JobsRest, Makes, Ends, Collected

LEMMA KnownAddedStep ==
  ASSUME SInv, KnownAdded, StoresBorn, KeyStep, WorkerStep, NEW i, JobStepOf(i)
  PROVE  KnownAdded'
<1>0. CInv
  BY DEF SInv
<1> SUFFICES ASSUME NEW n \in Names, NEW id \in KeyIds, Known(n, id)'
             PROVE  restic'[id].store # 0
  BY DEF KnownAdded
<1>1. Stored(jobs) \in Seen(jobs)
  BY <1>0, ObjectTypes DEF CInv, TInv
<1>2. ASSUME i \in JobIds, AddsKey(i, id)
      PROVE  Stored(jobs)[i].store # 0 /\ restic[id].store = 0
  BY <1>1, <1>2 DEF AddsKey, Running, StoresBorn
<1>3. CASE Known(n, id)
  <2>1. restic[id].store # 0
    BY <1>3 DEF KnownAdded
  <2> QED
    BY <1>0, <2>1, ResticChanges
<1>4. CASE Adds(i, n, id)
  <2>1. i \in JobIds /\ AddsKey(i, id) /\ Stored(jobs)[i].store # 0 /\ restic[id].store = 0
    BY <1>2, <1>4 DEF Adds
  <2>2. restic'[id].store = Stored(jobs)[i].store \/ restic'[id].store # 0
    <3>1. restic \in [KeyIds -> ResticKey]
      BY <1>0 DEF CInv, TInv, TypeOK
    <3> QED
      BY <2>1, <3>1 DEF AddsKey
  <2> QED
    BY <2>1, <2>2
<1> QED
  BY <1>3, <1>4, KnownBefore

LEMMA KnownApartStep ==
  ASSUME SInv, KnownAdded, KnownApart, KeyStep, WorkerStep, NEW i, JobStepOf(i)
  PROVE  KnownApart'
<1> SUFFICES ASSUME NEW n \in Names, NEW m \in Names, NEW id \in KeyIds, Known(n, id)', Known(m, id)'
             PROVE  n = m
  BY DEF KnownApart
<1>1. Known(n, id) \/ Adds(i, n, id)
  BY KnownBefore
<1>2. Known(m, id) \/ Adds(i, m, id)
  BY KnownBefore
<1>3. ASSUME NEW k \in Names, NEW l \in Names, Known(k, id), Adds(i, l, id)
      PROVE  FALSE
  BY <1>3 DEF KnownAdded, Adds, AddsKey
<1>4. Adds(i, n, id) /\ Adds(i, m, id) => n = m
  BY DEF Adds
<1> QED
  BY <1>1, <1>2, <1>3, <1>4 DEF KnownApart

-------------------------------------------------------------------------------
(* What is true of first Keys.                                             *)

(* The worker's copy of a first Key is of this very Key.                   *)
LEMMA WorkerOnFirst ==
  ASSUME CInv, LatestKey, NEW n \in Names, First(n), worker.pc # "idle", worker.name = n
  PROVE  ~Deleting(worker.key) /\ (worker.key.phase # "nil" => Stored(keys)[n].phase # "nil")
<1>1. PICK u \in Nat : u = worker.key.uid /\ u # 0 /\ u <= born[n]
  BY WorkerBorn
<1>2. born[n] = 1
  BY DEF LatestKey, First
<1>3. worker.key.uid = Stored(keys)[n].uid
  BY <1>1, <1>2 DEF First
<1>4. StillSo(worker.key, Stored(keys)[n])
  BY <1>3 DEF CInv, Copies, GoodCopy
<1> QED
  BY <1>4 DEF StillSo, First

(* A new Key is told of nothing.                                           *)
LEMMA NewIsQuiet ==
  ASSUME SInv, KeyStep, WorkerStep, NEW i, JobStepOf(i), NEW n \in Names, born[n] = 0
  PROVE  Quiet(n)'
<1>1. CInv /\ Quiet(n) /\ ~(worker.pc # "idle" /\ worker.name = n)
  BY Unborn DEF SInv
<1>2. \A x \in Job : ~(Makes(i, x) /\ worker.name = n)
  BY <1>1 DEF Makes
<1> QED
  BY <1>1, <1>2, QuietStays

LEMMA FirstQuietStep ==
  ASSUME SInv, LatestKey, FirstQuiet, KeyStep, WorkerStep, NEW i, JobStepOf(i)
  PROVE  FirstQuiet'
<1>0. CInv /\ TInv /\ worker \in Worker
  BY DEF SInv, CInv, TInv, TypeOK
<1> SUFFICES ASSUME NEW n \in Names, First(n)', Early(n)'
             PROVE  Quiet(n)'
  BY DEF FirstQuiet
<1>1. CASE born[n] = 0
  BY <1>1, NewIsQuiet
<1>2. CASE born[n] # 0
  <2>1. First(n) /\ (Stored(keys)'[n].phase = "nil" => Stored(keys)[n].phase = "nil")
    BY <1>0, <1>2, FirstBefore
  <2>2. CASE Stored(keys)'[n].phase = "nil"
    <3>1. Quiet(n)
      BY <2>1, <2>2 DEF FirstQuiet, Early
    <3>2. ASSUME NEW x \in Job, Makes(i, x), worker.name = n
          PROVE  FALSE
      <4>1. ~Deleting(worker.key) /\ worker.key.phase = "nil"
        BY <1>0, <2>1, <2>2, <3>2, WorkerOnFirst DEF Makes
      <4>2. worker.pc = "makeJob"
        BY <3>2, <4>1 DEF Makes
      <4> QED
        BY <1>0, <4>1, <4>2 DEF TInv, WorkerKnows
    <3> QED
      BY <1>0, <3>1, <3>2, QuietStays
  <2>3. CASE worker'.pc = "own" /\ worker'.name = n
    <3>1. worker' # Idle
      BY <2>3, NoObjects
    <3>2. \A x \in Job : ~Makes(i, x)
      BY <3>1 DEF Makes
    <3>3. Early(n)
      <4>1. CASE worker' = worker
        BY <2>3, <4>1 DEF Early
      <4>2. CASE TakesCopies
        BY <2>3, <4>2 DEF TakesCopies
      <4>3. CASE HasSecret
        <5>1. worker'.pc = "makeJob"
          BY <1>0, <4>3 DEF HasSecret, Worker
        <5> QED
          BY <2>3, <5>1
      <4>4. CASE KeepsAnswer
        <5>1. PICK y \in Key, pc \in {"own", "plan"} :
                /\ pc = "own" => worker.key.phase = "nil" /\ Current(worker.key)
                /\ worker' = [worker EXCEPT !.pc = pc, !.key = Versioned(worker.name, y)]
          BY <4>4 DEF KeepsAnswer
        <5>2. worker'.pc = pc /\ worker'.name = worker.name
          BY <1>0, <5>1 DEF Worker
        <5>3. worker.pc # "idle" /\ worker.name = n /\ worker.key.phase = "nil" /\ Current(worker.key)
          BY <2>3, <4>4, <5>1, <5>2 DEF KeepsAnswer
        <5> QED
          BY <1>0, <5>3, Unrefused DEF Early
      <4> QED
        BY <3>1, <4>1, <4>2, <4>3, <4>4 DEF WorkerStep
    <3>4. Quiet(n)
      BY <2>1, <3>3 DEF FirstQuiet
    <3> QED
      BY <1>0, <3>2, <3>4, QuietStays
  <2> QED
    BY <2>2, <2>3 DEF Early
<1> QED
  BY <1>1, <1>2

(* A first Key that gets its owner is told of nothing yet.                 *)
LEMMA OwnedQuiet ==
  ASSUME SInv, LatestKey, FirstQuiet, KeyStep, WorkerStep, NEW i, JobStepOf(i), NEW n \in Names, First(n)'
  PROVE  Quiet(n)' \/ (First(n) /\ OwnerOf(n)' = OwnerOf(n))
                   \/ (First(n) /\ OwnerOf(n)' = 0)
<1>0. CInv /\ TInv
  BY DEF SInv, CInv
<1>1. CASE born[n] = 0
  BY <1>1, NewIsQuiet
<1>2. CASE born[n] # 0 /\ worker.pc = "own" /\ worker.name = n
  <2>1. First(n) /\ Early(n)
    BY <1>0, <1>2, FirstBefore DEF Early
  <2>2. Quiet(n)
    BY <2>1 DEF FirstQuiet
  <2>3. ASSUME NEW x \in Job, Makes(i, x)
        PROVE  FALSE
    BY <1>0, <1>2, <2>1, <2>3, WorkerOnFirst DEF Makes
  <2> QED
    BY <1>0, <2>2, <2>3, QuietStays
<1>3. CASE born[n] # 0 /\ ~(worker.pc = "own" /\ worker.name = n)
  BY <1>0, <1>3, FirstBefore, OwnerStays
<1> QED
  BY <1>1, <1>2, <1>3

LEMMA FirstAddsStep ==
  ASSUME SInv, LatestKey, FirstQuiet, OwnersPast, FirstAdds, KeyStep, WorkerStep, NEW i, JobStepOf(i)
  PROVE  FirstAdds'
<1>0. /\ CInv /\ TInv /\ TypeOK /\ Seen(jobs) \subseteq [JobIds -> Job]
      /\ Stored(keys) \in [Names -> Key]
  BY ObjectTypes DEF SInv, CInv, TInv
<1> SUFFICES ASSUME NEW n \in Names, First(n)', NEW s \in Seen(jobs)', NEW j \in JobIds,
                    s[j].live, s[j].key = n
             PROVE  s[j].op = "add" /\ OwnerOf(n)' <= s[j].store
  BY DEF FirstAdds
<1>1. ~Quiet(n)'
  BY DEF Quiet, HasJob
<1>2. First(n) /\ (OwnerOf(n)' = OwnerOf(n) \/ OwnerOf(n)' = 0)
  BY <1>1, OwnedQuiet
<1>3. OwnerOf(n) \in Nat
  BY <1>0 DEF OwnerOf, Key
<1>4. ASSUME s[j].op = "add", s[j].store \in Nat, OwnerOf(n) <= s[j].store
      PROVE  s[j].op = "add" /\ OwnerOf(n)' <= s[j].store
  BY <1>2, <1>3, <1>4
<1>5. ASSUME NEW t \in Seen(jobs), NEW k \in JobIds, SameJob(s[j], t[k])
      PROVE  s[j].op = "add" /\ OwnerOf(n)' <= s[j].store
  <2>1. /\ s[j].op = t[k].op /\ s[j].store = t[k].store /\ t[k].live /\ t[k].key = n
        /\ t[k].store \in Nat
    BY <1>0, <1>5 DEF SameJob, Job
  <2> QED
    BY <1>2, <1>4, <2>1 DEF FirstAdds
<1>6. ASSUME NEW x \in Job, Makes(i, x), s[j] = x
      PROVE  s[j].op = "add" /\ OwnerOf(n)' <= s[j].store
  <2>1. worker.pc # "idle" /\ worker.name = n /\ x.store = worker.repo.uid
    BY <1>6 DEF Makes
  <2>2. x.op = "add" /\ worker.pc = "makeJob"
    BY <1>0, <1>2, <1>6, <2>1, WorkerOnFirst DEF Makes
  <2>3. worker.repo.uid # 0 /\ worker.repo.uid \in Nat
    BY <1>0, <2>1, <2>2, AtWork DEF TInv, WorkerKnows, L!RepoViews
  <2>4. OwnerOf(n) <= worker.repo.uid
    BY <2>1, <2>3 DEF OwnersPast
  <2> QED
    BY <1>4, <1>6, <2>1, <2>2, <2>3, <2>4
<1> QED
  BY <1>0, <1>5, <1>6, JobsBefore

LEMMA FirstOpensStep ==
  ASSUME OInv, KeyStep, SecretStep, WorkerStep, NEW i, JobStepOf(i)
  PROVE  FirstOpens'
<1>0. /\ SInv /\ CInv /\ TInv /\ TypeOK /\ OwnersBorn /\ AddJobHasItsSecret
      /\ LatestKey /\ KnownAdded /\ KnownApart /\ FirstQuiet /\ FirstAdds /\ FirstOpens
      /\ Stored(keys) \in [Names -> Key] /\ restic \in [KeyIds -> ResticKey]
      /\ Stored(jobs) \in Seen(jobs) /\ Seen(jobs) \subseteq [JobIds -> Job]
  BY ObjectTypes DEF OInv, SInv, CInv, TInv, TypeOK
<1> SUFFICES ASSUME NEW n \in Names, NEW id \in KeyIds, First(n)', Known(n, id)'
             PROVE  Opened(n, id)'
  BY DEF FirstOpens
<1>1. First(n) /\ (OwnerOf(n)' = OwnerOf(n) \/ OwnerOf(n)' = 0)
  BY <1>0, OwnedQuiet DEF Quiet
<1>2. OwnerOf(n) \in Nat /\ born[n] = 1
  BY <1>0, <1>1 DEF OwnerOf, Key, LatestKey, First
<1>3. Alive(n, 1)' /\ 1 \in Nat /\ 1 <= born[n]
  BY <1>2 DEF First, Deleting, Alive
<1>4. ASSUME HasItsSecret(n, 1)
      PROVE  Stored(secrets)'[n] = Stored(secrets)[n] /\ HasItsSecret(n, 1)'
  BY <1>0, <1>3, <1>4, SecretKept DEF HasItsSecret
<1>5. ASSUME HasItsSecret(n, 1), restic'[id].pw = Stored(secrets)[n].pw,
             restic'[id].store \in Nat, OwnerOf(n) <= restic'[id].store
      PROVE  Opened(n, id)'
  <2>1. OwnerOf(n)' <= restic'[id].store
    BY <1>1, <1>2, <1>5
  <2> QED
    BY <1>4, <1>5, <2>1 DEF Opened
<1>6. CASE Known(n, id)
  <2>1. Opened(n, id) /\ restic[id].store # 0 /\ restic[id].store \in Nat
    BY <1>0, <1>1, <1>6 DEF FirstOpens, KnownAdded, ResticKey
  <2>2. ASSUME i \in JobIds, RemovesKey(i), Stored(jobs)[i].arg = id
        PROVE  FALSE
    <3>1. Stored(jobs)[i].live /\ Stored(jobs)[i].op = "delete"
      BY <2>2 DEF RemovesKey, Running
    <3>2. Stored(jobs)[i].key \in Names
      BY <1>0, <2>2, <3>1 DEF TInv, JobsLabelled
    <3>3. Known(Stored(jobs)[i].key, id)
      BY <1>0, <2>2, <3>1 DEF Known, Tells
    <3>4. Stored(jobs)[i].key = n
      BY <1>0, <1>6, <3>2, <3>3 DEF KnownApart
    <3> QED
      BY <1>0, <1>1, <2>2, <3>1, <3>4 DEF FirstAdds
  <2>3. restic'[id] = restic[id]
    BY <1>0, <2>1, <2>2, ResticChanges
  <2> QED
    BY <1>5, <2>1, <2>3 DEF Opened
<1>7. CASE Adds(i, n, id)
  <2>1. /\ i \in JobIds /\ AddsKey(i, id)
        /\ Stored(jobs)[i].live /\ Stored(jobs)[i].key = n /\ Stored(jobs)[i].op = "add"
    BY <1>7 DEF Adds, AddsKey, Running
  <2>2. Stored(jobs)[i].owner = 1
    <3>1. /\ Stored(jobs)[i].owner \in Nat /\ Stored(jobs)[i].owner # 0
          /\ Stored(jobs)[i].owner <= born[n]
      BY <1>0, <2>1 DEF OwnersBorn, Job
    <3> QED
      BY <1>2, <3>1
  <2>3. HasItsSecret(n, 1)
    BY <1>0, <1>1, <2>1, <2>2 DEF AddJobHasItsSecret, First, Deleting, HasItsSecret
  <2>4. restic'[id] = [store |-> Stored(jobs)[i].store, pw |-> Stored(secrets)[n].pw]
    BY <1>0, <2>1 DEF AddsKey
  <2>5. Stored(jobs)[i].store \in Nat /\ OwnerOf(n) <= Stored(jobs)[i].store
    BY <1>0, <1>1, <2>1 DEF FirstAdds, Job
  <2> QED
    BY <1>5, <2>3, <2>4, <2>5
<1> QED
  BY <1>0, <1>6, <1>7, KnownBefore

-------------------------------------------------------------------------------
LEMMA OInvInit == Init => OInv
<1> SUFFICES ASSUME Init PROVE OInv
  OBVIOUS
<1>1. SInv /\ TypeOK
  BY SInvInit DEF SInv, CInv, TInv
<1>2. /\ Seen(jobs) = {[j \in JobIds |-> NoJob]} /\ Seen(keys) = {[n \in Names |-> NoKey]}
      /\ Stored(keys) = [n \in Names |-> NoKey]
      /\ Seen(repos) = {[n \in {RepoName} |-> L!NoView]}
      /\ Stored(repos) = [n \in {RepoName} |-> L!NoView]
      /\ repos = <<[n \in {RepoName} |-> L!NoView]>>
  BY Single DEF Init
<1>3. worker.pc = "idle"
  BY NoObjects DEF Init
<1>4. /\ NoKey.uid = 0 /\ NoKey.owner = 0 /\ NoKey.phase = "nil" /\ NoKey.keyID \notin KeyIds
      /\ ~NoJob.live /\ L!NoView.uid = 0
  BY NoIds, NoObjects DEF NoKey, L!NoView
<1>5. repoBorn = 0 /\ \A id \in KeyIds : restic[id].store = 0
  BY DEF Init
<1>6. LatestKey /\ CreatedHasId
  BY <1>2, <1>4 DEF LatestKey, CreatedHasId, IsCreated
<1>7. Ordered(repos)
  <2>1. [n \in {RepoName} |-> L!NoView] \in [{RepoName} -> L!RepoViews]
    BY NoViewType
  <2> QED
    BY <1>2, <2>1, OrderedSingle
<1>8. ReposInOrder /\ OwnersPast
  BY <1>2, <1>3, <1>4, <1>5, <1>7 DEF ReposInOrder, OwnersPast, OwnerOf, NotBefore, TheRepo
<1>9. StoresBorn
  BY <1>2, <1>4, <1>5 DEF StoresBorn
<1>10. ASSUME NEW n \in Names
       PROVE  ~First(n) /\ \A id \in KeyIds : ~Known(n, id)
  <2>1. \A j \in JobIds : ~Stored(jobs)[j].live
    BY <1>1, <1>2, <1>4, ObjectTypes
  <2> QED
    BY <1>2, <1>3, <1>4, <2>1 DEF First, Known, Tells, Logs
<1> QED
  BY <1>1, <1>6, <1>8, <1>9, <1>10
     DEF OInv, KnownAdded, KnownApart, FirstQuiet, FirstAdds, FirstOpens

LEMMA OInvStep ==
  ASSUME OInv, [Next]_vars
  PROVE  OInv'
<1>1. /\ SInv /\ CInv /\ TInv
      /\ LatestKey /\ CreatedHasId /\ ReposInOrder /\ OwnersPast /\ StoresBorn
      /\ KnownAdded /\ KnownApart /\ FirstQuiet /\ FirstAdds /\ FirstOpens
  BY DEF OInv, SInv, CInv
<1>2. /\ SInv'
      /\ KeyStep /\ JobStep /\ SecretStep /\ RepoStep /\ WorkerStep
  BY <1>1, SInvStep, EveryStep DEF Classified
<1>3. PICK i : JobStepOf(i)
  BY <1>2 DEF JobStep, JobStepOf
<1>4. LatestKey' /\ CreatedHasId'
  BY <1>1, <1>2, LatestStep, CreatedHasIdStep
<1>5. ReposInOrder' /\ OwnersPast' /\ StoresBorn'
  BY <1>1, <1>2, <1>3, ReposInOrderStep, OwnersPastStep, StoresStep
<1>6. KnownAdded' /\ KnownApart'
  BY <1>1, <1>2, <1>3, KnownAddedStep, KnownApartStep
<1>7. FirstQuiet' /\ FirstAdds' /\ FirstOpens'
  BY <1>1, <1>2, <1>3, FirstQuietStep, FirstAddsStep, FirstOpensStep
<1> QED
  BY <1>2, <1>4, <1>5, <1>6, <1>7 DEF OInv

LEMMA OpensCreated ==
  ASSUME OInv
  PROVE  CreatedKeyOpens
<1>0. /\ TypeOK /\ LatestKey /\ CreatedHasId /\ ReposInOrder /\ OwnersPast /\ StoresBorn /\ FirstOpens
      /\ Stored(keys) \in [Names -> Key] /\ Stored(keys) \in Seen(keys)
      /\ restic \in [KeyIds -> ResticKey]
  BY ObjectTypes DEF OInv, SInv, CInv, TInv, TypeOK
<1> SUFFICES ASSUME NEW n \in Names, Stored(keys)[n].uid = 1, SaysItOpens(Stored(keys)[n])
             PROVE  Opens(n)
  BY DEF CreatedKeyOpens
<1>1. First(n)
  BY DEF First, SaysItOpens
<1>2. PICK id \in KeyIds : id = Stored(keys)[n].keyID
  BY <1>0 DEF CreatedHasId, SaysItOpens
<1>3. Known(n, id)
  BY <1>0, <1>2 DEF Known
<1>4. Opened(n, id)
  BY <1>0, <1>1, <1>3 DEF FirstOpens
<1>5. restic[id].store = Stored(keys)[n].owner
  <2>1. repoBorn = OwnerOf(n)
    BY <1>0 DEF SaysItOpens, ReposInOrder, OwnerOf
  <2>2. restic[id].store \in Nat /\ OwnerOf(n) \in Nat
    BY <1>0 DEF ResticKey, OwnerOf, Key
  <2>3. restic[id].store <= repoBorn /\ OwnerOf(n) <= restic[id].store
    BY <1>0, <1>4 DEF StoresBorn, Opened
  <2> QED
    BY <2>1, <2>2, <2>3 DEF OwnerOf
<1>6. restic[id] = [store |-> Stored(keys)[n].owner, pw |-> Stored(secrets)[n].pw]
  <2>1. restic[id] = [store |-> restic[id].store, pw |-> restic[id].pw]
    BY <1>0 DEF ResticKey
  <2> QED
    BY <1>4, <1>5, <2>1 DEF Opened
<1> QED
  BY <1>2, <1>4, <1>6 DEF Opens, Opened, HasItsSecret

(* The first Key of a name that says Created is opened by its secret:      *)
(* restic knows its ID, in the storage of the Repository that owns it and  *)
(* with the password of the secret.  That holds although add Jobs may be   *)
(* duplicates, pods may be lost after they did their work, Repositories    *)
(* may follow one another and every copy the controller works on may be    *)
(* old.                                                                    *)
THEOREM CreatedKeysOpen == Spec => []CreatedKeyOpens
<1>1. OInv => CreatedKeyOpens
  BY OpensCreated
<1> QED
  BY <1>1, OInvInit, OInvStep, PTL DEF Spec
===============================================================================
