--------------------------- MODULE ConditionsProofs ---------------------------
(***************************************************************************)
(* Theorems about condition lists of every length: what UpdateCondition    *)
(* makes of a list, and that the phase which the other modules keep says   *)
(* the same as the list, whatever types other programs add.                *)
(***************************************************************************)
EXTENDS Conditions, Functions, WellFoundedInduction, TLAPS

-------------------------------------------------------------------------------
(* Induction.  The library's induction theorems are about operators.  That *)
(* a set of numbers has a least element says the same about sets.          *)

(* The least number of a set of numbers.                                   *)
LEMMA LeastNumber ==
  ASSUME NEW T \in SUBSET Nat, T # {}
  PROVE  \E least \in T : \A n \in T : least <= n
<1> DEFINE Less == OpToRel(<, Nat)
<1>1. Less = {pair \in Nat \X Nat : pair[1] < pair[2]}
  BY DEF OpToRel
<1>2. IsWellFoundedOn(Less, Nat)
  BY NatLessThanWellFounded
<1> HIDE DEF Less
<1>3. PICK least \in T : \A n \in T : <<n, least>> \notin Less
  BY <1>2, WFMin
<1>4. \A n \in T : ~(n < least)
  BY <1>1, <1>3
<1> QED
  BY <1>4

(* Induction up to m: what holds of 0 and goes on to the next holds of all *)
(* (S is the set of the numbers of which it holds).                        *)
LEMMA UpTo ==
  ASSUME NEW m \in Nat, NEW S,
         0 \in S, \A n \in 1..m : n - 1 \in S => n \in S
  PROVE  0..m \subseteq S
<1> DEFINE T == {n \in 0..m : n \notin S}
<1>1. SUFFICES ASSUME T # {} PROVE FALSE
  OBVIOUS
<1>2. PICK least \in T : \A n \in T : least <= n
  <2>1. T \in SUBSET Nat
    OBVIOUS
  <2> HIDE DEF T
  <2> QED
    BY <1>1, <2>1, LeastNumber
<1>3. least \in 1..m
  OBVIOUS
<1>4. least - 1 \in S
  BY <1>2, <1>3
<1> QED
  BY <1>2, <1>3, <1>4

-------------------------------------------------------------------------------
(* lo.Filter.                                                              *)

(* The loop of the filter: what it has kept after each element.            *)
Loop(kept, list, type) ==
  kept = [n \in 0..Len(list) |->
            IF n = 0 THEN <<>>
            ELSE IF list[n].type = type THEN kept[n - 1]
            ELSE Append(kept[n - 1], list[n])]

(* There is such a loop, and its last value is the result.                 *)
LEMMA LoopEnds ==
  ASSUME NEW C, NEW list \in Seq(C), NEW type
  PROVE  \E kept : Loop(kept, list, type) /\ Without(list, type) = kept[Len(list)]
<1> DEFINE Step(kept, n) ==
             IF n = 0 THEN <<>>
             ELSE IF list[n].type = type THEN kept[n - 1]
             ELSE Append(kept[n - 1], list[n])
           Part(kept, m) == kept = [n \in 0..m |-> Step(kept, n)]
           S == {m \in Nat : \E kept : Part(kept, m)}
           m0 == Len(list)
<1>0. m0 \in Nat
  OBVIOUS
<1>1. 0 \in S
  <2>1. Part([n \in 0..0 |-> <<>>], 0)
    OBVIOUS
  <2> QED
    BY <2>1
<1>2. ASSUME NEW m \in 1..m0, m - 1 \in S PROVE m \in S
  <2>1. PICK kept : Part(kept, m - 1)
    BY <1>2
  <2> DEFINE more == [n \in 0..m |-> IF n = m THEN Step(kept, m) ELSE kept[n]]
  <2>2. ASSUME NEW n \in 0..m PROVE more[n] = Step(more, n)
    <3>1. CASE n = m
      <4>1. more[m] = Step(kept, m) /\ more[m - 1] = kept[m - 1]
        OBVIOUS
      <4> QED
        BY <3>1, <4>1
    <3>2. CASE n < m
      <4>0. n \in 0..(m - 1)
        BY <3>2
      <4>1. kept[n] = Step(kept, n)
        <5> HIDE DEF Step
        <5> QED
          BY <2>1, <4>0
      <4>2. more[n] = kept[n]
        BY <3>2
      <4>3. n = 0 \/ more[n - 1] = kept[n - 1]
        BY <3>2
      <4> QED
        BY <4>1, <4>2, <4>3
    <3> QED
      BY <3>1, <3>2
  <2>3. more = [n \in 0..m |-> more[n]]
    OBVIOUS
  <2>4. Part(more, m)
    BY <2>2, <2>3
  <2> HIDE DEF Part, more
  <2>5. m \in Nat
    OBVIOUS
  <2> QED
    BY <2>4, <2>5
<1>3. PICK kept : Part(kept, m0)
  <2> HIDE DEF S, m0
  <2>1. \A m \in 1..m0 : m - 1 \in S => m \in S
    BY <1>2
  <2>2. 0..m0 \subseteq S
    BY <1>0, <1>1, <2>1, UpTo
  <2>3. m0 \in S
    BY <1>0, <2>2
  <2> QED
    BY <2>3 DEF S
<1>4. Loop(kept, list, type)
  BY <1>3 DEF Loop
<1> DEFINE last == CHOOSE g : Loop(g, list, type)
<1>5. Loop(last, list, type)
  BY <1>4
<1>6. Without(list, type) = last[Len(list)]
  BY DEF Without, Loop
<1> QED
  BY <1>5, <1>6

(* No type occurs twice.                                                   *)
Apart(list) == \A i, k \in DOMAIN list : list[i].type = list[k].type => i = k

(* One more element.                                                       *)
LEMMA AppendIs ==
  ASSUME NEW C, NEW list \in Seq(C), NEW c \in C
  PROVE  /\ Append(list, c) \in Seq(C)
         /\ Len(Append(list, c)) = Len(list) + 1
         /\ Range(Append(list, c)) = Range(list) \cup {c}
         /\ Apart(list) /\ (\A d \in Range(list) : d.type # c.type) => Apart(Append(list, c))
<1> DEFINE more == Append(list, c)
<1>1. /\ more \in Seq(C)
      /\ Len(more) = Len(list) + 1
      /\ DOMAIN more = 1..(Len(list) + 1) /\ DOMAIN list = 1..Len(list) /\ Len(list) \in Nat
      /\ more[Len(list) + 1] = c
      /\ \A i \in 1..Len(list) : more[i] = list[i]
  OBVIOUS
<1> HIDE DEF more
<1>2. Range(more) = Range(list) \cup {c}
  BY <1>1 DEF Range
<1>3. Apart(list) /\ (\A d \in Range(list) : d.type # c.type) => Apart(more)
  BY <1>1 DEF Range, Apart
<1> QED
  BY <1>1, <1>2, <1>3 DEF more

(* What the filter makes of a list.                                        *)
LEMMA WithoutIs ==
  ASSUME NEW C, NEW list \in Seq(C), NEW type
  PROVE  /\ Without(list, type) \in Seq(C)
         /\ Range(Without(list, type)) = {c \in Range(list) : c.type # type}
         /\ Len(Without(list, type)) = Len(list) <=> \A c \in Range(list) : c.type # type
         /\ Apart(list) => Apart(Without(list, type))
<1> DEFINE First(n) == {list[i] : i \in 1..n}
           Good(s, n) ==
             /\ s \in Seq(C)
             /\ Range(s) = {c \in First(n) : c.type # type}
             /\ Len(s) <= n
             /\ Len(s) = n <=> \A c \in First(n) : c.type # type
             /\ Apart(list) => Apart(s)
           m0 == Len(list)
<1>0. m0 \in Nat /\ DOMAIN list = 1..m0 /\ \A i \in 1..m0 : list[i] \in C
  OBVIOUS
<1>1. PICK kept : Loop(kept, list, type) /\ Without(list, type) = kept[m0]
  BY LoopEnds
<1> DEFINE S == {n \in 0..m0 : Good(kept[n], n)}
<1>6. \A n \in 0..m0 :
        kept[n] = IF n = 0 THEN <<>>
                  ELSE IF list[n].type = type THEN kept[n - 1]
                  ELSE Append(kept[n - 1], list[n])
  BY <1>1, Zenon DEF Loop
<1>2. 0 \in S
  <2>1. kept[0] = <<>>
    BY <1>0, <1>6
  <2>2. Good(<<>>, 0)
    BY DEF Range, Apart
  <2> HIDE DEF Good
  <2> QED
    BY <1>0, <2>1, <2>2
<1>3. ASSUME NEW n \in 1..m0, n - 1 \in S PROVE n \in S
  <2> DEFINE s == kept[n - 1]
             c == list[n]
  <2>1. kept[n] = IF c.type = type THEN s ELSE Append(s, c)
    <3> n \in 0..m0 /\ n # 0
      BY <1>0
    <3> QED
      BY <1>6
  <2>2. Good(s, n - 1) /\ c \in C
    BY <1>0, <1>3
  <2>3. First(n) = First(n - 1) \cup {c}
    <3>1. \A i \in 1..n : i \in 1..(n - 1) \/ i = n
      OBVIOUS
    <3>2. n \in 1..n /\ \A i \in 1..(n - 1) : i \in 1..n
      OBVIOUS
    <3> QED
      BY <3>1, <3>2
  <2>4. Apart(list) => \A d \in First(n - 1) : d.type # c.type
    BY <1>0 DEF Apart
  <2> HIDE DEF First, s, c
  <2>5. CASE c.type = type
    BY <2>1, <2>2, <2>3, <2>5, <1>0
  <2>6. CASE c.type # type
    <3>1. \A d \in Range(s) : d \in First(n - 1)
      BY <2>2
    <3>2. /\ Append(s, c) \in Seq(C)
          /\ Len(Append(s, c)) = Len(s) + 1
          /\ Range(Append(s, c)) = Range(s) \cup {c}
          /\ Apart(s) /\ (\A d \in Range(s) : d.type # c.type) => Apart(Append(s, c))
      BY <2>2, AppendIs
    <3>3. Apart(list) => Apart(Append(s, c))
      BY <2>2, <2>4, <3>1, <3>2
    <3>4. Range(Append(s, c)) = {d \in First(n) : d.type # type}
      BY <2>2, <2>3, <2>6, <3>2
    <3>5. Len(s) \in Nat
      BY <2>2
    <3>6. Good(Append(s, c), n)
      BY <2>2, <2>3, <2>6, <3>2, <3>3, <3>4, <3>5, <1>0
    <3>7. kept[n] = Append(s, c) /\ n \in 0..m0
      BY <2>1, <2>6, <1>0
    <3> HIDE DEF Good
    <3> QED
      BY <3>6, <3>7
  <2> QED
    BY <2>5, <2>6
<1>4. m0 \in S
  <2> HIDE DEF S, m0
  <2>1. \A n \in 1..m0 : n - 1 \in S => n \in S
    BY <1>3
  <2>2. 0..m0 \subseteq S
    BY <1>0, <1>2, <2>1, UpTo
  <2> QED
    BY <1>0, <2>2
<1>5. First(m0) = Range(list)
  BY <1>0 DEF Range
<1> QED
  BY <1>1, <1>4, <1>5

(* A condition takes the place of the one of its type, if there is one.    *)
LEMMA ReplacedIs ==
  ASSUME NEW C, NEW list \in Seq(C), NEW new \in C
  PROVE  /\ Append(Without(list, new.type), new) \in Seq(C)
         /\ Range(Append(Without(list, new.type), new)) =
              {c \in Range(list) : c.type # new.type} \cup {new}
         /\ Apart(list) => Apart(Append(Without(list, new.type), new))
<1> DEFINE kept == Without(list, new.type)
<1>1. /\ kept \in Seq(C)
      /\ Range(kept) = {c \in Range(list) : c.type # new.type}
      /\ Apart(list) => Apart(kept)
  BY WithoutIs
<1> HIDE DEF kept
<1>2. /\ Append(kept, new) \in Seq(C)
      /\ Range(Append(kept, new)) = Range(kept) \cup {new}
      /\ Apart(kept) /\ (\A c \in Range(kept) : c.type # new.type) => Apart(Append(kept, new))
  BY <1>1, AppendIs
<1> QED
  BY <1>1, <1>2 DEF kept

(* The condition new in the place of those of its type, the others as they *)
(* were.                                                                   *)
Replaces(list, new, updated) ==
  \A c : c \in Range(updated) <=> c = new \/ (c \in Range(list) /\ c.type # new.type)

(* UpdateCondition, for every list: with a condition of the type in it,    *)
(* the new one takes its place and all others stay; without one, the list  *)
(* stays as it is.  Types that occur once still do.                        *)
THEOREM UpdateConditionReplaces ==
  ASSUME NEW C, NEW list \in Seq(C), NEW new \in C
  PROVE  /\ UpdateCondition(list, new.type, new) \in Seq(C)
         /\ Apart(list) => Apart(UpdateCondition(list, new.type, new))
         /\ (\E c \in Range(list) : c.type = new.type) =>
              Replaces(list, new, UpdateCondition(list, new.type, new))
         /\ (\A c \in Range(list) : c.type # new.type) =>
              UpdateCondition(list, new.type, new) = list
<1> DEFINE kept == Without(list, new.type)
<1>1. Len(kept) = Len(list) <=> \A c \in Range(list) : c.type # new.type
  BY WithoutIs
<1>2. /\ Append(kept, new) \in Seq(C)
      /\ Range(Append(kept, new)) = {c \in Range(list) : c.type # new.type} \cup {new}
      /\ Apart(list) => Apart(Append(kept, new))
  BY ReplacedIs
<1>3. UpdateCondition(list, new.type, new) =
        IF Len(kept) = Len(list) THEN list ELSE Append(kept, new)
  BY DEF UpdateCondition
<1> HIDE DEF kept
<1>4. CASE Len(kept) = Len(list)
  <2>1. UpdateCondition(list, new.type, new) = list
    BY <1>3, <1>4
  <2> QED
    BY <1>1, <1>4, <2>1
<1>5. CASE Len(kept) # Len(list)
  <2>1. UpdateCondition(list, new.type, new) = Append(kept, new)
    BY <1>3, <1>5
  <2> QED
    BY <1>1, <1>2, <1>5, <2>1 DEF Replaces
<1> QED
  BY <1>4, <1>5

(* The case that the setters rely on, element by element.                  *)
LEMMA Updates ==
  ASSUME NEW C, NEW list \in Seq(C), NEW new \in C, Apart(list),
         NEW old \in Range(list), old.type = new.type,
         NEW updated, updated = UpdateCondition(list, new.type, new)
  PROVE  /\ updated \in Seq(C)
         /\ Apart(updated)
         /\ new \in Range(updated)
         /\ \A c \in Range(list) : c.type # new.type => c \in Range(updated)
<1>0. \E c \in Range(list) : c.type = new.type
  OBVIOUS
<1>1. Replaces(list, new, updated)
  BY <1>0, UpdateConditionReplaces
<1>2. updated \in Seq(C) /\ Apart(updated)
  BY UpdateConditionReplaces
<1> QED
  BY <1>1, <1>2 DEF Replaces

-------------------------------------------------------------------------------
(* The loops that look for a condition.                                    *)

(* A list has a true condition of one of these types iff it is among its   *)
(* elements.                                                               *)
LEMMA TrueConditionIs ==
  ASSUME NEW list, NEW types
  PROVE  ContainsAnyTrueCondition(list, types) <=>
           \E c \in Range(list) : c.type \in types /\ c.status = "True"
BY DEF ContainsAnyTrueCondition, Matches, Range

(* The type that the loop returns is that of a true condition in the list. *)
LEMMA HitIs ==
  ASSUME NEW C, NEW list \in Seq(C), NEW types, ContainsAnyTrueCondition(list, types)
  PROVE  \E c \in Range(list) :
           c.type \in types /\ c.status = "True" /\ Hit(list, types) = c.type
<1> DEFINE hits == Matches(list, "True", types)
           first == CHOOSE i \in hits : \A k \in hits : i <= k
<1>1. hits # {} /\ hits \in SUBSET Nat
  BY DEF ContainsAnyTrueCondition, Matches
<1>2. first \in hits
  <2> HIDE DEF hits
  <2>1. \E i \in hits : \A k \in hits : i <= k
    BY <1>1, LeastNumber
  <2> QED
    BY <2>1
<1>3. Hit(list, types) = list[first].type
  BY DEF Hit
<1>4. first \in DOMAIN list /\ list[first].type \in types /\ list[first].status = "True"
  <2> HIDE DEF first
  <2> QED
    BY <1>2 DEF Matches
<1> HIDE DEF first
<1> QED
  BY <1>3, <1>4 DEF Range

-------------------------------------------------------------------------------
(* The invariant.                                                          *)

JobCondition ==
  [type : {"Suspended", "SuccessCriteriaMet", "FailureTarget", "Complete", "Failed"},
   status : {"True", "False"}]

Truth(b) == IF b THEN "True" ELSE "False"

(* From the default conditions on, both verdicts are in the list, with the *)
(* status that the phase gives them.  (That UpdateCondition replaces what  *)
(* is there and adds nothing is the reason why this has to be known.)      *)
BothVerdicts ==
  /\ Cond("Created", Truth(phase = "created")) \in Range(conditions)
  /\ Cond("Failed", Truth(phase = "failed")) \in Range(conditions)

(* They are not when another program's condition came first.               *)
NoVerdicts ==
  /\ Range(conditions) # {}
  /\ \A c \in Range(conditions) : c.type \notin {"Created", "Failed"}

VerdictsSayPhase ==
  /\ phase = "nil" => conditions = <<>>
  /\ phase = "foreign" => NoVerdicts
  /\ phase \notin {"nil", "foreign"} => BothVerdicts

(* The Job says how it ended, and nothing before that.                     *)
JobSaysOutcome ==
  \A end \in {"Complete", "Failed"} : Cond(end, "True") \in Range(jobConditions) <=> outcome = end

ListsInv ==
  /\ UniqueTypes
  /\ jobConditions \in Seq(JobCondition)
  /\ phase \in {"nil", "foreign", "pending", "created", "failed"}
  /\ outcome \in {"Active", "Complete", "Failed"}
  /\ VerdictsSayPhase
  /\ JobSaysOutcome

(* Both setters: the two verdicts get their statuses, the other conditions *)
(* stay.                                                                   *)
LEMMA SettersAre ==
  ASSUME NEW list \in Seq(Condition), Apart(list),
         \E c \in Range(list) : c.type = "Created", \E c \in Range(list) : c.type = "Failed",
         NEW b \in BOOLEAN,
         NEW set, set = IF b THEN SetCreatedCondition(list) ELSE SetFailedCondition(list)
  PROVE  /\ set \in Seq(Condition)
         /\ Apart(set)
         /\ Cond("Created", Truth(b)) \in Range(set)
         /\ Cond("Failed", Truth(~b)) \in Range(set)
<1> DEFINE first == IF b THEN Cond("Created", "True") ELSE Cond("Failed", "True")
           second == IF b THEN Cond("Failed", "False") ELSE Cond("Created", "False")
           half == UpdateCondition(list, first.type, first)
<1>1. /\ first \in Condition /\ second \in Condition
      /\ first.type # second.type
      /\ {first.type, second.type} = {"Created", "Failed"}
  BY DEF Condition, Cond
<1>2. set = UpdateCondition(half, second.type, second)
  BY DEF SetCreatedCondition, SetFailedCondition, Cond
<1>3. {first, second} = {Cond("Created", Truth(b)), Cond("Failed", Truth(~b))}
  BY DEF Truth
<1> HIDE DEF first, second
<1> HIDE DEF half
<1>4. PICK one \in Range(list), other \in Range(list) :
        one.type = first.type /\ other.type = second.type
  BY <1>1
<1>5. /\ half \in Seq(Condition)
      /\ Apart(half)
      /\ first \in Range(half)
      /\ other \in Range(half)
  BY <1>1, <1>4, Updates DEF half
<1>6. /\ set \in Seq(Condition)
      /\ Apart(set)
      /\ second \in Range(set)
      /\ first \in Range(set)
  BY <1>1, <1>2, <1>4, <1>5, Updates
<1> QED
  BY <1>3, <1>6

(* Neither setter changes a list that has no verdict in it.                *)
LEMMA SettersAreVain ==
  ASSUME NEW list \in Seq(Condition), \A c \in Range(list) : c.type \notin {"Created", "Failed"}
  PROVE  SetCreatedCondition(list) = list /\ SetFailedCondition(list) = list
<1>1. ASSUME NEW new \in Condition, new.type \in {"Created", "Failed"}
      PROVE  UpdateCondition(list, new.type, new) = list
  <2>1. \A c \in Range(list) : c.type # new.type
    BY <1>1
  <2> QED
    BY <2>1, UpdateConditionReplaces
<1>2. \A type \in {"Created", "Failed"}, status \in {"True", "False"} :
        Cond(type, status) \in Condition /\ Cond(type, status).type = type
  BY DEF Cond, Condition
<1>3. \A type \in {"Created", "Failed"}, status \in {"True", "False"} :
        UpdateCondition(list, type, Cond(type, status)) = list
  BY <1>1, <1>2
<1> QED
  BY <1>3 DEF SetCreatedCondition, SetFailedCondition

(* Another program's condition, or the Job controller's, in its place.     *)
LEMMA OthersStay ==
  ASSUME NEW C, NEW list \in Seq(C), NEW new \in C
  PROVE  LET after == Append(Without(list, new.type), new)
         IN  /\ after \in Seq(C)
             /\ Apart(list) => Apart(after)
             /\ \A c : c.type # new.type => (c \in Range(after) <=> c \in Range(list))
             /\ new \in Range(after)
<1> DEFINE after == Append(Without(list, new.type), new)
<1>1. /\ after \in Seq(C)
      /\ Range(after) = {c \in Range(list) : c.type # new.type} \cup {new}
      /\ Apart(list) => Apart(after)
  BY ReplacedIs
<1> HIDE DEF after
<1>2. \A c : c.type # new.type => (c \in Range(after) <=> c \in Range(list))
  BY <1>1
<1> QED
  BY <1>1, <1>2 DEF after

LEMMA InitLists == Init => ListsInv
<1> SUFFICES ASSUME Init PROVE ListsInv
  OBVIOUS
<1>1. Range(<<>>) = {}
  BY DEF Range
<1> QED
  BY <1>1 DEF Init, ListsInv, UniqueTypes, VerdictsSayPhase, JobSaysOutcome

(* The Job controller sets a condition of this type.                       *)
LEMMA JobSetsIs ==
  ASSUME ListsInv, NEW c \in JobCondition, JobSets(c.type, c.status)
  PROVE  /\ jobConditions' \in Seq(JobCondition)
         /\ \A d \in JobCondition :
              d.type # c.type => (d \in Range(jobConditions)' <=> d \in Range(jobConditions))
         /\ c \in Range(jobConditions)'
<1>1. c = Cond(c.type, c.status)
  BY DEF JobCondition, Cond
<1>2. jobConditions' = Append(Without(jobConditions, c.type), c)
  BY <1>1 DEF JobSets
<1>3. jobConditions \in Seq(JobCondition)
  BY DEF ListsInv
<1>4. Range(jobConditions)' = Range(jobConditions')
  BY DEF Range
<1> QED
  BY <1>2, <1>3, <1>4, OthersStay

LEMMA NextLists == ListsInv /\ [Next]_vars => ListsInv'
<1> SUFFICES ASSUME ListsInv, [Next]_vars PROVE ListsInv'
  OBVIOUS
<1> USE DEF ListsInv
<1>0. Apart(conditions) /\ conditions \in Seq(Condition)
  BY DEF UniqueTypes, Apart
<1>1. CASE SetDefaults
  <2>1. /\ DefaultConditions \in Seq(Condition)
        /\ Apart(DefaultConditions)
        /\ Range(DefaultConditions) = {Cond("Created", "False"), Cond("Failed", "False")}
    BY DEF DefaultConditions, Condition, Cond, Apart, Range
  <2>2. UniqueTypes'
    BY <1>1, <2>1 DEF SetDefaults, UniqueTypes, Apart
  <2>3. VerdictsSayPhase'
    <3>1. Truth(phase' = "created") = "False" /\ Truth(phase' = "failed") = "False"
      BY <1>1 DEF SetDefaults, Truth
    <3>2. Range(conditions)' = Range(DefaultConditions) /\ phase' = "pending"
      BY <1>1 DEF SetDefaults, Range
    <3> QED
      BY <2>1, <3>1, <3>2 DEF VerdictsSayPhase, BothVerdicts
  <2>4. JobSaysOutcome'
    BY <1>1 DEF SetDefaults, JobSaysOutcome, Range
  <2> QED
    BY <1>1, <2>2, <2>3, <2>4 DEF SetDefaults
<1>2. CASE CheckCreateJobStatus
  <2> DEFINE types == {"Complete", "Failed"}
             b == outcome = "Complete"
  <2>1. Hit(jobConditions, types) = outcome
    <3>1. PICK c \in Range(jobConditions) :
            c.type \in types /\ c.status = "True" /\ Hit(jobConditions, types) = c.type
      BY <1>2, HitIs DEF CheckCreateJobStatus
    <3>2. c \in JobCondition
      BY DEF Range
    <3>3. c = Cond(c.type, "True")
      BY <3>1, <3>2 DEF Cond, JobCondition
    <3> QED
      BY <3>1, <3>3 DEF JobSaysOutcome
  <2>0. CASE phase = "foreign"
    <3>1. NoVerdicts
      BY <2>0 DEF VerdictsSayPhase
    <3>2. conditions' = conditions /\ phase' = phase /\ UNCHANGED <<jobConditions, outcome>>
      BY <1>0, <1>2, <2>0, <3>1, SettersAreVain DEF CheckCreateJobStatus, NoVerdicts
    <3> QED
      BY <3>2 DEF UniqueTypes, VerdictsSayPhase, BothVerdicts, NoVerdicts, JobSaysOutcome, Range
  <2>20. SUFFICES ASSUME phase # "foreign" PROVE ListsInv'
    BY <2>0
  <2>21. BothVerdicts
    BY <1>2, <2>20 DEF CheckCreateJobStatus, VerdictsSayPhase
  <2>2. /\ \E c \in Range(conditions) : c.type = "Created"
        /\ \E c \in Range(conditions) : c.type = "Failed"
    BY <2>21 DEF BothVerdicts, Cond
  <2>3. /\ conditions' = IF b THEN SetCreatedCondition(conditions) ELSE SetFailedCondition(conditions)
        /\ outcome \in types
    BY <1>2, <2>1 DEF CheckCreateJobStatus
  <2>4. /\ conditions' \in Seq(Condition)
        /\ Apart(conditions')
        /\ Cond("Created", Truth(b)) \in Range(conditions')
        /\ Cond("Failed", Truth(~b)) \in Range(conditions')
    <3> HIDE DEF b
    <3> b \in BOOLEAN
      BY DEF b
    <3> QED
      BY <1>0, <2>2, <2>3, SettersAre
  <2>5. phase' = (IF b THEN "created" ELSE "failed") /\ UNCHANGED <<jobConditions, outcome>>
    BY <1>2, <2>20 DEF CheckCreateJobStatus
  <2>6. UniqueTypes'
    BY <2>4 DEF UniqueTypes, Apart
  <2>7. VerdictsSayPhase'
    <3>1. Range(conditions)' = Range(conditions')
      BY DEF Range
    <3>2. CASE b
      <4>1. phase' = "created"
        BY <2>5, <3>2
      <4>2. Cond("Created", "True") \in Range(conditions') /\ Cond("Failed", "False") \in Range(conditions')
        BY <2>4, <3>2 DEF Truth
      <4> QED
        BY <3>1, <4>1, <4>2 DEF VerdictsSayPhase, BothVerdicts, Truth
    <3>3. CASE ~b
      <4>1. phase' = "failed"
        BY <2>5, <3>3
      <4>2. Cond("Created", "False") \in Range(conditions') /\ Cond("Failed", "True") \in Range(conditions')
        BY <2>4, <3>3 DEF Truth
      <4> QED
        BY <3>1, <4>1, <4>2 DEF VerdictsSayPhase, BothVerdicts, Truth
    <3> QED
      BY <3>2, <3>3
  <2>8. JobSaysOutcome'
    BY <2>5 DEF JobSaysOutcome, Range
  <2> QED
    BY <2>5, <2>6, <2>7, <2>8
<1>3. ASSUME NEW type \in Others, NEW status \in {"True", "False"}, OtherSets(type, status)
      PROVE  ListsInv'
  <2> DEFINE new == Cond(type, status)
  <2>1. new \in Condition /\ new.type = type /\ type \notin {"Created", "Failed"}
    BY OthersAssumption DEF Cond, Condition
  <2>2. conditions' = Append(Without(conditions, new.type), new)
    BY <1>3, <2>1 DEF OtherSets
  <2> HIDE DEF new
  <2>3. /\ conditions' \in Seq(Condition)
        /\ Apart(conditions')
        /\ \A c : c.type # new.type => (c \in Range(conditions') <=> c \in Range(conditions))
        /\ new \in Range(conditions')
    BY <1>0, <2>1, <2>2, OthersStay
  <2>4. UniqueTypes'
    BY <2>3 DEF UniqueTypes, Apart
  <2>5. VerdictsSayPhase'
    <3>1. Range(conditions)' = Range(conditions')
      BY DEF Range
    <3>3. phase \in {"nil", "foreign"} => phase' = "foreign" /\ NoVerdicts'
      <4> SUFFICES ASSUME phase \in {"nil", "foreign"} PROVE phase' = "foreign" /\ NoVerdicts'
        OBVIOUS
      <4>1. phase' = "foreign"
        BY <1>3 DEF OtherSets
      <4>2. \A c \in Range(conditions) : c.type \notin {"Created", "Failed"}
        BY DEF VerdictsSayPhase, NoVerdicts, Range
      <4>3. \A c \in Range(conditions') : c.type \notin {"Created", "Failed"}
        BY <2>1, <2>3, <4>2
      <4> QED
        BY <2>3, <3>1, <4>1, <4>3 DEF NoVerdicts
    <3>4. phase \notin {"nil", "foreign"} => phase' = phase
      BY <1>3 DEF OtherSets
    <3>2. \A type2 \in {"Created", "Failed"}, b \in {"True", "False"} :
            Cond(type2, b) \in Range(conditions') <=> Cond(type2, b) \in Range(conditions)
      BY <2>1, <2>3 DEF Cond
    <3> QED
      BY <3>1, <3>2, <3>3, <3>4 DEF VerdictsSayPhase, BothVerdicts, Truth
  <2>6. JobSaysOutcome'
    BY <1>3 DEF OtherSets, JobSaysOutcome, Range
  <2> QED
    BY <1>3, <2>4, <2>5, <2>6 DEF OtherSets
<1>4. ASSUME NEW c \in JobCondition, c.type \notin {"Complete", "Failed"}, outcome = "Active",
             JobSets(c.type, c.status), UNCHANGED <<conditions, phase, outcome>>
      PROVE  ListsInv'
  <2>1. /\ jobConditions' \in Seq(JobCondition)
        /\ \A d \in JobCondition :
             d.type # c.type => (d \in Range(jobConditions)' <=> d \in Range(jobConditions))
    BY <1>4, JobSetsIs
  <2>2. \A end \in {"Complete", "Failed"} :
          Cond(end, "True") \in JobCondition /\ Cond(end, "True").type = end
    BY DEF Cond, JobCondition
  <2>3. JobSaysOutcome'
    BY <1>4, <2>1, <2>2 DEF JobSaysOutcome
  <2>4. UniqueTypes' /\ VerdictsSayPhase'
    BY <1>4 DEF UniqueTypes, VerdictsSayPhase, BothVerdicts, NoVerdicts, Range
  <2> QED
    BY <1>4, <2>1, <2>3, <2>4
<1>5. CASE JobSuspends
  <2>1. PICK status \in {"True", "False"} : JobSets("Suspended", status)
    BY <1>5 DEF JobSuspends
  <2> DEFINE c == Cond("Suspended", status)
  <2>2. c \in JobCondition /\ c.type = "Suspended" /\ c.status = status
    BY DEF Cond, JobCondition
  <2> HIDE DEF c
  <2> QED
    BY <1>4, <1>5, <2>1, <2>2 DEF JobSuspends
<1>6. CASE JobAnnounces
  <2>1. PICK type \in {"SuccessCriteriaMet", "FailureTarget"} : JobSets(type, "True")
    BY <1>6 DEF JobAnnounces
  <2> DEFINE c == Cond(type, "True")
  <2>2. c \in JobCondition /\ c.type = type /\ c.status = "True"
    BY DEF Cond, JobCondition
  <2> HIDE DEF c
  <2> QED
    BY <1>4, <1>6, <2>1, <2>2 DEF JobAnnounces
<1>7. CASE JobFinishes
  <2>1. PICK end \in {"Complete", "Failed"} : JobSets(end, "True") /\ outcome' = end
    BY <1>7 DEF JobFinishes
  <2> DEFINE c == Cond(end, "True")
  <2>2. c \in JobCondition /\ c.type = end /\ c.status = "True"
    BY DEF Cond, JobCondition
  <2>3. /\ jobConditions' \in Seq(JobCondition)
        /\ \A d \in JobCondition :
             d.type # end => (d \in Range(jobConditions)' <=> d \in Range(jobConditions))
        /\ c \in Range(jobConditions)'
    <3> HIDE DEF c
    <3> QED
      BY <2>1, <2>2, JobSetsIs
  <2>4. \A other \in {"Complete", "Failed"} :
          Cond(other, "True") \in JobCondition /\ Cond(other, "True").type = other
    BY DEF Cond, JobCondition
  <2>5. JobSaysOutcome'
    BY <1>7, <2>1, <2>3, <2>4 DEF JobFinishes, JobSaysOutcome
  <2>6. UniqueTypes' /\ VerdictsSayPhase'
    BY <1>7 DEF JobFinishes, UniqueTypes, VerdictsSayPhase, BothVerdicts, NoVerdicts, Range
  <2> QED
    BY <1>7, <2>1, <2>3, <2>5, <2>6 DEF JobFinishes
<1>8. CASE UNCHANGED vars
  BY <1>8 DEF vars, UniqueTypes, VerdictsSayPhase, BothVerdicts, NoVerdicts, JobSaysOutcome, Range
<1> QED
  BY <1>1, <1>2, <1>3, <1>5, <1>6, <1>7, <1>8 DEF Next

(* The list says what the phase says, and the Job what its outcome is.     *)
LEMMA ListsSayPhase == ListsInv => PhaseIsFaithful
<1> SUFFICES ASSUME ListsInv PROVE PhaseIsFaithful
  OBVIOUS
<1>1. Apart(conditions) /\ conditions \in Seq(Condition)
  BY DEF ListsInv, UniqueTypes, Apart
<1>2. ASSUME NEW type, NEW s, Cond(type, s) \in Range(conditions)
      PROVE  /\ ContainsAnyTrueCondition(conditions, {type}) <=> s = "True"
             /\ \E i \in DOMAIN conditions : conditions[i].type = type
  <2>1. PICK i \in DOMAIN conditions : conditions[i] = Cond(type, s)
    BY <1>2 DEF Range
  <2>2. conditions[i].type = type /\ conditions[i].status = s
    BY <2>1 DEF Cond
  <2>3. ContainsAnyTrueCondition(conditions, {type}) <=>
          \E c \in Range(conditions) : c.type = type /\ c.status = "True"
    BY TrueConditionIs
  <2> QED
    BY <1>1, <2>2, <2>3 DEF Range, Apart
<1>3. phase \notin {"nil", "foreign"} =>
        /\ IsCreated(conditions) <=> phase = "created"
        /\ IsFailed(conditions) <=> phase = "failed"
        /\ HasType("Created") /\ HasType("Failed")
        /\ conditions # <<>>
  <2> SUFFICES ASSUME phase \notin {"nil", "foreign"}
               PROVE  /\ IsCreated(conditions) <=> phase = "created"
                      /\ IsFailed(conditions) <=> phase = "failed"
                      /\ HasType("Created") /\ HasType("Failed")
                      /\ conditions # <<>>
    OBVIOUS
  <2>1. /\ Cond("Created", Truth(phase = "created")) \in Range(conditions)
        /\ Cond("Failed", Truth(phase = "failed")) \in Range(conditions)
    BY DEF ListsInv, VerdictsSayPhase, BothVerdicts
  <2>2. \A b : Truth(b) = "True" <=> b
    BY DEF Truth
  <2>3. ContainsAnyTrueCondition(conditions, {"Created"}) <=> phase = "created"
    BY <1>2, <2>1, <2>2
  <2>4. ContainsAnyTrueCondition(conditions, {"Failed"}) <=> phase = "failed"
    BY <1>2, <2>1, <2>2
  <2>5. HasType("Created") /\ HasType("Failed")
    BY <1>2, <2>1 DEF HasType
  <2>6. conditions # <<>>
    BY <2>5 DEF HasType
  <2> QED
    BY <2>3, <2>4, <2>5, <2>6 DEF IsCreated, IsFailed
<1>4. phase \in {"nil", "foreign"} =>
        /\ \A c \in Range(conditions) : c.type \notin {"Created", "Failed"}
        /\ conditions = <<>> <=> phase = "nil"
  <2>1. phase = "nil" => conditions = <<>> /\ Range(conditions) = {}
    BY DEF ListsInv, VerdictsSayPhase, Range
  <2>2. phase = "foreign" => NoVerdicts
    BY DEF ListsInv, VerdictsSayPhase
  <2>3. Range(conditions) # {} => conditions # <<>>
    BY DEF Range
  <2> QED
    BY <2>1, <2>2, <2>3 DEF NoVerdicts
<1>5. phase \in {"nil", "foreign"} =>
        /\ ~IsCreated(conditions) /\ ~IsFailed(conditions)
        /\ ~HasType("Created") /\ ~HasType("Failed")
  <2>1. \A type : HasType(type) => \E c \in Range(conditions) : c.type = type
    BY DEF HasType, Range
  <2> QED
    BY <1>4, <2>1, TrueConditionIs DEF IsCreated, IsFailed
<1>6. ASSUME NEW end \in {"Complete", "Failed"}
      PROVE  ContainsAnyTrueCondition(jobConditions, {end}) <=> outcome = end
  <2>1. \A c \in Range(jobConditions) : c.type = end /\ c.status = "True" <=> c = Cond(end, "True")
    <3>1. \A c \in Range(jobConditions) : c \in JobCondition
      BY DEF ListsInv, Range
    <3> QED
      BY <3>1 DEF JobCondition, Cond
  <2>2. ContainsAnyTrueCondition(jobConditions, {end}) <=>
          \E c \in Range(jobConditions) : c.type = end /\ c.status = "True"
    BY TrueConditionIs
  <2> QED
    BY <2>1, <2>2 DEF ListsInv, JobSaysOutcome
<1> QED
  BY <1>3, <1>4, <1>5, <1>6 DEF PhaseIsFaithful

(* The two properties that MCConditions checks for two foreign types.      *)
LEMMA ListsHold == Spec => []ListsInv
<1> QED
  BY InitLists, NextLists, PTL DEF Spec

(* For every set of foreign types: no type of condition occurs twice in a  *)
(* status, whatever programs write to it in whatever order.                *)
THEOREM ListsAreMaps == Spec => []UniqueTypes
<1>1. ListsInv => UniqueTypes
  BY DEF ListsInv
<1> QED
  BY <1>1, ListsHold, PTL

(* For every set of foreign types and any number of their changes: the     *)
(* condition list and the phase say the same, so that what is shown of the *)
(* controllers with a phase holds of their lists, as long as no other      *)
(* program writes the first condition; if one does, there is no verdict.   *)
THEOREM PhasesFaithful == Spec => []PhaseIsFaithful
<1> QED
  BY ListsSayPhase, ListsHold, PTL
===============================================================================
