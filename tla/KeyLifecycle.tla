----------------------------- MODULE KeyLifecycle -----------------------------
(***************************************************************************)
(* The life of a Key as its readers see it: the abstract specification     *)
(* that module Key implements.  The controller, users and the garbage      *)
(* collector all write Keys, from copies of any age; together they change  *)
(* a Key only in these ways.                                               *)
(***************************************************************************)
EXTENDS Naturals

CONSTANTS
  Names,   \* the names of Keys
  KeyIds,  \* the IDs that restic can give to a key
  None     \* no ID

(* Conditions Created and Failed: not set yet, both False, one of them     *)
(* True.                                                                   *)
Phases == {"nil", "pending", "created", "failed"}

(* uid tells apart the Keys that bear one name one after the other; 0 says *)
(* that there is none.                                                     *)
KeyViews == [uid : Nat, phase : Phases, keyID : KeyIds \cup {None}, finalizer : BOOLEAN,
             deleting : {"no", "background", "foreground"}]

NoView == [uid |-> 0, phase |-> "nil", keyID |-> None, finalizer |-> FALSE, deleting |-> "no"]

(* The default conditions come first, also to a Key that is going already. *)
Initialised(v) == IF v.phase = "nil" THEN {[v EXCEPT !.phase = "pending"]} ELSE {}

(* Only then, and only once, the outcome: Created brings the ID with it.   *)
Decided(v) ==
  IF v.phase = "pending" /\ v.deleting = "no"
  THEN {[v EXCEPT !.phase = "created", !.keyID = id] : id \in KeyIds} \cup {[v EXCEPT !.phase = "failed"]}
  ELSE {}

(* The finalizer holds a Key that has its conditions and no outcome.       *)
Held(v) ==
  IF v.phase = "pending" /\ v.deleting = "no" THEN {[v EXCEPT !.finalizer = TRUE]} ELSE {}

(* A deletion that has something to wait for, once and for all.            *)
Marked(v) ==
  IF v.deleting = "no"
  THEN {[v EXCEPT !.deleting = policy] :
          policy \in {"foreground"} \cup (IF v.finalizer THEN {"background"} ELSE {})}
  ELSE {}

(* The finalizer is released for a deletion that waits for more.           *)
Released(v) ==
  IF v.finalizer /\ v.deleting = "foreground" THEN {[v EXCEPT !.finalizer = FALSE]} ELSE {}

(* The Key goes: released, or it was never held.                           *)
Gone(v) == IF ~v.finalizer \/ v.deleting = "background" THEN {NoView} ELSE {}

-------------------------------------------------------------------------------
VARIABLES
  view,  \* name -> the Key of that name
  born   \* name -> how many Keys of that name there have been

vars == <<view, born>>

Init ==
  /\ view = [n \in Names |-> NoView]
  /\ born = [n \in Names |-> 0]

Create(n) ==
  /\ view[n].uid = 0
  /\ view' = [view EXCEPT ![n] = [NoView EXCEPT !.uid = born[n] + 1]]
  /\ born' = [born EXCEPT ![n] = @ + 1]

Successors(v) ==
  Initialised(v) \cup Decided(v) \cup Held(v) \cup Marked(v) \cup Released(v) \cup Gone(v)

Change(n) ==
  /\ view[n].uid # 0
  /\ \E v \in Successors(view[n]) : view' = [view EXCEPT ![n] = v]
  /\ UNCHANGED born

Next == \E n \in Names : Create(n) \/ Change(n)

Spec == Init /\ [][Next]_vars
===============================================================================
