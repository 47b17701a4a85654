---------------------------- MODULE RepoLifecycle -----------------------------
(***************************************************************************)
(* What the rest of the operator may rely on about Repository objects.     *)
(* The key controller and the forget-schedule controller read Repository   *)
(* objects that the repository controller, users and the garbage collector *)
(* write.  This is the abstract specification of those writes: module      *)
(* Repository implements it, and module Key takes it as its environment.   *)
(* ForgetSchedules bear the same conditions, and module ForgetSchedule     *)
(* implements it for them.                                                 *)
(***************************************************************************)
EXTENDS Naturals

CONSTANT Names  \* the names of the Repository objects

(* The conditions of a Repository, as SetDefaultConditions,                *)
(* SetCreatedCondition and SetFailedCondition leave them: not set yet,     *)
(* both False, only Created True, only Failed True.                        *)
Phases == {"nil", "pending", "created", "failed"}

(* A Repository as its readers see it.  uid tells apart the objects that   *)
(* bear one name one after the other; 0 says that there is none.           *)
RepoViews == [uid : Nat, phase : Phases, deleting : BOOLEAN]

NoView == [uid |-> 0, phase |-> "nil", deleting |-> FALSE]

(* The phases that one Status().Update of the controller can lead to.      *)
Onward(phase) ==
  CASE phase = "nil" -> {"pending"}
    [] phase = "pending" -> {"created", "failed"}
    [] OTHER -> {}

(* A user creates the Repository; the API server gives it the fresh uid u. *)
Appears(v, u) == IF v.uid = 0 THEN {[NoView EXCEPT !.uid = u]} ELSE {}

(* The controller records progress in the status.                          *)
Progresses(v) == IF v.uid = 0 THEN {} ELSE {[v EXCEPT !.phase = p] : p \in Onward(v.phase)}

(* The deletion timestamp is set (foreground deletion), once and for all.  *)
StartsDeletion(v) == IF v.uid = 0 THEN {} ELSE {[v EXCEPT !.deleting = TRUE]}

(* The object is removed.                                                  *)
Vanishes(v) == IF v.uid = 0 THEN {} ELSE {NoView}

-------------------------------------------------------------------------------
VARIABLES
  view,  \* name -> the Repository of that name
  born   \* name -> how many Repositories of that name there have been

vars == <<view, born>>

Init ==
  /\ view = [n \in Names |-> NoView]
  /\ born = [n \in Names |-> 0]

Create(n) ==
  /\ \E v \in Appears(view[n], born[n] + 1) : view' = [view EXCEPT ![n] = v]
  /\ born' = [born EXCEPT ![n] = @ + 1]

Change(n) ==
  /\ \E v \in Progresses(view[n]) \cup StartsDeletion(view[n]) \cup Vanishes(view[n]) :
       view' = [view EXCEPT ![n] = v]
  /\ UNCHANGED born

Next == \E n \in Names : Create(n) \/ Change(n)

Spec == Init /\ [][Next]_vars
===============================================================================
