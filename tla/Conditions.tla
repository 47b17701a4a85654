------------------------------ MODULE Conditions ------------------------------
(***************************************************************************)
(* The lists of conditions in the status of objects, and how the operator  *)
(* reads and rewrites them (internal/conditions/conditions.go and the      *)
(* condition setters of api/v1).  The other modules keep one phase in      *)
(* place of the list; this module shows that they may.                     *)
(*                                                                         *)
(* A condition is its type and status.  Reasons, messages and transition   *)
(* times are left out: no decision of the operator reads them.             *)
(*                                                                         *)
(* The phase of the other modules has one value less than the lists need:  *)
(* "foreign", for an object whose first condition another program wrote,   *)
(* before Reconcile came to it.  Such an object never gets the default     *)
(* conditions, nor, UpdateCondition adding nothing, a verdict.             *)
(***************************************************************************)
EXTENDS Naturals, Sequences

CONSTANTS
  Others  \* types of conditions that other programs may add to a status

ASSUME OthersAssumption == Others \cap {"Created", "Failed"} = {}

Condition == [type : {"Created", "Failed"} \cup Others, status : {"True", "False"}]

Cond(type, status) == [type |-> type, status |-> status]

-------------------------------------------------------------------------------
(* internal/conditions.  A loop that returns at the first match finds one  *)
(* iff there is one; Hit is the type that the loop returns.                *)

MatchesMutant(conditions, status, types) == {i \in DOMAIN conditions : conditions[i].type \in types}
Matches(conditions, status, types) ==
  {i \in DOMAIN conditions : conditions[i].type \in types /\ conditions[i].status = status}

ContainsAnyTrueCondition(conditions, types) == Matches(conditions, "True", types) # {}

Hit(conditions, types) ==
  LET hits == Matches(conditions, "True", types)
  IN  conditions[CHOOSE i \in hits : \A k \in hits : i <= k].type

(* lo.Filter: the conditions of other types, in their order.               *)
Without(conditions, type) ==
  LET kept[n \in 0..Len(conditions)] ==
        IF n = 0 THEN <<>>
        ELSE IF conditions[n].type = type THEN kept[n - 1]
        ELSE Append(kept[n - 1], conditions[n])
  IN  kept[Len(conditions)]

(* A condition of this type, if there is one, is dropped and the new one   *)
(* is put at the end; without one the list stays as it is.                 *)
UpdateConditionMutant(conditions, type, new) == Append(conditions, new)
UpdateCondition(conditions, type, new) ==
  LET kept == Without(conditions, type)
  IN  IF Len(kept) = Len(conditions) THEN conditions ELSE Append(kept, new)

-------------------------------------------------------------------------------
(* The setters of Repository and Key (they are the same but for wording).  *)

DefaultConditions == <<Cond("Created", "False"), Cond("Failed", "False")>>

IsCreated(conditions) == ContainsAnyTrueCondition(conditions, {"Created"})

IsFailed(conditions) == ContainsAnyTrueCondition(conditions, {"Failed"})

SetFailedCondition(conditions) ==
  UpdateCondition(
    UpdateCondition(conditions, "Failed", Cond("Failed", "True")),
    "Created", Cond("Created", "False"))

SetCreatedCondition(conditions) ==
  UpdateCondition(
    UpdateCondition(conditions, "Created", Cond("Created", "True")),
    "Failed", Cond("Failed", "False"))

-------------------------------------------------------------------------------
VARIABLES
  conditions,     \* status.conditions of a Repository or Key, <<>> for nil
  jobConditions,  \* status.conditions of its Job
  phase,          \* the phase that Repository and Key keep instead
  outcome         \* the Job state that Repository and Key keep instead

vars == <<conditions, jobConditions, phase, outcome>>

Init ==
  /\ conditions = <<>>
  /\ jobConditions = <<>>
  /\ phase = "nil"
  /\ outcome = "Active"

(* SetDefaultConditions changes nothing unless there are no conditions,    *)
(* its own or another program's.                                           *)
SetDefaults ==
  /\ conditions = <<>>
  /\ conditions' = DefaultConditions
  /\ phase' = "pending"
  /\ UNCHANGED <<jobConditions, outcome>>

(* checkCreateJobStatus, behind the test for an undecided object: what it  *)
(* does follows the type that JobHasAnyTrueCondition returns.              *)
CheckCreateJobStatus ==
  /\ conditions # <<>>
  /\ ~IsCreated(conditions) /\ ~IsFailed(conditions)
  /\ ContainsAnyTrueCondition(jobConditions, {"Complete", "Failed"})
  /\ \/ /\ Hit(jobConditions, {"Complete", "Failed"}) = "Failed"
        /\ conditions' = SetFailedCondition(conditions)
     \/ /\ Hit(jobConditions, {"Complete", "Failed"}) = "Complete"
        /\ conditions' = SetCreatedCondition(conditions)
  /\ phase' = IF phase = "foreign" THEN phase
              ELSE IF outcome = "Complete" THEN "created" ELSE "failed"
  /\ UNCHANGED <<jobConditions, outcome>>

(* Another program keeps a condition of its own in the same status.        *)
OtherSets(type, status) ==
  /\ conditions' = Append(Without(conditions, type), Cond(type, status))
  /\ phase' = IF phase = "nil" THEN "foreign" ELSE phase
  /\ UNCHANGED <<jobConditions, outcome>>

(* The Job controller: a Job may be suspended and resumed; before it is    *)
(* finished, a condition announces how it will end.                        *)
JobSets(type, status) ==
  jobConditions' = Append(Without(jobConditions, type), Cond(type, status))

JobSuspends ==
  /\ outcome = "Active"
  /\ \E status \in {"True", "False"} : JobSets("Suspended", status)
  /\ UNCHANGED <<conditions, phase, outcome>>

JobAnnounces ==
  /\ outcome = "Active"
  /\ ~ContainsAnyTrueCondition(jobConditions, {"SuccessCriteriaMet", "FailureTarget"})
  /\ \E type \in {"SuccessCriteriaMet", "FailureTarget"} : JobSets(type, "True")
  /\ UNCHANGED <<conditions, phase, outcome>>

JobFinishes ==
  /\ outcome = "Active"
  /\ \E end \in {"Complete", "Failed"} :
       /\ ContainsAnyTrueCondition(jobConditions,
            {IF end = "Complete" THEN "SuccessCriteriaMet" ELSE "FailureTarget"})
       /\ JobSets(end, "True")
       /\ outcome' = end
  /\ UNCHANGED <<conditions, phase>>

Next ==
  \/ SetDefaults
  \/ CheckCreateJobStatus
  \/ \E type \in Others, status \in {"True", "False"} : OtherSets(type, status)
  \/ JobSuspends
  \/ JobAnnounces
  \/ JobFinishes

Spec == Init /\ [][Next]_vars

-------------------------------------------------------------------------------
(* Properties.                                                             *)

(* Conditions are a list map (+listType=map, +listMapKey=type in api/v1):  *)
(* the API server would refuse a status in which a type occurs twice.      *)
UniqueTypes ==
  /\ conditions \in Seq(Condition)
  /\ \A i, k \in DOMAIN conditions : conditions[i].type = conditions[k].type => i = k

HasType(type) == \E i \in DOMAIN conditions : conditions[i].type = type

(* The list says what the phase says, and the decisions made from the list *)
(* are those made from the phase.  Created and Failed are both there from  *)
(* the first Status().Update on, are never both True, follow the Job's     *)
(* outcome, and other conditions in either list do not blur them; unless   *)
(* another program's condition came first: then neither is ever there, and *)
(* the object is neither created nor failed, however its Job ends.         *)
PhaseIsFaithful ==
  /\ IsCreated(conditions) <=> phase = "created"
  /\ IsFailed(conditions) <=> phase = "failed"
  /\ \A type \in {"Created", "Failed"} : HasType(type) <=> phase \notin {"nil", "foreign"}
  /\ conditions = <<>> <=> phase = "nil"
  /\ ContainsAnyTrueCondition(jobConditions, {"Complete"}) <=> outcome = "Complete"
  /\ ContainsAnyTrueCondition(jobConditions, {"Failed"}) <=> outcome = "Failed"
===============================================================================
