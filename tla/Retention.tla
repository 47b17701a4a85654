------------------------------- MODULE Retention -------------------------------
(***************************************************************************)
(* What a ForgetSchedule asks of restic: six counts of snapshots to keep,  *)
(* as the API server, the webhook and the script of the CronJob each read  *)
(* them.                                                                   *)
(***************************************************************************)
EXTENDS Integers

CONSTANT HalfRange  \* a Go int has twice as many values: 2^63 on 64 bits

ASSUME HalfRangeAssumption == HalfRange \in Nat \ {0}

(* omitempty, and Minimum=1 in the resource definition: a count is absent, *)
(* which reads as 0, or positive.                                          *)
Counts == 0 .. HalfRange - 1

(* The fields keepLast, ..., keepYearly of ForgetScheduleSpec.             *)
Policy == [last : Counts, hourly : Counts, daily : Counts,
           weekly : Counts, monthly : Counts, yearly : Counts]

(* The sum of validateForgetScheduleSpec, in Go's arithmetic.              *)
GoSum(keep) ==
  (keep.last + keep.hourly + keep.daily + keep.weekly + keep.monthly + keep.yearly) % (2 * HalfRange)

(* "at least one of keepLast, ... must be set".                            *)
KeepsSomethingMutant(keep) == TRUE
KeepsSomething(keep) == GoSum(keep) # 0

(* The --keep options that forgetJobScript writes.                         *)
Options(keep) == {rule \in DOMAIN keep : keep[rule] > 0}
===============================================================================
