--------------------------- MODULE MCForgetSchedule ---------------------------
(* Small instances of ForgetSchedule for TLC.                              *)
EXTENDS ForgetSchedule

CONSTANTS r1, r2

Keep(last, hourly, daily) ==
  [last |-> last, hourly |-> hourly, daily |-> daily, weekly |-> 0, monthly |-> 0, yearly |-> 0]

Wanted(repo, cron, keep) == [repo |-> repo, cron |-> cron, keep |-> keep]

(* Specs that differ where the code looks: two that work, one for each     *)
(* Repository, and one for each reason to be refused: by the webhook for   *)
(* its schedule, because it keeps nothing, because its sum wraps to zero;  *)
(* and by the API server for its schedule.                                 *)
MCSpecs ==
  {Wanted(r1, "plain", Keep(1, 0, 0)),
   Wanted(r2, "plain", Keep(0, 0, 2)),
   Wanted(r1, "extended", Keep(1, 0, 0)),
   Wanted(r1, "bad", Keep(1, 0, 0)),
   Wanted(r1, "plain", Keep(0, 0, 0)),
   Wanted(r1, "plain", Keep(3, 3, 2))}
===============================================================================
