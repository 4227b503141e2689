------------------------------ MODULE MCScheduler -----------------------------
(* Each kind of background work on its smallest interesting instance.      *)
(* KeyReminders keeps its hours; the days of UserFunnels are scaled down.  *)
EXTENDS Scheduler, TLC

CONSTANTS e1, e2, e3, w1, w2, v1, v2

MCRenewAt == {20, -2}
MCLastLeft == -26
MCTtl == ("cold_lead" :> 3) @@ ("referral_bonus" :> 1) @@ ("trial_unused" :> 1)
            @@ ("referral_reminder" :> 2)
MCStepOffsets == <<1, 2, 3>>
MCMonthDays == (0 :> 1) @@ (1 :> 2) @@ (2 :> 3) @@ (3 :> 1) @@ (4 :> 2)
MCWorkers == {w1, w2}
=============================================================================
