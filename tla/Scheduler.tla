------------------------------ MODULE Scheduler -------------------------------
(***************************************************************************)
(* The background work of the backend, and the reports read beside it: the *)
(* funnels about keys, the funnels about users, the registry of            *)
(* synchronisations, the mass renewal and the admin's reports.  They run   *)
(* in one process but share no state these modules keep, so a behaviour    *)
(* exercises one of them: their product would show nothing more.           *)
(***************************************************************************)
EXTENDS KeyReminders, UserFunnels, SyncJobs, BulkRenewal, Reports

CONSTANT Families       \* those this instance exercises
VARIABLES
    family,
    specimen            \* a key to be classed

\* About each bound of a segment, of each tariff, used and not.
Specimens ==
    [left : UNION {{Days(n) - 1, Days(n), Days(n) + 1} : n \in {0, 1, 2, 3, 7, 30}}
                \cup {9, 10, 11},
     tariff : Tariffs, used : BOOLEAN, age : {3}]

schedulerVars == <<family, specimen, keyVars, userVars, syncVars, bulkVars, reportVars>>

Init ==
    /\ family \in Families
    /\ specimen \in IF family = "segments" THEN Specimens ELSE {None}
    /\ KeyInit /\ (family = "keys" \/ hour = CHOOSE h \in StartHours : TRUE)
    /\ UserInit /\ (family = "users" \/ funnel = CHOOSE f \in UserFunnelIds : TRUE)
    /\ SyncInit
    /\ ReportInit
    /\ BulkInit /\ (family = "bulk" \/ expected = [r \in Requests |-> 0])

RunsKeys ==
    family = "keys" /\ KeyStep /\ UNCHANGED <<family, specimen, userVars, syncVars, bulkVars, reportVars>>
RunsUsers ==
    family = "users" /\ UserStep /\ UNCHANGED <<family, specimen, keyVars, syncVars, bulkVars, reportVars>>
RunsSync ==
    family = "sync" /\ SyncStep /\ UNCHANGED <<family, specimen, keyVars, userVars, bulkVars, reportVars>>
RunsBulk ==
    family = "bulk" /\ BulkStep /\ UNCHANGED <<family, specimen, keyVars, userVars, syncVars, reportVars>>
RunsReports ==
    family = "reports" /\ ReportStep /\ UNCHANGED <<family, specimen, keyVars, userVars, syncVars, bulkVars>>

Next == RunsKeys \/ RunsUsers \/ RunsSync \/ RunsBulk \/ RunsReports
Spec == Init /\ [][Next]_schedulerVars

-----------------------------------------------------------------------------
\* The places that class a key agree on it: what the report counts as expiring
\* within a day is what it lists and what the funnel writes about; an expired
\* key is in no segment of live ones; and the admin list, the report and
\* KeyStatus call the same keys expired, but at the very instant of expiry.
SegmentsAgree ==
    family = "segments" =>
        LET key == specimen
            are(some) == key \in some
            one == {key}
        IN /\ are(SummaryExpiring24h(one)) <=> are(GetExpiring24h(one))
           /\ are(GetExpiring24h(one)) <=> are(NotifiedKeys(one, "expiring_24h"))
           /\ \A s \in Range(Rules) :
                 are(KeysOf(one, s)) /\ s # "trial" => are(NotifiedKeys(one, s))
           /\ are(KeysOf(one, "expired")) <=> are(GetExpired(one))
           /\ are(KeysOf(one, "expiring_7d")) => are(GetExpiring7d(one) \ GetExpiring24h(one))
           /\ are(KeysOf(one, "expiring_30d")) => are(GetExpiring30d(one) \ GetExpiring7d(one))
           /\ are(FilterByName(one, "trial")) => KeyStatus(key) = "active" \/ key.left = 0
           /\ ListStatus(key) = "expired" <=> KeyStatus(key) = "expired"
           /\ KeyStatus(key) = "expired" <=> are(GetExpired(one)) \/ key.left = 0
           /\ are(FilterKeys(one, "expiring")) => are(GetExpiring7d(one))
           /\ are(ActivePaid(one)) \/ are(ExpiredPaid(one)) <=> key.tariff # "trial"
           /\ are(GetExpiring24h(one)) =>
                 UserSegment([trial |-> 0, age |-> 0, keys |-> one]) = "expiring_soon"

\* The reports of the admin agree, as MonthStatsService promises of its own
\* ("итоги совпадают с рядами по дням"): over any history of payments and in
\* any time zone, the days of a month sum to its totals, a month is shown next
\* month as it was shown at its end, and the behaviour report, the cohorts, the
\* dashboard and the daily message, each over its window, do not contradict it.
FiguresAgree == family = "reports" => ReportsAgree
=============================================================================
