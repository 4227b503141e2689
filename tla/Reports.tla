-------------------------------- MODULE Reports --------------------------------
(***************************************************************************)
(* The reports of the admin: a month against the one before it             *)
(* (admin_stats), the behaviour of the last days (behavior), the dashboard *)
(* and the daily message about payments.  Each counts the rows of one      *)
(* snapshot by rules of its own: by the moment of payment or of creation,  *)
(* by days of the admin's time zone or of the server, over half-open       *)
(* windows that end now.  The database grows under them as the rest of the *)
(* backend writes it.  Time is counted in half-days; the calendar is       *)
(* scaled down (MonthDays), and the admin's zone is Zone half-days ahead.  *)
(***************************************************************************)
EXTENDS Integers, Sequences, FiniteSets, FiniteSetsExt

CONSTANTS
    Visitors, Guests,       \* accounts with a positive and with a negative tg_id
    MaxOrders,              \* payments that may be created, numbered as they are
    Absent,
    MonthDays,              \* days of month 0, 1, 2, ...; time begins with month 1
    Zone,
    Migrated,               \* rows settled before it have no succeeded_at
    ReportTerm, ReportTrial,\* what a purchase and a trial add to a key
    CohortMonths, RiskDays,
    YearDays, FunnelDays,   \* windows of the dashboard: a year, 30 days
    FirstUser,              \* a visitor who is registered from the start
    WritingTimes,           \* instants at which the database changes
    Instants, MaxWrites     \* instants told apart, and the bound on writes

VARIABLES
    clock,
    users,          \* account -> when it was created, Absent while it does not exist
    payments,       \* order -> its row
    keys,           \* email (of a purchase: its order) -> its row
    opened,         \* journal: who opened which application when
    writes
reportVars == <<clock, users, payments, keys, opened, writes>>

Real == Visitors
People == Visitors \cup Guests
Orders == 1 .. MaxOrders
Emailed == People \cup Orders
Rows(table) == {id \in DOMAIN table : table[id] # Absent}

ReportInit ==
    /\ clock = 0 /\ writes = 0
    /\ users = [a \in People |-> IF a = FirstUser THEN 0 ELSE Absent]
    /\ payments = [o \in Orders |-> Absent]
    /\ keys = [email \in Emailed |-> Absent]
    /\ opened = {}

-----------------------------------------------------------------------------
(* What the rest of the backend writes                                     *)
Registers(a) ==
    /\ users[a] = Absent /\ a \in Real
    /\ users' = [users EXCEPT ![a] = clock]
    /\ UNCHANGED <<payments, keys, opened>>

NewKey(owner, expiry, landing) ==
    [owner |-> owner, created |-> clock, expiry |-> expiry, landing |-> landing,
     converted |-> Absent, used |-> FALSE, tariff |-> "trial"]

GetsTrial(a) ==
    /\ a \in Real /\ users[a] # Absent /\ keys[a] = Absent
    /\ keys' = [keys EXCEPT ![a] = NewKey(a, clock + ReportTrial, FALSE)]
    /\ UNCHANGED <<users, payments, opened>>

\* The site gives a guest an account with a negative id, and a key.
TriesAsGuest(g) ==
    /\ g \in Guests /\ users[g] = Absent
    /\ users' = [users EXCEPT ![g] = clock]
    /\ keys' = [keys EXCEPT ![g] = NewKey(g, clock + 2, TRUE)]
    /\ UNCHANGED <<payments, opened>>

LinksTelegram(a, g) ==
    /\ users[a] # Absent /\ a \in Real
    /\ g \in Guests /\ keys[g] # Absent /\ keys[g].converted = Absent
    /\ keys' = [keys EXCEPT ![g].converted = a]
    /\ UNCHANGED <<users, payments, opened>>

StartsTraffic(email) ==
    /\ keys[email] # Absent /\ ~keys[email].used
    /\ keys' = [keys EXCEPT ![email].used = TRUE]
    /\ UNCHANGED <<users, payments, opened>>

\* payment_type names the key of a renewal, the tariff of a purchase.
Invoiced(o, a, renews) ==
    /\ Rows(payments) = 1 .. (o - 1) /\ users[a] # Absent /\ a \in Real
    /\ renews # Absent => keys[renews] # Absent /\ keys[renews].owner = a
    /\ payments' = [payments EXCEPT ![o] =
           [who |-> a, renews |-> renews, created |-> clock, status |-> "pending", paid |-> Absent]]
    /\ UNCHANGED <<users, keys, opened>>

\* A purchase makes a key, or takes over the guest's key the user linked.
Delivered(o) ==
    LET p == payments[o]
        linked == {g \in Guests : keys[g] # Absent /\ keys[g].converted = p.who /\ keys[g].owner # p.who}
    IN IF p.renews # Absent
       THEN [keys EXCEPT ![p.renews] =
                [@ EXCEPT !.expiry = Max({@, clock}) + ReportTerm, !.tariff = "paid", !.used = FALSE]]
       ELSE IF linked # {}
       THEN [keys EXCEPT ![CHOOSE g \in linked : TRUE] =
                [@ EXCEPT !.owner = p.who, !.expiry = clock + ReportTerm, !.tariff = "paid"]]
       ELSE [keys EXCEPT ![o] = [NewKey(p.who, clock + ReportTerm, FALSE) EXCEPT !.tariff = "paid"]]

Settled(o) ==
    /\ payments[o] # Absent /\ payments[o].status = "pending"
    /\ payments[o].renews # Absent => keys[payments[o].renews] # Absent
    /\ payments' = [payments EXCEPT ![o].status = "succeeded",
                                    ![o].paid = IF clock < Migrated THEN Absent ELSE clock]
    /\ keys' = Delivered(o)
    /\ UNCHANGED <<users, opened>>

Refused(o) ==
    /\ payments[o] # Absent /\ payments[o].status = "pending"
    /\ payments' = [payments EXCEPT ![o].status = "canceled"]
    /\ UNCHANGED <<users, keys, opened>>

KeyDeleted(email) ==
    /\ keys[email] # Absent
    /\ keys' = [keys EXCEPT ![email] = Absent]
    /\ UNCHANGED <<users, payments, opened>>

Opens(a, source) ==
    /\ users[a] # Absent /\ a \in Real
    /\ opened' = opened \cup {[who |-> a, source |-> source, at |-> clock]}
    /\ opened' # opened
    /\ UNCHANGED <<users, payments, keys>>

Writes ==
    /\ clock \in WritingTimes /\ writes < MaxWrites
    /\ writes' = writes + 1
    /\ \/ \E a \in People :
            Registers(a) \/ GetsTrial(a) \/ TriesAsGuest(a)
       \/ \E email \in Emailed : StartsTraffic(email) \/ KeyDeleted(email)
       \/ \E a \in Visitors, g \in Guests : LinksTelegram(a, g)
       \/ \E a \in Visitors, s \in {"miniapp", "web"} : Opens(a, s)
       \/ \E o \in Orders : Settled(o) \/ Refused(o)
       \/ \E o \in Orders, a \in Visitors, renews \in Emailed \cup {Absent} : Invoiced(o, a, renews)
    /\ UNCHANGED clock

TimeGoesOn ==
    /\ \E t \in Instants : t > clock
    /\ clock' = Min({t \in Instants : t > clock})
    /\ UNCHANGED <<users, payments, keys, opened, writes>>

ReportStep == Writes \/ TimeGoesOn
-----------------------------------------------------------------------------
(* The calendar                                                            *)
Day(t) == (t + Zone) \div 2
Midnight(day) == 2 * day - Zone
FirstDay[m \in DOMAIN MonthDays] == IF m = 0 THEN -MonthDays[0] ELSE FirstDay[m - 1] + MonthDays[m - 1]
MonthOf(t) == CHOOSE m \in DOMAIN MonthDays :
                 FirstDay[m] <= Day(t) /\ Day(t) < FirstDay[m] + MonthDays[m]
Between(t, start, end) == start <= t /\ t < end

\* Month m as seen now, and the same stretch of the month before it.
Build(m) ==
    LET start == Midnight(FirstDay[m])
        end == Midnight(FirstDay[m] + MonthDays[m])
        prevStart == Midnight(FirstDay[m - 1])
        cutoff == Min({clock, end})
    IN [month |-> m, start |-> start, end |-> end, cutoff |-> cutoff, prevStart |-> prevStart,
        prevCutoff |-> Min({prevStart + (cutoff - start), start})]

\* Mutant: today is not counted.
DaysElapsed_BeforeToday(p) ==
    IF p.cutoff >= p.end THEN MonthDays[p.month] ELSE Day(p.cutoff) - FirstDay[p.month]
DaysElapsed(p) ==
    IF p.cutoff >= p.end THEN MonthDays[p.month] ELSE Day(p.cutoff) - FirstDay[p.month] + 1

\* What a report is asked for: the last days up to now, today included.
BehaviorWindow(days) == [start |-> Midnight(Day(clock) - days + 1), end |-> clock, days |-> days]

-----------------------------------------------------------------------------
(* admin_stats/sections.py                                                 *)
Succeeded == {o \in Rows(payments) : payments[o].status = "succeeded"}
PaidAt(o) == IF payments[o].paid # Absent THEN payments[o].paid ELSE payments[o].created
Amount(o) == IF payments[o].renews = Absent THEN 3 ELSE 2
Revenue(orders) == MapThenSumSet(Amount, orders)
Payers(orders) == {payments[o].who : o \in orders}
KeyActive(k) == k.expiry > clock

\* What rows weigh by the day of their moments; a day outside of the series is dropped.
CountByDay(moments, weight, p) ==
    LET series(start, end, length) ==
            LET found == {r \in DOMAIN moments : Between(moments[r], start, end)}
                day(r) == Day(moments[r]) - FirstDay[MonthOf(moments[r])] + 1
            IN [i \in 1 .. length |-> MapThenSumSet(LAMBDA r : weight[r], {r \in found : day(r) = i})]
    IN [current |-> series(p.start, p.cutoff, DaysElapsed(p)),
        previous |-> series(p.prevStart, p.start, MonthDays[p.month - 1])]

PaidWithin(start, end) == {o \in Succeeded : Between(PaidAt(o), start, end)}
PaymentsWindow(start, end) ==
    LET paid == PaidWithin(start, end)
    IN [revenue |-> Revenue(paid), count |-> Cardinality(paid),
        payingUsers |-> Cardinality(Payers(paid))]

ActiveKeys == {e \in Rows(keys) : KeyActive(keys[e])}
ActiveUsers == {keys[e].owner : e \in ActiveKeys} \cap Real
ActiveGuests == {e \in ActiveKeys : keys[e].landing /\ keys[e].owner \in Guests}

RealUsers == Rows(users) \cap Real
CohortOf(start, end) == {a \in RealUsers : Between(users[a], start, end)}
NewUsersWindow(start, end) ==
    LET cohort == CohortOf(start, end)
        paid == {o \in PaidWithin(start, end) : payments[o].who \in cohort}
    IN [count |-> Cardinality(cohort), paidUsers |-> Cardinality(Payers(paid)),
        payments |-> Cardinality(paid), revenue |-> Revenue(paid)]

LandingRows == {e \in Rows(keys) : keys[e].landing}
WebWindow(start, end) ==
    LET guests == {e \in LandingRows : Between(keys[e].created, start, end)}
    IN [guests |-> Cardinality(guests),
        linked |-> Cardinality({e \in guests : keys[e].converted # Absent}),
        paid |-> Cardinality({e \in guests : \E o \in Succeeded :
                     payments[o].who = keys[e].converted /\ PaidAt(o) >= keys[e].created})]

\* The tariff bought, or the one the renewed key has today.
TariffOf(o) ==
    LET renewed == payments[o].renews
    IN IF renewed = Absent THEN "paid" ELSE IF keys[renewed] = Absent THEN Absent ELSE keys[renewed].tariff
TopTariffs(p) ==
    LET paid == PaidWithin(p.start, p.cutoff)
    IN {[tariff |-> t, payments |-> Cardinality({o \in paid : TariffOf(o) = t}),
         revenue |-> Revenue({o \in paid : TariffOf(o) = t})] : t \in {TariffOf(o) : o \in paid}}

\* One read-only transaction: every section sees the same snapshot.
MonthStats(m) ==
    LET p == Build(m)
        compare(Of(_, _)) ==
            [current |-> Of(p.start, p.cutoff), sameDays |-> Of(p.prevStart, p.prevCutoff),
             previousFull |-> Of(p.prevStart, p.start)]
        each(rows) == [r \in rows |-> 1]
    IN [payments |-> compare(PaymentsWindow),
        dailyRevenue |-> CountByDay([o \in Succeeded |-> PaidAt(o)], [o \in Succeeded |-> Amount(o)], p),
        newUsers |-> compare(NewUsersWindow),
        newByDay |-> CountByDay([a \in RealUsers |-> users[a]], each(RealUsers), p),
        web |-> compare(WebWindow),
        webByDay |-> CountByDay([e \in LandingRows |-> keys[e].created], each(LandingRows), p),
        tariffs |-> TopTariffs(p)]

-----------------------------------------------------------------------------
(* behavior/sections.py                                                    *)
UserKeys(a) == {e \in Rows(keys) : keys[e].owner = a \/ keys[e].converted = a}
NewUsersFunnel(w) ==
    LET cohort == CohortOf(w.start, w.end)
    IN [registered |-> Cardinality(cohort),
        gotKey |-> Cardinality({a \in cohort : UserKeys(a) # {}}),
        connected |-> Cardinality({a \in cohort : \E e \in UserKeys(a) : keys[e].used}),
        paid |-> Cardinality({a \in cohort : a \in Payers(Succeeded)})]

\* Those who first paid in month m, and who of them lasts to the start of m + n.
FirstPaidIn(m) ==
    {a \in Payers(Succeeded) : MonthOf(Min({PaidAt(o) : o \in {s \in Succeeded : payments[s].who = a}})) = m}
Retained(m, n) ==
    {a \in FirstPaidIn(m) : \E e \in UserKeys(a) : keys[e].expiry >= Midnight(FirstDay[m + n])}
CohortRows ==
    LET this == MonthOf(clock)
    IN [m \in Max({1, this - CohortMonths + 1}) .. this |->
           [size |-> Cardinality(FirstPaidIn(m)),
            retained |-> [n \in 1 .. Min({CohortMonths - 1, this - m}) |-> Cardinality(Retained(m, n))]]]

LastsTo(a, t) == \E e \in UserKeys(a) : keys[e].expiry >= t
Churn(w) ==
    LET paying == {a \in Payers(Succeeded) : UserKeys(a) # {}}
        free == {a \in Real \ Payers(Succeeded) : \E e \in Rows(keys) : keys[e].owner = a}
        own(a) == {e \in Rows(keys) : keys[e].owner = a}
    IN [left |-> {a \in paying : LastsTo(a, w.start) /\ ~LastsTo(a, clock)},
        activePaying |-> {a \in paying : LastsTo(a, clock)},
        renewals |-> {o \in PaidWithin(w.start, w.end) : payments[o].renews # Absent},
        notConnected |-> {a \in free : (\A e \in own(a) : ~keys[e].used)
                             /\ Between(Max({keys[e].created : e \in own(a)}), w.start, w.end)},
        atRisk |-> {e \in Rows(keys) :
                       /\ keys[e].owner \in Payers(Succeeded)
                       /\ Between(keys[e].expiry, clock, clock + 2 * RiskDays)
                       /\ ~\E other \in UserKeys(keys[e].owner) : keys[other].expiry > keys[e].expiry}]

\* Unpaid, and no invoice of the user created since then is paid.
Abandoned(w) ==
    {o \in Rows(payments) :
        /\ Between(payments[o].created, w.start, w.end)
        /\ payments[o].status # "succeeded"
        /\ ~\E q \in Succeeded : payments[q].who = payments[o].who
                                   /\ payments[q].created >= payments[o].created}

Visits(w) ==
    LET seen == {e \in opened : Between(e.at, w.start, w.end)}
        from(s) == {e \in seen : e.source = s}
    IN [users |-> Cardinality({e.who : e \in seen}),
        bySource |-> [s \in {"miniapp", "web"} |-> Cardinality({e.who : e \in from(s)})],
        daily |-> [s \in {"miniapp", "web"} |-> [i \in 1 .. w.days |->
            Cardinality({e.who : e \in {v \in from(s) : Day(v.at) = Day(w.start) + i - 1}})]]]

-----------------------------------------------------------------------------
(* admin_dashboard_metrics.py: by the server's clock and by creation       *)
ServerMonth(t) == CHOOSE m \in DOMAIN MonthDays :
                     FirstDay[m] <= t \div 2 /\ t \div 2 < FirstDay[m] + MonthDays[m]
\* The revenue of the last month that has any.
MRR ==
    IF Succeeded = {} THEN 0
    ELSE LET last == Max({ServerMonth(payments[o].created) : o \in Succeeded})
         IN Revenue({o \in Succeeded : ServerMonth(payments[o].created) = last})
ExpiryRanges ==
    LET left(e) == keys[e].expiry - clock
        range(low, high) == Cardinality({e \in ActiveKeys : low < left(e) /\ left(e) <= high})
    IN <<range(0, 2), range(2, 4), range(4, 6), Cardinality({e \in ActiveKeys : left(e) > 6})>>
\* Payments of each status created within the year.
YearAgo == clock - 2 * YearDays
StatusTotals == [s \in {"succeeded", "pending", "canceled"} |->
    Cardinality({o \in Rows(payments) : payments[o].created >= YearAgo /\ payments[o].status = s})]

\* The daily message: payments stamped within the 24 hours before the job runs,
\* which is when cron says, up to an hour later, or not at all that day.
DailyReport == {o \in Succeeded : payments[o].paid # Absent /\ Between(payments[o].paid, clock - 2, clock)}

\* New accounts of the last 30 days, guests of the site too, by the server's clock.
DashboardFunnel ==
    LET new == {a \in Rows(users) : users[a] >= clock - 2 * FunnelDays}
    IN [newUsers |-> Cardinality(new),
        withKeys |-> Cardinality({a \in new : \E e \in Rows(keys) : keys[e].owner = a}),
        paying |-> Cardinality(new \cap Payers(Succeeded))]

-----------------------------------------------------------------------------
Total(series) == MapThenSumSet(LAMBDA i : series[i], DOMAIN series)

\* The days of a month add up to its totals, and its tariffs to its payments;
\* what a month shows of the one before is what that month showed of itself.
MonthAgrees(m) ==
    LET stats == MonthStats(m)
        sums(byDay, of) == Total(byDay.current) = of.current /\ Total(byDay.previous) = of.previous
        both(section, field) == [current |-> section.current[field],
                                 previous |-> section.previousFull[field]]
    IN /\ sums(stats.dailyRevenue, both(stats.payments, "revenue"))
       /\ sums(stats.newByDay, both(stats.newUsers, "count"))
       /\ sums(stats.webByDay, both(stats.web, "guests"))
       /\ MapThenSumSet(LAMBDA t : t.payments, stats.tariffs) = stats.payments.current.count
       /\ MapThenSumSet(LAMBDA t : t.revenue, stats.tariffs) = stats.payments.current.revenue
       /\ m > 1 => LET before == Build(m - 1)
                       same(section, Of(_, _)) == section.previousFull = Of(before.start, before.cutoff)
                   IN /\ same(stats.payments, PaymentsWindow)
                      /\ same(stats.newUsers, NewUsersWindow)
                      /\ same(stats.web, WebWindow)

\* The behaviour of the days of this month, against the month's own figures.
BehaviourAgrees ==
    LET p == Build(MonthOf(clock))
        newUsers == NewUsersWindow(p.start, p.cutoff)
        w == BehaviorWindow(DaysElapsed(p))
        funnel == NewUsersFunnel(w)
        last == NewUsersFunnel(BehaviorWindow(FunnelDays))
        churn == Churn(w)
        cohort == CohortOf(w.start, w.end)
        visits == Visits(w)
    IN /\ funnel.registered = newUsers.count
       /\ funnel.paid >= newUsers.paidUsers
       /\ last.registered <= DashboardFunnel.newUsers /\ last.paid <= DashboardFunnel.paying
       /\ churn.renewals \subseteq PaidWithin(p.start, p.cutoff)
       /\ {keys[e].owner : e \in churn.atRisk} \subseteq churn.activePaying
       /\ churn.notConnected \cap churn.activePaying = {}
       /\ {a \in cohort : \E o \in Rows(payments) : payments[o].who = a /\ payments[o].created < clock}
             \subseteq Payers(Succeeded) \cup Payers(Abandoned(w))
       /\ \A s \in DOMAIN visits.daily :
             /\ visits.bySource[s] <= Total(visits.daily[s])
             /\ \A i \in DOMAIN visits.daily[s] : visits.daily[s][i] <= visits.bySource[s]
       /\ visits.users <= Total(visits.bySource)

\* A cohort only shrinks, and who is still paying lasts in one of them or first
\* paid before the first month shown.
CohortsAgree ==
    LET last(row) == IF row.retained = <<>> THEN row.size ELSE row.retained[Len(row.retained)]
        older == UNION {FirstPaidIn(m) : m \in DOMAIN MonthDays \ (DOMAIN CohortRows \cup {0})}
        paying == Churn(BehaviorWindow(1)).activePaying \ older
    IN /\ \A m \in DOMAIN CohortRows : \A n \in DOMAIN CohortRows[m].retained :
             CohortRows[m].retained[n] <=
                 IF n = 1 THEN CohortRows[m].size ELSE CohortRows[m].retained[n - 1]
       /\ Cardinality(paying) <= MapThenSumSet(LAMBDA m : last(CohortRows[m]), DOMAIN CohortRows)

\* The dashboard and the daily message against the months: payments created
\* within the year are paid in its months, and what the message tells is within
\* two days of the daily series.
DashboardAgrees ==
    LET months == {m \in DOMAIN MonthDays \ {0} : m <= MonthOf(clock)}
        paidBy(m) == LET p == Build(m) IN PaymentsWindow(p.start, p.cutoff)
        paidIn(some) == MapThenSumSet(LAMBDA m : paidBy(m).count, some)
        now == {o \in Succeeded : PaidAt(o) = clock}
        earlier == {o \in Succeeded : payments[o].created < YearAgo}
        inOneMonth == \A o \in Succeeded :
            {MonthOf(PaidAt(o)), ServerMonth(payments[o].created)} = {MonthOf(payments[o].created)}
        byDay == MonthStats(MonthOf(clock)).dailyRevenue
        series == byDay.previous \o byDay.current
        lastTwoDays == SubSeq(series, Max({1, Len(series) - 1}), Len(series))
    IN /\ Total(ExpiryRanges) = Cardinality(ActiveKeys)
       /\ StatusTotals["succeeded"] <=
             paidIn({m \in months : Build(m).end > YearAgo}) + Cardinality(now)
       /\ paidIn({m \in months : Build(m).start >= YearAgo}) <=
             StatusTotals["succeeded"] + Cardinality(earlier)
       /\ inOneMonth /\ now = {} /\ Succeeded # {} =>
             \E m \in months : MRR = paidBy(m).revenue /\ \A n \in months : n > m => paidBy(n).count = 0
       /\ Revenue(DailyReport) <= Total(lastTwoDays)

ReportsAgree ==
    /\ \A m \in DOMAIN MonthDays \ {0} : m <= MonthOf(clock) => MonthAgrees(m)
    /\ BehaviourAgrees /\ CohortsAgree /\ DashboardAgrees
=============================================================================
