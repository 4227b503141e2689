------------------------------- MODULE Segments -------------------------------
(***************************************************************************)
(* How a key is classed by the time it has left.  The code does it in five *)
(* places: the funnels' segmenter, the first-match segmenter behind the    *)
(* admin report, the report's own filters, the filter of the admin list,   *)
(* and KeyStatus.  A key is the part they read: `left`, its hours to       *)
(* expiry (0 at the instant itself, negative after), its tariff and        *)
(* whether any traffic was used.                                           *)
(***************************************************************************)
EXTENDS Integers, SequencesExt

CONSTANT None

Tariffs == {"trial", "paid", None}
Days(n) == 24 * n

Within(key, hours) == 0 < key.left /\ key.left <= hours
IsExpired(key) == key.left < 0
IsLive(key) == key.left >= 0

-----------------------------------------------------------------------------
(* notifications/segmentation.py: a segment is a predicate of its own      *)
NotifiesOf(key, segment) ==
    CASE segment = "expired" -> IsExpired(key)
      [] segment = "expiring_10h" -> Within(key, 10)
      [] segment = "expiring_24h" -> Within(key, 24)
      [] segment = "expiring_7d" -> Within(key, Days(7))
      [] segment = "expiring_30d" -> Within(key, Days(30))
      [] segment = "trial" -> key.tariff = "trial" /\ IsLive(key)
      [] segment = "unused" -> IsLive(key) /\ ~key.used
      [] segment = "active" -> key.tariff # "trial" /\ IsLive(key) /\ key.used
      [] segment = "all" -> TRUE

NotifiedKeys(keys, segment) == {k \in keys : NotifiesOf(k, segment)}

-----------------------------------------------------------------------------
(* core/segmentation: the first rule that holds names the segment          *)
Rules == <<"expired", "expiring_10h", "expiring_24h", "expiring_7d", "expiring_30d",
           "trial", "unused", "active">>

RuleHolds(key, segment) ==
    CASE segment = "trial" -> key.tariff = "trial"
      [] segment = "active" -> key.tariff = "paid" /\ IsLive(key) /\ key.used
      [] OTHER -> NotifiesOf(key, segment)

DetermineSegment(key) ==
    LET first == SelectInSeq(Rules, LAMBDA segment : RuleHolds(key, segment))
    IN IF first = 0 THEN "all" ELSE Rules[first]

KeysOf(keys, segment) ==
    IF segment = "all" THEN keys ELSE {k \in keys : DetermineSegment(k) = segment}

-----------------------------------------------------------------------------
(* The report counts segments, and lists by its own windows                *)
Distribution(keys) ==
    [segment \in Range(Rules) \cup {"all"} |-> {k \in keys : DetermineSegment(k) = segment}]
SummaryExpiring24h(keys) ==
    Distribution(keys)["expiring_10h"] \cup Distribution(keys)["expiring_24h"]
GetExpiring24h(keys) == {k \in keys : Within(k, 24)}
GetExpiring7d(keys) == {k \in keys : Within(k, Days(7))}
GetExpiring30d(keys) == {k \in keys : Within(k, Days(30))}
GetExpired(keys) == {k \in keys : IsExpired(k)}
\* FilterByName gives nothing for a name that is no segment.
FilterByName(keys, name) ==
    IF name \in Range(Rules) \cup {"all"} THEN KeysOf(keys, name) ELSE {}

-----------------------------------------------------------------------------
(* admin_filters.py and keys/utils/status.py                               *)
\* Mutant: a key is listed as expired one instant too late.
ListStatus_Late(key) ==
    IF key.left < 0 THEN "expired"
    ELSE IF key.left <= Days(3) THEN "expiring" ELSE "active"
ListStatus(key) ==
    IF key.left <= 0 THEN "expired"
    ELSE IF key.left <= Days(3) THEN "expiring" ELSE "active"
\* The filter "active" keeps the expiring keys too.
FilterKeys(keys, status) ==
    IF status = "active" THEN {k \in keys : ListStatus(k) # "expired"}
    ELSE {k \in keys : ListStatus(k) = status}
KeyStatus(key) == IF key.left > 0 THEN "active" ELSE "expired"
ActivePaid(keys) == {k \in keys : k.tariff # "trial" /\ IsLive(k)}
ExpiredPaid(keys) == {k \in keys : k.tariff # "trial" /\ IsExpired(k)}

-----------------------------------------------------------------------------
(* core/segmentation/ruls.py: the segment of a user, first match.  A user  *)
(* is [trial, age (days since registration), keys].  The rule for expiring *)
(* keys has no lower bound, so an expired key passes it.                   *)
UserRules == <<"expiring_soon", "new_user", "inactive_trial", "cold_lead">>

UserRuleHolds(user, segment) ==
    CASE segment = "expiring_soon" -> \E k \in user.keys : k.left <= 24
      [] segment = "new_user" -> user.trial = 0 /\ user.keys = {} /\ user.age <= 15
      [] segment = "inactive_trial" ->
            user.trial = 1 /\ \E k \in user.keys : k.tariff = "trial" /\ k.age > 2 /\ ~k.used
      [] segment = "cold_lead" -> user.trial = 0 /\ user.keys = {} /\ user.age > 30

UserSegment(user) ==
    LET first == SelectInSeq(UserRules, LAMBDA segment : UserRuleHolds(user, segment))
    IN IF first = 0 THEN "inactive" ELSE UserRules[first]
=============================================================================
