------------------------------ MODULE MCPayments ------------------------------
(* Two users for the last activation of a code, one of them with two        *)
(* purchases by the code and one without; a buyer before odd prices; two    *)
(* requests for invoices; and a referrer and those who followed, of whom     *)
(* anybody pays and is edited.                                              *)
EXTENDS Payments, Naturals, TLC

Kopeck == 100
Roubles(n) == n * 100 * Kopeck

CONSTANTS u1, u2, x1, x2, x3, y1, a1, b1, c1, p1, p2, e1
MCOwnerOf == [p \in Purchases |-> IF p = x3 THEN u2 ELSE u1]

\* On sale, at a price of odd kopecks; off sale, paid and cheap; and free.
MCTariffs == ("sale" :> 9933 * Kopeck) @@ ("off" :> Roubles(30)) @@ ("free" :> 0)
MCStocks ==
    {[type |-> "percent", value |-> 0, active |-> FALSE, expired |-> FALSE],
     [type |-> "percent", value |-> 33, active |-> TRUE, expired |-> FALSE],
     [type |-> "fix", value |-> Roubles(95), active |-> TRUE, expired |-> FALSE]}
MCBalances == {0, Roubles(25)}
MCCodes ==
    {[percent |-> 90, maxMonths |-> 0, operations |-> "any", audience |-> "all", owner |-> "none"],
     [percent |-> 40, maxMonths |-> 1, operations |-> "renew_key", audience |-> "new", owner |-> "buyer"],
     [percent |-> 5, maxMonths |-> 1, operations |-> "any", audience |-> "all", owner |-> "other"]}

\* For one month more than the tenth of an invited buyer, for three months less.
MCOffers == {0, Roubles(15)}

\* a1 refers b1 and c1, and everybody has something to spend.
MCReferrer == [x \in Accounts |-> IF x = a1 THEN None ELSE a1]
MCOpening == [x \in Accounts |-> 2]

MCSymmetry ==
    Permutations(Requests) \cup Permutations(Terms) \cup Permutations(Settlements) \cup Permutations({b1, c1})
=============================================================================
