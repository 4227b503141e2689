---------------------------- MODULE MCKeyRenewal ----------------------------
(* Instances of KeyRenewal for TLC.                                         *)
EXTENDS KeyRenewal, TLC

CONSTANTS p1, p2, f1, b1, e1, c1, c2

\* Different lengths, so that a lost or doubled period shows.
MCPeriod == [t \in Payments \cup FreeRenewals \cup BulkRenewals \cup Bonuses |->
                IF t = p1 THEN 1 ELSE IF t = p2 THEN 2 ELSE IF t \in Bonuses THEN 2 ELSE 3]

\* The bonus claims are alike.
MCClaims == Permutations(Bonuses)
=============================================================================
