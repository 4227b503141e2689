-------------------------- MODULE MCPaymentRouting --------------------------
(* Instances of PaymentRouting for TLC.                                     *)
EXTENDS PaymentRouting

CONSTANTS p1, k1, a1, a2, s1

\* The buyer of p1 came through the landing page.
MCLandingOf == [p \in Payments |-> IF p = p1 /\ k1 \in LandingKeys THEN k1 ELSE None]
=============================================================================
