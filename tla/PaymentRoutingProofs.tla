------------------------ MODULE PaymentRoutingProofs ------------------------
(***************************************************************************)
(* Theorems about PaymentRouting for any number of payments, runs, landing *)
(* keys and faults.                                                        *)
(***************************************************************************)
EXTENDS PaymentRouting, FiniteSetTheorems, TLAPS

\* The follow-ups a run has before it, its current one included.
StillDue == [notify    |-> FollowUps,
             listeners |-> {"listeners", "balance", "bonus"},
             balance   |-> {"balance", "bonus"},
             bonus     |-> {"bonus"}]

-----------------------------------------------------------------------------
(* Type correctness                                                        *)

LEMMA ProcOfType == \A r : ProcOf(r) \in Procs
BY DEF ProcOf, Procs

LEMMA CacheUpdate ==
    ASSUME TypeOK, NEW c \in Procs, NEW p, NEW s \in PaymentStatus
    PROVE  [cached EXCEPT ![c][p] = s] \in [Procs -> [Payments -> PaymentStatus]]
<1>1. cached[c] \in [Payments -> PaymentStatus]
  BY DEF TypeOK
<1>2. [cached[c] EXCEPT ![p] = s] \in [Payments -> PaymentStatus]
  BY <1>1
<1> QED
  BY <1>2 DEF TypeOK

LEMMA RunSets == AppRuns \subseteq Runs /\ SweepRuns \subseteq Runs
BY DEF Runs

\* A run at work has a payment, and one inside the landing upgrade has a
\* landing key to upgrade.
TypeInv ==
    /\ TypeOK
    /\ \A r \in Runs : pc[r] # "idle" => on[r] \in Payments
    /\ \A r \in Runs : pc[r] \in {"upgrade", "upgradeSave"} =>
           LandingOf[on[r]] \in LandingKeys

LEMMA TypeInvStep == TypeInv /\ [Next]_vars => TypeInv'
<1> SUFFICES ASSUME TypeInv, [Next]_vars PROVE TypeInv'
  OBVIOUS
<1> USE RoutingConstants, ProcOfType DEF TypeInv, Goto, Fault, rowVars, keyVars
<1>1. ASSUME NEW p \in Payments, YooKassaDecides(p) PROVE TypeInv'
  <2>1. TypeOK'
    BY <1>1 DEF TypeOK, YooKassaDecides, PaymentStatus, Places, Working, FollowUps
  <2> QED
    BY <1>1, <2>1 DEF TypeOK, YooKassaDecides, Places, Working, FollowUps
<1>2. ASSUME NEW p \in Payments, ClaimExpires(p) PROVE TypeInv'
  <2>1. TypeOK'
    BY <1>2 DEF TypeOK, ClaimExpires, PaymentStatus, Places, Working, FollowUps
  <2> QED
    BY <1>2, <2>1 DEF TypeOK, ClaimExpires, Places, Working, FollowUps
<1>3. ASSUME NEW c \in Procs, NEW p \in Payments,
            MarkCanceledIfPending(c, p) PROVE TypeInv'
  <2>1. status' \in [Payments -> PaymentStatus]
    BY <1>3 DEF TypeOK, MarkCanceledIfPending, PaymentStatus
  <2>2. cached' \in [Procs -> [Payments -> PaymentStatus]]
    BY <1>3, CacheUpdate DEF TypeOK, MarkCanceledIfPending, PaymentStatus
  <2>3. TypeOK'
    BY <1>3, <2>1, <2>2 DEF TypeOK, MarkCanceledIfPending
  <2> QED
    BY <1>3, <2>3 DEF TypeOK, MarkCanceledIfPending, Places, Working, FollowUps
<1>4. ASSUME NEW r \in Runs, NEW p \in Payments, Begin(r, p) PROVE TypeInv'
  <2>1. TypeOK'
    BY <1>4 DEF TypeOK, Begin, PaymentStatus, Places, Working, FollowUps
  <2> QED
    BY <1>4, <2>1 DEF TypeOK, Begin, Places, Working, FollowUps
<1>5. ASSUME NEW c \in Procs, Restart(c) PROVE TypeInv'
  <2>1. TypeOK'
    BY <1>5 DEF TypeOK, Restart, PaymentStatus, Places, Working, FollowUps
  <2> QED
    BY <1>5, <2>1 DEF TypeOK, Restart, Places, Working, FollowUps
<1>6. ASSUME NEW r \in Runs, LoadPaymentData(r) PROVE TypeInv'
  <2>1. TypeOK'
    BY <1>6 DEF TypeOK, LoadPaymentData, PaymentStatus, Places, Working, FollowUps
  <2> QED
    BY <1>6, <2>1 DEF TypeOK, LoadPaymentData, Places, Working, FollowUps
<1>7. ASSUME NEW r \in Runs, ClaimPending(r) PROVE TypeInv'
  <2>0. \/ UNCHANGED <<status, token, stale>>
        \/ /\ status' = [status EXCEPT ![on[r]] = "processing"]
           /\ token' = [token EXCEPT ![on[r]] = r]
           /\ stale' = [stale EXCEPT ![on[r]] = FALSE]
    BY <1>7 DEF ClaimPending
  <2>1. status' \in [Payments -> PaymentStatus]
    BY <2>0 DEF TypeOK, PaymentStatus
  <2>2. token' \in [Payments -> Runs \cup {None}]
    BY <2>0 DEF TypeOK
  <2>3. stale' \in [Payments -> BOOLEAN]
    BY <2>0 DEF TypeOK
  <2>4. pc' \in [Runs -> Places]
    BY <1>7 DEF TypeOK, ClaimPending, Places, Working
  <2>5. TypeOK'
    BY <1>7, <2>1, <2>2, <2>3, <2>4 DEF TypeOK, ClaimPending
  <2> QED
    BY <1>7, <2>5 DEF TypeOK, ClaimPending, Places, Working, FollowUps
<1>8. ASSUME NEW r \in Runs, ClaimFails(r) PROVE TypeInv'
  <2>0. \/ UNCHANGED <<status, token, stale>>
        \/ /\ status' = [status EXCEPT ![on[r]] = "processing"]
           /\ token' = [token EXCEPT ![on[r]] = r]
           /\ stale' = [stale EXCEPT ![on[r]] = FALSE]
    BY <1>8 DEF ClaimFails
  <2>1. status' \in [Payments -> PaymentStatus]
    BY <2>0 DEF TypeOK, PaymentStatus
  <2>2. token' \in [Payments -> Runs \cup {None}]
    BY <2>0 DEF TypeOK
  <2>3. stale' \in [Payments -> BOOLEAN]
    BY <2>0 DEF TypeOK
  <2>4. pc' \in [Runs -> Places]
    BY <1>8 DEF TypeOK, ClaimFails, Places, Working
  <2>5. TypeOK'
    BY <1>8, <2>1, <2>2, <2>3, <2>4 DEF TypeOK, ClaimFails
  <2> QED
    BY <1>8, <2>5 DEF TypeOK, ClaimFails, Places, Working, FollowUps
<1>9. ASSUME NEW r \in Runs, CheckExisting(r) PROVE TypeInv'
  <2>1. TypeOK'
    BY <1>9 DEF TypeOK, CheckExisting, PaymentStatus, Places, Working, FollowUps
  <2> QED
    BY <1>9, <2>1 DEF TypeOK, CheckExisting, Places, Working, FollowUps
<1>10. ASSUME NEW r \in Runs, UpgradePanel(r) PROVE TypeInv'
  <2>1. extended' \in [LandingKeys -> SUBSET Payments]
    BY <1>10 DEF TypeOK, UpgradePanel
  <2>2. upgradable' \in [Procs -> SUBSET LandingKeys]
    BY <1>10 DEF TypeOK, UpgradePanel
  <2>3. pc' \in [Runs -> Places]
    BY <1>10 DEF TypeOK, UpgradePanel, Places, Working, FollowUps
  <2>4. TypeOK'
    BY <1>10, <2>1, <2>2, <2>3 DEF TypeOK, UpgradePanel
  <2> QED
    BY <1>10, <2>4 DEF TypeOK, UpgradePanel, Places, Working, FollowUps
<1>11. ASSUME NEW r \in Runs, UpgradePanelFails(r) PROVE TypeInv'
  <2>1. extended' \in [LandingKeys -> SUBSET Payments]
    BY <1>11 DEF TypeOK, UpgradePanelFails
  <2>2. pc' \in [Runs -> Places]
    BY <1>11 DEF TypeOK, UpgradePanelFails, Places, Working, FollowUps
  <2>3. TypeOK'
    BY <1>11, <2>1, <2>2 DEF TypeOK, UpgradePanelFails
  <2> QED
    BY <1>11, <2>3 DEF TypeOK, UpgradePanelFails, Places, Working, FollowUps
<1>12. ASSUME NEW r \in Runs, UpgradeSave(r) PROVE TypeInv'
  <2>1. TypeOK'
    BY <1>12 DEF TypeOK, UpgradeSave, PaymentStatus, Places, Working, FollowUps
  <2> QED
    BY <1>12, <2>1 DEF TypeOK, UpgradeSave, Places, Working, FollowUps
<1>13. ASSUME NEW r \in Runs, AddClient(r) PROVE TypeInv'
  <2>1. TypeOK'
    BY <1>13 DEF TypeOK, AddClient, PaymentStatus, Places, Working, FollowUps
  <2> QED
    BY <1>13, <2>1 DEF TypeOK, AddClient, Places, Working, FollowUps
<1>14. ASSUME NEW r \in Runs, SaveKey(r) PROVE TypeInv'
  <2>1. newKeys' \in SUBSET Payments
    BY <1>14 DEF TypeOK, SaveKey
  <2>2. pc' \in [Runs -> Places]
    BY <1>14 DEF TypeOK, SaveKey, Places, Working, FollowUps
  <2>3. TypeOK'
    BY <1>14, <2>1, <2>2 DEF TypeOK, SaveKey
  <2> QED
    BY <1>14, <2>3 DEF TypeOK, SaveKey, Places, Working, FollowUps
<1>15. ASSUME NEW r \in Runs, ProcessFails(r) PROVE TypeInv'
  <2>1. TypeOK'
    BY <1>15 DEF TypeOK, ProcessFails, PaymentStatus, Places, Working, FollowUps
  <2> QED
    BY <1>15, <2>1 DEF TypeOK, ProcessFails, Places, Working, FollowUps
<1>16. ASSUME NEW r \in Runs, SaveAnswerLost(r) PROVE TypeInv'
  <2>1. TypeOK'
    BY <1>16 DEF TypeOK, SaveAnswerLost, PaymentStatus, Places, Working, FollowUps
  <2> QED
    BY <1>16, <2>1 DEF TypeOK, SaveAnswerLost, Places, Working, FollowUps
<1>17. ASSUME NEW r \in Runs, ReleaseClaim(r) PROVE TypeInv'
  <2>1. TypeOK'
    BY <1>17 DEF TypeOK, ReleaseClaim, PaymentStatus, Places, Working, FollowUps
  <2> QED
    BY <1>17, <2>1 DEF TypeOK, ReleaseClaim, Places, Working, FollowUps
<1>18. ASSUME NEW r \in Runs, ReleaseFails(r) PROVE TypeInv'
  <2>1. TypeOK'
    BY <1>18 DEF TypeOK, ReleaseFails, PaymentStatus, Places, Working, FollowUps
  <2> QED
    BY <1>18, <2>1 DEF TypeOK, ReleaseFails, Places, Working, FollowUps
<1>19. ASSUME NEW r \in Runs, CompleteClaim(r) PROVE TypeInv'
  <2>1. status' \in [Payments -> PaymentStatus]
    BY <1>19 DEF TypeOK, CompleteClaim, PaymentStatus
  <2>2. token' \in [Payments -> Runs \cup {None}]
    BY <1>19 DEF TypeOK, CompleteClaim
  <2>3. cached' \in [Procs -> [Payments -> PaymentStatus]]
    BY <1>19, CacheUpdate DEF TypeOK, CompleteClaim, PaymentStatus
  <2>4. pc' \in [Runs -> Places]
    BY <1>19 DEF TypeOK, CompleteClaim, Places, Working, FollowUps
  <2>5. TypeOK'
    BY <1>19, <2>1, <2>2, <2>3, <2>4 DEF TypeOK, CompleteClaim
  <2> QED
    BY <1>19, <2>5 DEF TypeOK, CompleteClaim, Places, Working, FollowUps
<1>20. ASSUME NEW r \in Runs, CompleteFails(r) PROVE TypeInv'
  <2>1. status' \in [Payments -> PaymentStatus]
    BY <1>20 DEF TypeOK, CompleteFails, PaymentStatus
  <2>2. token' \in [Payments -> Runs \cup {None}]
    BY <1>20 DEF TypeOK, CompleteFails
  <2>3. pc' \in [Runs -> Places]
    BY <1>20 DEF TypeOK, CompleteFails, Places, Working, FollowUps
  <2>4. TypeOK'
    BY <1>20, <2>1, <2>2, <2>3 DEF TypeOK, CompleteFails
  <2> QED
    BY <1>20, <2>4 DEF TypeOK, CompleteFails, Places, Working, FollowUps
<1>21. ASSUME NEW r \in Runs, FollowUp(r) PROVE TypeInv'
  <2>1. TypeOK'
    BY <1>21 DEF TypeOK, FollowUp, AfterFollowUp, PaymentStatus, Places, Working, FollowUps
  <2> QED
    BY <1>21, <2>1 DEF TypeOK, FollowUp, AfterFollowUp, Places, Working, FollowUps
<1>22. ASSUME NEW r \in Runs, FollowUpFails(r) PROVE TypeInv'
  <2>1. TypeOK'
    BY <1>22 DEF TypeOK, FollowUpFails, AfterFollowUp, PaymentStatus, Places, Working, FollowUps
  <2> QED
    BY <1>22, <2>1 DEF TypeOK, FollowUpFails, AfterFollowUp, Places, Working, FollowUps
<1>23. CASE UNCHANGED vars
  BY <1>23 DEF TypeOK, vars
<1> QED
  BY <1>1, <1>2, <1>3, <1>4, <1>5, <1>6, <1>7, <1>8, <1>9, <1>10, <1>11,
     <1>12, <1>13, <1>14, <1>15, <1>16, <1>17, <1>18, <1>19, <1>20, <1>21,
     <1>22, <1>23, RunSets
     DEF Next, Advance, Fail, Webhook, Sweep

\* Every step keeps every variable in its type: no run ever computes a place,
\* an owner or a column value outside the ones the code knows.
THEOREM TypeCorrect == Spec => []TypeOK
<1>1. Init => TypeInv
  BY RoutingConstants DEF Init, TypeInv, TypeOK, PaymentStatus, Places, FollowUps
<1>2. TypeInv => TypeOK
  BY DEF TypeInv
<1> QED
  BY <1>1, <1>2, TypeInvStep, PTL DEF Spec

-----------------------------------------------------------------------------
(* Delivery, cancellation and follow-ups                                   *)

\* Runs work for paid invoices only, and nothing was begun for the others.
PaidOnly ==
    /\ \A r \in Runs : pc[r] # "idle" => yk[on[r]] = "succeeded"
    /\ \A p \in Payments : yk[p] # "succeeded" =>
           status[p] \in {"pending", "canceled"} /\ ~Delivered(p) /\ clients[p] = 0
    /\ \A p \in Payments : status[p] = "canceled" => yk[p] = "canceled"

\* In every run the panel part of a delivery comes before its row, and the
\* row before the place "complete".
RunOrder ==
    \A r \in Runs :
        /\ pc[r] = "save" => clients[on[r]] > 0
        /\ pc[r] = "upgradeSave" => on[r] \in extended[LandingOf[on[r]]]
        /\ pc[r] = "complete" => Delivered(on[r])

\* A landing key is moved by its own buyer's payment only.
OwnLanding ==
    \A k \in LandingKeys :
        landingPaid[k] # None => LandingOf[landingPaid[k]] = k

DeliveryOrder == RunOrder /\ OwnLanding /\ SucceededIsDelivered /\ DeliveredIsOnPanel

\* One run at most carries out the follow-ups of a payment, each of them once.
OneFinisher ==
    /\ \A r \in Runs : pc[r] \in FollowUps =>
        /\ status[on[r]] = "succeeded"
        /\ \A e \in StillDue[pc[r]] : effects[on[r]][e] = 0
        /\ \A q \in Runs : pc[q] \in FollowUps /\ on[q] = on[r] => q = r
    /\ \A p \in Payments, e \in FollowUps :
        status[p] # "succeeded" => effects[p][e] = 0
    /\ FollowUpsAtMostOnce

RoutingInv == TypeInv /\ PaidOnly /\ DeliveryOrder /\ OneFinisher

LEMMA PaidOnlyStep ==
    ASSUME TypeInv, PaidOnly, [Next]_vars
    PROVE  PaidOnly'
<1> USE DEF PaidOnly, TypeInv, TypeOK, Delivered, Goto, Fault, rowVars, keyVars
<1>1. ASSUME NEW p \in Payments, YooKassaDecides(p) PROVE PaidOnly'
  BY <1>1 DEF YooKassaDecides
<1>2. ASSUME NEW p \in Payments, ClaimExpires(p) PROVE PaidOnly'
  BY <1>2 DEF ClaimExpires
<1>3. ASSUME NEW c \in Procs, NEW p \in Payments,
            MarkCanceledIfPending(c, p) PROVE PaidOnly'
  BY <1>3 DEF MarkCanceledIfPending
<1>4. ASSUME NEW r \in Runs, NEW p \in Payments, yk[p] = "succeeded", Begin(r, p) PROVE PaidOnly'
  BY <1>4 DEF Begin
<1>5. ASSUME NEW c \in Procs, Restart(c) PROVE PaidOnly'
  BY <1>5 DEF Restart
<1>6. ASSUME NEW r \in Runs, LoadPaymentData(r) PROVE PaidOnly'
  BY <1>6 DEF LoadPaymentData
<1>7. ASSUME NEW r \in Runs, ClaimPending(r) PROVE PaidOnly'
  BY <1>7 DEF ClaimPending
<1>8. ASSUME NEW r \in Runs, ClaimFails(r) PROVE PaidOnly'
  BY <1>8 DEF ClaimFails
<1>9. ASSUME NEW r \in Runs, CheckExisting(r) PROVE PaidOnly'
  BY <1>9 DEF CheckExisting
<1>10. ASSUME NEW r \in Runs, UpgradePanel(r) PROVE PaidOnly'
  BY <1>10 DEF UpgradePanel
<1>11. ASSUME NEW r \in Runs, UpgradePanelFails(r) PROVE PaidOnly'
  BY <1>11 DEF UpgradePanelFails
<1>12. ASSUME NEW r \in Runs, UpgradeSave(r) PROVE PaidOnly'
  <2>1. on[r] \in Payments /\ yk[on[r]] = "succeeded"
    BY <1>12 DEF UpgradeSave
  <2>2. \A q \in Payments : q # on[r] /\ ~Delivered(q) => ~Delivered(q)'
    BY <1>12, <2>1 DEF UpgradeSave
  <2> QED
    BY <1>12, <2>1, <2>2 DEF UpgradeSave
<1>13. ASSUME NEW r \in Runs, AddClient(r) PROVE PaidOnly'
  BY <1>13 DEF AddClient
<1>14. ASSUME NEW r \in Runs, SaveKey(r) PROVE PaidOnly'
  <2>1. on[r] \in Payments /\ yk[on[r]] = "succeeded"
    BY <1>14 DEF SaveKey
  <2>2. \A q \in Payments : q # on[r] /\ ~Delivered(q) => ~Delivered(q)'
    BY <1>14, <2>1 DEF SaveKey
  <2> QED
    BY <1>14, <2>1, <2>2 DEF SaveKey
<1>15. ASSUME NEW r \in Runs, ProcessFails(r) PROVE PaidOnly'
  BY <1>15 DEF ProcessFails
<1>16. ASSUME NEW r \in Runs, SaveAnswerLost(r) PROVE PaidOnly'
  <2>1. on[r] \in Payments /\ yk[on[r]] = "succeeded"
    BY <1>16 DEF SaveAnswerLost
  <2>2. \A q \in Payments : q # on[r] /\ ~Delivered(q) => ~Delivered(q)'
    BY <1>16, <2>1 DEF SaveAnswerLost
  <2> QED
    BY <1>16, <2>1, <2>2 DEF SaveAnswerLost
<1>17. ASSUME NEW r \in Runs, ReleaseClaim(r) PROVE PaidOnly'
  <2>1. on[r] \in Payments /\ yk[on[r]] = "succeeded"
    BY <1>17 DEF ReleaseClaim
  <2>2. \A q \in Payments : q # on[r] => status'[q] = status[q]
    BY <1>17, <2>1 DEF ReleaseClaim
  <2>3. status'[on[r]] = "canceled" => status[on[r]] = "canceled"
    BY <1>17, <2>1 DEF ReleaseClaim
  <2> QED
    BY <1>17, <2>1, <2>2, <2>3 DEF ReleaseClaim
<1>18. ASSUME NEW r \in Runs, ReleaseFails(r) PROVE PaidOnly'
  BY <1>18 DEF ReleaseFails
<1>19. ASSUME NEW r \in Runs, CompleteClaim(r) PROVE PaidOnly'
  <2>1. on[r] \in Payments /\ yk[on[r]] = "succeeded"
    BY <1>19 DEF CompleteClaim
  <2>2. \A q \in Payments : q # on[r] => status'[q] = status[q]
    BY <1>19, <2>1 DEF CompleteClaim
  <2>3. status'[on[r]] = "canceled" => status[on[r]] = "canceled"
    BY <1>19, <2>1 DEF CompleteClaim
  <2> QED
    BY <1>19, <2>1, <2>2, <2>3 DEF CompleteClaim
<1>20. ASSUME NEW r \in Runs, CompleteFails(r) PROVE PaidOnly'
  BY <1>20 DEF CompleteFails
<1>21. ASSUME NEW r \in Runs, FollowUp(r) PROVE PaidOnly'
  <2>1. pc[r] # "idle"
    BY <1>21 DEF FollowUp, FollowUps
  <2> QED
    BY <1>21, <2>1 DEF FollowUp
<1>22. ASSUME NEW r \in Runs, FollowUpFails(r) PROVE PaidOnly'
  <2>1. pc[r] # "idle"
    BY <1>22 DEF FollowUpFails, FollowUps
  <2> QED
    BY <1>22, <2>1 DEF FollowUpFails
<1>23. CASE UNCHANGED vars
  BY <1>23 DEF vars
<1> QED
  BY <1>1, <1>2, <1>3, <1>4, <1>5, <1>6, <1>7, <1>8, <1>9, <1>10, <1>11,
     <1>12, <1>13, <1>14, <1>15, <1>16, <1>17, <1>18, <1>19, <1>20, <1>21,
     <1>22, <1>23, RunSets
     DEF Next, Advance, Fail, Webhook, Sweep

\* What a step of one run must respect for DeliveryOrder: it only adds to what
\* is recorded and granted, and what it adds is backed by the panel.
AddsOnly(r) ==
    /\ on[r] \in Payments
    /\ UNCHANGED on
    /\ \A q \in Runs : q # r => pc'[q] = pc[q]
    /\ newKeys \subseteq newKeys'
    /\ \A q \in newKeys' : q \in newKeys \/ clients'[q] > 0
    /\ \A q \in Payments : clients[q] <= clients'[q]
    /\ \A k \in LandingKeys : extended[k] \subseteq extended'[k]
    /\ \A k \in LandingKeys :
          \/ landingPaid'[k] = landingPaid[k]
          \/ landingPaid'[k] = on[r] /\ k = LandingOf[on[r]] /\ on[r] \in extended'[k]
    /\ \A q \in Payments : status'[q] = "succeeded" =>
          status[q] = "succeeded" \/ Delivered(q)

LEMMA AddsOnlyKeepsOrder ==
    ASSUME NoSharedLanding, TypeInv, TypeInv', DeliveryOrder,
           NEW r \in Runs, AddsOnly(r),
           pc'[r] = "save" => clients'[on[r]] > 0,
           pc'[r] = "upgradeSave" => on[r] \in extended'[LandingOf[on[r]]],
           pc'[r] = "complete" => Delivered(on[r])'
    PROVE  DeliveryOrder'
<1> USE DEF TypeInv, AddsOnly
<1>1. \A q \in Payments : clients[q] \in Nat /\ clients'[q] \in Nat
  BY DEF TypeOK
<1>2. \A q \in Payments : Delivered(q) => Delivered(q)'
  <2> SUFFICES ASSUME NEW q \in Payments, Delivered(q) PROVE Delivered(q)'
    OBVIOUS
  <2>1. CASE q \in newKeys
    BY <2>1 DEF Delivered
  <2>2. CASE \E k \in LandingKeys : landingPaid[k] = q
    <3> PICK k \in LandingKeys : landingPaid[k] = q
      BY <2>2
    <3>1. LandingOf[q] = k /\ k # None
      BY RoutingConstants DEF DeliveryOrder, OwnLanding
    <3>2. landingPaid'[k] = q
      BY <3>1 DEF NoSharedLanding
    <3> QED
      BY <3>2 DEF Delivered
  <2> QED
    BY <2>1, <2>2 DEF Delivered
<1>3. RunOrder'
  <2> SUFFICES ASSUME NEW q \in Runs
               PROVE  /\ pc'[q] = "save" => clients'[on'[q]] > 0
                      /\ pc'[q] = "upgradeSave" => on'[q] \in extended'[LandingOf[on'[q]]]
                      /\ pc'[q] = "complete" => Delivered(on[q])'
    BY DEF RunOrder
  <2>1. CASE q = r
    BY <2>1
  <2>2. CASE q # r
    <3>1. pc'[q] = pc[q] /\ on'[q] = on[q]
      BY <2>2
    <3>2. pc[q] = "save" => clients'[on[q]] > 0
      BY <1>1 DEF DeliveryOrder, RunOrder
    <3>3. pc[q] = "upgradeSave" => on[q] \in extended'[LandingOf[on[q]]]
      BY DEF DeliveryOrder, RunOrder
    <3>4. pc[q] = "complete" => Delivered(on[q])'
      <4>1. pc[q] = "complete" => on[q] \in Payments /\ Delivered(on[q])
        BY DEF DeliveryOrder, RunOrder
      <4> QED
        BY <4>1, <3>1, <1>2 DEF Delivered
    <3> QED
      BY <3>1, <3>2, <3>3, <3>4
  <2> QED
    BY <2>1, <2>2
<1>4. OwnLanding'
  BY RoutingConstants DEF DeliveryOrder, OwnLanding
<1>5. SucceededIsDelivered'
  BY <1>2 DEF DeliveryOrder, SucceededIsDelivered
<1>6. DeliveredIsOnPanel'
  <2>1. \A q \in newKeys' : clients'[q] > 0
    BY <1>1 DEF DeliveryOrder, DeliveredIsOnPanel, TypeOK
  <2>2. \A k \in LandingKeys : landingPaid'[k] # None => landingPaid'[k] \in extended'[k]
    BY DEF DeliveryOrder, DeliveredIsOnPanel
  <2> QED
    BY <2>1, <2>2 DEF DeliveredIsOnPanel
<1> QED
  BY <1>3, <1>4, <1>5, <1>6 DEF DeliveryOrder

LEMMA DeliveryOrderStep ==
    ASSUME NoSharedLanding, TypeInv, TypeInv', DeliveryOrder, [Next]_vars
    PROVE  DeliveryOrder'
<1> USE DEF Goto, Fault, rowVars, keyVars
<1>1. ASSUME NEW p \in Payments, YooKassaDecides(p) PROVE DeliveryOrder'
  BY <1>1 DEF YooKassaDecides, Delivered, DeliveryOrder, RunOrder,
      OwnLanding, SucceededIsDelivered, DeliveredIsOnPanel
<1>2. ASSUME NEW p \in Payments, ClaimExpires(p) PROVE DeliveryOrder'
  BY <1>2 DEF ClaimExpires, Delivered, DeliveryOrder, RunOrder,
      OwnLanding, SucceededIsDelivered, DeliveredIsOnPanel
<1>3. ASSUME NEW c \in Procs, NEW p \in Payments,
            MarkCanceledIfPending(c, p) PROVE DeliveryOrder'
  BY <1>3 DEF MarkCanceledIfPending, Delivered, TypeInv, TypeOK, DeliveryOrder, RunOrder,
      OwnLanding, SucceededIsDelivered, DeliveredIsOnPanel
<1>4. ASSUME NEW r \in Runs, NEW p \in Payments, Begin(r, p) PROVE DeliveryOrder'
  BY <1>4 DEF Begin, Delivered, TypeInv, TypeOK, DeliveryOrder, RunOrder,
      OwnLanding, SucceededIsDelivered, DeliveredIsOnPanel
<1>5. ASSUME NEW c \in Procs, Restart(c) PROVE DeliveryOrder'
  BY <1>5 DEF Restart, Delivered, TypeInv, TypeOK, DeliveryOrder, RunOrder,
      OwnLanding, SucceededIsDelivered, DeliveredIsOnPanel
<1>6. ASSUME NEW r \in Runs, LoadPaymentData(r) PROVE DeliveryOrder'
  <2>1. AddsOnly(r)
    BY <1>6, RoutingConstants DEF LoadPaymentData, AddsOnly, TypeInv, TypeOK, Delivered,
       DeliveryOrder, RunOrder
  <2>2. /\ pc'[r] = "save" => clients'[on[r]] > 0
        /\ pc'[r] = "upgradeSave" => on[r] \in extended'[LandingOf[on[r]]]
        /\ pc'[r] = "complete" => Delivered(on[r])'
    BY <1>6, <2>1 DEF LoadPaymentData, AddsOnly, TypeInv, TypeOK, Delivered
  <2> QED
    BY <2>1, <2>2, AddsOnlyKeepsOrder
<1>7. ASSUME NEW r \in Runs, ClaimPending(r) PROVE DeliveryOrder'
  <2>1. AddsOnly(r)
    BY <1>7, RoutingConstants DEF ClaimPending, AddsOnly, TypeInv, TypeOK, Delivered,
       DeliveryOrder, RunOrder
  <2>2. /\ pc'[r] = "save" => clients'[on[r]] > 0
        /\ pc'[r] = "upgradeSave" => on[r] \in extended'[LandingOf[on[r]]]
        /\ pc'[r] = "complete" => Delivered(on[r])'
    BY <1>7, <2>1 DEF ClaimPending, AddsOnly, TypeInv, TypeOK, Delivered
  <2> QED
    BY <2>1, <2>2, AddsOnlyKeepsOrder
<1>8. ASSUME NEW r \in Runs, ClaimFails(r) PROVE DeliveryOrder'
  <2>1. AddsOnly(r)
    BY <1>8, RoutingConstants DEF ClaimFails, AddsOnly, TypeInv, TypeOK, Delivered,
       DeliveryOrder, RunOrder
  <2>2. /\ pc'[r] = "save" => clients'[on[r]] > 0
        /\ pc'[r] = "upgradeSave" => on[r] \in extended'[LandingOf[on[r]]]
        /\ pc'[r] = "complete" => Delivered(on[r])'
    BY <1>8, <2>1 DEF ClaimFails, AddsOnly, TypeInv, TypeOK, Delivered
  <2> QED
    BY <2>1, <2>2, AddsOnlyKeepsOrder
<1>9. ASSUME NEW r \in Runs, CheckExisting(r) PROVE DeliveryOrder'
  <2>1. AddsOnly(r)
    BY <1>9, RoutingConstants DEF CheckExisting, AddsOnly, TypeInv, TypeOK, Delivered,
       DeliveryOrder, RunOrder
  <2>2. /\ pc'[r] = "save" => clients'[on[r]] > 0
        /\ pc'[r] = "upgradeSave" => on[r] \in extended'[LandingOf[on[r]]]
        /\ pc'[r] = "complete" => Delivered(on[r])'
    BY <1>9, <2>1 DEF CheckExisting, AddsOnly, TypeInv, TypeOK, Delivered
  <2> QED
    BY <2>1, <2>2, AddsOnlyKeepsOrder
<1>10. ASSUME NEW r \in Runs, UpgradePanel(r) PROVE DeliveryOrder'
  <2>1. AddsOnly(r)
    BY <1>10, RoutingConstants DEF UpgradePanel, AddsOnly, TypeInv, TypeOK, Delivered,
       DeliveryOrder, RunOrder
  <2>2. /\ pc'[r] = "save" => clients'[on[r]] > 0
        /\ pc'[r] = "upgradeSave" => on[r] \in extended'[LandingOf[on[r]]]
        /\ pc'[r] = "complete" => Delivered(on[r])'
    BY <1>10, <2>1 DEF UpgradePanel, AddsOnly, TypeInv, TypeOK, Delivered
  <2> QED
    BY <2>1, <2>2, AddsOnlyKeepsOrder
<1>11. ASSUME NEW r \in Runs, UpgradePanelFails(r) PROVE DeliveryOrder'
  <2>1. AddsOnly(r)
    BY <1>11, RoutingConstants DEF UpgradePanelFails, AddsOnly, TypeInv, TypeOK, Delivered,
       DeliveryOrder, RunOrder
  <2>2. /\ pc'[r] = "save" => clients'[on[r]] > 0
        /\ pc'[r] = "upgradeSave" => on[r] \in extended'[LandingOf[on[r]]]
        /\ pc'[r] = "complete" => Delivered(on[r])'
    BY <1>11, <2>1 DEF UpgradePanelFails, AddsOnly, TypeInv, TypeOK, Delivered
  <2> QED
    BY <2>1, <2>2, AddsOnlyKeepsOrder
<1>12. ASSUME NEW r \in Runs, UpgradeSave(r) PROVE DeliveryOrder'
  <2>1. AddsOnly(r)
    BY <1>12, RoutingConstants DEF UpgradeSave, AddsOnly, TypeInv, TypeOK, Delivered,
       DeliveryOrder, RunOrder
  <2>2. /\ pc'[r] = "save" => clients'[on[r]] > 0
        /\ pc'[r] = "upgradeSave" => on[r] \in extended'[LandingOf[on[r]]]
        /\ pc'[r] = "complete" => Delivered(on[r])'
    BY <1>12, <2>1 DEF UpgradeSave, AddsOnly, TypeInv, TypeOK, Delivered
  <2> QED
    BY <2>1, <2>2, AddsOnlyKeepsOrder
<1>13. ASSUME NEW r \in Runs, AddClient(r) PROVE DeliveryOrder'
  <2>1. AddsOnly(r)
    BY <1>13, RoutingConstants DEF AddClient, AddsOnly, TypeInv, TypeOK, Delivered,
       DeliveryOrder, RunOrder
  <2>2. /\ pc'[r] = "save" => clients'[on[r]] > 0
        /\ pc'[r] = "upgradeSave" => on[r] \in extended'[LandingOf[on[r]]]
        /\ pc'[r] = "complete" => Delivered(on[r])'
    BY <1>13, <2>1 DEF AddClient, AddsOnly, TypeInv, TypeOK, Delivered
  <2> QED
    BY <2>1, <2>2, AddsOnlyKeepsOrder
<1>14. ASSUME NEW r \in Runs, SaveKey(r) PROVE DeliveryOrder'
  <2>1. AddsOnly(r)
    BY <1>14, RoutingConstants DEF SaveKey, AddsOnly, TypeInv, TypeOK, Delivered,
       DeliveryOrder, RunOrder
  <2>2. /\ pc'[r] = "save" => clients'[on[r]] > 0
        /\ pc'[r] = "upgradeSave" => on[r] \in extended'[LandingOf[on[r]]]
        /\ pc'[r] = "complete" => Delivered(on[r])'
    BY <1>14, <2>1 DEF SaveKey, AddsOnly, TypeInv, TypeOK, Delivered
  <2> QED
    BY <2>1, <2>2, AddsOnlyKeepsOrder
<1>15. ASSUME NEW r \in Runs, ProcessFails(r) PROVE DeliveryOrder'
  <2>0. \A q \in Payments : clients[q] <= clients'[q]
    <3>1. CASE clients' = [clients EXCEPT ![on[r]] = @ + 1]
      BY <3>1 DEF TypeInv, TypeOK
    <3>2. CASE UNCHANGED clients
      BY <3>2 DEF TypeInv, TypeOK
    <3> QED
      BY <1>15, <3>1, <3>2 DEF ProcessFails
  <2>3. on[r] \in Payments /\ UNCHANGED <<on, newKeys, landingPaid, extended, status>>
    BY <1>15 DEF ProcessFails, TypeInv
  <2>4. \A q \in Runs : q # r => pc'[q] = pc[q]
    BY <1>15 DEF ProcessFails, TypeInv, TypeOK
  <2>1. AddsOnly(r)
    BY <2>0, <2>3, <2>4 DEF AddsOnly
  <2>2. /\ pc'[r] = "save" => clients'[on[r]] > 0
        /\ pc'[r] = "upgradeSave" => on[r] \in extended'[LandingOf[on[r]]]
        /\ pc'[r] = "complete" => Delivered(on[r])'
    BY <1>15, <2>1 DEF ProcessFails, AddsOnly, TypeInv, TypeOK, Delivered
  <2> QED
    BY <2>1, <2>2, AddsOnlyKeepsOrder
<1>16. ASSUME NEW r \in Runs, SaveAnswerLost(r) PROVE DeliveryOrder'
  <2>1. AddsOnly(r)
    BY <1>16, RoutingConstants DEF SaveAnswerLost, AddsOnly, TypeInv, TypeOK, Delivered,
       DeliveryOrder, RunOrder
  <2>2. /\ pc'[r] = "save" => clients'[on[r]] > 0
        /\ pc'[r] = "upgradeSave" => on[r] \in extended'[LandingOf[on[r]]]
        /\ pc'[r] = "complete" => Delivered(on[r])'
    BY <1>16, <2>1 DEF SaveAnswerLost, AddsOnly, TypeInv, TypeOK, Delivered
  <2> QED
    BY <2>1, <2>2, AddsOnlyKeepsOrder
<1>17. ASSUME NEW r \in Runs, ReleaseClaim(r) PROVE DeliveryOrder'
  <2>1. AddsOnly(r)
    BY <1>17, RoutingConstants DEF ReleaseClaim, AddsOnly, TypeInv, TypeOK, Delivered,
       DeliveryOrder, RunOrder, Owns
  <2>2. /\ pc'[r] = "save" => clients'[on[r]] > 0
        /\ pc'[r] = "upgradeSave" => on[r] \in extended'[LandingOf[on[r]]]
        /\ pc'[r] = "complete" => Delivered(on[r])'
    BY <1>17, <2>1 DEF ReleaseClaim, AddsOnly, TypeInv, TypeOK, Delivered, Owns
  <2> QED
    BY <2>1, <2>2, AddsOnlyKeepsOrder
<1>18. ASSUME NEW r \in Runs, ReleaseFails(r) PROVE DeliveryOrder'
  <2>1. AddsOnly(r)
    BY <1>18, RoutingConstants DEF ReleaseFails, AddsOnly, TypeInv, TypeOK, Delivered,
       DeliveryOrder, RunOrder
  <2>2. /\ pc'[r] = "save" => clients'[on[r]] > 0
        /\ pc'[r] = "upgradeSave" => on[r] \in extended'[LandingOf[on[r]]]
        /\ pc'[r] = "complete" => Delivered(on[r])'
    BY <1>18, <2>1 DEF ReleaseFails, AddsOnly, TypeInv, TypeOK, Delivered
  <2> QED
    BY <2>1, <2>2, AddsOnlyKeepsOrder
<1>19. ASSUME NEW r \in Runs, CompleteClaim(r) PROVE DeliveryOrder'
  <2>1. AddsOnly(r)
    BY <1>19, RoutingConstants DEF CompleteClaim, AddsOnly, TypeInv, TypeOK, Delivered,
       DeliveryOrder, RunOrder, Owns
  <2>2. /\ pc'[r] = "save" => clients'[on[r]] > 0
        /\ pc'[r] = "upgradeSave" => on[r] \in extended'[LandingOf[on[r]]]
        /\ pc'[r] = "complete" => Delivered(on[r])'
    BY <1>19, <2>1 DEF CompleteClaim, AddsOnly, TypeInv, TypeOK, Delivered, Owns
  <2> QED
    BY <2>1, <2>2, AddsOnlyKeepsOrder
<1>20. ASSUME NEW r \in Runs, CompleteFails(r) PROVE DeliveryOrder'
  <2>1. AddsOnly(r)
    BY <1>20, RoutingConstants DEF CompleteFails, AddsOnly, TypeInv, TypeOK, Delivered,
       DeliveryOrder, RunOrder, Owns
  <2>2. /\ pc'[r] = "save" => clients'[on[r]] > 0
        /\ pc'[r] = "upgradeSave" => on[r] \in extended'[LandingOf[on[r]]]
        /\ pc'[r] = "complete" => Delivered(on[r])'
    BY <1>20, <2>1 DEF CompleteFails, AddsOnly, TypeInv, TypeOK, Delivered, Owns
  <2> QED
    BY <2>1, <2>2, AddsOnlyKeepsOrder
<1>21. ASSUME NEW r \in Runs, FollowUp(r) PROVE DeliveryOrder'
  <2>1. AddsOnly(r)
    BY <1>21, RoutingConstants DEF FollowUp, AddsOnly, TypeInv, TypeOK, Delivered,
       DeliveryOrder, RunOrder, FollowUps, AfterFollowUp
  <2>2. /\ pc'[r] = "save" => clients'[on[r]] > 0
        /\ pc'[r] = "upgradeSave" => on[r] \in extended'[LandingOf[on[r]]]
        /\ pc'[r] = "complete" => Delivered(on[r])'
    BY <1>21, <2>1 DEF FollowUp, AddsOnly, TypeInv, TypeOK, Delivered, FollowUps, AfterFollowUp
  <2> QED
    BY <2>1, <2>2, AddsOnlyKeepsOrder
<1>22. ASSUME NEW r \in Runs, FollowUpFails(r) PROVE DeliveryOrder'
  <2>1. AddsOnly(r)
    BY <1>22, RoutingConstants DEF FollowUpFails, AddsOnly, TypeInv, TypeOK, Delivered,
       DeliveryOrder, RunOrder, FollowUps, AfterFollowUp
  <2>2. /\ pc'[r] = "save" => clients'[on[r]] > 0
        /\ pc'[r] = "upgradeSave" => on[r] \in extended'[LandingOf[on[r]]]
        /\ pc'[r] = "complete" => Delivered(on[r])'
    BY <1>22, <2>1 DEF FollowUpFails, AddsOnly, TypeInv, TypeOK, Delivered, FollowUps, AfterFollowUp
  <2> QED
    BY <2>1, <2>2, AddsOnlyKeepsOrder
<1>23. CASE UNCHANGED vars
  BY <1>23 DEF vars, Delivered, DeliveryOrder, RunOrder,
      OwnLanding, SucceededIsDelivered, DeliveredIsOnPanel
<1> QED
  BY <1>1, <1>2, <1>3, <1>4, <1>5, <1>6, <1>7, <1>8, <1>9, <1>10, <1>11,
     <1>12, <1>13, <1>14, <1>15, <1>16, <1>17, <1>18, <1>19, <1>20, <1>21,
     <1>22, <1>23, RunSets
     DEF Next, Advance, Fail, Webhook, Sweep

LEMMA OneFinisherStep ==
    ASSUME TypeInv, OneFinisher, [Next]_vars
    PROVE  OneFinisher'
<1> USE DEF OneFinisher, FollowUpsAtMostOnce, FollowUps, TypeInv, TypeOK, Goto, Fault,
        rowVars, keyVars
<1>1. ASSUME NEW p \in Payments, YooKassaDecides(p) PROVE OneFinisher'
  BY <1>1 DEF YooKassaDecides
<1>2. ASSUME NEW p \in Payments, ClaimExpires(p) PROVE OneFinisher'
  BY <1>2 DEF ClaimExpires
<1>3. ASSUME NEW c \in Procs, NEW p \in Payments,
            MarkCanceledIfPending(c, p) PROVE OneFinisher'
  BY <1>3 DEF MarkCanceledIfPending
<1>4. ASSUME NEW r \in Runs, NEW p \in Payments, yk[p] = "succeeded", Begin(r, p) PROVE OneFinisher'
  BY <1>4 DEF Begin
<1>5. ASSUME NEW c \in Procs, Restart(c) PROVE OneFinisher'
  BY <1>5 DEF Restart
<1>6. ASSUME NEW r \in Runs, LoadPaymentData(r) PROVE OneFinisher'
  BY <1>6 DEF LoadPaymentData
<1>7. ASSUME NEW r \in Runs, ClaimPending(r) PROVE OneFinisher'
  <2>1. on[r] \in Payments
    BY <1>7 DEF ClaimPending
  <2>2. \A q \in Payments : status[q] = "succeeded" => status'[q] = "succeeded"
    BY <1>7, <2>1 DEF ClaimPending, Claimable, Owns
  <2>3. \A q \in Runs : pc'[q] \in FollowUps => pc[q] \in FollowUps /\ pc'[q] = pc[q]
    BY <1>7 DEF ClaimPending
  <2>4. UNCHANGED <<on, effects>>
    BY <1>7 DEF ClaimPending
  <2> QED
    BY <1>7, <2>1, <2>2, <2>3, <2>4 DEF ClaimPending
<1>8. ASSUME NEW r \in Runs, ClaimFails(r) PROVE OneFinisher'
  <2>1. on[r] \in Payments
    BY <1>8 DEF ClaimFails
  <2>2. \A q \in Payments : status[q] = "succeeded" => status'[q] = "succeeded"
    BY <1>8, <2>1 DEF ClaimFails, Claimable, Owns
  <2>3. \A q \in Runs : pc'[q] \in FollowUps => pc[q] \in FollowUps /\ pc'[q] = pc[q]
    BY <1>8 DEF ClaimFails
  <2>4. UNCHANGED <<on, effects>>
    BY <1>8 DEF ClaimFails
  <2> QED
    BY <1>8, <2>1, <2>2, <2>3, <2>4 DEF ClaimFails
<1>9. ASSUME NEW r \in Runs, CheckExisting(r) PROVE OneFinisher'
  BY <1>9 DEF CheckExisting
<1>10. ASSUME NEW r \in Runs, UpgradePanel(r) PROVE OneFinisher'
  BY <1>10 DEF UpgradePanel
<1>11. ASSUME NEW r \in Runs, UpgradePanelFails(r) PROVE OneFinisher'
  BY <1>11 DEF UpgradePanelFails
<1>12. ASSUME NEW r \in Runs, UpgradeSave(r) PROVE OneFinisher'
  BY <1>12 DEF UpgradeSave
<1>13. ASSUME NEW r \in Runs, AddClient(r) PROVE OneFinisher'
  BY <1>13 DEF AddClient
<1>14. ASSUME NEW r \in Runs, SaveKey(r) PROVE OneFinisher'
  BY <1>14 DEF SaveKey
<1>15. ASSUME NEW r \in Runs, ProcessFails(r) PROVE OneFinisher'
  BY <1>15 DEF ProcessFails
<1>16. ASSUME NEW r \in Runs, SaveAnswerLost(r) PROVE OneFinisher'
  BY <1>16 DEF SaveAnswerLost
<1>17. ASSUME NEW r \in Runs, ReleaseClaim(r) PROVE OneFinisher'
  <2>1. on[r] \in Payments
    BY <1>17 DEF ReleaseClaim
  <2>2. \A q \in Payments : status[q] = "succeeded" => status'[q] = "succeeded"
    BY <1>17, <2>1 DEF ReleaseClaim, Claimable, Owns
  <2>3. \A q \in Runs : pc'[q] \in FollowUps => pc[q] \in FollowUps /\ pc'[q] = pc[q]
    BY <1>17 DEF ReleaseClaim
  <2>4. UNCHANGED <<on, effects>>
    BY <1>17 DEF ReleaseClaim
  <2> QED
    BY <1>17, <2>1, <2>2, <2>3, <2>4 DEF ReleaseClaim
<1>18. ASSUME NEW r \in Runs, ReleaseFails(r) PROVE OneFinisher'
  BY <1>18 DEF ReleaseFails
<1>19. ASSUME NEW r \in Runs, CompleteClaim(r) PROVE OneFinisher'
  <2>1. on[r] \in Payments
    BY <1>19 DEF CompleteClaim
  <2>2. CASE ~Owns(r, on[r])
    BY <1>19, <2>1, <2>2 DEF CompleteClaim
  <2>3. CASE Owns(r, on[r])
    <3>1. \A q \in Runs : pc[q] \in FollowUps => on[q] # on[r]
      BY <2>3 DEF Owns
    <3>2. \A e \in FollowUps : effects[on[r]][e] = 0
      BY <2>1, <2>3 DEF Owns
    <3>3. /\ pc' = [pc EXCEPT ![r] = "notify"]
          /\ status' = [status EXCEPT ![on[r]] = "succeeded"]
          /\ UNCHANGED <<on, effects>>
      BY <1>19, <2>3 DEF CompleteClaim
    <3>4. StillDue["notify"] = FollowUps
      BY DEF StillDue
    <3>5. \A q \in Runs : pc'[q] \in FollowUps =>
              /\ status'[on'[q]] = "succeeded"
              /\ \A e \in StillDue[pc'[q]] : effects'[on'[q]][e] = 0
              /\ \A z \in Runs : pc'[z] \in FollowUps /\ on'[z] = on'[q] => z = q
      <4>1. \A q \in Runs : pc'[q] \in FollowUps /\ q # r =>
                pc[q] \in FollowUps /\ pc'[q] = pc[q] /\ on[q] # on[r] /\ on[q] \in Payments
        BY <3>1, <3>3
      <4>2. ASSUME NEW q \in Runs, pc'[q] \in FollowUps, q # r
            PROVE  status'[on'[q]] = "succeeded"
                   /\ \A e \in StillDue[pc'[q]] : effects'[on'[q]][e] = 0
        BY <4>1, <4>2, <3>3, <2>1
      <4>3. status'[on'[r]] = "succeeded" /\ \A e \in StillDue[pc'[r]] : effects'[on'[r]][e] = 0
        BY <2>1, <3>2, <3>3, <3>4
      <4> QED
        BY <3>3, <4>1, <4>2, <4>3
    <3>6. \A p \in Payments : status'[p] # "succeeded" => status[p] # "succeeded"
      BY <2>1, <3>3
    <3>7. FollowUpsAtMostOnce'
      BY <2>1, <3>3
    <3> QED
      BY <3>3, <3>5, <3>6, <3>7
  <2> QED
    BY <2>2, <2>3
<1>20. ASSUME NEW r \in Runs, CompleteFails(r) PROVE OneFinisher'
  BY <1>20 DEF CompleteFails
<1>21. ASSUME NEW r \in Runs, FollowUp(r) PROVE OneFinisher'
  <2>1. on[r] \in Payments /\ pc[r] \in FollowUps
    BY <1>21 DEF FollowUp
  <2>2. /\ status[on[r]] = "succeeded"
        /\ \A e \in StillDue[pc[r]] : effects[on[r]][e] = 0
        /\ \A q \in Runs : pc[q] \in FollowUps /\ on[q] = on[r] => q = r
    BY <2>1
  <2>3. UNCHANGED <<on, status>> /\ pc' = [pc EXCEPT ![r] = AfterFollowUp[pc[r]]]
    BY <1>21 DEF FollowUp
  <2>4. \A p \in Payments, e \in FollowUps :
            effects'[p][e] = IF p = on[r] /\ e = pc[r] THEN effects[p][e] + 1
                                                       ELSE effects[p][e]
    BY <1>21, <2>1 DEF FollowUp
  <2>5. pc[r] \in StillDue[pc[r]] /\ effects[on[r]][pc[r]] = 0
    BY <2>1, <2>2 DEF StillDue
  <2>6. pc'[r] \in FollowUps =>
            StillDue[pc'[r]] \subseteq StillDue[pc[r]] \ {pc[r]}
    BY <2>1, <2>3 DEF AfterFollowUp, StillDue
  <2>7. StillDue[pc[r]] \subseteq FollowUps
    BY <2>1 DEF StillDue
  <2>8. \A q \in Runs : pc'[q] \in FollowUps =>
            /\ status'[on'[q]] = "succeeded"
            /\ \A e \in StillDue[pc'[q]] : effects'[on'[q]][e] = 0
            /\ \A x \in Runs : pc'[x] \in FollowUps /\ on'[x] = on'[q] => x = q
    <3> SUFFICES ASSUME NEW q \in Runs, pc'[q] \in FollowUps
                 PROVE  /\ status'[on'[q]] = "succeeded"
                        /\ \A e \in StillDue[pc'[q]] : effects'[on'[q]][e] = 0
                        /\ \A x \in Runs : pc'[x] \in FollowUps /\ on'[x] = on'[q] => x = q
      OBVIOUS
    <3>1. CASE q = r
      <4>1. status'[on'[q]] = "succeeded"
        BY <3>1, <2>2, <2>3
      <4>2. \A e \in StillDue[pc'[q]] : effects'[on'[q]][e] = 0
        <5>1. on'[q] = on[r] /\ pc'[q] = pc'[r]
          BY <3>1, <2>3
        <5>2. \A e \in StillDue[pc'[r]] :
                  e \in FollowUps /\ e # pc[r] /\ effects[on[r]][e] = 0
          BY <5>1, <2>2, <2>6, <2>7
        <5> QED
          BY <5>1, <5>2, <2>1, <2>4
      <4>3. \A x \in Runs : pc'[x] \in FollowUps /\ on'[x] = on'[q] => x = q
        BY <3>1, <2>1, <2>2, <2>3
      <4> QED
        BY <4>1, <4>2, <4>3
    <3>2. CASE q # r
      <4>1. pc[q] \in FollowUps /\ on[q] \in Payments /\ on[q] # on[r] /\ pc'[q] = pc[q]
        BY <3>2, <2>1, <2>2, <2>3
      <4>2. StillDue[pc[q]] \subseteq FollowUps
        BY <4>1 DEF StillDue
      <4>3. \A e \in StillDue[pc'[q]] : effects'[on'[q]][e] = 0
        <5>1. \A e \in StillDue[pc[q]] : e \in FollowUps /\ effects[on[q]][e] = 0
          BY <4>1, <4>2
        <5>2. \A e \in FollowUps : effects'[on[q]][e] = effects[on[q]][e]
          BY <4>1, <2>4
        <5>3. on'[q] = on[q]
          BY <2>3
        <5> QED
          BY <5>1, <5>2, <5>3, <4>1
      <4>4. \A x \in Runs : pc'[x] \in FollowUps /\ on'[x] = on'[q] => x = q
        BY <4>1, <2>1, <2>2, <2>3
      <4> QED
        BY <4>1, <4>3, <4>4, <2>3
    <3> QED
      BY <3>1, <3>2
  <2>9. FollowUpsAtMostOnce'
    <3> SUFFICES ASSUME NEW p \in Payments, NEW e \in FollowUps
                 PROVE  effects'[p][e] <= 1 /\ (effects'[p][e] > 0 => status'[p] = "succeeded")
      OBVIOUS
    <3>1. CASE p = on[r] /\ e = pc[r]
      BY <3>1, <2>2, <2>3, <2>4, <2>5
    <3>2. CASE ~(p = on[r] /\ e = pc[r])
      BY <3>2, <2>3, <2>4
    <3> QED
      BY <3>1, <3>2
  <2> QED
    BY <2>1, <2>2, <2>3, <2>4, <2>8, <2>9
<1>22. ASSUME NEW r \in Runs, FollowUpFails(r) PROVE OneFinisher'
  <2>1. on[r] \in Payments /\ pc[r] \in FollowUps
    BY <1>22 DEF FollowUpFails
  <2>2. UNCHANGED <<on, status, effects>> /\ pc' = [pc EXCEPT ![r] = AfterFollowUp[pc[r]]]
    BY <1>22 DEF FollowUpFails
  <2>3. pc'[r] \in FollowUps => StillDue[pc'[r]] \subseteq StillDue[pc[r]]
    BY <2>1, <2>2 DEF AfterFollowUp, StillDue
  <2> QED
    BY <2>1, <2>2, <2>3
<1>23. CASE UNCHANGED vars
  BY <1>23 DEF vars
<1> QED
  BY <1>1, <1>2, <1>3, <1>4, <1>5, <1>6, <1>7, <1>8, <1>9, <1>10, <1>11,
     <1>12, <1>13, <1>14, <1>15, <1>16, <1>17, <1>18, <1>19, <1>20, <1>21,
     <1>22, <1>23, RunSets
     DEF Next, Advance, Fail, Webhook, Sweep

LEMMA RoutingInit == Init => TypeInv /\ PaidOnly /\ DeliveryOrder /\ OneFinisher
<1> SUFFICES ASSUME Init PROVE TypeInv /\ PaidOnly /\ DeliveryOrder /\ OneFinisher
  OBVIOUS
<1>1. TypeInv
  BY RoutingConstants DEF Init, TypeInv, TypeOK, PaymentStatus, Places, FollowUps
<1>2. \A p \in Payments : ~Delivered(p)
  BY RoutingConstants DEF Init, Delivered
<1>3. PaidOnly
  BY <1>2 DEF Init, PaidOnly
<1>4. DeliveryOrder
  BY DEF Init, DeliveryOrder, RunOrder, OwnLanding, SucceededIsDelivered, DeliveredIsOnPanel
<1>5. OneFinisher
  BY DEF Init, OneFinisher, FollowUps, FollowUpsAtMostOnce
<1> QED
  BY <1>1, <1>3, <1>4, <1>5

-----------------------------------------------------------------------------
(* The theorems                                                            *)

\* No follow-up of a payment is carried out twice or before it is final: of
\* the runs that reach complete_claim, one wins, and only the winner notifies,
\* deducts the balance and pays the referral bonus.
THEOREM FollowUpsOnce == Spec => []FollowUpsAtMostOnce
<1>1. Init => TypeInv /\ OneFinisher
  BY RoutingInit
<1>2. TypeInv /\ OneFinisher /\ [Next]_vars => TypeInv' /\ OneFinisher'
  BY TypeInvStep, OneFinisherStep
<1>3. OneFinisher => FollowUpsAtMostOnce
  BY DEF OneFinisher
<1> QED
  BY <1>1, <1>2, <1>3, PTL DEF Spec

\* A cancelled invoice was cancelled at YooKassa, and no run has begun
\* anything for it: mark_canceled_if_pending never cuts off a delivery.
THEOREM CancelSafe == Spec => []CanceledIsUntouched
<1>1. Init => TypeInv /\ PaidOnly
  BY RoutingInit
<1>2. TypeInv /\ PaidOnly /\ [Next]_vars => TypeInv' /\ PaidOnly'
  BY TypeInvStep, PaidOnlyStep
<1>3. TypeInv /\ PaidOnly => CanceledIsUntouched
  BY DEF TypeInv, PaidOnly, CanceledIsUntouched
<1> QED
  BY <1>1, <1>2, <1>3, PTL DEF Spec

\* Unless two payments compete for one landing key, every succeeded payment
\* has its key recorded and every recorded key is on the panel.
THEOREM DeliverySafe ==
    NoSharedLanding => (Spec => [](SucceededIsDelivered /\ DeliveredIsOnPanel))
<1> SUFFICES ASSUME NoSharedLanding
             PROVE  Spec => [](SucceededIsDelivered /\ DeliveredIsOnPanel)
  OBVIOUS
<1>1. Init => TypeInv /\ DeliveryOrder
  BY RoutingInit
<1>2. TypeInv /\ DeliveryOrder /\ [Next]_vars => TypeInv' /\ DeliveryOrder'
  BY TypeInvStep, DeliveryOrderStep
<1>3. DeliveryOrder => SucceededIsDelivered /\ DeliveredIsOnPanel
  BY DEF DeliveryOrder
<1> QED
  BY <1>1, <1>2, <1>3, PTL DEF Spec

\* A payment leaves "processing" only by the run that holds its token, and a
\* claim changes hands only when it is stale: the fencing of the three
\* conditional UPDATEs of PaymentRepository.
THEOREM Fencing == Spec => OnlyOwnerMoves
<1> DEFINE Fenced(p) ==
        status[p] = "processing" =>
          /\ status'[p] # "processing" =>
                AtWork(token[p], p) /\ pc[token[p]] \in {"complete", "release"}
          /\ status'[p] = "processing" /\ token'[p] # token[p] => stale[p]
<1>1. Init => TypeInv
  BY RoutingInit
<1>2. TypeInv /\ [Next]_vars => [\A p \in Payments : Fenced(p)]_vars
  <2> SUFFICES ASSUME TypeInv, Next, NEW p \in Payments, status[p] = "processing"
               PROVE  Fenced(p)
    BY DEF vars, rowVars
  <2> USE DEF TypeInv, TypeOK, Goto, rowVars
  <2>1. CASE UNCHANGED <<status, token>>
    BY <2>1
  <2>2. ASSUME NEW c \in Procs, NEW q \in Payments, MarkCanceledIfPending(c, q)
        PROVE  Fenced(p)
    BY <2>2 DEF MarkCanceledIfPending
  <2>3. ASSUME NEW r \in Runs, ClaimPending(r) PROVE Fenced(p)
    BY <2>3 DEF ClaimPending, Claimable
  <2>4. ASSUME NEW r \in Runs, ClaimFails(r) PROVE Fenced(p)
    BY <2>4 DEF ClaimFails, Claimable
  <2>5. ASSUME NEW r \in Runs, ReleaseClaim(r) PROVE Fenced(p)
    BY <2>5 DEF ReleaseClaim, Owns, AtWork, Working
  <2>6. ASSUME NEW r \in Runs, CompleteClaim(r) PROVE Fenced(p)
    BY <2>6 DEF CompleteClaim, Owns, AtWork, Working
  <2>7. ASSUME NEW r \in Runs, CompleteFails(r) PROVE Fenced(p)
    BY <2>7 DEF CompleteFails, Owns, AtWork, Working
  <2> QED
    BY <2>1, <2>2, <2>3, <2>4, <2>5, <2>6, <2>7, RunSets
       DEF Next, Advance, Fail, Webhook, Sweep, YooKassaDecides, ClaimExpires, Begin,
           Restart, LoadPaymentData, CheckExisting, UpgradePanel, UpgradePanelFails,
           UpgradeSave, AddClient, SaveKey, ProcessFails, SaveAnswerLost, ReleaseFails,
           FollowUp, FollowUpFails
<1> QED
  BY <1>1, <1>2, TypeInvStep, PTL DEF Spec, OnlyOwnerMoves

-----------------------------------------------------------------------------
(* Refinement of PaymentPromise                                            *)

\* A step that moves the stage of one payment forward is a step of the promise.
LEMMA OneMove ==
    ASSUME NEW p \in Payments,
           \A q \in Payments : q # p => promiseStage'[q] = promiseStage[q],
           \/ promiseStage'[p] = promiseStage[p]
           \/ promiseStage[p] = "open" /\ promiseStage'[p] = "delivered"
           \/ promiseStage[p] = "delivered" /\ promiseStage'[p] = "settled"
           \/ promiseStage[p] = "open" /\ promiseStage'[p] = "canceled"
    PROVE  [Promise!Next]_promiseStage
<1>1. /\ DOMAIN promiseStage = Payments /\ DOMAIN promiseStage' = Payments
      /\ promiseStage = [q \in Payments |-> promiseStage[q]]
      /\ promiseStage' = [q \in Payments |-> promiseStage'[q]]
  BY DEF promiseStage
<1> HIDE DEF promiseStage
<1>2. promiseStage' = [promiseStage EXCEPT ![p] = promiseStage'[p]]
  BY <1>1
<1>3. CASE promiseStage'[p] = promiseStage[p]
  BY <1>1, <1>2, <1>3
<1>4. CASE promiseStage'[p] # promiseStage[p]
  BY <1>2, <1>4 DEF Promise!Next, Promise!Move, Promise!Deliver, Promise!Settle, Promise!Cancel
<1> QED
  BY <1>3, <1>4

\* The stage of a payment depends on its row and its recorded key only.
LEMMA SameStage ==
    ASSUME NEW q \in Payments,
           status'[q] = status[q]
             \/ (status[q] \in {"pending", "processing"} /\ status'[q] \in {"pending", "processing"}),
           Delivered(q)' <=> Delivered(q)
    PROVE  promiseStage'[q] = promiseStage[q]
BY DEF promiseStage

\* Recording the key of a paid payment delivers it, and it alone.
LEMMA RecordingDelivers ==
    ASSUME NoSharedLanding, TypeInv, PaidOnly, DeliveryOrder,
           NEW p \in Payments, yk[p] = "succeeded", UNCHANGED status,
           \/ newKeys' = newKeys \cup {p} /\ UNCHANGED landingPaid
           \/ /\ LandingOf[p] \in LandingKeys
              /\ landingPaid' = [landingPaid EXCEPT ![LandingOf[p]] = p]
              /\ UNCHANGED newKeys
    PROVE  [Promise!Next]_promiseStage
<1> USE RoutingConstants
<1>1. Delivered(p)'
  BY DEF Delivered, TypeInv, TypeOK
<1>2. ASSUME NEW q \in Payments, q # p PROVE promiseStage'[q] = promiseStage[q]
  <2>1. ASSUME newKeys' = newKeys \cup {p}, UNCHANGED landingPaid
        PROVE  Delivered(q)' <=> Delivered(q)
    BY <1>2, <2>1 DEF Delivered
  <2>2. ASSUME LandingOf[p] \in LandingKeys, UNCHANGED newKeys,
               landingPaid' = [landingPaid EXCEPT ![LandingOf[p]] = p]
        PROVE  Delivered(q)' <=> Delivered(q)
    <3>1. landingPaid[LandingOf[p]] # q
      BY <1>2, <2>2 DEF DeliveryOrder, OwnLanding, NoSharedLanding
    <3>2. \A k \in LandingKeys : landingPaid'[k] = q <=> landingPaid[k] = q
      BY <1>2, <2>2, <3>1 DEF TypeInv, TypeOK
    <3> QED
      BY <2>2, <3>2 DEF Delivered
  <2> QED
    BY <2>1, <2>2, SameStage
<1>3. status[p] # "canceled"
  BY DEF PaidOnly
<1>4. promiseStage'[p] = promiseStage[p]
        \/ (promiseStage[p] = "open" /\ promiseStage'[p] = "delivered")
  BY <1>1, <1>3 DEF promiseStage, DeliveryOrder, SucceededIsDelivered
<1> QED
  BY <1>2, <1>4, OneMove

\* Completing a claim settles a payment whose key is recorded, and it alone.
LEMMA CompletingSettles ==
    ASSUME TypeInv, DeliveryOrder, NEW r \in Runs, pc[r] = "complete", Owns(r, on[r]),
           status' = [status EXCEPT ![on[r]] = "succeeded"],
           UNCHANGED <<newKeys, landingPaid>>
    PROVE  [Promise!Next]_promiseStage
<1>1. on[r] \in Payments /\ Delivered(on[r])
  BY DEF TypeInv, DeliveryOrder, RunOrder
<1>2. \A q \in Payments : Delivered(q)' <=> Delivered(q)
  BY DEF Delivered
<1>3. \A q \in Payments : q # on[r] => status'[q] = status[q]
  BY DEF TypeInv, TypeOK
<1>4. \A q \in Payments : q # on[r] => promiseStage'[q] = promiseStage[q]
  BY <1>2, <1>3, SameStage
<1>5. promiseStage[on[r]] = "delivered" /\ promiseStage'[on[r]] = "settled"
  BY <1>1 DEF promiseStage, Owns, TypeInv, TypeOK
<1> QED
  BY <1>1, <1>4, <1>5, OneMove

LEMMA PromiseStep ==
    ASSUME NoSharedLanding, TypeInv, PaidOnly, DeliveryOrder, [Next]_vars
    PROVE  [Promise!Next]_promiseStage
<1> USE DEF Goto, rowVars, keyVars
<1>0. CASE UNCHANGED <<status, newKeys, landingPaid>>
  BY <1>0 DEF promiseStage, Delivered
<1>1. ASSUME NEW p \in Payments, UNCHANGED <<newKeys, landingPaid>>,
             \A q \in Payments : q # p => status'[q] = status[q],
             status[p] \in {"pending", "processing"}, status'[p] \in {"pending", "processing"}
      PROVE  [Promise!Next]_promiseStage
  <2>1. \A q \in Payments : promiseStage'[q] = promiseStage[q]
    BY <1>1, SameStage DEF Delivered
  <2> QED
    BY <2>1, OneMove
<1>2. ASSUME NEW c \in Procs, NEW p \in Payments, MarkCanceledIfPending(c, p)
      PROVE  [Promise!Next]_promiseStage
  <2>1. CASE status[p] # "pending"
    BY <1>0, <1>2, <2>1 DEF MarkCanceledIfPending
  <2>2. CASE status[p] = "pending"
    <3>1. /\ UNCHANGED <<newKeys, landingPaid>>
          /\ status' = [status EXCEPT ![p] = "canceled"]
          /\ yk[p] = "canceled"
      BY <1>2, <2>2 DEF MarkCanceledIfPending
    <3>2. ~Delivered(p)
      BY <3>1 DEF PaidOnly
    <3>3. \A q \in Payments : q # p => status'[q] = status[q]
      BY <3>1 DEF TypeInv, TypeOK
    <3>4. \A q \in Payments : q # p => promiseStage'[q] = promiseStage[q]
      BY <3>1, <3>3, SameStage DEF Delivered
    <3>5. promiseStage[p] = "open" /\ promiseStage'[p] = "canceled"
      BY <2>2, <3>1, <3>2 DEF promiseStage, TypeInv, TypeOK
    <3> QED
      BY <3>4, <3>5, OneMove
  <2> QED
    BY <2>1, <2>2
<1>3. ASSUME NEW r \in Runs, ClaimPending(r) \/ ClaimFails(r) PROVE [Promise!Next]_promiseStage
  <2>1. CASE UNCHANGED status
    BY <1>0, <1>3, <2>1 DEF ClaimPending, ClaimFails
  <2>2. CASE Claimable(on[r]) /\ status' = [status EXCEPT ![on[r]] = "processing"]
    BY <1>1, <1>3, <2>2 DEF ClaimPending, ClaimFails, Claimable, TypeInv, TypeOK
  <2> QED
    BY <1>3, <2>1, <2>2 DEF ClaimPending, ClaimFails
<1>4. ASSUME NEW r \in Runs, ReleaseClaim(r) PROVE [Promise!Next]_promiseStage
  <2>1. CASE ~Owns(r, on[r])
    BY <1>0, <1>4, <2>1 DEF ReleaseClaim
  <2>2. CASE Owns(r, on[r])
    BY <1>1, <1>4, <2>2 DEF ReleaseClaim, Owns, TypeInv, TypeOK
  <2> QED
    BY <2>1, <2>2
<1>5. ASSUME NEW r \in Runs, CompleteClaim(r) \/ CompleteFails(r)
      PROVE  [Promise!Next]_promiseStage
  <2>1. CASE UNCHANGED status
    BY <1>0, <1>5, <2>1 DEF CompleteClaim, CompleteFails
  <2>2. CASE Owns(r, on[r]) /\ status' = [status EXCEPT ![on[r]] = "succeeded"]
    BY <1>5, <2>2, CompletingSettles DEF CompleteClaim, CompleteFails
  <2> QED
    BY <1>5, <2>1, <2>2 DEF CompleteClaim, CompleteFails
<1>6. ASSUME NEW r \in Runs, UpgradeSave(r) PROVE [Promise!Next]_promiseStage
  <2>1. CASE UNCHANGED landingPaid
    BY <1>0, <1>6, <2>1 DEF UpgradeSave
  <2>2. CASE landingPaid' = [landingPaid EXCEPT ![LandingOf[on[r]]] = on[r]]
    BY <1>6, <2>2, RecordingDelivers DEF UpgradeSave, TypeInv, PaidOnly
  <2> QED
    BY <1>6, <2>1, <2>2 DEF UpgradeSave
<1>7. ASSUME NEW r \in Runs, SaveKey(r) PROVE [Promise!Next]_promiseStage
  <2>1. CASE UNCHANGED newKeys
    BY <1>0, <1>7, <2>1 DEF SaveKey
  <2>2. CASE newKeys' = newKeys \cup {on[r]}
    BY <1>7, <2>2, RecordingDelivers DEF SaveKey, TypeInv, PaidOnly
  <2> QED
    BY <1>7, <2>1, <2>2 DEF SaveKey
<1>8. ASSUME NEW r \in Runs, SaveAnswerLost(r) PROVE [Promise!Next]_promiseStage
  BY <1>8, RecordingDelivers DEF SaveAnswerLost, TypeInv, PaidOnly
<1>9. CASE UNCHANGED vars
  BY <1>0, <1>9 DEF vars
<1> QED
  BY <1>0, <1>2, <1>3, <1>4, <1>5, <1>6, <1>7, <1>8, <1>9, RunSets
     DEF Next, Advance, Fail, Webhook, Sweep, YooKassaDecides, ClaimExpires, Begin,
         Restart, LoadPaymentData, CheckExisting, UpgradePanel, UpgradePanelFails,
         AddClient, ProcessFails, ReleaseFails, FollowUp, FollowUpFails

\* Routing implements the promise made for an invoice: open, delivered, settled
\* in this order, or cancelled while open, and no way back from either end.
THEOREM RoutingKeepsPromise == NoSharedLanding => (Spec => KeepsPromise)
<1> SUFFICES ASSUME NoSharedLanding PROVE Spec => KeepsPromise
  OBVIOUS
<1>1. Init => TypeInv /\ PaidOnly /\ DeliveryOrder /\ Promise!Init
  <2>1. Init => \A p \in Payments : ~Delivered(p)
    BY RoutingConstants DEF Init, Delivered
  <2> QED
    BY <2>1, RoutingInit DEF Init, Promise!Init, promiseStage
<1>2. TypeInv /\ PaidOnly /\ DeliveryOrder /\ [Next]_vars
        => TypeInv' /\ PaidOnly' /\ DeliveryOrder'
  BY TypeInvStep, PaidOnlyStep, DeliveryOrderStep
<1>3. TypeInv /\ PaidOnly /\ DeliveryOrder /\ [Next]_vars => [Promise!Next]_promiseStage
  BY PromiseStep
<1> QED
  BY <1>1, <1>2, <1>3, PTL DEF Spec, KeepsPromise, Promise!Spec
-----------------------------------------------------------------------------
(* One subscription, and one more for every fault                          *)

\* Runs that may still grant a subscription for p.
Granting(p) ==
    {r \in Runs : on[r] = p /\ (pc[r] \in {"upgrade", "add"} \/ (pc[r] = "check" /\ ~Delivered(p)))}

ExtendedFor(p) == {k \in LandingKeys : p \in extended[k]}

\* The claim of p is fresh and its run at work: it takes a fault to let the
\* next run in.
HeldAtWork(p) ==
    /\ status[p] = "processing" /\ ~stale[p]
    /\ token[p] \in Runs /\ AtWork(token[p], p) /\ pc[token[p]] # "release"

\* The next run that claims p will set out to grant a subscription.
FreeToGrant(p) ==
    ~Delivered(p) /\ status[p] \in {"pending", "processing"} /\ ~HeldAtWork(p)

\* What was granted, is being granted, or may be granted without a fault.
Budget(p) ==
    /\ IsFiniteSet(Granting(p)) /\ IsFiniteSet(ExtendedFor(p))
    /\ clients[p] + Cardinality(ExtendedFor(p)) + Cardinality(Granting(p))
         + (IF FreeToGrant(p) THEN 1 ELSE 0) <= 1 + faults

WithinBudget == \A p \in Payments : Budget(p)

\* A subset of a finite set with one more element, and one with one less.
LEMMA OneMore ==
    ASSUME NEW S, NEW T, NEW x, IsFiniteSet(S), T \subseteq S \cup {x}
    PROVE  /\ IsFiniteSet(T)
           /\ Cardinality(S) \in Nat /\ Cardinality(T) \in Nat
           /\ Cardinality(T) <= Cardinality(S) + 1
           /\ T \subseteq S => Cardinality(T) <= Cardinality(S)
           /\ x \in S /\ T \subseteq S \ {x} => Cardinality(T) + 1 <= Cardinality(S)
<1>0. Cardinality(S) \in Nat
  BY FS_CardinalityType
<1>1. IsFiniteSet(S \cup {x}) /\ Cardinality(S \cup {x}) <= Cardinality(S) + 1
  <2>1. CASE x \in S
    <3>1. S \cup {x} = S
      BY <2>1
    <3>2. Cardinality(S) <= Cardinality(S) + 1
      BY <1>0
    <3> QED
      BY <3>1, <3>2, Zenon
  <2>2. CASE x \notin S
    <3>1. IsFiniteSet(S \cup {x}) /\ Cardinality(S \cup {x}) = Cardinality(S) + 1
      BY <2>2, FS_AddElement
    <3> QED
      BY <1>0, <3>1
  <2> QED
    BY <2>1, <2>2
<1>2. IsFiniteSet(T) /\ Cardinality(T) <= Cardinality(S \cup {x})
  BY <1>1, FS_Subset
<1>3. /\ Cardinality(S) \in Nat /\ Cardinality(T) \in Nat
      /\ Cardinality(S \cup {x}) \in Nat
  BY <1>1, <1>2, FS_CardinalityType
<1>4. T \subseteq S => Cardinality(T) <= Cardinality(S)
  BY FS_Subset
<1>5. ASSUME x \in S, T \subseteq S \ {x} PROVE Cardinality(T) + 1 <= Cardinality(S)
  <2>1. IsFiniteSet(S \ {x}) /\ Cardinality(S \ {x}) = Cardinality(S) - 1
    BY <1>5, FS_RemoveElement
  <2>2. Cardinality(T) <= Cardinality(S \ {x})
    BY <1>5, <2>1, FS_Subset
  <2> QED
    BY <1>3, <2>1, <2>2
<1> QED
  BY <1>1, <1>2, <1>3, <1>4, <1>5

\* The ways a step may change the account of p, with the run r that takes it
\* and the landing key k it may extend.
LEMMA BudgetMoves ==
    ASSUME TypeInv, TypeInv', NEW p \in Payments, NEW r, NEW k, Budget(p),
           \* nothing is granted, and nobody let in or one at the price of a fault
           \/ /\ Granting(p)' \subseteq Granting(p)
              /\ ExtendedFor(p)' \subseteq ExtendedFor(p) /\ clients'[p] = clients[p]
              /\ \/ (FreeToGrant(p)' => FreeToGrant(p)) /\ faults' >= faults
                 \/ faults' = faults + 1
           \* a run is let in
           \/ /\ Granting(p)' \subseteq Granting(p) \cup {r}
              /\ ExtendedFor(p)' \subseteq ExtendedFor(p) /\ clients'[p] = clients[p]
              /\ FreeToGrant(p) /\ ~FreeToGrant(p)' /\ faults' = faults
           \* a run grants what it set out to grant
           \/ /\ r \in Granting(p) /\ Granting(p)' \subseteq Granting(p) \ {r}
              /\ \/ ExtendedFor(p)' \subseteq ExtendedFor(p) \cup {k} /\ clients'[p] = clients[p]
                 \/ ExtendedFor(p)' \subseteq ExtendedFor(p) /\ clients'[p] = clients[p] + 1
              /\ \/ (FreeToGrant(p)' => FreeToGrant(p)) /\ faults' = faults
                 \/ faults' = faults + 1
           \* a landing key is extended, but the run takes it for a failure
           \/ /\ Granting(p)' \subseteq Granting(p)
              /\ ExtendedFor(p)' \subseteq ExtendedFor(p) \cup {k} /\ clients'[p] = clients[p]
              /\ FreeToGrant(p)' => FreeToGrant(p)
              /\ faults' = faults + 1
    PROVE  Budget(p)'
<1> DEFINE g == Cardinality(Granting(p))       h == Cardinality(Granting(p)')
           e == Cardinality(ExtendedFor(p))    f == Cardinality(ExtendedFor(p)')
           u == IF FreeToGrant(p) THEN 1 ELSE 0
           v == IF FreeToGrant(p)' THEN 1 ELSE 0
<1>1. /\ clients[p] \in Nat /\ clients'[p] \in Nat /\ faults \in Nat /\ faults' \in Nat
  BY DEF TypeInv, TypeOK
<1>2. IsFiniteSet(Granting(p)) /\ IsFiniteSet(ExtendedFor(p))
      /\ clients[p] + e + g + u <= 1 + faults
  BY DEF Budget
<1>3. Granting(p)' \subseteq Granting(p) \cup {r} /\ ExtendedFor(p)' \subseteq ExtendedFor(p) \cup {k}
  OBVIOUS
<1>4. /\ IsFiniteSet(Granting(p)') /\ g \in Nat /\ h \in Nat /\ h <= g + 1
      /\ Granting(p)' \subseteq Granting(p) => h <= g
      /\ r \in Granting(p) /\ Granting(p)' \subseteq Granting(p) \ {r} => h + 1 <= g
  BY <1>2, <1>3, OneMore
<1>5. /\ IsFiniteSet(ExtendedFor(p)') /\ e \in Nat /\ f \in Nat /\ f <= e + 1
      /\ ExtendedFor(p)' \subseteq ExtendedFor(p) => f <= e
  BY <1>2, <1>3, OneMore
<1>6. /\ u \in 0..1 /\ v \in 0..1
      /\ FreeToGrant(p) => u = 1
      /\ ~FreeToGrant(p)' => v = 0
      /\ (FreeToGrant(p)' => FreeToGrant(p)) => v <= u
  OBVIOUS
<1> HIDE DEF g, h, e, f, u, v
<1>7. clients'[p] + f + h + v <= 1 + faults'
  <2>1. CASE /\ Granting(p)' \subseteq Granting(p)
              /\ ExtendedFor(p)' \subseteq ExtendedFor(p) /\ clients'[p] = clients[p]
              /\ \/ (FreeToGrant(p)' => FreeToGrant(p)) /\ faults' >= faults
                 \/ faults' = faults + 1
    BY <1>1, <1>2, <1>4, <1>5, <1>6, <2>1
  <2>2. CASE /\ Granting(p)' \subseteq Granting(p) \cup {r}
              /\ ExtendedFor(p)' \subseteq ExtendedFor(p) /\ clients'[p] = clients[p]
              /\ FreeToGrant(p) /\ ~FreeToGrant(p)' /\ faults' = faults
    BY <1>1, <1>2, <1>4, <1>5, <1>6, <2>2
  <2>3. CASE /\ r \in Granting(p) /\ Granting(p)' \subseteq Granting(p) \ {r}
              /\ \/ ExtendedFor(p)' \subseteq ExtendedFor(p) \cup {k} /\ clients'[p] = clients[p]
                 \/ ExtendedFor(p)' \subseteq ExtendedFor(p) /\ clients'[p] = clients[p] + 1
              /\ \/ (FreeToGrant(p)' => FreeToGrant(p)) /\ faults' = faults
                 \/ faults' = faults + 1
    BY <1>1, <1>2, <1>4, <1>5, <1>6, <2>3
  <2>4. CASE /\ Granting(p)' \subseteq Granting(p)
              /\ ExtendedFor(p)' \subseteq ExtendedFor(p) \cup {k} /\ clients'[p] = clients[p]
              /\ FreeToGrant(p)' => FreeToGrant(p)
              /\ faults' = faults + 1
    BY <1>1, <1>2, <1>4, <1>5, <1>6, <2>4
  <2> QED
    BY <2>1, <2>2, <2>3, <2>4
<1> QED
  BY <1>4, <1>5, <1>7 DEF Budget, f, h, v
\* A recorded key stays recorded: no other payment moves its landing key.
LEMMA StaysDelivered ==
    ASSUME NoSharedLanding, TypeInv, DeliveryOrder, [Next]_vars, NEW p \in Payments, Delivered(p)
    PROVE  Delivered(p)'
<1>1. /\ newKeys \subseteq newKeys'
      /\ \/ UNCHANGED landingPaid
         \/ \E q \in Payments : /\ LandingOf[q] \in LandingKeys
                                /\ landingPaid' = [landingPaid EXCEPT ![LandingOf[q]] = q]
  BY RunSets DEF TypeInv, TypeOK, Next, Advance, Fail, Webhook, Sweep, YooKassaDecides,
     ClaimExpires, MarkCanceledIfPending, Begin, Restart, LoadPaymentData, ClaimPending,
     ClaimFails, CheckExisting, UpgradePanel, UpgradePanelFails, UpgradeSave, AddClient,
     SaveKey, ProcessFails, SaveAnswerLost, ReleaseClaim, ReleaseFails, CompleteClaim,
     CompleteFails, FollowUp, FollowUpFails, vars, keyVars
<1>2. CASE p \in newKeys
  BY <1>1, <1>2 DEF Delivered
<1>3. ASSUME NEW k \in LandingKeys, landingPaid[k] = p PROVE Delivered(p)'
  <2>1. LandingOf[p] = k /\ k # None
    BY <1>3, RoutingConstants DEF DeliveryOrder, OwnLanding
  <2>2. landingPaid'[k] = p
    BY <1>1, <1>3, <2>1 DEF NoSharedLanding, TypeInv, TypeOK
  <2> QED
    BY <2>2 DEF Delivered
<1> QED
  BY <1>2, <1>3 DEF Delivered

\* A step that brings no run nearer to a subscription for p, and lets one in
\* only by a fault.
LEMMA NothingGranted ==
    ASSUME TypeInv, TypeInv', NEW p \in Payments, Budget(p), Delivered(p) => Delivered(p)',
           \A q \in Runs : on'[q] = p /\ pc'[q] \in {"check", "upgrade", "add"}
                              => on[q] = p /\ pc[q] = pc'[q],
           \A k \in LandingKeys : p \in extended'[k] => p \in extended[k],
           clients'[p] = clients[p],
           \/ faults' = faults + 1
           \/ faults' = faults /\ (FreeToGrant(p)' => FreeToGrant(p))
    PROVE  Budget(p)'
<1>1. Granting(p)' \subseteq Granting(p)
  BY DEF Granting
<1>2. ExtendedFor(p)' \subseteq ExtendedFor(p)
  BY DEF ExtendedFor
<1>3. faults' = faults => faults' >= faults
  BY DEF TypeInv, TypeOK
<1> QED
  BY <1>1, <1>2, <1>3, BudgetMoves

\* A run of another payment changes nothing in the account of p.
LEMMA OtherPayment ==
    ASSUME TypeInv, TypeInv', NEW p \in Payments, Budget(p), Delivered(p) => Delivered(p)',
           NEW r \in Runs, on[r] # p, on'[r] # p,
           \A q \in Runs : q # r => pc'[q] = pc[q] /\ on'[q] = on[q],
           \A k \in LandingKeys : p \in extended'[k] => p \in extended[k],
           clients'[p] = clients[p],
           status'[p] = status[p], token'[p] = token[p], stale'[p] = stale[p],
           faults' \in {faults, faults + 1}
    PROVE  Budget(p)'
<1>1. HeldAtWork(p) => HeldAtWork(p)'
  BY DEF HeldAtWork, AtWork
<1>2. FreeToGrant(p)' => FreeToGrant(p)
  BY <1>1 DEF FreeToGrant
<1> QED
  BY <1>2, NothingGranted
\* A step of the run r of p with no fault: it keeps the account of p.
LEMMA AdvanceBudget ==
    ASSUME TypeInv, TypeInv', DeliveryOrder, NEW p \in Payments, Budget(p),
           Delivered(p) => Delivered(p)', NEW r \in Runs, on[r] = p, Advance(r)
    PROVE  Budget(p)'
<1> USE DEF Goto, rowVars, keyVars
<1>1. /\ on' = on /\ pc' = [pc EXCEPT ![r] = pc'[r]] /\ faults' = faults
      /\ \A s \in Runs : s # r => pc'[s] = pc[s]
  BY DEF Advance, LoadPaymentData, ClaimPending, CheckExisting, UpgradePanel, UpgradeSave,
     AddClient, SaveKey, CompleteClaim, ReleaseClaim, FollowUp, TypeInv, TypeOK
<1>2. ASSUME pc'[r] \notin {"check", "upgrade", "add"}, UNCHANGED <<clients, extended>>,
             HeldAtWork(p) => HeldAtWork(p)' \/ Delivered(p)',
             status[p] \notin {"pending", "processing"}
               => status'[p] \notin {"pending", "processing"}
      PROVE  Budget(p)'
  <2>1. FreeToGrant(p)' => FreeToGrant(p)
    BY <1>2 DEF FreeToGrant
  <2>2. \A s \in Runs : on'[s] = p /\ pc'[s] \in {"check", "upgrade", "add"}
                           => on[s] = p /\ pc[s] = pc'[s]
    BY <1>1, <1>2
  <2> QED
    BY <1>1, <1>2, <2>1, <2>2, NothingGranted
<1>3. ASSUME LoadPaymentData(r) PROVE Budget(p)'
  BY <1>1, <1>2, <1>3 DEF LoadPaymentData, HeldAtWork, AtWork, Working, TypeInv, TypeOK
<1>4. ASSUME ClaimPending(r) PROVE Budget(p)'
  <2>1. CASE ~Claimable(p)
    BY <1>1, <1>2, <1>4, <2>1 DEF ClaimPending, HeldAtWork, AtWork, Working, TypeInv, TypeOK
  <2>2. CASE Claimable(p)
    <3>1. /\ status'[p] = "processing" /\ token'[p] = r /\ stale'[p] = FALSE
          /\ pc[r] = "claim" /\ pc'[r] = "check"
          /\ UNCHANGED <<keyVars, faults>>
      BY <1>4, <2>2 DEF ClaimPending, TypeInv, TypeOK
    <3>2. HeldAtWork(p)' /\ ~HeldAtWork(p)
      BY <1>1, <2>2, <3>1 DEF HeldAtWork, AtWork, Working, Claimable, TypeInv, TypeOK
    <3>3. ~FreeToGrant(p)' /\ (~Delivered(p) => FreeToGrant(p))
      BY <2>2, <3>2 DEF FreeToGrant, Claimable
    <3>4. UNCHANGED <<newKeys, landingPaid, clients, extended>>
      BY <3>1
    <3>5. Granting(p)' \subseteq Granting(p) \cup {r} /\ (Delivered(p) => Granting(p)' \subseteq Granting(p))
      BY <1>1, <3>1 DEF Granting
    <3>6. ExtendedFor(p)' \subseteq ExtendedFor(p) /\ clients'[p] = clients[p] /\ faults' >= faults
      BY <1>1, <3>4 DEF ExtendedFor, TypeInv, TypeOK
    <3>7. CASE Delivered(p)
      BY <1>1, <3>3, <3>5, <3>6, <3>7, BudgetMoves
    <3>8. CASE ~Delivered(p)
      BY <1>1, <3>3, <3>5, <3>6, <3>8, BudgetMoves
    <3> QED
      BY <3>7, <3>8
  <2> QED
    BY <2>1, <2>2
<1>5. ASSUME CheckExisting(r) PROVE Budget(p)'
  <2>1. CASE Delivered(p)
    BY <1>1, <1>2, <1>5, <2>1 DEF CheckExisting, HeldAtWork, AtWork, Working, TypeInv, TypeOK
  <2>2. CASE ~Delivered(p)
    <3>1. /\ pc[r] = "check" /\ pc'[r] \in {"upgrade", "add"}
          /\ UNCHANGED <<status, token, stale, newKeys, landingPaid, clients, extended, faults>>
      BY <1>5, <2>2 DEF CheckExisting, TypeInv, TypeOK
    <3>2. Granting(p)' \subseteq Granting(p)
      BY <1>1, <2>2, <3>1 DEF Granting
    <3>3. FreeToGrant(p)' => FreeToGrant(p)
      BY <1>1, <2>2, <3>1 DEF FreeToGrant, HeldAtWork, AtWork, Working, Delivered
    <3>4. ExtendedFor(p)' \subseteq ExtendedFor(p) /\ clients'[p] = clients[p] /\ faults' >= faults
      BY <3>1 DEF ExtendedFor, TypeInv, TypeOK
    <3> QED
      BY <3>2, <3>3, <3>4, BudgetMoves
  <2> QED
    BY <2>1, <2>2
<1>6. ASSUME NEW k, r \in Granting(p), pc'[r] \in {"save", "upgradeSave"},
             pc[r] \in {"upgrade", "add"},
             \/ ExtendedFor(p)' \subseteq ExtendedFor(p) \cup {k} /\ clients'[p] = clients[p]
             \/ ExtendedFor(p)' \subseteq ExtendedFor(p) /\ clients'[p] = clients[p] + 1,
             UNCHANGED <<status, token, stale, newKeys, landingPaid, faults>>
      PROVE  Budget(p)'
  <2>1. Granting(p)' \subseteq Granting(p) \ {r}
    BY <1>1, <1>6 DEF Granting, Delivered
  <2>2. FreeToGrant(p)' => FreeToGrant(p)
    BY <1>1, <1>6 DEF FreeToGrant, HeldAtWork, AtWork, Working, Delivered
  <2> QED
    BY <1>6, <2>1, <2>2, BudgetMoves
<1>7. ASSUME UpgradePanel(r) PROVE Budget(p)'
  <2>1. r \in Granting(p) /\ pc'[r] = "upgradeSave" /\ pc[r] = "upgrade"
    BY <1>7 DEF UpgradePanel, Granting, TypeInv, TypeOK
  <2>2. ExtendedFor(p)' \subseteq ExtendedFor(p) \cup {LandingOf[p]} /\ clients'[p] = clients[p]
    BY <1>7 DEF UpgradePanel, ExtendedFor, TypeInv, TypeOK
  <2> QED
    BY <1>6, <1>7, <2>1, <2>2 DEF UpgradePanel
<1>8. ASSUME AddClient(r) PROVE Budget(p)'
  <2>1. r \in Granting(p) /\ pc'[r] = "save" /\ pc[r] = "add"
    BY <1>8 DEF AddClient, Granting, TypeInv, TypeOK
  <2>2. ExtendedFor(p)' \subseteq ExtendedFor(p) /\ clients'[p] = clients[p] + 1
    BY <1>8 DEF AddClient, ExtendedFor, TypeInv, TypeOK
  <2> QED
    BY <1>6, <1>8, <2>1, <2>2 DEF AddClient
<1>9. ASSUME UpgradeSave(r) PROVE Budget(p)'
  <2>1. Delivered(p)'
    BY <1>9 DEF UpgradeSave, Delivered, TypeInv, TypeOK
  <2> QED
    BY <1>2, <1>9, <2>1 DEF UpgradeSave, TypeInv, TypeOK
<1>10. ASSUME SaveKey(r) PROVE Budget(p)'
  <2>1. Delivered(p)'
    BY <1>10 DEF SaveKey, Delivered
  <2> QED
    BY <1>2, <1>10, <2>1 DEF SaveKey, TypeInv, TypeOK
<1>11. ASSUME CompleteClaim(r) PROVE Budget(p)'
  <2>1. Delivered(p)'
    BY <1>11 DEF CompleteClaim, DeliveryOrder, RunOrder
  <2>2. pc'[r] \in {"idle", "notify"}
    BY <1>11 DEF CompleteClaim, TypeInv, TypeOK
  <2>3. status[p] \notin {"pending", "processing"} => status'[p] \notin {"pending", "processing"}
    BY <1>11 DEF CompleteClaim, Owns
  <2> QED
    BY <1>2, <1>11, <2>1, <2>2, <2>3 DEF CompleteClaim
<1>12. ASSUME ReleaseClaim(r) PROVE Budget(p)'
  <2>1. pc'[r] = "idle" /\ pc[r] = "release"
    BY <1>12 DEF ReleaseClaim, TypeInv, TypeOK
  <2>2. HeldAtWork(p) => HeldAtWork(p)'
    BY <1>1, <1>12, <2>1 DEF ReleaseClaim, HeldAtWork, AtWork, Owns
  <2>3. status[p] \notin {"pending", "processing"} => status'[p] \notin {"pending", "processing"}
    BY <1>12 DEF ReleaseClaim, Owns
  <2> QED
    BY <1>2, <1>12, <2>1, <2>2, <2>3 DEF ReleaseClaim
<1>13. ASSUME FollowUp(r) PROVE Budget(p)'
  <2>1. pc[r] \notin Working
    BY <1>13 DEF FollowUp, FollowUps, Working
  <2>2. pc'[r] \notin {"check", "upgrade", "add"}
    BY <1>13 DEF FollowUp, FollowUps, AfterFollowUp, TypeInv, TypeOK
  <2>3. HeldAtWork(p) => HeldAtWork(p)'
    BY <1>1, <1>13, <2>1 DEF FollowUp, HeldAtWork, AtWork
  <2> QED
    BY <1>2, <1>13, <2>2, <2>3 DEF FollowUp
<1> QED
  BY <1>3, <1>4, <1>5, <1>7, <1>8, <1>9, <1>10, <1>11, <1>12, <1>13 DEF Advance

\* A failing step of the run r of p: what it grants or gives up is paid for by
\* the fault it is.
LEMMA FailBudget ==
    ASSUME TypeInv, TypeInv', DeliveryOrder, NEW p \in Payments, Budget(p),
           Delivered(p) => Delivered(p)', NEW r \in Runs, on[r] = p, Fail(r)
    PROVE  Budget(p)'
<1> USE DEF Goto, Fault, rowVars, keyVars
<1>1. /\ on' = on /\ faults' = faults + 1
      /\ \A s \in Runs : s # r => pc'[s] = pc[s]
  BY DEF Fail, ClaimFails, UpgradePanelFails, ProcessFails, SaveAnswerLost, CompleteFails,
     ReleaseFails, FollowUpFails, TypeInv, TypeOK
<1>2. ASSUME pc'[r] \notin {"check", "upgrade", "add"}, UNCHANGED <<clients, extended>>
      PROVE  Budget(p)'
  <2>1. \A s \in Runs : on'[s] = p /\ pc'[s] \in {"check", "upgrade", "add"}
                           => on[s] = p /\ pc[s] = pc'[s]
    BY <1>1, <1>2
  <2> QED
    BY <1>1, <1>2, <2>1, NothingGranted
<1>3. ASSUME ClaimFails(r) \/ SaveAnswerLost(r) \/ CompleteFails(r) \/ ReleaseFails(r)
      PROVE  Budget(p)'
  BY <1>2, <1>3 DEF ClaimFails, SaveAnswerLost, CompleteFails, ReleaseFails, TypeInv, TypeOK
<1>4. ASSUME FollowUpFails(r) PROVE Budget(p)'
  <2>1. pc'[r] \notin {"check", "upgrade", "add"}
    BY <1>4 DEF FollowUpFails, FollowUps, AfterFollowUp, TypeInv, TypeOK
  <2> QED
    BY <1>2, <1>4, <2>1 DEF FollowUpFails
<1>5. ASSUME UpgradePanelFails(r) PROVE Budget(p)'
  <2>1. /\ pc[r] = "upgrade" /\ pc'[r] = "add"
        /\ UNCHANGED <<status, token, stale, newKeys, landingPaid, clients>>
    BY <1>5 DEF UpgradePanelFails, TypeInv, TypeOK
  <2>2. Granting(p)' \subseteq Granting(p)
    BY <1>1, <2>1 DEF Granting, Delivered
  <2>3. ExtendedFor(p)' \subseteq ExtendedFor(p) \cup {LandingOf[p]}
    BY <1>5 DEF UpgradePanelFails, ExtendedFor, TypeInv, TypeOK
  <2>4. FreeToGrant(p)' => FreeToGrant(p)
    BY <1>1, <2>1 DEF FreeToGrant, HeldAtWork, AtWork, Working, Delivered
  <2> QED
    BY <1>1, <2>1, <2>2, <2>3, <2>4, BudgetMoves
<1>6. ASSUME ProcessFails(r) PROVE Budget(p)'
  <2>1. pc'[r] = "release" /\ UNCHANGED extended
    BY <1>6 DEF ProcessFails, TypeInv, TypeOK
  <2>2. CASE UNCHANGED clients
    BY <1>2, <2>1, <2>2
  <2>3. CASE pc[r] = "add" /\ clients' = [clients EXCEPT ![on[r]] = @ + 1]
    <3>1. r \in Granting(p)
      BY <2>3 DEF Granting
    <3>2. Granting(p)' \subseteq Granting(p) \ {r}
      BY <1>1, <1>6, <2>1 DEF ProcessFails, Granting, Delivered
    <3>3. ExtendedFor(p)' \subseteq ExtendedFor(p) /\ clients'[p] = clients[p] + 1
      BY <2>1, <2>3 DEF ExtendedFor, TypeInv, TypeOK
    <3> QED
      BY <1>1, <3>1, <3>2, <3>3, BudgetMoves
  <2> QED
    BY <1>6, <2>2, <2>3 DEF ProcessFails
<1> QED
  BY <1>3, <1>4, <1>5, <1>6 DEF Fail
\* Every step keeps the account of every payment.
LEMMA BudgetStep ==
    ASSUME NoSharedLanding, TypeInv, TypeInv', DeliveryOrder, [Next]_vars,
           NEW p \in Payments, Budget(p)
    PROVE  Budget(p)'
<1> USE DEF Goto, Fault, rowVars, keyVars
<1>0. Delivered(p) => Delivered(p)'
  BY StaysDelivered
<1>1. ASSUME UNCHANGED <<rowVars, keyVars, pc, on, faults>> PROVE Budget(p)'
  <2>1. FreeToGrant(p)' => FreeToGrant(p)
    BY <1>1 DEF FreeToGrant, HeldAtWork, AtWork, Delivered
  <2> QED
    BY <1>0, <1>1, <2>1, NothingGranted
<1>2. ASSUME NEW q \in Payments, ClaimExpires(q) PROVE Budget(p)'
  <2>1. CASE faults' = faults + 1
    BY <1>0, <1>2, <2>1, NothingGranted DEF ClaimExpires
  <2>2. CASE faults' = faults
    <3>1. q # p \/ ~HeldAtWork(p)
      BY <1>2, <2>2 DEF ClaimExpires, Abandoned, HeldAtWork, TypeInv, TypeOK
    <3>2. FreeToGrant(p)' => FreeToGrant(p)
      BY <1>2, <3>1 DEF ClaimExpires, FreeToGrant, HeldAtWork, AtWork, Delivered, TypeInv, TypeOK
    <3> QED
      BY <1>0, <1>2, <2>2, <3>2, NothingGranted DEF ClaimExpires
  <2> QED
    BY <1>2, <2>1, <2>2 DEF ClaimExpires
<1>3. ASSUME NEW c \in Procs, NEW q \in Payments, MarkCanceledIfPending(c, q) PROVE Budget(p)'
  <2>1. FreeToGrant(p)' => FreeToGrant(p)
    BY <1>3 DEF MarkCanceledIfPending, FreeToGrant, HeldAtWork, AtWork, Delivered, TypeInv, TypeOK
  <2> QED
    BY <1>0, <1>3, <2>1, NothingGranted DEF MarkCanceledIfPending
<1>4. ASSUME NEW r \in Runs, NEW q \in Payments, Begin(r, q) PROVE Budget(p)'
  <2>1. FreeToGrant(p)' => FreeToGrant(p)
    BY <1>4 DEF Begin, FreeToGrant, HeldAtWork, AtWork, Working, Delivered, TypeInv, TypeOK
  <2>2. \A s \in Runs : on'[s] = p /\ pc'[s] \in {"check", "upgrade", "add"}
                           => on[s] = p /\ pc[s] = pc'[s]
    BY <1>4 DEF Begin, TypeInv, TypeOK
  <2> QED
    BY <1>0, <1>4, <2>1, <2>2, NothingGranted DEF Begin
<1>5. ASSUME NEW c \in Procs, Restart(c) PROVE Budget(p)'
  <2>1. \A s \in Runs : on'[s] = p /\ pc'[s] \in {"check", "upgrade", "add"}
                           => on[s] = p /\ pc[s] = pc'[s]
    BY <1>5 DEF Restart
  <2>2. CASE faults' = faults + 1
    BY <1>0, <1>5, <2>1, <2>2, NothingGranted DEF Restart
  <2>3. CASE faults' = faults /\ \A s \in Runs : ProcOf(s) = c => pc[s] = "idle"
    <3>1. \A s \in Runs : pc'[s] = pc[s]
      BY <1>5, <2>3 DEF Restart
    <3>2. FreeToGrant(p)' => FreeToGrant(p)
      BY <1>5, <3>1 DEF Restart, FreeToGrant, HeldAtWork, AtWork, Delivered
    <3> QED
      BY <1>0, <1>5, <2>1, <2>3, <3>2, NothingGranted DEF Restart
  <2> QED
    BY <1>5, <2>2, <2>3 DEF Restart
<1>6. ASSUME NEW r \in Runs, Advance(r) \/ Fail(r), on[r] # p PROVE Budget(p)'
  <2>1. /\ UNCHANGED on
        /\ \A q \in Runs : q # r => pc'[q] = pc[q] /\ on'[q] = on[q]
    BY <1>6 DEF Advance, Fail, LoadPaymentData, ClaimPending, ClaimFails, CheckExisting,
       UpgradePanel, UpgradePanelFails, UpgradeSave, AddClient, SaveKey, ProcessFails,
       SaveAnswerLost, ReleaseClaim, ReleaseFails, CompleteClaim, CompleteFails,
       FollowUp, FollowUpFails, TypeInv, TypeOK
  <2>2. \A k \in LandingKeys : p \in extended'[k] => p \in extended[k]
    <3>1. \/ UNCHANGED extended
          \/ extended' = [extended EXCEPT ![LandingOf[on[r]]] = @ \cup {on[r]}]
      BY <1>6 DEF Advance, Fail, LoadPaymentData, ClaimPending, ClaimFails, CheckExisting,
         UpgradePanel, UpgradePanelFails, UpgradeSave, AddClient, SaveKey, ProcessFails,
         SaveAnswerLost, ReleaseClaim, ReleaseFails, CompleteClaim, CompleteFails,
         FollowUp, FollowUpFails
    <3>2. ASSUME NEW k \in LandingKeys, p \in extended'[k],
                 extended' = [extended EXCEPT ![LandingOf[on[r]]] = @ \cup {on[r]}]
          PROVE  p \in extended[k]
      <4>1. extended'[k] \subseteq extended[k] \cup {on[r]}
        BY <3>2 DEF TypeInv, TypeOK
      <4> QED
        BY <1>6, <3>2, <4>1
    <3> QED
      BY <3>1, <3>2
  <2>3. clients'[p] = clients[p]
    BY <1>6 DEF Advance, Fail, LoadPaymentData, ClaimPending, ClaimFails, CheckExisting,
       UpgradePanel, UpgradePanelFails, UpgradeSave, AddClient, SaveKey, ProcessFails,
       SaveAnswerLost, ReleaseClaim, ReleaseFails, CompleteClaim, CompleteFails,
       FollowUp, FollowUpFails, TypeInv, TypeOK
  <2>4. status'[p] = status[p] /\ token'[p] = token[p] /\ stale'[p] = stale[p]
    BY <1>6 DEF Advance, Fail, LoadPaymentData, ClaimPending, ClaimFails, CheckExisting,
       UpgradePanel, UpgradePanelFails, UpgradeSave, AddClient, SaveKey, ProcessFails,
       SaveAnswerLost, ReleaseClaim, ReleaseFails, CompleteClaim, CompleteFails,
       FollowUp, FollowUpFails, TypeInv, TypeOK
  <2>5. faults' \in {faults, faults + 1}
    BY <1>6 DEF Advance, Fail, LoadPaymentData, ClaimPending, ClaimFails, CheckExisting,
       UpgradePanel, UpgradePanelFails, UpgradeSave, AddClient, SaveKey, ProcessFails,
       SaveAnswerLost, ReleaseClaim, ReleaseFails, CompleteClaim, CompleteFails,
       FollowUp, FollowUpFails
  <2> QED
    BY <1>0, <1>6, <2>1, <2>2, <2>3, <2>4, <2>5, OtherPayment
<1>7. ASSUME NEW r \in Runs, on[r] = p, Advance(r) PROVE Budget(p)'
  BY <1>0, <1>7, AdvanceBudget
<1>8. ASSUME NEW r \in Runs, on[r] = p, Fail(r) PROVE Budget(p)'
  BY <1>0, <1>8, FailBudget
<1>9. CASE UNCHANGED vars
  BY <1>1, <1>9 DEF vars
<1> QED
  BY <1>1, <1>2, <1>3, <1>4, <1>5, <1>6, <1>7, <1>8, <1>9, RunSets
     DEF Next, Webhook, Sweep, YooKassaDecides
\* A payment grants one subscription on the panel, and at most one more for
\* every crash, failure or slow run: of redelivered webhooks and sweeps only
\* one is let in, and what a retry may repeat was paid for by the fault that
\* made it necessary.
THEOREM OneSubscription == NoSharedLanding => (Spec => []OneSubscriptionPerPayment)
<1> SUFFICES ASSUME NoSharedLanding PROVE Spec => []OneSubscriptionPerPayment
  OBVIOUS
<1>1. Init => TypeInv /\ DeliveryOrder /\ WithinBudget
  <2> SUFFICES ASSUME Init, NEW p \in Payments PROVE Budget(p)
    BY RoutingInit DEF WithinBudget
  <2>1. Granting(p) = {} /\ ExtendedFor(p) = {}
    BY DEF Init, Granting, ExtendedFor
  <2>2. clients[p] = 0 /\ faults = 0
    BY DEF Init
  <2> HIDE DEF Granting, ExtendedFor
  <2> QED
    BY <2>1, <2>2, FS_EmptySet DEF Budget
<1>2. TypeInv /\ DeliveryOrder /\ WithinBudget /\ [Next]_vars
        => TypeInv' /\ DeliveryOrder' /\ WithinBudget'
  BY TypeInvStep, DeliveryOrderStep, BudgetStep DEF WithinBudget
<1>3. TypeInv /\ WithinBudget => OneSubscriptionPerPayment
  <2> SUFFICES ASSUME TypeInv, NEW p \in Payments, Budget(p) PROVE Granted(p) <= 1 + faults
    BY DEF WithinBudget, OneSubscriptionPerPayment
  <2>1. Cardinality(Granting(p)) \in Nat /\ Cardinality(ExtendedFor(p)) \in Nat
    BY FS_CardinalityType DEF Budget
  <2>2. clients[p] \in Nat /\ faults \in Nat
    BY DEF TypeInv, TypeOK
  <2>3. clients[p] + Cardinality(ExtendedFor(p)) <= 1 + faults
    BY <2>1, <2>2 DEF Budget
  <2> QED
    BY <2>3 DEF Granted, ExtendedFor
<1> QED
  BY <1>1, <1>2, <1>3, PTL DEF Spec
=============================================================================
