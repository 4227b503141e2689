---------------------------- MODULE PaymentsProofs ----------------------------
(***************************************************************************)
(* Two promises of the till for every value of the constants: the limit of *)
(* a promo code against any number of buyers at once, and one invoice per  *)
(* terms, and none over a paid one, against any number of requests of one  *)
(* user.  Prices and balances are left to model checking.                  *)
(***************************************************************************)
EXTENDS Payments, SumTheorems

-----------------------------------------------------------------------------
(* A code                                                                  *)

\* The users whom the limit counts.
Holding ==
    {u \in Users : redemption[u] = "used" \/ (redemption[u] = "reserved" /\ fresh[u])}

CodeTypes ==
    /\ redemption \in [Users -> {"none", "reserved", "used"}]
    /\ fresh \in [Users -> BOOLEAN] /\ wasNew \in [Users -> BOOLEAN]
    /\ stage \in [Purchases -> Promo!Stages]
    /\ early \subseteq Users

\* A purchase without the code never asks for one.
PlainIsPlain ==
    /\ \A p \in Plain \cap Purchases : stage[p] \notin Promo!InRequest
    /\ coded \subseteq Purchases \ Plain

\* Everyone the limit counts is within it, but those who kept their discount
\* past its reservation.
WithinLimit == Cardinality(Holding \ early) <= MaxRedemptions

\* Who has a discounted invoice is counted, or kept it past its reservation.
DiscountBacked ==
    \A p \in Purchases :
       Promo!Discounted(p) => redemption[OwnerOf[p]] # "none" /\ OwnerOf[p] \in Holding \cup early

UsedIsPaid ==
    \A u \in Users : redemption[u] = "used" =>
       \E p \in coded : OwnerOf[p] = u /\ stage[p] \in {"settled", "counted"}

NewReserved == NewOnly => \A u \in Users : redemption[u] # "none" => wasNew[u]

CodeRight ==
    CodeTypes /\ PlainIsPlain /\ WithinLimit /\ DiscountBacked /\ UsedIsPaid /\ NewReserved

CodeInv == side = "race" => CodeRight

-----------------------------------------------------------------------------
(* The invoices of a user                                                  *)

BankTypes ==
    /\ issued \in 0..MaxInvoices
    /\ yk \in [Bill!Invoices -> {"pending", "paid", "canceled"}]
    /\ terms \in [Bill!Invoices -> Terms \cup {None}]
    /\ invoiceRow \in [Bill!Invoices -> Bill!RowStatus]
    /\ linked \subseteq 1..issued
    /\ invoiceFaults \in Nat

RequestTypes ==
    /\ lock \in Requests \cup {None}
    /\ pc \in [Requests -> Bill!Places]
    /\ want \in [Requests -> Terms \cup {None}]
    /\ todo \in [Requests -> SUBSET Bill!Invoices]
    /\ busy \in [Requests -> SUBSET Bill!Invoices]
    /\ mine \in [Requests -> Bill!Invoices \cup {None}]
    /\ paidThen \in [Requests -> SUBSET Bill!Invoices]

\* What YooKassa, the table and the user know of an invoice.
InvoiceRows ==
    \A i \in Bill!Invoices :
       /\ i \in linked => invoiceRow[i] # "none"
       /\ invoiceRow[i] # "none" => i <= issued /\ terms[i] \in Terms
       /\ invoiceRow[i] \in {"processing", "succeeded"} => yk[i] = "paid"
       /\ invoiceRow[i] = "canceled" => yk[i] = "canceled"

\* One request at a time is past the lock, and it holds what it issued: an
\* invoice that no row speaks of yet.
Stands(r) ==
    /\ pc[r] \in {"list", "check", "create", "save"} => lock = r
    /\ pc[r] \in {"idle", "lock", "list"} => todo[r] = {} /\ paidThen[r] = {}
    /\ pc[r] \in {"create", "save"} => todo[r] = {}
    /\ pc[r] # "idle" => want[r] \in Terms
    /\ pc[r] = "save" =>
          /\ mine[r] \in 1..issued
          /\ invoiceRow[mine[r]] = "none" /\ terms[mine[r]] = want[r]
    /\ todo[r] \subseteq 1..issued /\ \A i \in todo[r] : invoiceRow[i] # "none"
InvoiceLocks == \A r \in Requests : Stands(r)

\* Open invoices that a newer open one of the same terms follows.
Older == {i \in Bill!Open : \E j \in Bill!Open : j > i /\ terms[j] = terms[i]}

\* An open invoice for what r wants, which r does not look at any more.
Unseen(r) == \E i \in Bill!Open \ todo[r] : terms[i] = want[r]

\* r goes on to issue an invoice beside an open one for the same terms.
Blind == \E r \in Requests : pc[r] \in {"check", "create", "save"} /\ Unseen(r)

\* The failures so far leave the list long enough for all that is open.
Fits == Cardinality(Terms) + invoiceFaults <= Limit

\* Every open invoice beside a newer one for the same terms cost a failure, and
\* the next one to come has cost its own already.
Charged == Cardinality(Older) + (IF Blind THEN 1 ELSE 0) <= invoiceFaults

\* What was paid when the request looked is among what it still has to ask about.
Ahead(r) == \A i \in paidThen[r] : i \in todo[r] /\ yk[i] = "paid"
PaidAhead == \A r \in Requests : Ahead(r)

InvoiceRight ==
    /\ BankTypes /\ RequestTypes /\ InvoiceRows /\ InvoiceLocks
    /\ Fits => Charged /\ PaidAhead

InvoiceInv == side = "invoice" => InvoiceRight

-----------------------------------------------------------------------------
(* The limit of a code                                                     *)

\* The parts count as this module does.
LEMMA SameCount ==
    \A S : Promo!Cardinality(S) = Cardinality(S) /\ Bill!Cardinality(S) = Cardinality(S)
BY DEF Promo!Cardinality, Bill!Cardinality, Cardinality

\* The users the limit counts are finitely many.
LEMMA HoldingFinite ==
    /\ IsFiniteSet(Holding) /\ IsFiniteSet(Holding \ early)
    /\ Cardinality(Holding) \in Nat /\ Cardinality(Holding \ early) \in Nat
<1>1. IsFiniteSet(Holding)
    BY CodeConstants, FS_Subset DEF Holding
<1>2. IsFiniteSet(Holding \ early)
    BY <1>1, FS_Subset
<1> QED
    BY <1>1, <1>2, FS_CardinalityType

\* At the start nobody has reserved anything.
LEMMA CodeStart ==
    ASSUME Init
    PROVE  CodeInv
<1> SUFFICES ASSUME side = "race" PROVE CodeRight
    BY DEF CodeInv
<1>1. Promo!Init
    BY DEF Init
<1>2. CodeTypes /\ PlainIsPlain
    BY <1>1 DEF Promo!Init, CodeTypes, PlainIsPlain, Promo!Stages, Promo!InRequest
<1>3. Holding \ early = {}
    BY <1>1 DEF Promo!Init, Holding
<1>4. WithinLimit
    BY <1>3, CodeConstants, FS_EmptySet DEF WithinLimit
<1>5. DiscountBacked /\ UsedIsPaid /\ NewReserved
    BY <1>1, CodeConstants
    DEF Promo!Init, DiscountBacked, UsedIsPaid, NewReserved, Promo!Discounted, Promo!Bought
<1> QED
    BY <1>2, <1>4, <1>5 DEF CodeRight

\* A step that moves purchases only keeps the rest, if no purchase comes to have
\* the discount by it and no settled one is taken back.
LEMMA MovesOnly ==
    ASSUME CodeRight,
           UNCHANGED <<redemption, fresh, early, wasNew>>,
           stage' \in [Purchases -> Promo!Stages],
           coded \subseteq coded',
           PlainIsPlain',
           \A p \in Purchases : Promo!Discounted(p)' => Promo!Discounted(p),
           \A p \in Purchases :
              stage[p] \in {"settled", "counted"} => stage'[p] \in {"settled", "counted"}
    PROVE  CodeRight'
<1>1. CodeTypes'
    BY DEF CodeRight, CodeTypes
<1>2. Holding' = Holding
    BY DEF Holding
<1>3. WithinLimit'
    BY <1>2 DEF CodeRight, WithinLimit
<1>4. DiscountBacked'
    <2> SUFFICES ASSUME NEW p \in Purchases, Promo!Discounted(p)'
                 PROVE  redemption[OwnerOf[p]] # "none" /\ OwnerOf[p] \in Holding \cup early
        BY <1>2 DEF DiscountBacked
    <2> QED
        BY DEF CodeRight, DiscountBacked
<1>5. UsedIsPaid'
    <2> SUFFICES ASSUME NEW u \in Users, redemption[u] = "used"
                 PROVE  \E p \in coded' :
                           OwnerOf[p] = u /\ stage'[p] \in {"settled", "counted"}
        BY DEF UsedIsPaid
    <2>1. PICK p \in coded : OwnerOf[p] = u /\ stage[p] \in {"settled", "counted"}
        BY DEF CodeRight, UsedIsPaid
    <2>2. p \in Purchases
        BY DEF CodeRight, PlainIsPlain
    <2> QED
        BY <2>1, <2>2
<1>6. NewReserved'
    BY DEF CodeRight, NewReserved
<1> QED
    BY <1>1, <1>3, <1>4, <1>5, <1>6 DEF CodeRight

\* A purchase moves; the code and its reservations stay as they are.
LEMMA PurchaseMoves ==
    ASSUME CodeRight,
           NEW p \in Purchases,
           \/ Promo!Quote(p) \/ Promo!ReserveRefused(p) \/ Promo!PlainInvoice(p)
           \/ Promo!IssueInvoice(p) \/ Promo!NoInvoice(p) \/ Promo!AttachPayment(p)
           \/ Promo!AttachFails(p) \/ Promo!Pay(p) \/ Promo!Lapse(p) \/ Promo!Settle(p)
           \/ Promo!ListenerFails(p)
    PROVE  CodeRight'
<1> USE DEF Promo!Goto, Promo!Stages, Promo!InRequest, Promo!Bought
<1>1. CodeTypes /\ PlainIsPlain
    BY DEF CodeRight
<1>2. UNCHANGED <<redemption, fresh, early, wasNew>>
    BY DEF Promo!Quote, Promo!ReserveRefused, Promo!PlainInvoice, Promo!IssueInvoice,
           Promo!NoInvoice, Promo!AttachPayment, Promo!AttachFails, Promo!Pay, Promo!Lapse,
           Promo!Settle, Promo!ListenerFails
<1>3. /\ stage' \in [Purchases -> Promo!Stages]
      /\ coded \subseteq coded' /\ coded' \subseteq coded \cup {p}
      /\ p \in Plain => coded' = coded /\ stage'[p] \notin Promo!InRequest
      /\ \A q \in Purchases \ {p} : stage'[q] = stage[q]
      /\ Promo!Discounted(p)' => Promo!Discounted(p)
      /\ stage[p] \in {"settled", "counted"} => stage'[p] \in {"settled", "counted"}
    <2>1. CASE Promo!Quote(p) \/ Promo!ReserveRefused(p) \/ Promo!NoInvoice(p)
        BY <2>1, <1>1 DEF Promo!Quote, Promo!ReserveRefused, Promo!NoInvoice, CodeTypes,
                     PlainIsPlain, Promo!Discounted
    <2>2. CASE Promo!PlainInvoice(p)
        BY <2>2, <1>1 DEF Promo!PlainInvoice, CodeTypes, PlainIsPlain, Promo!Discounted
    <2>3. CASE Promo!IssueInvoice(p)
        BY <2>3, <1>1 DEF Promo!IssueInvoice, CodeTypes, PlainIsPlain, Promo!Discounted
    <2>4. CASE Promo!AttachPayment(p) \/ Promo!AttachFails(p)
        BY <2>4, <1>1 DEF Promo!AttachPayment, Promo!AttachFails, CodeTypes, PlainIsPlain,
                     Promo!Discounted
    <2>5. CASE Promo!Pay(p) \/ Promo!Lapse(p)
        BY <2>5, <1>1 DEF Promo!Pay, Promo!Lapse, CodeTypes, PlainIsPlain, Promo!Discounted
    <2>6. CASE Promo!Settle(p) \/ Promo!ListenerFails(p)
        BY <2>6, <1>1 DEF Promo!Settle, Promo!ListenerFails, CodeTypes, PlainIsPlain,
                     Promo!Discounted
    <2> QED
        BY <2>1, <2>2, <2>3, <2>4, <2>5, <2>6
<1>4. PlainIsPlain'
    BY <1>1, <1>3 DEF PlainIsPlain
<1>5. \A q \in Purchases : Promo!Discounted(q)' => Promo!Discounted(q)
    BY <1>3 DEF Promo!Discounted
<1>6. \A q \in Purchases :
         stage[q] \in {"settled", "counted"} => stage'[q] \in {"settled", "counted"}
    BY <1>3
<1> HIDE DEF Promo!Goto, Promo!Stages, Promo!InRequest, Promo!Bought
<1> QED
    BY <1>2, <1>3, <1>4, <1>5, <1>6, MovesOnly
\* A reservation takes a place the rules found free.
LEMMA Reserved ==
    ASSUME CodeRight, NEW p \in Purchases, Promo!Reserve(p)
    PROVE  CodeRight'
<1> DEFINE u == OwnerOf[p]
<1>u. u \in Users
    BY CodeConstants
<1> HIDE DEF u
<1>1. /\ stage[p] = "quoted" /\ Promo!RulesPass(u)
      /\ redemption' = [redemption EXCEPT ![u] = "reserved"]
      /\ fresh' = [fresh EXCEPT ![u] = TRUE]
      /\ wasNew' = [wasNew EXCEPT ![u] = ~Promo!HasPaid(u)]
      /\ stage' = [stage EXCEPT ![p] = "reserved"]
      /\ coded' = coded /\ early' = early
    BY DEF Promo!Reserve, Promo!Goto, u
<1>2. CodeTypes /\ PlainIsPlain /\ WithinLimit /\ DiscountBacked /\ UsedIsPaid /\ NewReserved
    BY DEF CodeRight
<1>3. redemption[u] # "used" /\ Cardinality(Promo!Taken(u)) < MaxRedemptions
    BY <1>1, SameCount DEF Promo!RulesPass
<1>4. Promo!HasPaid(u) \in BOOLEAN
    BY DEF Promo!HasPaid
<1>5. CodeTypes'
    BY <1>1, <1>2, <1>4, <1>u DEF CodeTypes, Promo!Stages, Promo!InRequest
<1>6. PlainIsPlain'
    <2>1. p \notin Plain
        BY <1>1, <1>2 DEF PlainIsPlain, Promo!InRequest
    <2>2. \A q \in Purchases \ {p} : stage'[q] = stage[q]
        BY <1>1, <1>2 DEF CodeTypes
    <2> QED
        BY <1>1, <1>2, <2>1, <2>2 DEF PlainIsPlain
<1>7. Holding' = Promo!Taken(u) \cup {u} /\ u \notin Promo!Taken(u)
    BY <1>1, <1>2, <1>u DEF Holding, Promo!Taken, CodeTypes
<1>8. WithinLimit'
    <2>1. IsFiniteSet(Promo!Taken(u))
        BY CodeConstants, FS_Subset DEF Promo!Taken
    <2>2. Cardinality(Holding') = Cardinality(Promo!Taken(u)) + 1 /\ IsFiniteSet(Holding')
        BY <1>7, <2>1, FS_AddElement
    <2>3. Cardinality(Holding' \ early) <= Cardinality(Holding')
        BY <2>2, FS_Subset
    <2>4. Cardinality(Promo!Taken(u)) \in Nat /\ Cardinality(Holding' \ early) \in Nat
        BY <2>1, <2>2, FS_Subset, FS_CardinalityType
    <2>5. Cardinality(Holding' \ early) <= MaxRedemptions
        BY <1>3, <2>2, <2>3, <2>4, CodeConstants
    <2> QED
        BY <2>5, <1>1 DEF WithinLimit
<1>9. DiscountBacked'
    <2> SUFFICES ASSUME NEW q \in Purchases, Promo!Discounted(q)'
                 PROVE  redemption'[OwnerOf[q]] # "none" /\ OwnerOf[q] \in Holding' \cup early
        BY <1>1 DEF DiscountBacked
    <2>1. OwnerOf[q] \in Users
        BY CodeConstants
    <2>2. CASE OwnerOf[q] = u
        BY <2>2, <1>1, <1>2, <1>u, <1>7 DEF CodeTypes
    <2>3. CASE OwnerOf[q] # u
        <3>1. q # p
            BY <2>3 DEF u
        <3>2. Promo!Discounted(q)
            BY <3>1, <1>1, <1>2 DEF Promo!Discounted, CodeTypes
        <3>3. redemption'[OwnerOf[q]] = redemption[OwnerOf[q]]
            BY <1>1, <1>2, <2>1, <2>3 DEF CodeTypes
        <3>4. OwnerOf[q] \in Holding => OwnerOf[q] \in Promo!Taken(u)
            BY <2>3 DEF Holding, Promo!Taken
        <3> QED
            BY <1>2, <1>7, <3>2, <3>3, <3>4 DEF DiscountBacked
    <2> QED
        BY <2>2, <2>3
<1>10. UsedIsPaid'
    <2> SUFFICES ASSUME NEW v \in Users, redemption'[v] = "used"
                 PROVE  \E q \in coded :
                           OwnerOf[q] = v /\ stage'[q] \in {"settled", "counted"}
        BY <1>1 DEF UsedIsPaid
    <2>1. redemption[v] = "used"
        BY <1>1, <1>2, <1>u DEF CodeTypes
    <2>2. PICK q \in coded : OwnerOf[q] = v /\ stage[q] \in {"settled", "counted"}
        BY <1>2, <2>1 DEF UsedIsPaid
    <2>3. stage'[q] = stage[q]
        BY <1>1, <1>2, <2>2 DEF CodeTypes, PlainIsPlain
    <2> QED
        BY <2>2, <2>3
<1>11. NewReserved'
    <2> SUFFICES ASSUME NewOnly, NEW v \in Users, redemption'[v] # "none"
                 PROVE  wasNew'[v]
        BY DEF NewReserved
    <2>1. CASE v = u
        BY <2>1, <1>1, <1>2, <1>u DEF Promo!RulesPass, CodeTypes
    <2>2. CASE v # u
        BY <2>2, <1>1, <1>2, <1>u DEF NewReserved, CodeTypes
    <2> QED
        BY <2>1, <2>2
<1> QED
    BY <1>5, <1>6, <1>8, <1>9, <1>10, <1>11 DEF CodeRight

\* Counting an activation takes no place: its user had one, or outlived it.
LEMMA Counted ==
    ASSUME CodeRight, NEW p \in Purchases, Promo!MarkUsed(p)
    PROVE  CodeRight'
<1> DEFINE u == OwnerOf[p]
<1>u. u \in Users
    BY CodeConstants
<1> HIDE DEF u
<1>1. /\ stage[p] = "settled"
      /\ redemption' = [redemption EXCEPT ![u] =
                           IF p \in coded /\ @ = "reserved" THEN "used" ELSE @]
      /\ stage' = [stage EXCEPT ![p] = "counted"]
      /\ UNCHANGED <<fresh, coded, early, wasNew>>
    BY DEF Promo!MarkUsed, Promo!Goto, u
<1>2. CodeTypes /\ PlainIsPlain /\ WithinLimit /\ DiscountBacked /\ UsedIsPaid /\ NewReserved
    BY DEF CodeRight
<1>3. CASE ~(p \in coded /\ redemption[u] = "reserved")
    <2>1. redemption' = redemption
        BY <1>1, <1>2, <1>3, <1>u DEF CodeTypes
    <2>2. stage' \in [Purchases -> Promo!Stages]
        BY <1>1, <1>2 DEF CodeTypes, Promo!Stages, Promo!Bought
    <2>3. PlainIsPlain'
        BY <1>1, <1>2 DEF PlainIsPlain, CodeTypes, Promo!InRequest
    <2>4. \A q \in Purchases : Promo!Discounted(q)' => Promo!Discounted(q)
        BY <1>1, <1>2 DEF Promo!Discounted, CodeTypes, Promo!Bought
    <2>5. \A q \in Purchases :
             stage[q] \in {"settled", "counted"} => stage'[q] \in {"settled", "counted"}
        BY <1>1, <1>2 DEF CodeTypes
    <2> QED
        BY <1>1, <2>1, <2>2, <2>3, <2>4, <2>5, MovesOnly
<1>4. CASE p \in coded /\ redemption[u] = "reserved"
    <2>1. redemption' = [redemption EXCEPT ![u] = "used"]
        BY <1>1, <1>4
    <2>2. \A q \in Purchases \ {p} : stage'[q] = stage[q]
        BY <1>1, <1>2 DEF CodeTypes
    <2>3. p \notin Plain /\ Promo!Discounted(p)
        BY <1>1, <1>2, <1>4 DEF PlainIsPlain, Promo!Discounted, Promo!Bought
    <2>4. u \in Holding \cup early
        BY <1>2, <2>3 DEF DiscountBacked, u
    <2>5. CodeTypes'
        BY <1>1, <1>2, <2>1, <1>u DEF CodeTypes, Promo!Stages, Promo!Bought
    <2>6. PlainIsPlain'
        BY <1>1, <1>2, <2>2, <2>3 DEF PlainIsPlain
    <2>7. Holding' = Holding \cup {u}
        BY <1>1, <1>2, <2>1, <1>u DEF Holding, CodeTypes
    <2>8. WithinLimit'
        <3>1. Holding' \ early' = Holding \ early
            BY <1>1, <2>4, <2>7
        <3> QED
            BY <1>2, <3>1 DEF WithinLimit
    <2>9. DiscountBacked'
        <3> SUFFICES ASSUME NEW q \in Purchases, Promo!Discounted(q)'
                     PROVE  redemption'[OwnerOf[q]] # "none" /\ OwnerOf[q] \in Holding' \cup early
            BY <1>1 DEF DiscountBacked
        <3>1. Promo!Discounted(q)
            BY <2>2, <2>3 DEF Promo!Discounted
        <3>2. OwnerOf[q] \in Users
            BY CodeConstants
        <3> QED
            BY <1>2, <2>1, <2>7, <3>1, <3>2 DEF DiscountBacked, CodeTypes
    <2>10. UsedIsPaid'
        <3> SUFFICES ASSUME NEW v \in Users, redemption'[v] = "used"
                     PROVE  \E q \in coded :
                               OwnerOf[q] = v /\ stage'[q] \in {"settled", "counted"}
            BY <1>1 DEF UsedIsPaid
        <3>1. CASE v = u
            <4>1. OwnerOf[p] = v /\ stage'[p] \in {"settled", "counted"}
                BY <3>1, <1>1, <1>2 DEF CodeTypes, u
            <4> QED
                BY <4>1, <1>4
        <3>2. CASE v # u
            <4>1. redemption[v] = "used"
                BY <3>2, <1>2, <2>1 DEF CodeTypes
            <4>2. PICK q \in coded : OwnerOf[q] = v /\ stage[q] \in {"settled", "counted"}
                BY <1>2, <4>1 DEF UsedIsPaid
            <4>3. q # p
                BY <3>2, <4>2 DEF u
            <4> QED
                BY <1>2, <2>2, <4>2, <4>3 DEF PlainIsPlain
        <3> QED
            BY <3>1, <3>2
    <2>11. NewReserved'
        BY <1>1, <1>2, <1>4, <2>1, <1>u DEF NewReserved, CodeTypes
    <2> QED
        BY <2>5, <2>6, <2>8, <2>9, <2>10, <2>11 DEF CodeRight
<1> QED
    BY <1>3, <1>4

\* A reservation that lapses under a live purchase is remembered as early.
LEMMA Expired ==
    ASSUME CodeRight, NEW u \in Users, Promo!Expire(u)
    PROVE  CodeRight'
<1> DEFINE live == redemption[u] = "reserved"
                   /\ \E p \in Purchases : OwnerOf[p] = u /\ Promo!Discounted(p)
<1>1. /\ fresh' = [fresh EXCEPT ![u] = FALSE]
      /\ early' = IF live THEN early \cup {u} ELSE early
      /\ UNCHANGED <<redemption, stage, coded, wasNew>>
    BY DEF Promo!Expire
<1>2. CodeTypes /\ PlainIsPlain /\ WithinLimit /\ DiscountBacked /\ UsedIsPaid /\ NewReserved
    BY DEF CodeRight
<1>e. early \subseteq early' /\ early' \subseteq early \cup {u} /\ (live => u \in early')
    BY <1>1
<1>3. CodeTypes'
    BY <1>1, <1>2, <1>e DEF CodeTypes
<1>4. PlainIsPlain'
    BY <1>1, <1>2 DEF PlainIsPlain
<1>5. /\ Holding' \subseteq Holding
      /\ \A v \in Users \ {u} : v \in Holding => v \in Holding'
      /\ redemption[u] = "used" => u \in Holding'
    BY <1>1, <1>2 DEF Holding, CodeTypes
<1>6. WithinLimit'
    <2>1. Holding' \ early' \subseteq Holding \ early
        BY <1>5, <1>e
    <2>2. Cardinality(Holding' \ early') <= Cardinality(Holding \ early)
        BY <2>1, HoldingFinite, FS_Subset
    <2>3. Cardinality(Holding' \ early') \in Nat
        BY <2>1, HoldingFinite, FS_Subset, FS_CardinalityType
    <2>4. Cardinality(Holding' \ early') <= MaxRedemptions
        BY <1>2, <2>2, <2>3, HoldingFinite, CodeConstants DEF WithinLimit
    <2> QED
        BY <2>4 DEF WithinLimit
<1>7. DiscountBacked'
    <2> SUFFICES ASSUME NEW p \in Purchases, Promo!Discounted(p)
                 PROVE  redemption[OwnerOf[p]] # "none" /\ OwnerOf[p] \in Holding' \cup early'
        BY <1>1 DEF DiscountBacked, Promo!Discounted
    <2>1. OwnerOf[p] \in Users /\ redemption[OwnerOf[p]] # "none"
          /\ OwnerOf[p] \in Holding \cup early
        BY <1>2, CodeConstants DEF DiscountBacked
    <2>2. CASE OwnerOf[p] = u /\ redemption[u] = "reserved"
        BY <2>1, <2>2, <1>e
    <2>3. CASE OwnerOf[p] = u /\ redemption[u] # "reserved"
        BY <2>1, <2>3, <1>2, <1>5 DEF CodeTypes
    <2>4. CASE OwnerOf[p] # u
        BY <2>1, <2>4, <1>5, <1>e
    <2> QED
        BY <2>2, <2>3, <2>4
<1>8. UsedIsPaid'
    BY <1>1, <1>2 DEF UsedIsPaid
<1>9. NewReserved'
    BY <1>1, <1>2 DEF NewReserved
<1> QED
    BY <1>3, <1>4, <1>6, <1>7, <1>8, <1>9 DEF CodeRight

\* Every step of the code keeps its invariant.
LEMMA CodeSteps ==
    ASSUME CodeInv, [Next]_paymentsVars
    PROVE  CodeInv'
<1> SUFFICES ASSUME side' = "race" PROVE CodeRight'
    BY DEF CodeInv
<1>1. side = "race"
    BY DEF Next, Race, Buy, Invoice, Settlement, paymentsVars
<1>2. CodeRight
    BY <1>1 DEF CodeInv
<1>3. CASE UNCHANGED promoVars
    BY <1>2, <1>3
    DEF promoVars, CodeRight, CodeTypes, PlainIsPlain, WithinLimit, DiscountBacked, UsedIsPaid,
        NewReserved, Holding, Promo!Discounted
<1>4. CASE Promo!Next
    <2>1. CASE \E u \in Users : Promo!Expire(u)
        BY <1>2, <2>1, Expired
    <2>2. CASE Promo!SetActive
        <3>1. UNCHANGED <<redemption, fresh, stage, coded, early, wasNew>>
            BY <2>2 DEF Promo!SetActive
        <3> QED
            BY <1>2, <3>1
            DEF CodeRight, CodeTypes, PlainIsPlain, WithinLimit, DiscountBacked, UsedIsPaid,
                NewReserved, Holding, Promo!Discounted
    <2>3. CASE \E p \in Purchases : Promo!Reserve(p) \/ Promo!MarkUsed(p)
        BY <1>2, <2>3, Reserved, Counted
    <2>4. CASE \E p \in Purchases :
                  \/ Promo!Quote(p) \/ Promo!ReserveRefused(p) \/ Promo!PlainInvoice(p)
                  \/ Promo!IssueInvoice(p) \/ Promo!NoInvoice(p) \/ Promo!AttachPayment(p)
                  \/ Promo!AttachFails(p) \/ Promo!Pay(p) \/ Promo!Lapse(p) \/ Promo!Settle(p)
                  \/ Promo!ListenerFails(p)
        BY <1>2, <2>4, PurchaseMoves
    <2> QED
        BY <1>4, <2>1, <2>2, <2>3, <2>4 DEF Promo!Next
<1> QED
    BY <1>1, <1>3, <1>4 DEF Next, Race, Buy, Invoice, Settlement, paymentsVars, promoVars

\* Whom the limit counts and who kept the discount cover all who bought with it.
LEMMA CodeRightIsKept ==
    ASSUME CodeRight
    PROVE  Promo!LimitKept /\ Promo!UsageAgrees
<1>1. CodeTypes /\ PlainIsPlain /\ WithinLimit /\ DiscountBacked /\ UsedIsPaid /\ NewReserved
    BY DEF CodeRight
<1>2. IsFiniteSet(early) /\ Cardinality(early) \in Nat
    BY <1>1, CodeConstants, FS_Subset, FS_CardinalityType DEF CodeTypes
<1>3. ASSUME NEW S, S \subseteq Holding \cup early
      PROVE  Cardinality(S) <= MaxRedemptions + Cardinality(early)
    <2>1. /\ IsFiniteSet((Holding \ early) \cup early)
          /\ Cardinality((Holding \ early) \cup early)
                = Cardinality(Holding \ early) + Cardinality(early)
                  - Cardinality((Holding \ early) \cap early)
        BY HoldingFinite, <1>2, FS_Union
    <2>2. (Holding \ early) \cap early = {} /\ (Holding \ early) \cup early = Holding \cup early
        OBVIOUS
    <2>3. Cardinality({}) = 0
        BY FS_EmptySet
    <2>4. Cardinality(Holding \cup early) = Cardinality(Holding \ early) + Cardinality(early)
        <3>1. Cardinality((Holding \ early) \cap early) = 0
            BY <2>2, <2>3, Zenon
        <3>2. Cardinality((Holding \ early) \cup early) = Cardinality(Holding \cup early)
            BY <2>2, Zenon
        <3> QED
            BY <2>1, <3>1, <3>2, <1>2, HoldingFinite
    <2>5. Cardinality(S) <= Cardinality(Holding \cup early) /\ IsFiniteSet(S)
        BY <1>3, <2>1, <2>2, FS_Subset
    <2>6. Cardinality(S) \in Nat
        BY <2>5, FS_CardinalityType
    <2> QED
        BY <1>1, <1>2, <2>4, <2>5, <2>6, HoldingFinite, CodeConstants DEF WithinLimit
<1>4. Promo!Buyers \subseteq Holding \cup early
    BY <1>1 DEF Promo!Buyers, DiscountBacked, Promo!Discounted, Promo!Bought
<1>5. Promo!LimitKept
    BY <1>3, <1>4, SameCount DEF Promo!LimitKept
<1>6. \A u \in Promo!Usage.used : \E p \in Promo!Usage.discounted : OwnerOf[p] = u
    BY <1>1 DEF Promo!Usage, UsedIsPaid
<1>7. NewOnly => Promo!Usage.used \subseteq Promo!Usage.usedNew
    BY <1>1 DEF Promo!Usage, NewReserved
<1>8. Promo!Usage.used \cup Promo!Usage.reservedNow \subseteq Holding \cup early
    BY DEF Promo!Usage, Holding
<1>9. Cardinality(Promo!Usage.used \cup Promo!Usage.reservedNow)
         <= MaxRedemptions + Cardinality(early)
    BY <1>3, <1>8
<1> QED
    BY <1>5, <1>6, <1>7, <1>9, SameCount DEF Promo!UsageAgrees

\* However many users race for a code of any limit, and whatever lapses, fails or
\* is switched between the steps of reserve, attach_payment and mark_used, no more
\* of them have the discount than the limit allows, but those who kept theirs past
\* the life of its reservation; and the admin's totals agree with the payments.
THEOREM CodeKeptHolds == Spec => []CodeKept
<1>1. Init => CodeInv
    BY CodeStart
<1>2. CodeInv /\ [Next]_paymentsVars => CodeInv'
    BY CodeSteps
<1>3. CodeInv => CodeKept
    BY CodeRightIsKept DEF CodeInv, CodeKept
<1> QED
    BY <1>1, <1>2, <1>3, PTL DEF Spec
-----------------------------------------------------------------------------
(* Counting open invoices                                                  *)

\* A finite set of numbers has a greatest, and Max gives it.
LEMMA GreatestOf ==
    ASSUME NEW S, S \subseteq Nat, IsFiniteSet(S), S # {}
    PROVE  Bill!Max(S) \in S /\ \A x \in S : x <= Bill!Max(S)
<1>1. S \subseteq Int
    OBVIOUS
<1>2. \E x \in S : \A y \in S : x >= y
    BY <1>1, FiniteMaximum
<1>3. Bill!Max(S) \in S /\ \A y \in S : Bill!Max(S) >= y
    BY <1>2 DEF Bill!Max
<1> QED
    BY <1>1, <1>3

\* Open invoices have rows, and are finitely many.
LEMMA OpenCounts ==
    ASSUME BankTypes
    PROVE  /\ Bill!Open \subseteq 1..issued /\ Bill!Open \subseteq Bill!Invoices
           /\ Older \subseteq Bill!Open
           /\ IsFiniteSet(Bill!Open) /\ Cardinality(Bill!Open) \in Nat
           /\ IsFiniteSet(Older) /\ Cardinality(Older) \in Nat
<1>1. Bill!Open \subseteq 1..issued /\ Bill!Open \subseteq Bill!Invoices /\ Older \subseteq Bill!Open
    BY InvoiceConstants DEF BankTypes, Bill!Open, Bill!Invoices, Older
<1>2. IsFiniteSet(1..issued)
    BY FS_Interval, InvoiceConstants DEF BankTypes
<1>3. IsFiniteSet(Bill!Open)
    BY <1>1, <1>2, FS_Subset
<1>4. IsFiniteSet(Older)
    BY <1>1, <1>3, FS_Subset
<1> QED
    BY <1>1, <1>3, <1>4, FS_CardinalityType

\* There are as many open invoices as terms, besides the older ones.
LEMMA OpenFew ==
    ASSUME BankTypes, InvoiceRows
    PROVE  Cardinality(Bill!Open) <= Cardinality(Terms) + Cardinality(Older)
<1> DEFINE newest == Bill!Open \ Older
           f == [i \in newest |-> terms[i]]
<1>1. \A i \in newest : terms[i] \in Terms
    <2> SUFFICES ASSUME NEW i \in newest PROVE terms[i] \in Terms
        OBVIOUS
    <2>1. i \in Bill!Invoices /\ invoiceRow[i] # "none"
        BY OpenCounts DEF Bill!Open
    <2> QED
        BY <2>1 DEF InvoiceRows
<1>2. \A i, j \in newest : terms[i] = terms[j] => i = j
    <2> SUFFICES ASSUME NEW i \in newest, NEW j \in newest, terms[i] = terms[j] PROVE i = j
        OBVIOUS
    <2>1. i \in Nat /\ j \in Nat
        BY OpenCounts DEF BankTypes
    <2>2. ~(i < j) /\ ~(j < i)
        BY DEF Older
    <2> QED
        BY <2>1, <2>2
<1>3. f \in Injection(newest, Terms)
    <2>1. f \in [newest -> Terms]
        BY <1>1
    <2>2. \A i, j \in newest : f[i] = f[j] => i = j
        BY <1>2
    <2> HIDE DEF f, newest
    <2> QED
        BY <2>1, <2>2 DEF Injection, IsInjective
<1>4. Cardinality(newest) <= Cardinality(Terms) /\ IsFiniteSet(newest)
    <2> HIDE DEF f, newest
    <2> QED
        BY <1>3, InvoiceConstants, FS_Injection
<1>5. Cardinality(newest) \in Nat /\ Cardinality(Terms) \in Nat /\ Cardinality({}) = 0
    BY <1>4, InvoiceConstants, FS_CardinalityType, FS_EmptySet
<1>6. /\ newest \cup Older = Bill!Open
      /\ Cardinality(newest \cup Older)
            = Cardinality(newest) + Cardinality(Older) - Cardinality(newest \cap Older)
    <2>1. newest \cup Older = Bill!Open
        BY OpenCounts
    <2> HIDE DEF newest
    <2> QED
        BY <1>4, <2>1, OpenCounts, FS_Union
<1>7. Cardinality(newest \cap Older) = 0
    <2>1. newest \cap Older = {}
        OBVIOUS
    <2> QED
        BY <2>1, <1>5, Zenon
<1>8. Cardinality(Bill!Open) = Cardinality(newest) + Cardinality(Older)
    <2>1. Cardinality(Bill!Open)
             = Cardinality(newest) + Cardinality(Older) - Cardinality(newest \cap Older)
        BY <1>6, Zenon
    <2> HIDE DEF newest
    <2> QED
        BY <2>1, <1>5, <1>7, OpenCounts
<1> HIDE DEF newest
<1> QED
    BY <1>4, <1>5, <1>8, OpenCounts

\* While the list is long enough, list_open_for_user returns all that is open.
LEMMA WholeList ==
    ASSUME BankTypes, InvoiceRows, Fits, Charged
    PROVE  Bill!Newest(Bill!Open) = Bill!Open
<1>1. Cardinality(Older) <= invoiceFaults
    BY OpenCounts DEF Charged, BankTypes
<1>2. Cardinality(Bill!Open) <= Limit
    <2>1. Cardinality(Terms) \in Nat
        BY InvoiceConstants, FS_CardinalityType
    <2> QED
        BY <1>1, <2>1, OpenFew, OpenCounts, InvoiceConstants DEF Fits, BankTypes
<1>3. ASSUME NEW i \in Bill!Open
      PROVE  Cardinality({j \in Bill!Open : j > i}) < Limit
    <2> DEFINE later == {j \in Bill!Open : j > i}
    <2>1. later \subseteq Bill!Open \ {i}
        BY OpenCounts DEF BankTypes
    <2>2. IsFiniteSet(Bill!Open \ {i}) /\ Cardinality(Bill!Open \ {i}) = Cardinality(Bill!Open) - 1
        BY OpenCounts, FS_RemoveElement
    <2>3. Cardinality(later) <= Cardinality(Bill!Open \ {i}) /\ IsFiniteSet(later)
        <3> HIDE DEF later
        <3> QED
            BY <2>1, <2>2, FS_Subset
    <2>4. Cardinality(later) \in Nat
        <3> HIDE DEF later
        <3> QED
            BY <2>3, FS_CardinalityType
    <2>5. Cardinality(later) < Limit
        <3> HIDE DEF later
        <3> QED
            BY <1>2, <2>2, <2>3, <2>4, OpenCounts, InvoiceConstants
    <2> QED
        BY <2>5
<1> QED
    BY <1>3, SameCount DEF Bill!Newest

\* No open invoice is older than before, if none is added.
LEMMA FewerOlder ==
    ASSUME BankTypes, Bill!Open' \subseteq Bill!Open,
           \A i \in Bill!Open : terms'[i] = terms[i]
    PROVE  /\ Cardinality(Older') <= Cardinality(Older)
           /\ Cardinality(Older') \in Nat /\ Cardinality(Older) \in Nat
<1>1. Older' \subseteq Older
    BY DEF Older
<1> QED
    BY <1>1, OpenCounts, FS_Subset, FS_CardinalityType

\* A new row makes one invoice older at most, and none if no open one has its terms.
LEMMA OneOlder ==
    ASSUME BankTypes, BankTypes', NEW n \in Bill!Invoices,
           Bill!Open' \subseteq Bill!Open \cup {n}, terms' = terms
    PROVE  /\ Cardinality(Older') <= Cardinality(Older) + 1
           /\ Cardinality(Older') \in Nat /\ Cardinality(Older) \in Nat
           /\ (\A i \in Bill!Open : terms[i] # terms[n])
                 => Cardinality(Older') <= Cardinality(Older)
<1>n. n \in Nat /\ Bill!Open \subseteq Nat
    BY OpenCounts DEF BankTypes, Bill!Invoices
<1>1. \E x : Older' \subseteq Older \cup {x}
    <2>1. CASE n \in Older'
        <3>1. PICK j \in Bill!Open : j > n /\ terms[j] = terms[n]
            <4>1. PICK j \in Bill!Open' : j > n /\ terms'[j] = terms'[n]
                BY <2>1 DEF Older
            <4> QED
                BY <4>1, <1>n
        <3>2. Older' \subseteq Older \cup {n}
            <4> SUFFICES ASSUME NEW i \in Older', i # n PROVE i \in Older
                OBVIOUS
            <4>1. i \in Bill!Open' /\ i \in Bill!Open
                BY DEF Older
            <4>2. PICK k \in Bill!Open' : k > i /\ terms'[k] = terms'[i]
                BY DEF Older
            <4>3. CASE k \in Bill!Open
                BY <4>1, <4>2, <4>3 DEF Older
            <4>4. CASE k = n
                <5>1. j > i /\ terms[j] = terms[i]
                    BY <1>n, <3>1, <4>1, <4>2, <4>4
                <5> QED
                    BY <3>1, <4>1, <5>1 DEF Older
            <4> QED
                BY <4>2, <4>3, <4>4
        <3> QED
            BY <3>2
    <2>2. CASE n \notin Older'
        <3>1. ASSUME NEW i \in Older' \ Older
              PROVE  i \in Bill!Open /\ i < n /\ terms[i] = terms[n]
            <4>1. i \in Bill!Open
                BY <2>2 DEF Older
            <4>2. PICK k \in Bill!Open' : k > i /\ terms'[k] = terms'[i]
                BY DEF Older
            <4>3. k \notin Bill!Open
                BY <4>1, <4>2 DEF Older
            <4> QED
                BY <1>n, <4>1, <4>2, <4>3
        <3>2. \A i, j \in Older' \ Older : i = j
            <4> SUFFICES ASSUME NEW i \in Older' \ Older, NEW j \in Older' \ Older PROVE i = j
                OBVIOUS
            <4>1. i \in Bill!Open /\ j \in Bill!Open /\ terms[i] = terms[j]
                BY <3>1
            <4>2. ~(i < j) /\ ~(j < i)
                BY <4>1 DEF Older
            <4> QED
                BY <1>n, <4>1, <4>2
        <3> QED
            BY <3>2
    <2> QED
        BY <2>1, <2>2
<1>2. /\ Cardinality(Older') <= Cardinality(Older) + 1
      /\ Cardinality(Older') \in Nat /\ Cardinality(Older) \in Nat
    <2>1. PICK x : Older' \subseteq Older \cup {x}
        BY <1>1
    <2>2. /\ IsFiniteSet(Older \cup {x})
          /\ Cardinality(Older \cup {x}) \in {Cardinality(Older), Cardinality(Older) + 1}
        BY OpenCounts, FS_AddElement
    <2>3. Cardinality(Older') <= Cardinality(Older \cup {x}) /\ IsFiniteSet(Older')
        BY <2>1, <2>2, FS_Subset
    <2>4. Cardinality(Older') \in Nat
        BY <2>3, FS_CardinalityType
    <2> QED
        BY <2>2, <2>3, <2>4, OpenCounts
<1>3. ASSUME \A i \in Bill!Open : terms[i] # terms[n]
      PROVE  Cardinality(Older') <= Cardinality(Older)
    <2>1. Older' \subseteq Older
        <3> SUFFICES ASSUME NEW i \in Older' PROVE i \in Older
            OBVIOUS
        <3>1. PICK k \in Bill!Open' : k > i /\ terms'[k] = terms'[i]
            BY DEF Older
        <3>2. i \in Bill!Open'
            BY DEF Older
        <3>3. i \in Bill!Open /\ k \in Bill!Open
            BY <1>3, <1>n, <3>1, <3>2
        <3> QED
            BY <3>1, <3>3 DEF Older
    <2> QED
        BY <2>1, OpenCounts, FS_Subset
<1> QED
    BY <1>2, <1>3
-----------------------------------------------------------------------------
(* The steps of the till                                                   *)

\* Nothing is issued, open or paid at first.
LEMMA InvoiceStart ==
    ASSUME Init
    PROVE  InvoiceInv
<1> SUFFICES ASSUME side = "invoice" PROVE InvoiceRight
    BY DEF InvoiceInv
<1>1. Bill!Init
    BY DEF Init
<1>2. BankTypes /\ RequestTypes
    BY <1>1, InvoiceConstants
    DEF Bill!Init, BankTypes, RequestTypes, Bill!RowStatus, Bill!Places
<1>3. InvoiceRows /\ InvoiceLocks /\ PaidAhead
    BY <1>1 DEF Bill!Init, InvoiceRows, InvoiceLocks, Stands, PaidAhead, Ahead
<1>4. Bill!Open = {} /\ Older = {}
    BY <1>1, InvoiceConstants DEF Bill!Init, Bill!Open, Older
<1>5. ~Blind
    BY <1>1 DEF Bill!Init, Blind
<1>6. Charged
    <2>1. Cardinality(Older) = 0 /\ invoiceFaults = 0
        BY <1>1, <1>4, FS_EmptySet DEF Bill!Init
    <2> QED
        BY <1>5, <2>1 DEF Charged
<1> QED
    BY <1>2, <1>3, <1>6 DEF InvoiceRight

\* YooKassa, the table and the user move on; what is issued stays issued, what is
\* paid stays paid, what has a row keeps it, and no row is new.
BankMoves ==
    /\ BankTypes' /\ InvoiceRows'
    /\ issued' >= issued
    /\ \A i \in 1..issued : terms'[i] = terms[i]
    /\ \A i \in Bill!Invoices : yk[i] = "paid" => yk'[i] = "paid"
    /\ \A i \in Bill!Invoices : invoiceRow[i] = "none" <=> invoiceRow'[i] = "none"
    /\ Bill!Open' \subseteq Bill!Open

\* Bank moves that leave the requests alone keep all.
LEMMA BankOnly ==
    ASSUME InvoiceRight, BankMoves, UNCHANGED <<lock, pc, want, todo, busy, mine, paidThen>>,
           invoiceFaults' = invoiceFaults
    PROVE  InvoiceRight'
<1>1. BankTypes /\ RequestTypes /\ InvoiceRows /\ InvoiceLocks
    BY DEF InvoiceRight
<1>2. RequestTypes'
    BY <1>1 DEF RequestTypes
<1>3. InvoiceLocks'
    <2>1. \A r \in Requests : pc[r] = "save" => mine[r] \in Bill!Invoices
        BY <1>1, InvoiceConstants DEF RequestTypes, InvoiceLocks, Stands, BankTypes, Bill!Invoices
    <2>2. issued \in Nat /\ issued' \in Nat /\ 1..issued \subseteq 1..issued'
        BY <1>1, InvoiceConstants DEF BankTypes, BankMoves
    <2>3. \A r \in Requests : todo[r] \subseteq Bill!Invoices
        BY <1>1 DEF RequestTypes
    <2> QED
        BY <1>1, <2>1, <2>2, <2>3 DEF InvoiceLocks, Stands, BankMoves
<1>4. \A i \in Bill!Open : terms'[i] = terms[i]
    BY <1>1, OpenCounts DEF BankMoves
<1>5. ASSUME Fits' PROVE Charged' /\ PaidAhead'
    <2>1. Charged /\ PaidAhead
        BY <1>5 DEF InvoiceRight, Fits
    <2>2. Blind' => Blind
        BY <1>4 DEF Blind, Unseen, BankMoves
    <2>3. /\ Cardinality(Older') <= Cardinality(Older)
          /\ Cardinality(Older) \in Nat /\ Cardinality(Older') \in Nat
        BY <1>1, <1>4, FewerOlder DEF BankMoves
    <2>4. invoiceFaults \in Nat
        BY <1>1 DEF BankTypes
    <2>5. Charged'
        BY <2>1, <2>2, <2>3, <2>4 DEF Charged
    <2>6. PaidAhead'
        BY <1>1, <2>1 DEF PaidAhead, Ahead, RequestTypes, BankMoves
    <2> QED
        BY <2>5, <2>6
<1> QED
    BY <1>2, <1>3, <1>5 DEF InvoiceRight, BankMoves

\* A payment, a lapse, a claim and its end, a poll and age are such moves.
LEMMA TimeMoves ==
    ASSUME InvoiceRight, NEW i \in Bill!Invoices,
           \/ Bill!Pay(i) \/ Bill!Lapse(i) \/ Bill!RouteClaims(i) \/ Bill!RouteEnds(i)
           \/ Bill!PollStatus(i) \/ Bill!GrowOld(i)
    PROVE  InvoiceRight'
<1>1. BankTypes /\ InvoiceRows
    BY DEF InvoiceRight
<1>2. /\ UNCHANGED <<lock, pc, want, todo, busy, mine, paidThen>>
      /\ UNCHANGED <<issued, terms, linked, invoiceFaults>>
    BY DEF Bill!Pay, Bill!Lapse, Bill!RouteClaims, Bill!RouteEnds, Bill!PollStatus,
           Bill!GrowOld, Bill!reqs, Bill!bank
<1>3. BankMoves
    <2>1. CASE Bill!Pay(i) \/ Bill!Lapse(i)
        <3>1. /\ invoiceRow' = invoiceRow /\ old' = old
              /\ yk[i] = "pending"
              /\ \E s \in {"paid", "canceled"} : yk' = [yk EXCEPT ![i] = s]
            BY <2>1 DEF Bill!Pay, Bill!Lapse
        <3>2. BankTypes' /\ InvoiceRows'
            BY <1>1, <1>2, <3>1 DEF BankTypes, InvoiceRows
        <3>3. Bill!Open' = Bill!Open
            BY <1>2, <3>1 DEF Bill!Open
        <3>4. \A j \in Bill!Invoices : yk[j] = "paid" => yk'[j] = "paid"
            BY <1>1, <3>1 DEF BankTypes
        <3> QED
            BY <1>1, <1>2, <3>1, <3>2, <3>3, <3>4, InvoiceConstants DEF BankMoves, BankTypes
    <2>2. CASE Bill!RouteClaims(i) \/ Bill!RouteEnds(i) \/ Bill!PollStatus(i)
        <3>1. /\ yk' = yk /\ old' = old
              /\ \/ /\ yk[i] = "paid" /\ invoiceRow[i] \in {"pending", "processing"}
                    /\ \E s \in {"pending", "processing", "succeeded"} :
                          invoiceRow' = [invoiceRow EXCEPT ![i] = s]
                 \/ /\ yk[i] = "canceled" /\ invoiceRow[i] = "pending"
                    /\ invoiceRow' = [invoiceRow EXCEPT ![i] = "canceled"]
            BY <1>1, <2>2
            DEF Bill!RouteClaims, Bill!RouteEnds, Bill!PollStatus, Bill!bank, InvoiceRows
        <3>2. BankTypes' /\ InvoiceRows'
            BY <1>1, <1>2, <3>1 DEF BankTypes, InvoiceRows, Bill!RowStatus
        <3>3. Bill!Open' \subseteq Bill!Open
            <4> SUFFICES ASSUME NEW j \in Bill!Open' PROVE j \in Bill!Open
                OBVIOUS
            <4>1. j \in 1..issued /\ invoiceRow'[j] \in {"pending", "processing"} /\ j \notin old
                BY <1>2, <3>1 DEF Bill!Open
            <4>2. j \in Bill!Invoices
                BY <1>1, <4>1, InvoiceConstants DEF BankTypes, Bill!Invoices
            <4> QED
                BY <1>1, <3>1, <4>1, <4>2 DEF Bill!Open, BankTypes
        <3>4. \A j \in Bill!Invoices : invoiceRow[j] = "none" <=> invoiceRow'[j] = "none"
            BY <1>1, <3>1 DEF BankTypes
        <3> QED
            BY <1>1, <1>2, <3>1, <3>2, <3>3, <3>4, InvoiceConstants DEF BankMoves, BankTypes
    <2>3. CASE Bill!GrowOld(i)
        <3>1. yk' = yk /\ invoiceRow' = invoiceRow /\ old' = old \cup {i}
            BY <2>3 DEF Bill!GrowOld, Bill!bank
        <3>2. BankTypes' /\ InvoiceRows'
            BY <1>1, <1>2, <3>1 DEF BankTypes, InvoiceRows
        <3>3. Bill!Open' \subseteq Bill!Open
            BY <1>2, <3>1 DEF Bill!Open
        <3> QED
            BY <1>1, <1>2, <3>1, <3>2, <3>3, InvoiceConstants DEF BankMoves, BankTypes
    <2> QED
        BY <2>1, <2>2, <2>3
<1> QED
    BY <1>2, <1>3, BankOnly
-----------------------------------------------------------------------------
(* The steps of a request                                                  *)

\* A request that is past the lock is the only one.
LEMMA Alone ==
    ASSUME InvoiceRight, NEW r \in Requests, pc[r] \in {"list", "check", "create", "save"}
    PROVE  lock = r /\ \A q \in Requests \ {r} : pc[q] \in {"idle", "lock"}
<1>1. RequestTypes /\ InvoiceLocks
    BY DEF InvoiceRight
<1>2. lock = r
    BY <1>1 DEF InvoiceLocks, Stands
<1>3. ASSUME NEW q \in Requests \ {r} PROVE pc[q] \in {"idle", "lock"}
    <2>1. pc[q] \in Bill!Places
        BY <1>1 DEF RequestTypes
    <2>2. pc[q] \notin {"list", "check", "create", "save"}
        BY <1>1, <1>2 DEF InvoiceLocks, Stands
    <2> QED
        BY <2>1, <2>2 DEF Bill!Places
<1> QED
    BY <1>2, <1>3

\* Once a request is answered nobody is past the lock.
LEMMA Answered ==
    ASSUME InvoiceRight, NEW r \in Requests, pc[r] \in {"check", "create", "save"},
           Bill!Answer(r), BankTypes', InvoiceRows',
           Fits' => Cardinality(Older') <= invoiceFaults', Cardinality(Older') \in Nat
    PROVE  InvoiceRight'
<1>1. RequestTypes /\ InvoiceLocks
    BY DEF InvoiceRight
<1>2. /\ lock' = None
      /\ pc' = [pc EXCEPT ![r] = "idle"]
      /\ want' = [want EXCEPT ![r] = None]
      /\ todo' = [todo EXCEPT ![r] = {}] /\ busy' = [busy EXCEPT ![r] = {}]
      /\ mine' = [mine EXCEPT ![r] = None]
      /\ paidThen' = [paidThen EXCEPT ![r] = {}]
    BY DEF Bill!Answer
<1>3. RequestTypes'
    BY <1>1, <1>2 DEF RequestTypes, Bill!Places
<1>4. ASSUME NEW q \in Requests
      PROVE  /\ pc'[q] \in {"idle", "lock"}
             /\ todo'[q] = {} /\ paidThen'[q] = {}
             /\ pc'[q] # "idle" => want'[q] \in Terms
    <2>1. CASE q = r
        BY <1>1, <1>2, <2>1 DEF RequestTypes
    <2>2. CASE q # r
        <3>1. pc[q] \in {"idle", "lock"}
            BY <2>2, Alone
        <3>2. todo[q] = {} /\ paidThen[q] = {} /\ (pc[q] # "idle" => want[q] \in Terms)
            BY <1>1, <3>1 DEF InvoiceLocks, Stands
        <3> QED
            BY <1>1, <1>2, <2>2, <3>1, <3>2 DEF RequestTypes
    <2> QED
        BY <2>1, <2>2
<1>5. InvoiceLocks'
    BY <1>4 DEF InvoiceLocks, Stands
<1>6. PaidAhead'
    BY <1>4 DEF PaidAhead, Ahead
<1>7. ~Blind'
    BY <1>4 DEF Blind
<1>8. Fits' => Charged'
    <2>1. invoiceFaults' \in Nat
        BY DEF BankTypes
    <2> QED
        BY <1>7, <2>1 DEF Charged
<1> QED
    BY <1>3, <1>5, <1>6, <1>8 DEF InvoiceRight

\* Failures only become more, and make room for one older invoice each.
LEMMA FaultsGrow ==
    ASSUME BankTypes, Bill!Fault
    PROVE  invoiceFaults' = invoiceFaults + 1 /\ invoiceFaults' \in Nat /\ (Fits' => Fits)
<1>1. invoiceFaults' = invoiceFaults + 1 /\ invoiceFaults' \in Nat
    BY DEF BankTypes, Bill!Fault
<1>2. Cardinality(Terms) \in Nat
    BY InvoiceConstants, FS_CardinalityType
<1> QED
    BY <1>1, <1>2, InvoiceConstants DEF Fits, BankTypes

\* What has been paid for so far.
LEMMA OlderPaid ==
    ASSUME InvoiceRight, Fits
    PROVE  /\ Cardinality(Older) <= invoiceFaults
           /\ Blind => Cardinality(Older) + 1 <= invoiceFaults
<1>1. BankTypes /\ Charged
    BY DEF InvoiceRight
<1> QED
    BY <1>1, OpenCounts DEF Charged, BankTypes

\* An invoice is issued, or not; the table does not know it.
LEMMA IssuedOnly ==
    ASSUME BankTypes, InvoiceRows, NEW r \in Requests, want[r] \in Terms \cup {None},
           Bill!Issue(r) \/ UNCHANGED <<issued, yk, terms>>,
           UNCHANGED <<invoiceRow, linked, old>>, invoiceFaults' \in Nat
    PROVE  BankMoves /\ Bill!Open' = Bill!Open /\ \A i \in Bill!Open : terms'[i] = terms[i]
<1>1. CASE UNCHANGED <<issued, yk, terms>>
    BY <1>1, InvoiceConstants DEF BankMoves, BankTypes, InvoiceRows, Bill!Open
<1>2. CASE Bill!Issue(r)
    <2>1. /\ issued < MaxInvoices /\ issued' = issued + 1
          /\ terms' = [terms EXCEPT ![issued + 1] = want[r]] /\ yk' = yk
        BY <1>2 DEF Bill!Issue
    <2>2. issued \in Nat /\ issued + 1 \in Bill!Invoices /\ issued' \in 0..MaxInvoices
        BY <2>1, InvoiceConstants DEF BankTypes, Bill!Invoices
    <2>3. \A i \in 1..issued : i \in Bill!Invoices /\ i # issued + 1 /\ i \in 1..issued'
        BY <2>1, <2>2, InvoiceConstants DEF BankTypes, Bill!Invoices
    <2>4. \A i \in 1..issued : terms'[i] = terms[i]
        BY <2>1, <2>3 DEF BankTypes
    <2>5. invoiceRow[issued + 1] = "none"
        BY <2>2 DEF InvoiceRows
    <2>6. Bill!Open' = Bill!Open
        BY <2>1, <2>2, <2>3, <2>5 DEF Bill!Open
    <2>7. BankTypes'
        BY <2>1, <2>2, <2>3 DEF BankTypes
    <2>8. InvoiceRows'
        <3> SUFFICES ASSUME NEW i \in Bill!Invoices
                     PROVE  /\ i \in linked => invoiceRow[i] # "none"
                            /\ invoiceRow[i] # "none" => i <= issued' /\ terms'[i] \in Terms
                            /\ invoiceRow[i] \in {"processing", "succeeded"} => yk[i] = "paid"
                            /\ invoiceRow[i] = "canceled" => yk[i] = "canceled"
            BY <2>1 DEF InvoiceRows
        <3>1. invoiceRow[i] # "none" => i \in 1..issued
            BY <2>2 DEF InvoiceRows, Bill!Invoices
        <3> QED
            BY <2>1, <2>3, <2>4, <3>1 DEF InvoiceRows
    <2> QED
        BY <2>1, <2>2, <2>4, <2>6, <2>7, <2>8, OpenCounts DEF BankMoves
<1> QED
    BY <1>1, <1>2
\* The candidate that a request looks at is one of its list.
LEMMA Candidate ==
    ASSUME BankTypes, RequestTypes, NEW r \in Requests, todo[r] # {}
    PROVE  Bill!Max(todo[r]) \in todo[r] /\ Bill!Max(todo[r]) \in Bill!Invoices
<1>1. todo[r] \subseteq 1..MaxInvoices
    BY DEF RequestTypes, Bill!Invoices
<1>2. todo[r] \subseteq Nat /\ IsFiniteSet(todo[r])
    <2>0. MaxInvoices \in Int /\ 1 \in Int
        BY InvoiceConstants
    <2>1. IsFiniteSet(1..MaxInvoices)
        BY <2>0, FS_Interval
    <2>2. IsFiniteSet(todo[r])
        BY <1>1, <2>1, FS_Subset
    <2> QED
        BY <1>1, <2>2
<1> QED
    BY <1>1, <1>2, GreatestOf DEF Bill!Invoices

\* A request that refuses, fails to learn a status or fails to get an invoice is
\* answered without a row.
LEMMA AnsweredWithoutRow ==
    ASSUME InvoiceRight, NEW r \in Requests,
           Bill!CheckRefuses(r) \/ Bill!CheckFails(r) \/ Bill!CreateFails(r)
    PROVE  InvoiceRight'
<1>1. BankTypes /\ RequestTypes /\ InvoiceRows
    BY DEF InvoiceRight
<1>2. /\ pc[r] \in {"check", "create", "save"} /\ Bill!Answer(r)
      /\ UNCHANGED <<invoiceRow, linked, old>>
      /\ Bill!Issue(r) \/ UNCHANGED <<issued, yk, terms>>
      /\ invoiceFaults' = invoiceFaults \/ Bill!Fault
    BY DEF Bill!CheckRefuses, Bill!CheckFails, Bill!CreateFails, Bill!bank
<1>3. invoiceFaults' \in Nat /\ invoiceFaults' >= invoiceFaults /\ (Fits' => Fits)
    BY <1>1, <1>2, FaultsGrow DEF BankTypes, Fits
<1>4. want[r] \in Terms \cup {None}
    BY <1>1 DEF RequestTypes
<1>5. BankMoves /\ Bill!Open' = Bill!Open /\ \A i \in Bill!Open : terms'[i] = terms[i]
    BY <1>1, <1>2, <1>3, <1>4, IssuedOnly
<1>6. Cardinality(Older') <= Cardinality(Older)
      /\ Cardinality(Older') \in Nat /\ Cardinality(Older) \in Nat
    BY <1>1, <1>5, FewerOlder
<1>7. Fits' => Cardinality(Older') <= invoiceFaults'
    BY <1>1, <1>3, <1>6, OlderPaid DEF BankTypes
<1> QED
    BY <1>2, <1>5, <1>6, <1>7, Answered DEF BankMoves

\* The invoice of a request that saves: no row speaks of it.
LEMMA AtSave ==
    ASSUME InvoiceRight, NEW r \in Requests, pc[r] = "save"
    PROVE  /\ mine[r] \in 1..issued /\ mine[r] \in Bill!Invoices
           /\ invoiceRow[mine[r]] = "none" /\ terms[mine[r]] = want[r] /\ want[r] \in Terms
           /\ todo[r] = {}
<1>1. BankTypes /\ Stands(r)
    BY DEF InvoiceRight, InvoiceLocks
<1> QED
    BY <1>1, InvoiceConstants DEF Stands, BankTypes, Bill!Invoices

\* The row of its invoice is written.
LEMMA Saved ==
    ASSUME InvoiceRight, NEW r \in Requests, pc[r] = "save",
           invoiceRow' = [invoiceRow EXCEPT ![mine[r]] = "pending"],
           UNCHANGED <<issued, yk, terms, old>>,
           linked' \subseteq linked \cup {mine[r]}, invoiceFaults' \in Nat
    PROVE  /\ BankTypes' /\ InvoiceRows'
           /\ Cardinality(Older') \in Nat /\ Cardinality(Older) \in Nat
           /\ Cardinality(Older') <= Cardinality(Older) + 1
           /\ ~Blind => Cardinality(Older') <= Cardinality(Older)
<1>1. BankTypes /\ InvoiceRows
    BY DEF InvoiceRight
<1> DEFINE n == mine[r]
<1>2. /\ n \in 1..issued /\ n \in Bill!Invoices
      /\ invoiceRow[n] = "none" /\ terms[n] \in Terms
    BY AtSave
<1>3. BankTypes'
    BY <1>1, <1>2 DEF BankTypes, Bill!RowStatus
<1>4. InvoiceRows'
    <2> SUFFICES ASSUME NEW i \in Bill!Invoices
                 PROVE  /\ i \in linked' => invoiceRow'[i] # "none"
                        /\ invoiceRow'[i] # "none" => i <= issued /\ terms[i] \in Terms
                        /\ invoiceRow'[i] \in {"processing", "succeeded"} => yk[i] = "paid"
                        /\ invoiceRow'[i] = "canceled" => yk[i] = "canceled"
        BY DEF InvoiceRows
    <2> HIDE DEF n
    <2>1. CASE i = n
        <3>1. invoiceRow'[i] = "pending"
            BY <1>1, <1>2, <2>1 DEF BankTypes, n
        <3> QED
            BY <1>1, <1>2, <2>1, <3>1, InvoiceConstants DEF BankTypes
    <2>2. CASE i # n
        <3>1. invoiceRow'[i] = invoiceRow[i]
            BY <1>1, <2>2 DEF BankTypes, n
        <3>2. i \in linked' => i \in linked
            BY <2>2 DEF n
        <3> QED
            BY <1>1, <3>1, <3>2 DEF InvoiceRows
    <2> QED
        BY <2>1, <2>2
<1>5. Bill!Open' \subseteq Bill!Open \cup {n}
    <2> SUFFICES ASSUME NEW j \in Bill!Open', j # n PROVE j \in Bill!Open
        OBVIOUS
    <2>1. j \in 1..issued /\ invoiceRow'[j] \in {"pending", "processing"} /\ j \notin old
        BY DEF Bill!Open
    <2>2. j \in Bill!Invoices
        BY <1>1, <2>1, InvoiceConstants DEF BankTypes, Bill!Invoices
    <2> QED
        BY <1>1, <2>1, <2>2 DEF Bill!Open, BankTypes
<1>6. ASSUME ~Blind PROVE \A i \in Bill!Open : terms[i] # terms[n]
    BY <1>6, AtSave DEF Blind, Unseen
<1> HIDE DEF n
<1> QED
    BY <1>1, <1>2, <1>3, <1>4, <1>5, <1>6, OneOlder

\* Saving a row, and failing to save it, or to learn that it is saved.
LEMMA SaveSteps ==
    ASSUME InvoiceRight, NEW r \in Requests, Bill!SavePayment(r) \/ Bill!SaveFails(r)
    PROVE  InvoiceRight'
<1>1. BankTypes /\ RequestTypes /\ InvoiceRows
    BY DEF InvoiceRight
<1>2. pc[r] = "save" /\ Bill!Answer(r) /\ UNCHANGED <<issued, yk, terms, old>>
    BY DEF Bill!SavePayment, Bill!SaveFails, Bill!bank
<1>3. CASE Bill!SavePayment(r)
    <2>1. /\ invoiceRow' = [invoiceRow EXCEPT ![mine[r]] = "pending"]
          /\ linked' = linked \cup {mine[r]} /\ invoiceFaults' = invoiceFaults
        BY <1>3 DEF Bill!SavePayment
    <2>2. /\ BankTypes' /\ InvoiceRows'
          /\ Cardinality(Older') \in Nat /\ Cardinality(Older) \in Nat
          /\ Cardinality(Older') <= Cardinality(Older) + 1
          /\ ~Blind => Cardinality(Older') <= Cardinality(Older)
        BY <1>1, <1>2, <2>1, Saved DEF BankTypes
    <2>3. Fits' => Cardinality(Older') <= invoiceFaults'
        BY <1>1, <2>1, <2>2, OlderPaid DEF Fits, BankTypes
    <2> QED
        BY <1>2, <2>2, <2>3, Answered
<1>4. CASE Bill!SaveFails(r)
    <2>1. Bill!Fault /\ linked' = linked
        BY <1>4 DEF Bill!SaveFails
    <2>2. invoiceFaults' = invoiceFaults + 1 /\ invoiceFaults' \in Nat /\ (Fits' => Fits)
        BY <1>1, <2>1, FaultsGrow
    <2>3. CASE invoiceRow' = [invoiceRow EXCEPT ![mine[r]] = "pending"]
        <3>1. /\ BankTypes' /\ InvoiceRows'
              /\ Cardinality(Older') \in Nat /\ Cardinality(Older) \in Nat
              /\ Cardinality(Older') <= Cardinality(Older) + 1
            BY <1>2, <2>1, <2>2, <2>3, Saved
        <3>2. Fits' => Cardinality(Older') <= invoiceFaults'
            BY <1>1, <2>2, <3>1, OlderPaid DEF BankTypes
        <3> QED
            BY <1>2, <3>1, <3>2, Answered
    <2>4. CASE invoiceRow' = invoiceRow
        <3>1. want[r] \in Terms \cup {None}
            BY <1>1 DEF RequestTypes
        <3>2. BankMoves /\ Bill!Open' = Bill!Open /\ \A i \in Bill!Open : terms'[i] = terms[i]
            BY <1>1, <1>2, <2>1, <2>2, <2>4, <3>1, IssuedOnly
        <3>3. Cardinality(Older') <= Cardinality(Older)
              /\ Cardinality(Older') \in Nat /\ Cardinality(Older) \in Nat
            BY <1>1, <3>2, FewerOlder
        <3>4. Fits' => Cardinality(Older') <= invoiceFaults'
            BY <1>1, <2>2, <3>3, OlderPaid DEF BankTypes
        <3> QED
            BY <1>2, <3>2, <3>3, <3>4, Answered DEF BankMoves
    <2> QED
        BY <1>4, <2>3, <2>4 DEF Bill!SaveFails
<1> QED
    BY <1>3, <1>4

\* What a step of one request must show for the rest to follow.
LEMMA OneRequest ==
    ASSUME InvoiceRight, BankMoves, NEW r \in Requests,
           RequestTypes', Stands(r)', invoiceFaults' = invoiceFaults,
           \A i \in Bill!Open : terms'[i] = terms[i],
           \A q \in Requests \ {r} :
              /\ pc'[q] = pc[q] /\ todo'[q] = todo[q] /\ want'[q] = want[q]
              /\ mine'[q] = mine[q] /\ paidThen'[q] = paidThen[q]
              /\ pc[q] \in {"list", "check", "create", "save"} => lock' = lock,
           pc'[r] \in {"check", "create", "save"} /\ Unseen(r)' /\ Fits /\ Charged
              => pc[r] \in {"check", "create", "save"} /\ Unseen(r),
           Fits /\ Charged /\ PaidAhead => Ahead(r)'
    PROVE  InvoiceRight'
<1>1. BankTypes /\ RequestTypes /\ InvoiceRows /\ InvoiceLocks
    BY DEF InvoiceRight
<1>2. InvoiceLocks'
    <2> SUFFICES ASSUME NEW q \in Requests, q # r PROVE Stands(q)'
        BY DEF InvoiceLocks
    <2>1. Stands(q)
        BY <1>1 DEF InvoiceLocks
    <2>2. pc[q] = "save" => mine[q] \in Bill!Invoices
        BY <1>1, <2>1, InvoiceConstants DEF BankTypes, Stands, Bill!Invoices
    <2>3. issued \in Nat /\ issued' \in Nat /\ 1..issued \subseteq 1..issued'
        BY <1>1, InvoiceConstants DEF BankTypes, BankMoves
    <2>4. todo[q] \subseteq Bill!Invoices
        BY <1>1 DEF RequestTypes
    <2> QED
        BY <2>1, <2>2, <2>3, <2>4 DEF Stands, BankMoves
<1>3. ASSUME Fits' PROVE Charged' /\ PaidAhead'
    <2>1. Fits /\ Charged /\ PaidAhead
        BY <1>3 DEF InvoiceRight, Fits
    <2>2. Blind' => Blind
        <3> SUFFICES ASSUME Blind' PROVE Blind
            OBVIOUS
        <3>1. PICK q \in Requests : pc'[q] \in {"check", "create", "save"} /\ Unseen(q)'
            BY DEF Blind
        <3>2. CASE q = r
            BY <2>1, <3>1, <3>2 DEF Blind
        <3>3. CASE q # r
            <4>1. Unseen(q)
                BY <3>1, <3>3 DEF Unseen, BankMoves
            <4> QED
                BY <3>1, <3>3, <4>1 DEF Blind
        <3> QED
            BY <3>2, <3>3
    <2>3. /\ Cardinality(Older') <= Cardinality(Older)
          /\ Cardinality(Older) \in Nat /\ Cardinality(Older') \in Nat
        BY <1>1, FewerOlder DEF BankMoves
    <2>4. invoiceFaults \in Nat
        BY <1>1 DEF BankTypes
    <2>5. Charged'
        BY <2>1, <2>2, <2>3, <2>4 DEF Charged
    <2>6. PaidAhead'
        <3> SUFFICES ASSUME NEW q \in Requests, q # r PROVE Ahead(q)'
            BY <2>1 DEF PaidAhead
        <3>1. Ahead(q) /\ paidThen[q] \subseteq Bill!Invoices
            BY <1>1, <2>1 DEF PaidAhead, RequestTypes
        <3> QED
            BY <3>1 DEF Ahead, BankMoves
    <2> QED
        BY <2>5, <2>6
<1> QED
    BY <1>2, <1>3 DEF InvoiceRight, BankMoves
\* Asking, and taking the lock of the user.
LEMMA EntrySteps ==
    ASSUME InvoiceRight, NEW r \in Requests,
           (\E t \in Terms : Bill!Ask(r, t)) \/ Bill!Acquire(r)
    PROVE  InvoiceRight'
<1>1. BankTypes /\ RequestTypes /\ InvoiceRows /\ InvoiceLocks
    BY DEF InvoiceRight
<1>2. /\ UNCHANGED <<issued, yk, terms, invoiceRow, linked, old, invoiceFaults>>
      /\ UNCHANGED <<todo, busy, mine, paidThen>>
    BY DEF Bill!Ask, Bill!Acquire, Bill!bank
<1>3. BankMoves /\ \A i \in Bill!Open : terms'[i] = terms[i]
    BY <1>1, <1>2, IssuedOnly DEF RequestTypes, BankTypes
<1>4. Stands(r)
    BY <1>1 DEF InvoiceLocks
<1>5. /\ RequestTypes' /\ Stands(r)' /\ pc'[r] \in {"lock", "list"}
      /\ \A q \in Requests \ {r} :
            /\ pc'[q] = pc[q] /\ want'[q] = want[q]
            /\ pc[q] \in {"list", "check", "create", "save"} => lock' = lock
    <2>1. CASE \E t \in Terms : Bill!Ask(r, t)
        <3>1. PICK t \in Terms : /\ pc[r] = "idle" /\ want' = [want EXCEPT ![r] = t]
                                 /\ pc' = [pc EXCEPT ![r] = "lock"] /\ lock' = lock
            BY <2>1 DEF Bill!Ask, Bill!Goto
        <3> QED
            BY <1>1, <1>2, <1>4, <3>1 DEF RequestTypes, Stands, Bill!Places
    <2>2. CASE Bill!Acquire(r)
        <3>1. /\ pc[r] = "lock" /\ lock = None /\ lock' = r
              /\ pc' = [pc EXCEPT ![r] = "list"] /\ want' = want
            BY <2>2 DEF Bill!Acquire, Bill!Goto, Bill!LockFree
        <3>2. \A q \in Requests : pc[q] \notin {"list", "check", "create", "save"}
            BY <1>1, <3>1, InvoiceConstants DEF InvoiceLocks, Stands
        <3> QED
            BY <1>1, <1>2, <1>4, <3>1, <3>2 DEF RequestTypes, Stands, Bill!Places
    <2> QED
        BY <2>1, <2>2
<1>6. PaidAhead => Ahead(r)'
    BY <1>2 DEF PaidAhead, Ahead
<1> QED
    BY <1>2, <1>3, <1>5, <1>6, OneRequest

\* list_open_for_user: what is paid and not settled is in the list.
LEMMA ListStep ==
    ASSUME InvoiceRight, NEW r \in Requests, Bill!ListOpen(r)
    PROVE  InvoiceRight'
<1>1. BankTypes /\ RequestTypes /\ InvoiceRows /\ InvoiceLocks
    BY DEF InvoiceRight
<1>2. /\ UNCHANGED <<issued, yk, terms, invoiceRow, linked, old, invoiceFaults>>
      /\ UNCHANGED <<lock, want, mine>>
      /\ pc[r] = "list" /\ pc' = [pc EXCEPT ![r] = "check"]
      /\ todo' = [todo EXCEPT ![r] = Bill!Newest(Bill!Open)]
      /\ paidThen' = [paidThen EXCEPT ![r] = {i \in Bill!Invoices : Bill!PaidUnsettled(i)}]
    BY DEF Bill!ListOpen, Bill!bank, Bill!Goto
<1>3. BankMoves /\ \A i \in Bill!Open : terms'[i] = terms[i]
    BY <1>1, <1>2, IssuedOnly DEF RequestTypes, BankTypes
<1>4. Stands(r)
    BY <1>1 DEF InvoiceLocks
<1>5. Bill!Newest(Bill!Open) \subseteq 1..issued /\ Bill!Newest(Bill!Open) \subseteq Bill!Invoices
    BY <1>1, OpenCounts DEF Bill!Newest
<1>o. \A i \in Bill!Newest(Bill!Open) : invoiceRow[i] # "none"
    BY DEF Bill!Newest, Bill!Open
<1>6. RequestTypes'
    <2>1. \E B \in SUBSET Bill!Invoices : busy' = [busy EXCEPT ![r] = B]
        BY <1>5 DEF Bill!ListOpen
    <2>2. busy' \in [Requests -> SUBSET Bill!Invoices]
        BY <1>1, <2>1 DEF RequestTypes
    <2> QED
        BY <1>1, <1>2, <1>5, <2>2 DEF RequestTypes, Bill!Places
<1>7. todo'[r] = Bill!Newest(Bill!Open) /\ pc'[r] = "check"
      /\ paidThen'[r] = {i \in Bill!Invoices : Bill!PaidUnsettled(i)}
    BY <1>1, <1>2 DEF RequestTypes
<1>8. Stands(r)'
    BY <1>2, <1>4, <1>5, <1>o, <1>7 DEF Stands
<1>9. ASSUME Fits, Charged
      PROVE  Bill!Newest(Bill!Open) = Bill!Open /\ Bill!Open' = Bill!Open
    BY <1>1, <1>2, <1>9, WholeList DEF Bill!Open
<1>10. Fits /\ Charged => ~Unseen(r)'
    BY <1>7, <1>9 DEF Unseen
<1>11. Fits /\ Charged => Ahead(r)'
    <2> SUFFICES ASSUME Fits, Charged, NEW i \in Bill!Invoices, Bill!PaidUnsettled(i)
                 PROVE  i \in Bill!Open /\ yk[i] = "paid"
        BY <1>2, <1>7, <1>9 DEF Ahead
    <2>1. i \in linked /\ i \notin old /\ yk[i] = "paid" /\ invoiceRow[i] # "succeeded"
        BY DEF Bill!PaidUnsettled
    <2>2. invoiceRow[i] \in {"pending", "processing"}
        BY <1>1, <2>1 DEF InvoiceRows, BankTypes, Bill!RowStatus
    <2> QED
        BY <1>1, <2>1, <2>2 DEF Bill!Open, BankTypes
<1>12. \A q \in Requests \ {r} :
          /\ pc'[q] = pc[q] /\ todo'[q] = todo[q] /\ want'[q] = want[q]
          /\ mine'[q] = mine[q] /\ paidThen'[q] = paidThen[q]
    BY <1>1, <1>2 DEF RequestTypes
<1> QED
    BY <1>2, <1>3, <1>6, <1>8, <1>10, <1>11, <1>12, OneRequest

\* The query fails: a failure pays for what the request will not see.
LEMMA ListFailsStep ==
    ASSUME InvoiceRight, NEW r \in Requests, Bill!ListFails(r)
    PROVE  InvoiceRight'
<1>1. BankTypes /\ RequestTypes /\ InvoiceRows /\ InvoiceLocks
    BY DEF InvoiceRight
<1>2. /\ UNCHANGED <<issued, yk, terms, invoiceRow, linked, old>>
      /\ UNCHANGED <<lock, want, todo, busy, mine, paidThen>>
      /\ pc[r] = "list" /\ pc' = [pc EXCEPT ![r] = "check"]
      /\ Bill!Fault
    BY DEF Bill!ListFails, Bill!bank, Bill!Goto
<1>3. invoiceFaults' = invoiceFaults + 1 /\ invoiceFaults' \in Nat /\ (Fits' => Fits)
    BY <1>1, <1>2, FaultsGrow
<1>4. BankMoves /\ \A i \in Bill!Open : terms'[i] = terms[i]
    BY <1>1, <1>2, <1>3, IssuedOnly DEF RequestTypes
<1>5. RequestTypes'
    BY <1>1, <1>2 DEF RequestTypes, Bill!Places
<1>6. InvoiceLocks'
    <2> SUFFICES ASSUME NEW q \in Requests PROVE Stands(q)'
        BY DEF InvoiceLocks
    <2>1. Stands(q) /\ Stands(r)
        BY <1>1 DEF InvoiceLocks
    <2>2. pc'[q] = pc[q] \/ (q = r /\ pc'[q] = "check")
        BY <1>1, <1>2 DEF RequestTypes
    <2> QED
        BY <1>2, <2>1, <2>2 DEF Stands
<1>7. Fits' => Charged'
    <2>1. /\ Cardinality(Older') <= Cardinality(Older)
          /\ Cardinality(Older) \in Nat /\ Cardinality(Older') \in Nat
        BY <1>1, <1>4, FewerOlder DEF BankMoves
    <2>2. Fits' => Cardinality(Older) <= invoiceFaults
        BY <1>3, OlderPaid
    <2> QED
        BY <1>1, <1>3, <2>1, <2>2 DEF Charged, BankTypes
<1>8. Fits' => PaidAhead'
    BY <1>2, <1>3 DEF InvoiceRight, PaidAhead, Ahead
<1> QED
    BY <1>4, <1>5, <1>6, <1>7, <1>8 DEF InvoiceRight, BankMoves
\* A candidate that is canceled at YooKassa is struck off the list, and its row,
\* unless somebody claimed it, is closed.
LEMMA CanceledStep ==
    ASSUME InvoiceRight, NEW r \in Requests, Bill!CheckCanceled(r)
    PROVE  InvoiceRight'
<1>1. BankTypes /\ RequestTypes /\ InvoiceRows /\ InvoiceLocks
    BY DEF InvoiceRight
<1> DEFINE i == Bill!Max(todo[r])
<1>2. /\ pc[r] = "check" /\ todo[r] # {} /\ yk[i] = "canceled"
      /\ invoiceRow' = [invoiceRow EXCEPT ![i] = IF @ = "pending" THEN "canceled" ELSE @]
      /\ todo' = [todo EXCEPT ![r] = @ \ {i}]
      /\ UNCHANGED <<issued, yk, terms, linked, old, invoiceFaults>>
      /\ UNCHANGED <<lock, pc, want, busy, mine, paidThen>>
    BY DEF Bill!CheckCanceled, Bill!bank
<1>3. i \in todo[r] /\ i \in Bill!Invoices
    BY <1>1, <1>2, Candidate
<1> HIDE DEF i
<1>4. Stands(r)
    BY <1>1 DEF InvoiceLocks
<1>5. \A j \in Bill!Invoices :
         invoiceRow'[j] = IF j = i /\ invoiceRow[i] = "pending" THEN "canceled" ELSE invoiceRow[j]
    BY <1>1, <1>2, <1>3 DEF BankTypes
<1>6. BankTypes' /\ InvoiceRows'
    <2>1. BankTypes'
        BY <1>1, <1>2, <1>3 DEF BankTypes, Bill!RowStatus
    <2>2. InvoiceRows'
        BY <1>1, <1>2, <1>5 DEF InvoiceRows
    <2> QED
        BY <2>1, <2>2
<1>7. i \notin Bill!Open' /\ Bill!Open' \subseteq Bill!Open
    <2>1. invoiceRow[i] \notin {"processing", "succeeded"}
        BY <1>1, <1>2, <1>3 DEF InvoiceRows
    <2>2. i \notin Bill!Open'
        BY <1>3, <1>5, <2>1 DEF Bill!Open
    <2>3. \A j \in 1..issued : j \in Bill!Invoices
        BY <1>1, InvoiceConstants DEF BankTypes, Bill!Invoices
    <2>4. Bill!Open' \subseteq Bill!Open
        BY <1>2, <1>5, <2>3 DEF Bill!Open
    <2> QED
        BY <2>2, <2>4
<1>8. BankMoves /\ \A j \in Bill!Open : terms'[j] = terms[j]
    BY <1>1, <1>2, <1>5, <1>6, <1>7, InvoiceConstants DEF BankMoves, BankTypes
<1>9. todo'[r] = todo[r] \ {i}
    BY <1>1, <1>2 DEF RequestTypes
<1>10. RequestTypes'
    BY <1>1, <1>2 DEF RequestTypes
<1>t. todo[r] \subseteq Bill!Invoices
    BY <1>1 DEF RequestTypes
<1>11. Stands(r)'
    BY <1>2, <1>3, <1>4, <1>5, <1>9, <1>t DEF Stands
<1>12. Unseen(r)' => Unseen(r)
    BY <1>2, <1>7, <1>9 DEF Unseen
<1>13. PaidAhead => Ahead(r)'
    BY <1>2, <1>9 DEF PaidAhead, Ahead
<1>14. \A q \in Requests \ {r} : todo'[q] = todo[q]
    BY <1>1, <1>2 DEF RequestTypes
<1> QED
    BY <1>2, <1>8, <1>10, <1>11, <1>12, <1>13, <1>14, OneRequest

\* A candidate that can still be paid is given again for the same terms, and
\* passed over for others.
LEMMA PendingStep ==
    ASSUME InvoiceRight, NEW r \in Requests, Bill!CheckPending(r)
    PROVE  InvoiceRight'
<1>1. BankTypes /\ RequestTypes /\ InvoiceRows /\ InvoiceLocks
    BY DEF InvoiceRight
<1> DEFINE i == Bill!Max(todo[r])
<1>2. /\ pc[r] = "check" /\ todo[r] # {} /\ yk[i] = "pending"
      /\ UNCHANGED <<issued, yk, terms, invoiceRow, old, invoiceFaults>>
      /\ \/ Bill!Answer(r) /\ linked' = linked \cup {i} /\ i \notin busy[r]
         \/ /\ terms[i] # want[r]
            /\ todo' = [todo EXCEPT ![r] = @ \ {i}]
            /\ UNCHANGED <<lock, pc, want, busy, mine, paidThen, linked>>
    BY DEF Bill!CheckPending, Bill!bank, Bill!SameTerms
<1>3. i \in todo[r] /\ i \in Bill!Invoices
    BY <1>1, <1>2, Candidate
<1> HIDE DEF i
<1>4. Stands(r)
    BY <1>1 DEF InvoiceLocks
<1>5. CASE Bill!Answer(r) /\ linked' = linked \cup {i}
    <2>1. i \in 1..issued
        BY <1>3, <1>4 DEF Stands
    <2>2. BankTypes'
        BY <1>1, <1>2, <1>5, <2>1 DEF BankTypes
    <2>3. invoiceRow[i] # "none"
        BY <1>3, <1>4 DEF Stands
    <2>4. InvoiceRows'
        BY <1>1, <1>2, <1>5, <2>3 DEF InvoiceRows
    <2>5. Bill!Open' = Bill!Open
        BY <1>2 DEF Bill!Open
    <2>6. Cardinality(Older') <= Cardinality(Older)
          /\ Cardinality(Older') \in Nat /\ Cardinality(Older) \in Nat
        BY <1>1, <1>2, <2>5, FewerOlder
    <2>7. Fits' => Cardinality(Older') <= invoiceFaults'
        BY <1>1, <1>2, <2>6, OlderPaid DEF Fits, BankTypes
    <2> QED
        BY <1>2, <1>5, <2>2, <2>4, <2>6, <2>7, Answered
<1>6. CASE /\ terms[i] # want[r]
           /\ todo' = [todo EXCEPT ![r] = @ \ {i}]
           /\ UNCHANGED <<lock, pc, want, busy, mine, paidThen, linked>>
    <2>1. BankMoves /\ Bill!Open' = Bill!Open /\ \A j \in Bill!Open : terms'[j] = terms[j]
        BY <1>1, <1>2, <1>6, IssuedOnly DEF RequestTypes, BankTypes
    <2>2. todo'[r] = todo[r] \ {i}
        BY <1>1, <1>6 DEF RequestTypes
    <2>3. RequestTypes'
        BY <1>1, <1>6 DEF RequestTypes
    <2>4. Stands(r)'
        BY <1>2, <1>4, <1>6, <2>2 DEF Stands
    <2>5. Unseen(r)' => Unseen(r)
        BY <1>2, <1>6, <2>1, <2>2 DEF Unseen
    <2>6. PaidAhead => Ahead(r)'
        BY <1>2, <1>6, <2>2 DEF PaidAhead, Ahead
    <2>7. \A q \in Requests \ {r} : todo'[q] = todo[q]
        BY <1>1, <1>6 DEF RequestTypes
    <2> QED
        BY <1>2, <1>6, <2>1, <2>3, <2>4, <2>5, <2>6, <2>7, OneRequest
<1> QED
    BY <1>2, <1>5, <1>6

\* Nothing is open any more: an invoice is issued.
LEMMA IssueSteps ==
    ASSUME InvoiceRight, NEW r \in Requests, Bill!NothingOpen(r) \/ Bill!CreateInvoice(r)
    PROVE  InvoiceRight'
<1>1. BankTypes /\ RequestTypes /\ InvoiceRows /\ InvoiceLocks
    BY DEF InvoiceRight
<1>2. /\ UNCHANGED <<invoiceRow, linked, old, invoiceFaults>>
      /\ UNCHANGED <<lock, want, todo, busy, paidThen>>
      /\ Bill!Issue(r) \/ UNCHANGED <<issued, yk, terms>>
    BY DEF Bill!NothingOpen, Bill!CreateInvoice, Bill!bank
<1>3. BankMoves /\ Bill!Open' = Bill!Open /\ \A j \in Bill!Open : terms'[j] = terms[j]
    BY <1>1, <1>2, IssuedOnly DEF RequestTypes, BankTypes
<1>4. Stands(r)
    BY <1>1 DEF InvoiceLocks
<1>5. /\ RequestTypes' /\ Stands(r)' /\ pc[r] \in {"check", "create"}
      /\ \A q \in Requests \ {r} : pc'[q] = pc[q] /\ mine'[q] = mine[q]
    <2>1. CASE Bill!NothingOpen(r)
        <3>1. /\ pc[r] = "check" /\ todo[r] = {} /\ pc' = [pc EXCEPT ![r] = "create"]
              /\ mine' = mine /\ issued' = issued
            BY <2>1 DEF Bill!NothingOpen, Bill!Goto, Bill!bank
        <3> QED
            BY <1>1, <1>2, <1>4, <3>1 DEF RequestTypes, Stands, Bill!Places
    <2>2. CASE Bill!CreateInvoice(r)
        <3>1. /\ pc[r] = "create" /\ pc' = [pc EXCEPT ![r] = "save"]
              /\ mine' = [mine EXCEPT ![r] = issued + 1]
              /\ issued < MaxInvoices /\ issued' = issued + 1
              /\ terms' = [terms EXCEPT ![issued + 1] = want[r]]
            BY <2>2 DEF Bill!CreateInvoice, Bill!Goto, Bill!Issue
        <3>2. issued + 1 \in Bill!Invoices /\ issued \in Nat
            BY <1>1, <3>1, InvoiceConstants DEF BankTypes, Bill!Invoices
        <3>3. RequestTypes'
            BY <1>1, <1>2, <3>1, <3>2 DEF RequestTypes, Bill!Places
        <3>4. pc'[r] = "save" /\ mine'[r] = issued + 1 /\ terms'[issued + 1] = want[r]
            BY <1>1, <3>1, <3>2 DEF RequestTypes, BankTypes
        <3>5. invoiceRow[issued + 1] = "none"
            BY <1>1, <3>2 DEF InvoiceRows
        <3>6. issued + 1 \in 1..issued'
            BY <3>1, <3>2
        <3>7. Stands(r)'
            BY <1>2, <1>4, <3>1, <3>4, <3>5, <3>6 DEF Stands
        <3> QED
            BY <1>1, <3>1, <3>3, <3>7 DEF RequestTypes
    <2> QED
        BY <2>1, <2>2
<1>6. Unseen(r)' => Unseen(r)
    BY <1>2, <1>3 DEF Unseen
<1>7. PaidAhead => Ahead(r)'
    <2>1. \A j \in paidThen[r] : j \in Bill!Invoices
        BY <1>1 DEF RequestTypes
    <2> QED
        BY <1>2, <1>3, <2>1 DEF PaidAhead, Ahead, BankMoves
<1> QED
    BY <1>2, <1>3, <1>5, <1>6, <1>7, OneRequest

\* A restart takes the requests and the lock.
LEMMA RestartStep ==
    ASSUME InvoiceRight, Bill!Restart
    PROVE  InvoiceRight'
<1>1. BankTypes /\ RequestTypes /\ InvoiceRows /\ InvoiceLocks
    BY DEF InvoiceRight
<1>2. /\ UNCHANGED <<issued, yk, terms, invoiceRow, linked, old>>
      /\ Bill!Fault /\ lock' = None
      /\ pc' = [r \in Requests |-> "idle"] /\ want' = [r \in Requests |-> None]
      /\ todo' = [r \in Requests |-> {}] /\ busy' = [r \in Requests |-> {}]
      /\ mine' = [r \in Requests |-> None] /\ paidThen' = [r \in Requests |-> {}]
    BY DEF Bill!Restart, Bill!bank
<1>3. invoiceFaults' = invoiceFaults + 1 /\ invoiceFaults' \in Nat /\ (Fits' => Fits)
    BY <1>1, <1>2, FaultsGrow
<1>4. BankTypes' /\ InvoiceRows'
    BY <1>1, <1>2, <1>3 DEF BankTypes, InvoiceRows
<1>5. RequestTypes' /\ InvoiceLocks' /\ PaidAhead' /\ ~Blind'
    BY <1>2 DEF RequestTypes, InvoiceLocks, Stands, PaidAhead, Ahead, Blind, Bill!Places
<1>6. Fits' => Charged'
    <2>1. Bill!Open' = Bill!Open
        BY <1>2 DEF Bill!Open
    <2>2. /\ Cardinality(Older') <= Cardinality(Older)
          /\ Cardinality(Older) \in Nat /\ Cardinality(Older') \in Nat
        BY <1>1, <1>2, <2>1, FewerOlder
    <2> QED
        BY <1>1, <1>3, <1>5, <2>2, OlderPaid DEF Charged, BankTypes
<1> QED
    BY <1>4, <1>5, <1>6 DEF InvoiceRight
\* Every step of the till keeps its invariant.
LEMMA InvoiceSteps ==
    ASSUME InvoiceInv, [Next]_paymentsVars
    PROVE  InvoiceInv'
<1> SUFFICES ASSUME side' = "invoice" PROVE InvoiceRight'
    BY DEF InvoiceInv
<1>1. side = "invoice"
    BY DEF Next, Race, Buy, Invoice, Settlement, paymentsVars
<1>2. InvoiceRight
    BY <1>1 DEF InvoiceInv
<1>3. CASE UNCHANGED billVars
    <2>1. BankTypes /\ RequestTypes /\ InvoiceRows
        BY <1>2 DEF InvoiceRight
    <2>2. /\ UNCHANGED <<issued, yk, terms, invoiceRow, linked, old, invoiceFaults>>
          /\ UNCHANGED <<lock, pc, want, todo, busy, mine, paidThen>>
        BY <1>3 DEF billVars
    <2>3. BankTypes' /\ InvoiceRows' /\ Bill!Open' = Bill!Open
        BY <2>1, <2>2 DEF BankTypes, InvoiceRows, Bill!Open
    <2>4. BankMoves
        BY <2>1, <2>2, <2>3, InvoiceConstants DEF BankMoves, BankTypes
    <2> QED
        BY <1>2, <2>2, <2>4, BankOnly
<1>4. CASE Bill!Next
    <2>1. CASE Bill!Restart
        BY <1>2, <2>1, RestartStep
    <2>2. CASE \E i \in Bill!Invoices :
                  \/ Bill!Pay(i) \/ Bill!Lapse(i) \/ Bill!RouteClaims(i) \/ Bill!RouteEnds(i)
                  \/ Bill!PollStatus(i) \/ Bill!GrowOld(i)
        BY <1>2, <2>2, TimeMoves
    <2>3. CASE \E r \in Requests : (\E t \in Terms : Bill!Ask(r, t)) \/ Bill!Acquire(r)
        BY <1>2, <2>3, EntrySteps
    <2>4. CASE \E r \in Requests : Bill!ListOpen(r) \/ Bill!ListFails(r)
        BY <1>2, <2>4, ListStep, ListFailsStep
    <2>5. CASE \E r \in Requests :
                  Bill!CheckRefuses(r) \/ Bill!CheckFails(r) \/ Bill!CreateFails(r)
        BY <1>2, <2>5, AnsweredWithoutRow
    <2>6. CASE \E r \in Requests : Bill!CheckCanceled(r) \/ Bill!CheckPending(r)
        BY <1>2, <2>6, CanceledStep, PendingStep
    <2>7. CASE \E r \in Requests : Bill!NothingOpen(r) \/ Bill!CreateInvoice(r)
        BY <1>2, <2>7, IssueSteps
    <2>8. CASE \E r \in Requests : Bill!SavePayment(r) \/ Bill!SaveFails(r)
        BY <1>2, <2>8, SaveSteps
    <2> QED
        BY <1>4, <2>1, <2>2, <2>3, <2>4, <2>5, <2>6, <2>7, <2>8 DEF Bill!Next
<1> QED
    BY <1>1, <1>3, <1>4 DEF Next, Race, Buy, Invoice, Settlement, paymentsVars

\* There are no more failures than the bound.
FaultsInBound == side = "invoice" => invoiceFaults \in 0..InvoiceFaults

\* A step fails once at most, and below the bound only.
LEMMA FaultSteps ==
    ASSUME FaultsInBound, [Next]_paymentsVars
    PROVE  FaultsInBound'
<1> SUFFICES ASSUME side' = "invoice" PROVE invoiceFaults' \in 0..InvoiceFaults
    BY DEF FaultsInBound
<1>1. side = "invoice"
    BY DEF Next, Race, Buy, Invoice, Settlement, paymentsVars
<1>2. invoiceFaults \in 0..InvoiceFaults
    BY <1>1 DEF FaultsInBound
<1>3. invoiceFaults' = invoiceFaults \/ Bill!Fault
    <2>1. CASE UNCHANGED billVars
        BY <2>1 DEF billVars
    <2>2. CASE Bill!Next
        BY <2>2
        DEF Bill!Next, Bill!Ask, Bill!Acquire, Bill!ListOpen, Bill!ListFails, Bill!CheckRefuses,
            Bill!CheckCanceled, Bill!CheckPending, Bill!CheckFails, Bill!NothingOpen,
            Bill!CreateInvoice, Bill!CreateFails, Bill!SavePayment, Bill!SaveFails, Bill!Pay,
            Bill!Lapse, Bill!RouteClaims, Bill!RouteEnds, Bill!PollStatus, Bill!GrowOld,
            Bill!Restart
    <2> QED
        BY <1>1, <2>1, <2>2 DEF Next, Race, Buy, Invoice, Settlement, paymentsVars
<1> QED
    BY <1>2, <1>3, InvoiceConstants DEF Bill!Fault

\* A live invoice is open, and has the row that settles it.
LEMMA LiveIsOpen ==
    ASSUME BankTypes, InvoiceRows, NEW i \in Bill!Invoices, Bill!Live(i)
    PROVE  i \in Bill!Open
<1>1. i \in 1..issued /\ i \notin old /\ yk[i] # "canceled" /\ invoiceRow[i] # "succeeded"
      /\ invoiceRow[i] # "none"
    BY DEF Bill!Live, InvoiceRows, BankTypes
<1>2. invoiceRow[i] \in {"pending", "processing"}
    BY <1>1 DEF InvoiceRows, BankTypes, Bill!RowStatus
<1> QED
    BY <1>1, <1>2 DEF Bill!Open

\* Open invoices of the same terms beside the newest cost a failure each.
LEMMA OneInvoiceKept ==
    ASSUME InvoiceRight, Fits
    PROVE  Bill!OneInvoicePerTerms /\ Bill!LinkedHasRow
<1>1. BankTypes /\ InvoiceRows
    BY DEF InvoiceRight
<1>2. ASSUME NEW t \in Terms
      PROVE  Cardinality({i \in Bill!Invoices : Bill!Live(i) /\ terms[i] = t}) <= 1 + invoiceFaults
    <2> DEFINE X == {i \in Bill!Invoices : Bill!Live(i) /\ terms[i] = t}
    <2>1. X \subseteq Bill!Open /\ Bill!Open \subseteq Nat
        BY <1>1, LiveIsOpen, OpenCounts DEF BankTypes
    <2>2. \A i, j \in X \ Older : i = j
        <3> SUFFICES ASSUME NEW i \in X \ Older, NEW j \in X \ Older PROVE i = j
            OBVIOUS
        <3>1. terms[i] = terms[j] /\ i \in Bill!Open /\ j \in Bill!Open
            BY <2>1
        <3>2. ~(i < j) /\ ~(j < i)
            BY <3>1 DEF Older
        <3> QED
            BY <2>1, <3>1, <3>2
    <2> HIDE DEF X
    <2>3. \E x : X \subseteq Older \cup {x}
        BY <2>2
    <2>4. PICK x : X \subseteq Older \cup {x}
        BY <2>3
    <2>5. /\ IsFiniteSet(Older \cup {x})
          /\ Cardinality(Older \cup {x}) \in {Cardinality(Older), Cardinality(Older) + 1}
        BY <1>1, OpenCounts, FS_AddElement
    <2>6. Cardinality(X) <= Cardinality(Older \cup {x}) /\ Cardinality(X) \in Nat
        BY <2>4, <2>5, FS_Subset, FS_CardinalityType
    <2>7. Cardinality(Older) <= invoiceFaults
        BY OlderPaid
    <2>8. Cardinality(X) <= 1 + invoiceFaults
        BY <1>1, <2>5, <2>6, <2>7, OpenCounts DEF BankTypes
    <2> QED
        BY <2>8 DEF X
<1>3. Bill!OneInvoicePerTerms
    BY <1>2, SameCount DEF Bill!OneInvoicePerTerms
<1>4. linked \subseteq Bill!Invoices
    BY <1>1, InvoiceConstants DEF BankTypes, Bill!Invoices
<1>5. Bill!LinkedHasRow
    BY <1>1, <1>4 DEF Bill!LinkedHasRow, InvoiceRows
<1> QED
    BY <1>3, <1>5

\* The invariants of the till hold throughout.
LEMMA InvoiceInvariant == Spec => [](InvoiceInv /\ FaultsInBound)
<1>1. Init => InvoiceInv /\ FaultsInBound
    BY InvoiceStart, InvoiceConstants DEF Init, Bill!Init, FaultsInBound
<1>2. InvoiceInv /\ FaultsInBound /\ [Next]_paymentsVars => (InvoiceInv /\ FaultsInBound)'
    BY InvoiceSteps, FaultSteps
<1> QED
    BY <1>1, <1>2, PTL DEF Spec

\* However many requests of one user run at once, and however often they fail or
\* the process restarts, the user holds one payable invoice per terms, and one more
\* per failure at most, and the table knows every invoice he got a link to: as long
\* as the LIMIT of list_open_for_user covers the terms he asks for and the failures.
THEOREM OneInvoiceHolds ==
    ASSUME Cardinality(Terms) + InvoiceFaults <= Limit
    PROVE  Spec => []OneInvoicePerTerms
<1>1. InvoiceInv /\ FaultsInBound => OneInvoicePerTerms
    <2> SUFFICES ASSUME InvoiceInv, FaultsInBound, side = "invoice"
                 PROVE  Bill!OneInvoicePerTerms /\ Bill!LinkedHasRow
        BY DEF OneInvoicePerTerms
    <2>1. Cardinality(Terms) \in Nat
        BY InvoiceConstants, FS_CardinalityType
    <2>2. Fits
        BY <2>1, InvoiceConstants DEF Fits, FaultsInBound
    <2> QED
        BY <2>2, OneInvoiceKept DEF InvoiceInv
<1> QED
    BY <1>1, InvoiceInvariant, PTL

\* While nothing has failed, no request issues an invoice over one that was paid
\* when it looked, for whatever terms and however claims, releases and payments
\* fall between its steps: as long as the LIMIT covers the terms.
THEOREM NoInvoiceOverPaidHolds ==
    ASSUME Cardinality(Terms) <= Limit
    PROVE  Spec => []NoInvoiceOverPaid
<1>1. InvoiceInv => NoInvoiceOverPaid
    <2> SUFFICES ASSUME InvoiceInv, side = "invoice", NEW r \in Requests,
                        invoiceFaults = 0, pc[r] \in {"create", "save"}
                 PROVE  paidThen[r] = {}
        BY DEF NoInvoiceOverPaid, Bill!NoInvoiceOverPaid
    <2>1. Cardinality(Terms) \in Nat
        BY InvoiceConstants, FS_CardinalityType
    <2>2. Fits
        BY <2>1, InvoiceConstants DEF Fits
    <2>3. Ahead(r) /\ Stands(r)
        BY <2>2 DEF InvoiceInv, InvoiceRight, PaidAhead, InvoiceLocks
    <2> QED
        BY <2>3 DEF Ahead, Stands
<1> QED
    BY <1>1, InvoiceInvariant, PTL
=============================================================================
