------------------------------ MODULE Invoices ------------------------------
(***************************************************************************)
(* The invoices of one user for one operation: create_payment_for_user     *)
(* (api/v1/payments.py) under the lock of its user, against YooKassa, the  *)
(* payments table and the routing that settles what was paid.  Terms stand *)
(* for the number of months and the amount.  Invoices are numbered in the  *)
(* order YooKassa issued them.                                             *)
(***************************************************************************)
EXTENDS Naturals, FiniteSets, FiniteSetsExt

CONSTANTS
    Requests,       \* POST /payments/create of this user, running at once
    Terms,
    Limit,          \* LIMIT of list_open_for_user
    MaxInvoices,    \* bound on invoices
    MaxFaults,      \* bound on failures and crashes
    None

Invoices == 1..MaxInvoices

VARIABLES
    issued,         \* number of invoices at YooKassa
    yk, terms,      \* their status there, and their terms
    row,            \* payments.status, "none" without a row
    linked,         \* invoices whose confirmation_url the user got
    old,            \* rows older than payment_sweep_max_age_minutes
    lock,           \* the request holding the lock of the user, or None
    pc, want,       \* per request: its place and the terms it asks for
    todo,           \* per request: the candidates still to be looked at
    busy,           \* per request: candidates that were listed as processing
    mine,           \* per request: the invoice it issued
    paidThen,       \* history: invoices paid and unsettled when it listed
    faults

bank  == <<issued, yk, terms>>
reqs  == <<lock, pc, want, todo, busy, mine, paidThen>>
vars  == <<bank, row, linked, old, reqs, faults>>

RowStatus == {"none", "pending", "processing", "succeeded", "canceled"}
Places == {"idle", "lock", "list", "check", "create", "save"}

TypeOK ==
    /\ issued \in 0..MaxInvoices
    /\ yk \in [Invoices -> {"pending", "paid", "canceled"}]
    /\ terms \in [Invoices -> Terms \cup {None}]
    /\ row \in [Invoices -> RowStatus]
    /\ linked \subseteq 1..issued /\ old \subseteq 1..issued
    /\ lock \in Requests \cup {None}
    /\ pc \in [Requests -> Places]
    /\ want \in [Requests -> Terms \cup {None}]
    /\ todo \in [Requests -> SUBSET Invoices] /\ busy \in [Requests -> SUBSET Invoices]
    /\ mine \in [Requests -> Invoices \cup {None}]
    /\ paidThen \in [Requests -> SUBSET Invoices]
    /\ faults \in 0..MaxFaults

Init ==
    /\ issued = 0
    /\ yk = [i \in Invoices |-> "pending"]
    /\ terms = [i \in Invoices |-> None]
    /\ row = [i \in Invoices |-> "none"]
    /\ linked = {} /\ old = {}
    /\ lock = None
    /\ pc = [r \in Requests |-> "idle"]
    /\ want = [r \in Requests |-> None]
    /\ todo = [r \in Requests |-> {}] /\ busy = [r \in Requests |-> {}]
    /\ mine = [r \in Requests |-> None]
    /\ paidThen = [r \in Requests |-> {}]
    /\ faults = 0

Fault == faults < MaxFaults /\ faults' = faults + 1

Goto(r, place) == pc' = [pc EXCEPT ![r] = place]

\* The request is answered, with a link or an error, and leaves the lock.
Answer(r) ==
    /\ lock' = None
    /\ pc' = [pc EXCEPT ![r] = "idle"]
    /\ want' = [want EXCEPT ![r] = None]
    /\ todo' = [todo EXCEPT ![r] = {}] /\ busy' = [busy EXCEPT ![r] = {}]
    /\ mine' = [mine EXCEPT ![r] = None]
    /\ paidThen' = [paidThen EXCEPT ![r] = {}]

-----------------------------------------------------------------------------
(* A request                                                               *)

Ask(r, t) ==
    /\ pc[r] = "idle"
    /\ want' = [want EXCEPT ![r] = t]
    /\ Goto(r, "lock")
    /\ UNCHANGED <<bank, row, linked, old, lock, todo, busy, mine, paidThen, faults>>

\* Mutant: requests of one user are not kept apart.
LockFree_Never == TRUE
LockFree == lock = None

\* _user_payment_lock; then the price is quoted.
Acquire(r) ==
    /\ pc[r] = "lock"
    /\ LockFree
    /\ lock' = r
    /\ Goto(r, "list")
    /\ UNCHANGED <<bank, row, linked, old, want, todo, busy, mine, paidThen, faults>>

\* Mutant: an invoice claimed by the webhook is not open any more.
Open_PendingOnly == {i \in 1..issued : row[i] = "pending" /\ i \notin old}

Open == {i \in 1..issued : row[i] \in {"pending", "processing"} /\ i \notin old}

Newest(S) == {i \in S : Cardinality({j \in S : j > i}) < Limit}

PaidUnsettled(i) == i \in linked \ old /\ yk[i] = "paid" /\ row[i] # "succeeded"

ListOpen(r) ==
    /\ pc[r] = "list"
    /\ todo' = [todo EXCEPT ![r] = Newest(Open)]
    /\ busy' = [busy EXCEPT ![r] = {i \in Newest(Open) : row[i] = "processing"}]
    /\ paidThen' = [paidThen EXCEPT ![r] = {i \in Invoices : PaidUnsettled(i)}]
    /\ Goto(r, "check")
    /\ UNCHANGED <<bank, row, linked, old, lock, want, mine, faults>>

\* The query fails: _find_open_payment goes on as if nothing were open.
ListFails(r) ==
    /\ pc[r] = "list"
    /\ Fault
    /\ Goto(r, "check")
    /\ UNCHANGED <<bank, row, linked, old, lock, want, todo, busy, mine, paidThen>>

\* The newest candidate left is being processed, or YooKassa says paid: 409.
CheckRefuses(r) ==
    /\ pc[r] = "check" /\ todo[r] # {}
    /\ LET i == Max(todo[r]) IN i \in busy[r] \/ yk[i] = "paid"
    /\ Answer(r)
    /\ UNCHANGED <<bank, row, linked, old, faults>>

\* YooKassa says canceled: mark_canceled_if_pending, next candidate.
CheckCanceled(r) ==
    /\ pc[r] = "check" /\ todo[r] # {}
    /\ LET i == Max(todo[r]) IN
          /\ i \notin busy[r] /\ yk[i] = "canceled"
          /\ row' = [row EXCEPT ![i] = IF @ = "pending" THEN "canceled" ELSE @]
          /\ todo' = [todo EXCEPT ![r] = @ \ {i}]
    /\ UNCHANGED <<bank, linked, old, lock, pc, want, busy, mine, paidThen, faults>>

SameTerms(r, i) == terms[i] = want[r]

\* Still payable: the same invoice again for the same terms, else the next.
CheckPending(r) ==
    /\ pc[r] = "check" /\ todo[r] # {}
    /\ LET i == Max(todo[r]) IN
          /\ i \notin busy[r] /\ yk[i] = "pending"
          /\ IF SameTerms(r, i)
             THEN Answer(r) /\ linked' = linked \cup {i}
             ELSE /\ todo' = [todo EXCEPT ![r] = @ \ {i}]
                  /\ UNCHANGED <<lock, pc, want, busy, mine, paidThen, linked>>
    /\ UNCHANGED <<bank, row, old, faults>>

\* The status cannot be learned: 503.
CheckFails(r) ==
    /\ pc[r] = "check" /\ todo[r] # {}
    /\ Fault
    /\ Answer(r)
    /\ UNCHANGED <<bank, row, linked, old>>

NothingOpen(r) ==
    /\ pc[r] = "check" /\ todo[r] = {}
    /\ Goto(r, "create")
    /\ UNCHANGED <<bank, row, linked, old, lock, want, todo, busy, mine, paidThen, faults>>

Issue(r) ==
    /\ issued < MaxInvoices
    /\ issued' = issued + 1
    /\ terms' = [terms EXCEPT ![issued + 1] = want[r]]
    /\ UNCHANGED yk

\* Payment.create; its retries carry one idempotency key, so one invoice.
CreateInvoice(r) ==
    /\ pc[r] = "create"
    /\ Issue(r)
    /\ mine' = [mine EXCEPT ![r] = issued + 1]
    /\ Goto(r, "save")
    /\ UNCHANGED <<row, linked, old, lock, want, todo, busy, paidThen, faults>>

\* YooKassa answers with an error, or three times not in time; in the second
\* case there may be an invoice.  504 or 502.
CreateFails(r) ==
    /\ pc[r] = "create"
    /\ Fault
    /\ Issue(r) \/ UNCHANGED bank
    /\ Answer(r)
    /\ UNCHANGED <<row, linked, old>>

\* payments.save_data; only then the user gets the link.
SavePayment(r) ==
    /\ pc[r] = "save"
    /\ row' = [row EXCEPT ![mine[r]] = "pending"]
    /\ linked' = linked \cup {mine[r]}
    /\ Answer(r)
    /\ UNCHANGED <<bank, old, faults>>

\* The INSERT raises, executed or not: 500 without a link.
SaveFails(r) ==
    /\ pc[r] = "save"
    /\ Fault
    /\ row' = [row EXCEPT ![mine[r]] = "pending"] \/ UNCHANGED row
    /\ Answer(r)
    /\ UNCHANGED <<bank, linked, old>>

-----------------------------------------------------------------------------
(* YooKassa, routing, time                                                 *)

\* The user pays an invoice he has a link to.
Pay(i) ==
    /\ i \in linked /\ yk[i] = "pending"
    /\ yk' = [yk EXCEPT ![i] = "paid"]
    /\ UNCHANGED <<issued, terms, row, linked, old, reqs, faults>>

\* An invoice nobody paid lapses at YooKassa.
Lapse(i) ==
    /\ i <= issued /\ yk[i] = "pending"
    /\ yk' = [yk EXCEPT ![i] = "canceled"]
    /\ UNCHANGED <<issued, terms, row, linked, old, reqs, faults>>

\* PaymentRouter.route as PaymentRouting models it: claim, then release or
\* completion.
RouteClaims(i) ==
    /\ yk[i] = "paid" /\ row[i] = "pending"
    /\ row' = [row EXCEPT ![i] = "processing"]
    /\ UNCHANGED <<bank, linked, old, reqs, faults>>

RouteEnds(i) ==
    /\ row[i] = "processing"
    /\ \E s \in {"pending", "succeeded"} : row' = [row EXCEPT ![i] = s]
    /\ UNCHANGED <<bank, linked, old, reqs, faults>>

\* GET /payments/{id}/status finds the invoice canceled at YooKassa.
PollStatus(i) ==
    /\ yk[i] = "canceled" /\ row[i] = "pending"
    /\ row' = [row EXCEPT ![i] = "canceled"]
    /\ UNCHANGED <<bank, linked, old, reqs, faults>>

\* A day passes; by then YooKassa has no unpaid invoice any more.
GrowOld(i) ==
    /\ i <= issued /\ yk[i] # "pending"
    /\ old' = old \cup {i}
    /\ UNCHANGED <<bank, row, linked, reqs, faults>>

\* The process restarts: its requests and its locks are gone.
Restart ==
    /\ Fault
    /\ lock' = None
    /\ pc' = [r \in Requests |-> "idle"]
    /\ want' = [r \in Requests |-> None]
    /\ todo' = [r \in Requests |-> {}] /\ busy' = [r \in Requests |-> {}]
    /\ mine' = [r \in Requests |-> None]
    /\ paidThen' = [r \in Requests |-> {}]
    /\ UNCHANGED <<bank, row, linked, old>>

Next ==
    \/ \E r \in Requests :
          \/ \E t \in Terms : Ask(r, t)
          \/ Acquire(r) \/ ListOpen(r) \/ ListFails(r)
          \/ CheckRefuses(r) \/ CheckCanceled(r) \/ CheckPending(r) \/ CheckFails(r)
          \/ NothingOpen(r) \/ CreateInvoice(r) \/ CreateFails(r)
          \/ SavePayment(r) \/ SaveFails(r)
    \/ \E i \in Invoices :
          Pay(i) \/ Lapse(i) \/ RouteClaims(i) \/ RouteEnds(i) \/ PollStatus(i) \/ GrowOld(i)
    \/ Restart

Spec == Init /\ [][Next]_vars
-----------------------------------------------------------------------------
(* Properties                                                              *)

\* An invoice the user can pay, or has paid without having got the key yet.
Live(i) == i \in linked \ old /\ yk[i] # "canceled" /\ row[i] # "succeeded"

\* The user never holds two live invoices for the same terms, however often
\* and in how many windows he presses "pay"; a second one costs a failure.
OneInvoicePerTerms ==
    \A t \in Terms : Cardinality({i \in Invoices : Live(i) /\ terms[i] = t}) <= 1 + faults

\* A user can only pay what the database knows, whatever failed while the
\* invoice was issued: otherwise no webhook and no sweep could settle it.
LinkedHasRow == \A i \in linked : row[i] # "none"

\* While an invoice is paid and not yet settled, no request that looked after
\* the payment goes on to issue another one, for whatever terms (the 409 of
\* _find_open_payment).
NoInvoiceOverPaid ==
    \A r \in Requests :
        faults = 0 /\ pc[r] \in {"create", "save"} => paidThen[r] = {}

\* list_open_for_user: a second invoice must not be issued while the first
\* can still be paid, "otherwise both payments go through and issue two keys".
OneLiveInvoice == Cardinality({i \in Invoices : Live(i)}) <= 1
=============================================================================
