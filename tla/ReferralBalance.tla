--------------------------- MODULE ReferralBalance ---------------------------
(***************************************************************************)
(* users.balance and users.check_referral: the discount a quote takes from *)
(* the balance (api/v1/payments.py), its deduction once the payment has    *)
(* succeeded (router.py), the bonus of the referrer (bonus_service.py) and *)
(* the endpoints that save a whole user row.  A cached user is an object   *)
(* that its holders share: a change to a field is seen by all of them.     *)
(* Every user is cached from the start, as after loading().  Money counts  *)
(* in units; a bonus is Reward units whatever the amount.                  *)
(***************************************************************************)
EXTENDS Integers, FiniteSets, FiniteSetsExt, Functions

CONSTANTS
    Users, Payments, Edits,
    ReferrerOf,     \* referral_id, or None
    Opening,        \* balance of each user at the start
    Price, MinPayment, Reward,
    Settable,       \* balances that an edit may set
    Objects,        \* identities for cached objects
    MaxFaults,
    None

Writers == Payments \cup Edits

VARIABLES
    row,            \* the table users
    heap,           \* fields of the cached objects
    cached,         \* cache.users: the object of each user
    payer,          \* who pays, and whom an edit changes
    at,             \* place of each handler
    obj,            \* the object a handler holds
    image,          \* the row a handler is about to write
    discount,       \* balance_discount of an invoice
    faults,
    rewards,        \* referral_rewards, by the referred user
    read,           \* the cached row from which a handler makes its image
    saved,          \* what the saves of a user's row were to change its balance by
    torn,           \* how many of them wrote over a row that was not the one read
    met,            \* users two of whose handlers were at work at once
    unsaved,        \* users a save of whose row failed
    missed          \* payments whose deduction failed

handlers == <<payer, at, obj, image>>
saves == <<read, saved, torn, unsaved, missed>>
history == <<rewards, saves>>
vars == <<row, heap, cached, handlers, discount, faults, history, met>>

Rows == [balance : Nat, check : BOOLEAN]

TypeOK ==
    /\ row \in [Users -> Rows]
    /\ heap \in [Objects -> Rows]
    /\ cached \in [Users -> Objects]
    /\ payer \in [Writers -> Users \cup {None}]
    /\ at \in [Writers -> {"none", "quoted", "write", "recache", "mark", "readReferred",
                           "setReferred", "reward", "readReferrer", "setReferrer", "done"}]
    /\ obj \in [Writers -> Objects \cup {None}]
    /\ image \in [Writers -> Rows \cup {None}]
    /\ discount \in [Payments -> 0..Price - MinPayment]
    /\ faults \in 0..MaxFaults
    /\ rewards \in [Users -> Nat] /\ torn \in [Users -> Nat]
    /\ read \in [Writers -> Rows \cup {None}]
    /\ saved \in [Users -> Int]
    /\ met \subseteq Users /\ unsaved \subseteq Users /\ missed \subseteq Payments

Init ==
    /\ row = [u \in Users |-> [balance |-> Opening[u], check |-> FALSE]]
    /\ cached = CHOOSE c \in [Users -> Objects] : IsInjective(c)
    /\ heap = [o \in Objects |->
                 IF o \in Range(cached) THEN row[CHOOSE u \in Users : cached[u] = o]
                                        ELSE [balance |-> 0, check |-> FALSE]]
    /\ payer = [w \in Writers |-> None]
    /\ at = [w \in Writers |-> "none"]
    /\ obj = [w \in Writers |-> None]
    /\ image = [w \in Writers |-> None]
    /\ discount = [p \in Payments |-> 0]
    /\ faults = 0
    /\ rewards = [u \in Users |-> 0] /\ torn = rewards /\ saved = rewards
    /\ read = image
    /\ met = {} /\ unsaved = {} /\ missed = {}

Goto(w, place) == at' = [at EXCEPT ![w] = place]
Hold(w, o) == obj' = [obj EXCEPT ![w] = o]
Fault == faults < MaxFaults /\ faults' = faults + 1

Cached(u) == heap[cached[u]]

\* Identities that nothing refers to any more.
Free == Objects \ (Range(cached) \cup Range(obj))
Fresh == CHOOSE o \in Free : TRUE

-----------------------------------------------------------------------------
(* The quote                                                               *)

BalanceDiscount(balance, price) ==
    IF price > MinPayment THEN Min({balance, price - MinPayment}) ELSE 0

\* A user asks to pay: _quote_payment, and the invoice with the discount it found.
Quote(p, u) ==
    /\ at[p] = "none"
    /\ Goto(p, "quoted")
    /\ payer' = [payer EXCEPT ![p] = u]
    /\ discount' = [discount EXCEPT ![p] = BalanceDiscount(Cached(u).balance, Price)]
    /\ UNCHANGED <<row, heap, cached, obj, image, faults, history>>

-----------------------------------------------------------------------------
(* The follow-ups of a succeeded payment                                   *)

\* A handler takes the row it will write from what it read, with its change.
TakeImage(w, old, new) ==
    /\ read' = [read EXCEPT ![w] = old]
    /\ image' = [image EXCEPT ![w] = new]
    /\ Goto(w, "write")

Deducted(b, d) == IF b > d THEN b - d ELSE 0

\* The payment is succeeded.  The cached object is changed in place and the
\* row to write is taken from it, before the handler waits for anything.
Settle(p) ==
    LET o == cached[payer[p]]
        new == [heap[o] EXCEPT !.balance = Deducted(@, discount[p])]
    IN
    /\ at[p] = "quoted"
    /\ IF discount[p] > 0
       THEN heap' = [heap EXCEPT ![o] = new] /\ TakeImage(p, heap[o], new) /\ Hold(p, o)
       ELSE Goto(p, "mark") /\ UNCHANGED <<heap, image, obj, read>>
    /\ UNCHANGED <<row, cached, payer, discount, faults, rewards, saved, torn, unsaved, missed>>

\* The first half of update: every column of the row is overwritten.
WriteRow(w) ==
    LET u == payer[w] IN
    /\ at[w] = "write"
    /\ row' = [row EXCEPT ![u] = image[w]]
    /\ saved' = [saved EXCEPT ![u] = @ + image[w].balance - read[w].balance]
    /\ torn' = IF read[w] = row[u] THEN torn ELSE [torn EXCEPT ![u] = @ + 1]
    /\ image' = [image EXCEPT ![w] = None] /\ read' = [read EXCEPT ![w] = None]
    /\ Goto(w, "recache")
    /\ UNCHANGED <<heap, cached, payer, obj, discount, faults, rewards, unsaved, missed>>

AfterWrite(w) == IF w \in Payments THEN "mark" ELSE "done"

\* Its second half: the object the handler holds becomes the cached one.
Recache(w) ==
    /\ at[w] = "recache"
    /\ cached' = [cached EXCEPT ![payer[w]] = obj[w]]
    /\ Hold(w, None)
    /\ Goto(w, AfterWrite(w))
    /\ UNCHANGED <<payer, row, heap, image, discount, faults, history>>

\* The statement fails: the object keeps the change, the row does not get it.
WriteFails(w) ==
    /\ at[w] = "write" /\ Fault
    /\ Hold(w, None)
    /\ image' = [image EXCEPT ![w] = None] /\ read' = [read EXCEPT ![w] = None]
    /\ unsaved' = unsaved \cup {payer[w]}
    /\ missed' = IF w \in Payments THEN missed \cup {w} ELSE missed
    /\ Goto(w, AfterWrite(w))
    /\ UNCHANGED <<row, heap, cached, payer, discount, rewards, saved, torn>>

Unmarked(u) == ReferrerOf[u] # None /\ ReferrerOf[u] # u /\ ~row[u].check

\* UPDATE users SET check_referral ... RETURNING referral_id, or its failure.
Mark(p) ==
    LET u == payer[p] IN
    /\ at[p] = "mark"
    /\ IF Unmarked(u)
       THEN row' = [row EXCEPT ![u].check = TRUE] /\ Goto(p, "readReferred")
       ELSE Goto(p, "done") /\ UNCHANGED row
    /\ UNCHANGED <<payer, heap, cached, obj, image, discount, faults, history>>

MarkFails(p) ==
    /\ at[p] = "mark" /\ Fault
    /\ Goto(p, "done")
    /\ UNCHANGED <<payer, row, heap, cached, obj, image, discount, history>>

\* service.get: an object made from the row.
ReadUser(p, u, next) ==
    /\ heap' = [heap EXCEPT ![Fresh] = row[u]]
    /\ Hold(p, Fresh)
    /\ Goto(p, next)
    /\ UNCHANGED <<payer, row, cached, image, discount, faults, history>>

\* Mutant: the user stays cached as before the statement.
SetUser_Skipped(p, u, next) ==
    /\ Hold(p, None)
    /\ Goto(p, next)
    /\ UNCHANGED <<payer, row, heap, cached, image, discount, faults, history>>

\* cache.users.set
SetUser(p, u, next) ==
    /\ cached' = [cached EXCEPT ![u] = obj[p]]
    /\ Hold(p, None)
    /\ Goto(p, next)
    /\ UNCHANGED <<payer, row, heap, image, discount, faults, history>>

ReadReferred(p) == at[p] = "readReferred" /\ ReadUser(p, payer[p], "setReferred")
SetReferred(p) == at[p] = "setReferred" /\ SetUser(p, payer[p], "reward")

\* Mutant: the bonus is written from a balance that was read before.
Credited_FromCache(u) == Cached(u).balance + Reward
Credited(u) == row[u].balance + Reward

\* One transaction: the entry in referral_rewards and the balance.
GiveReward(p) ==
    LET u == payer[p] IN
    /\ at[p] = "reward"
    /\ rewards' = [rewards EXCEPT ![u] = @ + 1]
    /\ row' = [row EXCEPT ![ReferrerOf[u]].balance = Credited(ReferrerOf[u])]
    /\ Goto(p, "readReferrer")
    /\ UNCHANGED <<payer, heap, cached, obj, image, discount, faults, saves>>

\* It is rolled back, and nobody will try it again.
RewardFails(p) ==
    /\ at[p] = "reward" /\ Fault
    /\ Goto(p, "done")
    /\ UNCHANGED <<payer, row, heap, cached, obj, image, discount, history>>

ReadReferrer(p) ==
    at[p] = "readReferrer" /\ ReadUser(p, ReferrerOf[payer[p]], "setReferrer")
SetReferrer(p) ==
    at[p] = "setReferrer" /\ SetUser(p, ReferrerOf[payer[p]], "done")

-----------------------------------------------------------------------------
(* Other writers                                                           *)

\* update_user of the bot and of the admin: the balance or a field other than
\* these two is changed in place; WriteRow and Recache follow.
Edit(e, u) ==
    LET o == cached[u] IN
    /\ at[e] = "none"
    /\ \E b \in Settable \cup {heap[o].balance} :
          LET new == [heap[o] EXCEPT !.balance = b]
          IN heap' = [heap EXCEPT ![o] = new] /\ TakeImage(e, heap[o], new)
    /\ Hold(e, o)
    /\ payer' = [payer EXCEPT ![e] = u]
    /\ UNCHANGED <<row, cached, discount, faults, rewards, saved, torn, unsaved, missed>>

\* The handlers for whom the row of a user and its cached object may differ.
AtWork(u) ==
    {w \in Writers :
        \/ payer[w] = u /\ at[w] \in {"write", "recache", "readReferred", "setReferred"}
        \/ /\ at[w] \in {"readReferrer", "setReferrer"}
           /\ ReferrerOf[payer[w]] = u}

Step ==
    \/ \E p \in Payments :
          \/ \E u \in Users : Quote(p, u)
          \/ Settle(p) \/ Mark(p) \/ MarkFails(p)
          \/ ReadReferred(p) \/ SetReferred(p) \/ GiveReward(p) \/ RewardFails(p)
          \/ ReadReferrer(p) \/ SetReferrer(p)
    \/ \E w \in Writers : WriteRow(w) \/ Recache(w) \/ WriteFails(w)
    \/ \E e \in Edits, u \in Users : Edit(e, u)

Next == Step /\ met' = met \cup {u \in Users : Cardinality(AtWork(u)') > 1}

Spec == Init /\ [][Next]_vars

-----------------------------------------------------------------------------
(* Properties                                                              *)

Resting == \A w \in Writers : at[w] \in {"none", "quoted", "done"}
EarnedBy(u) ==
    Reward * FoldFunctionOnSet(LAMBDA a, b : a + b, 0, rewards,
        {v \in Users : ReferrerOf[v] = u})

\* A referred user brings one bonus, however many of their payments succeed at
\* once, and one more for each save that put an older row back, with an older
\* mark in it (the WHERE of the mark in _do_atomic_bonus).
BonusPerMark == \A u \in Users : rewards[u] <= 1 + torn[u]

\* As long as no save put an older row back, the balance of a user is what they
\* had, plus the bonuses recorded for them, plus what their own payments and the
\* edits were to change, whatever overlapped and failed (_do_atomic_bonus and
\* the deduction in route).
Conserved ==
    \A u \in Users : torn[u] = 0 => row[u].balance = Opening[u] + EarnedBy(u) + saved[u]

\* Handlers of a user that follow one another put no older row back: the cache
\* they save from follows the statements that write the row past it, the mark
\* and the bonus (lines 143-154 and 210-221 of bonus_service.py).
TornByOverlap == \A u \in Users : torn[u] > 0 => u \in met \cup unsaved

\* A bonus is not paid twice: "a repeated call ends at row = None (step 1) and
\* does not duplicate the bonus" (lines 158-159 of bonus_service.py).  It does
\* not hold: a save of the payer's row may take the mark away.
BonusOnce == \A u \in Users : rewards[u] <= 1

SpentBy(u) ==
    FoldFunctionOnSet(LAMBDA a, b : a + b, 0, discount,
        {p \in Payments : payer[p] = u /\ at[p] = "done" /\ p \notin missed})

\* What the balance paid of the invoices of a user is what was taken from it:
\* "exactly this sum" (comment of the deduction, lines 226-228 of router.py).  It
\* does not hold: two invoices may be quoted from one balance.
TakenAsQuoted ==
    Resting => \A u \in Users :
        torn[u] = 0 => row[u].balance + SpentBy(u) <= Opening[u] + EarnedBy(u)

\* A referred user whose first payment is marked has brought the bonus: a
\* failure between the two steps does not lose it (docstring of
\* ReferralBonusService).  It does not hold.
BonusKept ==
    Resting => \A u \in Users : row[u].check /\ ReferrerOf[u] # None => rewards[u] > 0
=============================================================================
