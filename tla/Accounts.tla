------------------------------- MODULE Accounts -------------------------------
(***************************************************************************)
(* The table users as the bot and the landing page write it: registration, *)
(* the trial flag, the referrer, and the endpoints that save a whole row   *)
(* from the object they hold.  The cache hands out its objects themselves, *)
(* so holders of one object see each other's changes; loading() puts new   *)
(* objects in their place.  A call is one HTTP request; one step is one    *)
(* statement or one stretch of Python between two awaits that wait.        *)
(***************************************************************************)
EXTENDS Naturals, FiniteSets, Functions

CONSTANTS
    Users, Calls,
    UserObjects,    \* identities of cached users
    RefOf,          \* the referrer a call brings in a cookie or token, or None
    None

VARIABLES
    urow,           \* the table users
    uheap,          \* fields of the cached objects
    ucache,         \* cache.users
    redeemed,       \* referral_redemptions: the referrer, by the referred user
    at,             \* place of each call
    who,            \* its user
    uobj, uimage,   \* the object it holds, the row it is about to write
    kept,           \* the user object of a claim, read before the upgrade
    torn,           \* history: calls a fault cut into
    given,          \* history: users with a trial that no PATCH took back
    late,           \* history: users the last image of whom was lost, or taken
                    \* while another waited to be written
    astray          \* history: users whose object was replaced while a call
                    \* had it, or by a row that was late or read long ago

userVars == <<urow, uheap, ucache, redeemed>>
history == <<torn, given, late, astray>>
callVars == <<at, who, uobj, uimage, kept, history>>

Fields == [trial : 0..1, ref : (Range(RefOf) \ {None}) \cup {None}]
Blank == [trial |-> 0, ref |-> None]
Resting == {"none", "done", "answered"}

AccountsInit ==
    /\ urow = [u \in Users |-> None]
    /\ uheap = [o \in UserObjects |-> Blank]
    /\ ucache = [u \in Users |-> None]
    /\ redeemed = [u \in Users |-> None]
    /\ at = [c \in Calls |-> "none"]
    /\ who = [c \in Calls |-> None]
    /\ uobj = [c \in Calls |-> None]
    /\ uimage = [c \in Calls |-> None]
    /\ kept = [c \in Calls |-> None]
    /\ torn = {} /\ given = {} /\ late = {} /\ astray = {}

Goto(c, place) == at' = [at EXCEPT ![c] = place]
\* A call that failed may be repeated, by the same user.
Asks(c, u) == at[c] = "none" /\ who[c] \in {None, u}
InFlight == {c \in Calls : at[c] \notin Resting}

HeldUsers == Range(uobj) \cup Range(kept)
FreeUsers == UserObjects \ (Range(ucache) \cup HeldUsers)
FreshUser == CHOOSE o \in FreeUsers : TRUE

-----------------------------------------------------------------------------
(* Reading and registering                                                 *)

\* GET /users/{tg_id}: get_data with a connection, which caches what it reads.
LookUp(u) ==
    IF ucache[u] = None /\ urow[u] # None
    THEN /\ uheap' = [uheap EXCEPT ![FreshUser] = urow[u]]
         /\ ucache' = [ucache EXCEPT ![u] = FreshUser]
    ELSE UNCHANGED <<uheap, ucache>>

\* The INSERT of a new user; the row may be there by now, which is an error.
InsertUser(c, done, again) ==
    /\ IF urow[who[c]] = None
       THEN urow' = [urow EXCEPT ![who[c]] = Blank] /\ Goto(c, done)
       ELSE Goto(c, again) /\ UNCHANGED urow
    /\ UNCHANGED <<uheap, ucache, redeemed, who, uobj, uimage, kept, history>>

\* save_data after its INSERT: the new object is cached.
CacheNewUser(c, next) ==
    /\ uheap' = [uheap EXCEPT ![FreshUser] = Blank]
    /\ ucache' = [ucache EXCEPT ![who[c]] = FreshUser]
    /\ astray' = IF ucache[who[c]] = None THEN astray ELSE astray \cup {who[c]}
    /\ Goto(c, next)
    /\ UNCHANGED <<urow, redeemed, who, uobj, uimage, kept, torn, given, late>>

\* register_from_invite and telegram_login: UserRepository asks the cache only,
\* and its INSERT leaves the cache as it is.
RegisterElsewhere(u) ==
    /\ ucache[u] = None /\ urow[u] = None
    /\ urow' = [urow EXCEPT ![u] = Blank]
    /\ UNCHANGED <<uheap, ucache, redeemed, callVars>>

-----------------------------------------------------------------------------
(* Saving a whole row                                                      *)

\* BaseData.update: the row is taken from the object at the call ...
SaveUser(c, o, new, place) ==
    /\ uheap' = [uheap EXCEPT ![o] = new]
    /\ uobj' = [uobj EXCEPT ![c] = o]
    /\ uimage' = [uimage EXCEPT ![c] = new]
    /\ late' = IF \E d \in Calls : who[d] = who'[c] /\ uimage[d] # None
               THEN late \cup {who'[c]} ELSE late \ {who'[c]}
    /\ Goto(c, place)
    /\ UNCHANGED <<torn, astray>>

\* ... every column is overwritten ...
WriteUser(c, from, to) ==
    /\ at[c] = from
    /\ urow' = [urow EXCEPT ![who[c]] = uimage[c]]
    /\ uimage' = [uimage EXCEPT ![c] = None]
    /\ Goto(c, to)
    /\ UNCHANGED <<uheap, ucache, redeemed, who, uobj, kept, history>>

\* ... and that object becomes the cached one.
Recached(c) == ucache' = [ucache EXCEPT ![who[c]] = uobj[c]]

\* Mutant: the row to write is taken before the flag is changed.
InstallTrial_ImageFirst(c) ==
    LET o == ucache[who[c]] IN
    /\ uheap' = [uheap EXCEPT ![o].trial = 1]
    /\ uobj' = [uobj EXCEPT ![c] = o]
    /\ uimage' = [uimage EXCEPT ![c] = uheap[o]]
    /\ given' = given \cup {who[c]}
    /\ Goto(c, "uwrite")
    /\ UNCHANGED <<torn, late, astray>>
\* TrialService.installation_trial up to its statement.
InstallTrial(c) ==
    LET o == ucache[who[c]] IN
    /\ SaveUser(c, o, [uheap[o] EXCEPT !.trial = 1], "uwrite")
    /\ given' = given \cup {who[c]}

\* PATCH /users/{tg_id}: sets the flag, or takes it back, or changes a column
\* other than these two.
Edit(c, u) ==
    LET o == ucache[u] IN
    /\ Asks(c, u) /\ o # None
    /\ who' = [who EXCEPT ![c] = u]
    /\ \E trial \in 0..1 :
          /\ SaveUser(c, o, [uheap[o] EXCEPT !.trial = trial], "uwrite")
          /\ given' = IF trial = 1 THEN given \cup {u} ELSE given \ {u}
    /\ UNCHANGED <<urow, ucache, redeemed, kept>>

-----------------------------------------------------------------------------
(* landing._attach_referral_if_any                                         *)

\* A signed, fresh cookie or a well-formed token, of a link that exists.
BringsReferrer(c) == RefOf[c] # None
\* Mutant: a referrer that is already there is replaced.
Attachable_Any(c) == BringsReferrer(c) /\ RefOf[c] # who[c] /\ urow[who[c]] # None
Attachable(c) ==
    /\ BringsReferrer(c) /\ RefOf[c] # who[c]
    /\ urow[who[c]] # None /\ urow[who[c]].ref = None

\* UPDATE users SET referral_id ... WHERE referral_id IS NULL
Attach(c) ==
    /\ at[c] = "attach"
    /\ IF Attachable(c)
       THEN /\ urow' = [urow EXCEPT ![who[c]].ref = RefOf[c]]
            /\ Goto(c, "attached")
       ELSE Goto(c, "done") /\ UNCHANGED urow
    /\ UNCHANGED <<uheap, ucache, redeemed, who, uobj, uimage, kept, history>>

\* The cached user, read from the table when there is none, gets it too.
AttachToCached(c) ==
    LET u == who[c]
        o == IF ucache[u] = None THEN FreshUser ELSE ucache[u]
        now == IF ucache[u] = None THEN urow[u] ELSE uheap[o]
    IN
    /\ at[c] = "attached"
    /\ uheap' = [uheap EXCEPT ![o] = [now EXCEPT !.ref = RefOf[c]]]
    /\ ucache' = [ucache EXCEPT ![u] = o]
    /\ Goto(c, "redeem")
    /\ UNCHANGED <<urow, redeemed, who, uobj, uimage, kept, history>>

\* INSERT INTO referral_redemptions, UNIQUE (referred_tg_id).
Redeem(c) ==
    /\ at[c] = "redeem"
    /\ redeemed' = IF redeemed[who[c]] = None THEN [redeemed EXCEPT ![who[c]] = RefOf[c]]
                   ELSE redeemed
    /\ Goto(c, "done")
    /\ UNCHANGED <<urow, uheap, ucache, who, uobj, uimage, kept, history>>

-----------------------------------------------------------------------------
(* loading(): a new object for every user that was read from the table     *)

\* An object nobody holds may keep its identity; a held one is replaced.
Reloaded(rows) ==
    LET renew == {u \in Users : rows[u] # None /\ ucache[u] \in HeldUsers \cup {None}}
        new == CHOOSE f \in [renew -> FreeUsers] : IsInjective(f)
        place == [u \in Users |-> IF u \in renew THEN new[u] ELSE ucache[u]]
    IN
    /\ ucache' = place
    /\ uheap' = [o \in UserObjects |->
                    IF \E u \in Users : rows[u] # None /\ place[u] = o
                    THEN rows[CHOOSE u \in Users : place[u] = o] ELSE uheap[o]]

-----------------------------------------------------------------------------
(* Properties                                                              *)

Quiet == InFlight = {}

\* Between two requests the referrer in the row of a user is the one their
\* redemption names (comment of the UPDATE in _attach_referral_if_any).
ReferralAgrees ==
    Quiet => \A u \in Users :
        redeemed[u] # None => urow[u].ref = redeemed[u]
=============================================================================
