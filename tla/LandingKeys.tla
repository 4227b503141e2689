------------------------------ MODULE LandingKeys ------------------------------
(***************************************************************************)
(* Keys that cost nothing: the 24 hour key of an anonymous visitor, its    *)
(* claim by a new user or its mark by a known one (api/v1/landing.py), and *)
(* the trial key with its gift (api/v1/keys.py).  The landing_uid of a key *)
(* is the key itself; the bot sends `start` calls for a key whose link it  *)
(* was given.  A claim and a mark find the key in the cache and decide     *)
(* without waiting.                                                        *)
(***************************************************************************)
EXTENDS Accounts

CONSTANTS
    Keys, KeyObjects,
    KeyOf,          \* the landing key of a start or of a quick-key call
    GiftOf,         \* does the trial call bring the gift token?
    GiftSender, Pseudo

VARIABLES
    krow,           \* the table keys: landing keys
    kheap, kcache,
    kobj, kimage,   \* per call
    panel,          \* "none", "day" or "trial": the client on the panel
    trialKeys,      \* rows of trial keys, per user
    gift,           \* the gift link: row, cached object, names it is cached under
    claimed         \* history: users who were answered "claimed", by untorn calls

keyVars == <<krow, kheap, kcache, kobj, kimage, panel, claimed>>
trialVars == <<trialKeys, gift>>

NewKey == [owner |-> Pseudo, conv |-> None, tagged |-> FALSE, plan |-> "day"]

LandingInit ==
    /\ krow = [k \in Keys |-> None]
    /\ kheap = [o \in KeyObjects |-> NewKey]
    /\ kcache = [k \in Keys |-> None]
    /\ kobj = [c \in Calls |-> None]
    /\ kimage = [c \in Calls |-> None]
    /\ panel = [k \in Keys |-> "none"]
    /\ claimed = [k \in Keys |-> {}]
    /\ trialKeys = [u \in Users |-> 0]
    /\ gift = [row |-> None, obj |-> None, names |-> {"sender"}]

HoldKey(c, o) == kobj' = [kobj EXCEPT ![c] = o]
FreeKeys == KeyObjects \ (Range(kcache) \cup Range(kobj))
FreshKey == CHOOSE o \in FreeKeys : TRUE

\* keys.update up to its statement.
SaveKey(c, new, place) ==
    /\ kheap' = [kheap EXCEPT ![kobj[c]] = new]
    /\ kimage' = [kimage EXCEPT ![c] = new]
    /\ Goto(c, place)

WriteKey(c) ==
    /\ at[c] = "kwrite"
    /\ krow' = [krow EXCEPT ![KeyOf[c]] = kimage[c]]
    /\ kimage' = [kimage EXCEPT ![c] = None]
    /\ Goto(c, "kwritten")
    /\ UNCHANGED <<userVars, who, uobj, uimage, kept, history, kheap, kcache, kobj, panel,
                   claimed, trialVars>>

-----------------------------------------------------------------------------
(* POST /landing/quick-key                                                 *)

\* add_client for the pseudo user, 24 hours from now.
AddDayClient(c) ==
    /\ at[c] = "qadd"
    /\ panel' = [panel EXCEPT ![KeyOf[c]] = "day"]
    /\ Goto(c, "qsave")
    /\ UNCHANGED <<userVars, who, uobj, uimage, kept, history, krow, kheap, kcache, kobj,
                   kimage, claimed, trialVars>>

\* save_data: the row, and the object the call goes on with.
InsertDayKey(c) ==
    /\ at[c] = "qsave"
    /\ krow' = [krow EXCEPT ![KeyOf[c]] = NewKey]
    /\ Goto(c, "qtag")
    /\ UNCHANGED <<userVars, who, uobj, uimage, kept, history, kheap, kcache, kobj,
                   kimage, panel, claimed, trialVars>>

\* It is cached, found again, given its landing_uid and saved.
TagDayKey(c) ==
    LET tagged == [NewKey EXCEPT !.tagged = TRUE] IN
    /\ at[c] = "qtag"
    /\ kcache' = [kcache EXCEPT ![KeyOf[c]] = FreshKey]
    /\ HoldKey(c, FreshKey)
    /\ kheap' = [kheap EXCEPT ![FreshKey] = tagged]
    /\ kimage' = [kimage EXCEPT ![c] = tagged]
    /\ Goto(c, "kwrite")
    /\ UNCHANGED <<userVars, who, uobj, uimage, kept, history, krow, panel, claimed,
                   trialVars>>

\* Cached once more; the answer with the cookie leaves.
DayKeyReady(c) ==
    /\ at[c] = "kwritten"
    /\ kcache' = [kcache EXCEPT ![KeyOf[c]] = kobj[c]]
    /\ HoldKey(c, None)
    /\ Goto(c, "done")
    /\ UNCHANGED <<userVars, who, uobj, uimage, kept, history, krow, kheap, kimage, panel,
                   claimed, trialVars>>

-----------------------------------------------------------------------------
(* The bot: /start landing_<uid>                                           *)

\* The bot asks who the user is: a known one has the key marked, a new one is
\* registered and claims it.
Start(c, u) ==
    /\ Asks(c, u)
    /\ who' = [who EXCEPT ![c] = u]
    /\ LookUp(u)
    /\ Goto(c, IF urow[u] = None /\ ucache[u] = None THEN "register" ELSE "mark")
    /\ UNCHANGED <<urow, redeemed, uobj, uimage, kept, history, keyVars, trialVars>>

\* POST /users/register: the answer to a row that is there already is an error,
\* and the user starts again.
Register(c) ==
    /\ \/ at[c] = "register" /\ InsertUser(c, "registered", "none")
       \/ at[c] = "registered" /\ CacheNewUser(c, "claim")
    /\ UNCHANGED <<keyVars, trialVars>>

\* _get_key_by_landing_uid.  A key is cached with its tag before its link is
\* given away, so the table is asked in vain.
Found(k) == kcache[k] # None /\ kheap[kcache[k]].tagged
Hand(c) == kcache[KeyOf[c]]

\* A repeated click: only the referral is looked at again.
AlreadyTheirs(c, kind) ==
    /\ at[c] = kind /\ Found(KeyOf[c]) /\ kheap[Hand(c)].conv = who[c]
    /\ Goto(c, "attach")
    /\ UNCHANGED <<userVars, who, uobj, uimage, kept, history, krow, kheap, kcache,
                   kimage, kobj, panel, claimed, trialVars>>

\* Mutant: the key is handed to whoever comes.
Taken_Never(c) == FALSE
Taken(c) == kheap[Hand(c)].conv \notin {None, who[c]}

\* 404, "already_claimed_other", or a claim of a user the cache does not know.
Refused(c, kind) ==
    /\ at[c] = kind
    /\ \/ ~Found(KeyOf[c])
       \/ Taken(c)
       \/ kind = "claim" /\ ucache[who[c]] = None
    /\ Goto(c, "done")
    /\ UNCHANGED <<userVars, who, uobj, uimage, kept, history, keyVars, trialVars>>

Open(c, kind) ==
    at[c] = kind /\ Found(KeyOf[c]) /\ kheap[Hand(c)].conv # who[c] /\ ~Taken(c)

\* mark_converted up to its statement.
Mark(c) ==
    LET o == Hand(c)
        new == [kheap[o] EXCEPT !.conv = who[c]]
    IN
    /\ Open(c, "mark")
    /\ HoldKey(c, o)
    /\ kheap' = [kheap EXCEPT ![o] = new]
    /\ kimage' = [kimage EXCEPT ![c] = new]
    /\ Goto(c, "kwrite")
    /\ UNCHANGED <<userVars, who, uobj, uimage, kept, history, krow, kcache, panel,
                   claimed, trialVars>>

\* claim_key up to the panel: the object is marked at once.
Claim(c) ==
    LET o == Hand(c) IN
    /\ Open(c, "claim") /\ ucache[who[c]] # None
    /\ HoldKey(c, o)
    /\ kept' = [kept EXCEPT ![c] = ucache[who[c]]]
    /\ kheap' = [kheap EXCEPT ![o].conv = who[c]]
    /\ Goto(c, "upgrade")
    /\ UNCHANGED <<userVars, who, uobj, uimage, history, krow, kcache, kimage, panel,
                   claimed, trialVars>>

\* Mutant: the key is saved although the panel refused.
Upgrade_Anyway(c) ==
    LET key == kheap[kobj[c]] IN
    /\ at[c] = "upgrade"
    /\ UNCHANGED panel
    /\ SaveKey(c, [key EXCEPT !.owner = key.conv, !.plan = "trial"], "kwrite")
    /\ UNCHANGED <<userVars, who, uobj, uimage, kept, history, krow, kcache, kobj,
                   claimed, trialVars>>
\* upgrade_landing_key: set_inbounds and extend_client_key, then the fields.
Upgrade(c) ==
    LET key == kheap[kobj[c]] IN
    /\ at[c] = "upgrade"
    /\ panel' = [panel EXCEPT ![KeyOf[c]] = "trial"]
    /\ SaveKey(c, [key EXCEPT !.owner = IF key.conv = None THEN @ ELSE key.conv,
                              !.plan = "trial"], "kwrite")
    /\ UNCHANGED <<userVars, who, uobj, uimage, kept, history, krow, kcache, kobj,
                   claimed, trialVars>>

\* The panel fails, or does it and the answer is lost: the mark is taken back.
UpgradeFails(c) ==
    /\ at[c] = "upgrade"
    /\ \/ panel' = [panel EXCEPT ![KeyOf[c]] = "trial"]
       \/ UNCHANGED panel
    /\ kheap' = [kheap EXCEPT ![kobj[c]].conv = None]
    /\ HoldKey(c, None)
    /\ kept' = [kept EXCEPT ![c] = None]
    /\ torn' = torn \cup {c}
    /\ Goto(c, "none")
    /\ UNCHANGED <<userVars, who, uobj, uimage, given, late, astray, krow, kcache, kimage,
                   claimed, trialVars>>

\* The object becomes the cached one.  A mark goes on with the referral, a
\* claim with the trial flag.
KeySaved(c) ==
    /\ at[c] = "kwritten"
    /\ kcache' = [kcache EXCEPT ![KeyOf[c]] = kobj[c]]
    /\ HoldKey(c, None)
    /\ UNCHANGED who
    /\ IF kept[c] = None THEN Goto(c, "attach") /\ UNCHANGED <<uheap, uobj, uimage,
                                                               history>>
                         ELSE InstallTrial(c)
    /\ UNCHANGED <<urow, ucache, redeemed, kept, krow, kheap, kimage, panel, claimed,
                   trialVars>>

Answered(c) ==
    claimed' = [claimed EXCEPT ![KeyOf[c]] = IF c \in torn THEN @ ELSE @ \cup {who[c]}]

\* users.server_id: the row is saved once more, from the object that was read
\* before the upgrade, when the column differs.
EditServer(c) ==
    /\ at[c] = "uwritten"
    /\ Recached(c)
    /\ UNCHANGED who
    /\ SaveUser(c, kept[c], uheap[kept[c]], "swrite")
    /\ UNCHANGED <<urow, redeemed, kept, given, keyVars, trialVars>>

\* The claim is complete but for the referral.
TrialInstalled(c) ==
    /\ at[c] \in {"uwritten", "swritten"}
    /\ Recached(c)
    /\ uobj' = [uobj EXCEPT ![c] = None]
    /\ kept' = [kept EXCEPT ![c] = None]
    /\ Answered(c)
    /\ Goto(c, "attach")
    /\ UNCHANGED <<urow, uheap, redeemed, who, uimage, history, krow, kheap, kcache, kobj,
                   kimage, panel, trialVars>>

-----------------------------------------------------------------------------
(* POST /keys/trial                                                        *)

\* 404 without a cached user, 403 when the flag is set.
AskTrial(c, u) ==
    /\ Asks(c, u)
    /\ who' = [who EXCEPT ![c] = u]
    /\ Goto(c, IF ucache[u] = None \/ uheap[ucache[u]].trial = 1 THEN "done" ELSE "add")
    /\ UNCHANGED <<userVars, uobj, uimage, kept, history, keyVars, trialVars>>

\* CreateKey.proces: the client is added ...
AddTrialClient(c) ==
    /\ at[c] = "add"
    /\ Goto(c, "tsave")
    /\ UNCHANGED <<userVars, who, uobj, uimage, kept, history, keyVars, trialVars>>

\* ... and its row inserted ...
InsertTrialKey(c) ==
    /\ at[c] = "tsave"
    /\ trialKeys' = [trialKeys EXCEPT ![who[c]] = @ + 1]
    /\ given' = given \cup {who[c]}
    /\ Goto(c, "install")
    /\ UNCHANGED <<userVars, who, uobj, uimage, kept, torn, late, astray, keyVars, gift>>

\* ... and the flag set.
SetTrial(c) ==
    /\ at[c] = "install"
    /\ UNCHANGED who
    /\ InstallTrial(c)
    /\ UNCHANGED <<urow, ucache, redeemed, kept, keyVars, trialVars>>

\* get_by finds the link under both of its names after a reload and answers
\* with a list, which is not redeemable.
Redeemable(c) == Cardinality(gift.names) = 1 /\ gift.obj = None /\ who[c] # GiftSender

\* The flag is saved; the gift is redeemed in the cached object.
TrialSaved(c) ==
    /\ at[c] = "uwritten"
    /\ Recached(c)
    /\ uobj' = [uobj EXCEPT ![c] = None]
    /\ IF GiftOf[c] /\ Redeemable(c)
       THEN gift' = [gift EXCEPT !.obj = who[c]] /\ Goto(c, "gift")
       ELSE Goto(c, "done") /\ UNCHANGED gift
    /\ UNCHANGED <<urow, uheap, redeemed, who, uimage, kept, history, keyVars, trialKeys>>

\* GiftLinkProvider.application: the row, and the link cached under its sender.
WriteGift(c) ==
    /\ at[c] = "gift"
    /\ gift' = [gift EXCEPT !.row = who[c], !.names = @ \cup {"sender"}]
    /\ Goto(c, "done")
    /\ UNCHANGED <<userVars, who, uobj, uimage, kept, history, keyVars, trialKeys>>

-----------------------------------------------------------------------------
(* loading(): the keys, and the gifts                                      *)

ReloadedKeys(rows) ==
    LET renew == {k \in Keys : rows[k] # None /\ kcache[k] \in Range(kobj) \cup {None}}
        new == CHOOSE f \in [renew -> FreeKeys] : IsInjective(f)
        place == [k \in Keys |-> IF k \in renew THEN new[k] ELSE kcache[k]]
    IN
    /\ kcache' = place
    /\ kheap' = [o \in KeyObjects |->
                    IF \E k \in Keys : rows[k] # None /\ place[k] = o
                    THEN rows[CHOOSE k \in Keys : place[k] = o] ELSE kheap[o]]
    /\ gift' = [gift EXCEPT !.names = @ \cup {"id"},
                            !.obj = IF gift.names = {"id"} THEN gift.row ELSE @]

-----------------------------------------------------------------------------
(* Properties                                                              *)

UndisturbedKey(k) == \A c \in torn : KeyOf[c] # k

\* Of the users who come with the link of one landing key, however close, one
\* at most is answered "claimed", and between two requests the key is theirs
\* (claim_key, lines 854-868 of landing.py: the mark is set before the first
\* statement that waits).
OneClaimant ==
    \A k \in Keys : UndisturbedKey(k) =>
        /\ Cardinality(claimed[k]) <= 1
        /\ Quiet => \A u \in claimed[k] : krow[k].owner = u

\* A landing key belongs to a user only once the panel gave it the trial
\* period, whatever failed or was repeated (upgrade_landing_key).
OwnedIsUpgraded ==
    \A k \in Keys : krow[k] # None /\ krow[k].owner # Pseudo => panel[k] = "trial"

\* Between two requests the cached user, whom POST /keys/trial asks, says
\* whether the user has a trial, however the saves of the whole row overlapped
\* or failed; so does the row, once it was saved without another save under way
\* (installation_trial, update_user, claim_key).
TrialIsRecorded ==
    Quiet => \A u \in Users \ astray : ucache[u] # None =>
        /\ uheap[ucache[u]].trial = 1 <=> u \in given
        /\ u \notin late => (urow[u].trial = 1 <=> u \in given)

\* Whoever has a trial has it in the table (docstring of create_trial_key).
TrialInRow == Quiet => \A u \in given : urow[u].trial = 1

\* A user has one trial key (403 "Trial already used" of create_trial_key).
OneTrialKey == \A u \in Users : trialKeys[u] <= 1

\* A gift nobody redeemed is given to the trial that brings it
\* (create_trial_key): after a reload it is not.
GiftIsUsable == gift.row = None => Cardinality(gift.names) = 1
=============================================================================
