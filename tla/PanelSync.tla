------------------------------ MODULE PanelSync -----------------------------
(***************************************************************************)
(* The keys table, the cache of keys and the clients of the 3x-ui panel:   *)
(* what creating, renewing and deleting a key does to the three, and what  *)
(* SyncScheduler.sync_cache (background/scheduler.py) does to them beside  *)
(* it through LoadingService and DatabaseSynchronizer.  A key is its email *)
(* and its expiry_time; dates are counted in renewals.                     *)
(***************************************************************************)
EXTENDS Naturals, SequencesExt

CONSTANTS
    Emails,         \* keys the process may create; an email is never reused
    PurchaseOf,     \* the purchase an email is an attempt to serve
    PageSize,       \* page_size of list_clients_all
    MaxRenewals,    \* bound on the renewals that finish or run
    MaxFaults,      \* bound on failed calls and restarts
    Absent

\* Pages are not empty.
ASSUME PanelSyncConstants ==
    /\ PageSize \in Nat \ {0} /\ IsFiniteSet(Emails)
    /\ MaxRenewals \in Nat /\ MaxFaults \in Nat
    /\ Absent \notin Emails \cup Nat

VARIABLES
    listed,         \* emails of the clients on the panel, oldest first
    panelDate,      \* their expiryTime
    row, keyCache,  \* per email: expiry_time in keys and in the cache, or Absent
    doing,          \* per email: place of the request working on it
    told,           \* keys their owners were told of and did not delete
    dropped,        \* keys whose deletion was answered with success
    paid,           \* renewals answered with success
    phase,          \* place of the running sync
    selected,       \* keys the loader has selected
    page, count,    \* paging: next page, items read
    snap,           \* clients read so far, with their date, or Absent
    ids,            \* emails found in the dump of the inbounds
    orphans,        \* keys of the cache that were not listed
    todo, cur,      \* keys still to be handled in this phase; the one at hand
    calm,           \* history: keys at rest since before the sync read a page
    moved,          \* history: a client left the panel between two pages
    mishaps

keys == <<listed, panelDate, row, keyCache>>
owners == <<doing, told, dropped, paid>>
sync == <<phase, selected, page, count, snap, ids, orphans, todo, cur, calm, moved>>
syncVars == <<keys, owners, sync, mishaps>>

Phases == {"rest", "load", "pages", "inbounds", "compare", "restore",
           "restored", "cleanup", "cleaned", "traffic", "updating", "updated"}
RequestPlaces == {"none", "insert", "cache", "held", "save", "recache",
           "drop", "uncache", "gone", "failed"}

SyncTypeOK ==
    /\ listed \in Seq(Emails) /\ IsInjective(listed)
    /\ panelDate \in [Emails -> Nat]
    /\ row \in [Emails -> Nat \cup {Absent}] /\ keyCache \in [Emails -> Nat \cup {Absent}]
    /\ doing \in [Emails -> RequestPlaces]
    /\ told \subseteq Emails /\ dropped \subseteq Emails
    /\ paid \in [Emails -> Nat]
    /\ phase \in Phases
    /\ selected \in [Emails -> Nat \cup {Absent}] /\ snap \in [Emails -> Nat \cup {Absent}]
    /\ page \in Nat /\ count \in Nat
    /\ ids \subseteq Emails /\ orphans \subseteq Emails
    /\ todo \subseteq Emails /\ cur \in Emails \cup {Absent}
    /\ calm \subseteq Emails /\ moved \in BOOLEAN
    /\ mishaps \in 0..MaxFaults

Nothing == [e \in Emails |-> Absent]
Known(f) == {e \in Emails : f[e] # Absent}

SyncInit ==
    /\ listed = <<>> /\ panelDate = [e \in Emails |-> 0]
    /\ row = Nothing /\ keyCache = Nothing
    /\ doing = [e \in Emails |-> "none"]
    /\ told = {} /\ dropped = {} /\ paid = [e \in Emails |-> 0]
    /\ phase = "rest" /\ selected = Nothing
    /\ page = 1 /\ count = 0 /\ snap = Nothing
    /\ ids = {} /\ orphans = {} /\ todo = {} /\ cur = Absent /\ calm = {} /\ moved = FALSE
    /\ mishaps = 0

Mishap == mishaps < MaxFaults /\ mishaps' = mishaps + 1

Does(e, place) == doing' = [doing EXCEPT ![e] = place]

OnPanel(e) == e \in ToSet(listed)
PlaceOf(e) == CHOOSE i \in DOMAIN listed : listed[i] = e
Without(e) == IF OnPanel(e) THEN RemoveAt(listed, PlaceOf(e)) ELSE listed

-----------------------------------------------------------------------------
(* CreateKey.proces                                                        *)

\* The attempt for a purchase that has no other attempt under way or served.
MayAttempt(e) ==
    \A f \in Emails \ {e} : PurchaseOf[f] = PurchaseOf[e] => doing[f] \in {"none", "failed"}

CreateClient(e) ==
    /\ doing[e] = "none" /\ MayAttempt(e)
    /\ listed' = Append(listed, e)
    /\ Does(e, "insert")
    /\ UNCHANGED <<panelDate, row, keyCache, told, dropped, paid, sync, mishaps>>

\* add_client answers False: the panel refused, or did not answer in time and
\* has the client all the same.
CreateFails(e) ==
    /\ doing[e] = "none" /\ MayAttempt(e)
    /\ Mishap
    /\ listed' = Append(listed, e) \/ UNCHANGED listed
    /\ Does(e, "failed")
    /\ UNCHANGED <<panelDate, row, keyCache, told, dropped, paid, sync>>

\* The INSERT of save_data; uq_keys_email refuses a key the sync has brought.
InsertRow(e) ==
    /\ doing[e] = "insert"
    /\ IF row[e] = Absent
       THEN row' = [row EXCEPT ![e] = 0] /\ Does(e, "cache")
       ELSE UNCHANGED row /\ Does(e, "failed")
    /\ UNCHANGED <<listed, panelDate, keyCache, told, dropped, paid, sync, mishaps>>

InsertFails(e) ==
    /\ doing[e] = "insert"
    /\ Mishap
    /\ Does(e, "failed")
    /\ UNCHANGED <<keys, told, dropped, paid, sync>>

CacheRow(e) ==
    /\ doing[e] = "cache"
    /\ keyCache' = [keyCache EXCEPT ![e] = 0]
    /\ told' = told \cup {e}
    /\ Does(e, "held")
    /\ UNCHANGED <<listed, panelDate, row, dropped, paid, sync, mishaps>>

-----------------------------------------------------------------------------
(* Renewal: the panel takes an absolute date computed from the key object  *)

KeyAtHand(e) == IF keyCache[e] # Absent THEN keyCache[e] ELSE row[e]

\* get_data: a key found in the table only is put into the cache.
Fetch(e) == keyCache' = [keyCache EXCEPT ![e] = KeyAtHand(e)]

RenewalCount == MapThenSumSet(LAMBDA e : paid[e], Emails)
            + Cardinality({e \in Emails : doing[e] \in {"save", "recache"}})

Renew(e) ==
    /\ doing[e] = "held" /\ KeyAtHand(e) # Absent /\ RenewalCount < MaxRenewals
    /\ OnPanel(e)
    /\ panelDate' = [panelDate EXCEPT ![e] = KeyAtHand(e) + 1]
    /\ Fetch(e)
    /\ Does(e, "save")
    /\ UNCHANGED <<listed, row, told, dropped, paid, sync, mishaps>>

\* keys.update: the row, if there still is one, and then the cache.
SaveDate(e) ==
    /\ doing[e] = "save"
    /\ row' = [row EXCEPT ![e] = IF @ = Absent THEN Absent ELSE panelDate[e]]
    /\ Does(e, "recache")
    /\ UNCHANGED <<listed, panelDate, keyCache, told, dropped, paid, sync, mishaps>>

CacheDate(e) ==
    /\ doing[e] = "recache"
    /\ keyCache' = [keyCache EXCEPT ![e] = panelDate[e]]
    /\ paid' = [paid EXCEPT ![e] = @ + 1]
    /\ Does(e, "held")
    /\ UNCHANGED <<listed, panelDate, row, told, dropped, sync, mishaps>>

-----------------------------------------------------------------------------
(* delete_key of the owner, admin_delete_key, each key of admin_delete_user *)

Deletable(e) == doing[e] \in {"held", "failed", "gone"} /\ KeyAtHand(e) # Absent

NoteMove == moved' = (moved \/ (phase = "pages" /\ count > 0))

DeleteClient(e) ==
    /\ Deletable(e) /\ Fetch(e)
    /\ listed' = Without(e) /\ NoteMove
    /\ told' = told \ {e} /\ calm' = calm \ {e}
    /\ Does(e, "drop")
    /\ UNCHANGED <<panelDate, row, dropped, paid, phase, selected, page, count,
                   snap, ids, orphans, todo, cur, mishaps>>

\* Any failure of the lookup counts as "not on the panel": delete_client
\* answers True and the client stays.
LookupFails(e) ==
    /\ Deletable(e) /\ Fetch(e)
    /\ Mishap
    /\ told' = told \ {e} /\ calm' = calm \ {e}
    /\ Does(e, "drop")
    /\ UNCHANGED <<listed, panelDate, row, dropped, paid, phase, selected, page,
                   count, snap, ids, orphans, todo, cur, moved>>

\* The DELETE on the panel raises, executed or not: the key is kept.
DeleteFails(e) ==
    /\ Deletable(e) /\ Fetch(e)
    /\ Mishap
    /\ (listed' = Without(e) /\ NoteMove) \/ UNCHANGED <<listed, moved>>
    /\ told' = told \ {e} /\ calm' = calm \ {e}
    /\ UNCHANGED <<panelDate, row, doing, dropped, paid, phase, selected, page, count,
                   snap, ids, orphans, todo, cur>>

DropRow(e) ==
    /\ doing[e] = "drop"
    /\ row' = [row EXCEPT ![e] = Absent]
    /\ Does(e, "uncache")
    /\ UNCHANGED <<listed, panelDate, keyCache, told, dropped, paid, sync, mishaps>>

Uncache(e) ==
    /\ doing[e] = "uncache"
    /\ keyCache' = [keyCache EXCEPT ![e] = Absent]
    /\ dropped' = dropped \cup {e}
    /\ Does(e, "gone")
    /\ UNCHANGED <<listed, panelDate, row, told, paid, sync, mishaps>>

-----------------------------------------------------------------------------
(* The sync                                                                *)

\* loader.loading: the keys are selected and then all set into the cache.
LoadRows ==
    /\ phase = "rest"
    /\ selected' = row
    /\ phase' = "load"
    /\ UNCHANGED <<keys, owners, page, count, snap, ids, orphans, todo, cur, calm, moved,
                   mishaps>>

CacheRows ==
    /\ phase = "load"
    /\ keyCache' = [e \in Emails |-> IF selected[e] # Absent THEN selected[e] ELSE keyCache[e]]
    /\ selected' = Nothing
    /\ phase' = "pages"
    /\ calm' = {e \in told : doing[e] = "held" /\ row[e] # Absent}
    /\ UNCHANGED <<listed, panelDate, row, owners, page, count, snap, ids, orphans, todo,
                   cur, moved, mishaps>>

EndSync ==
    /\ phase' = "rest"
    /\ selected' = Nothing /\ page' = 1 /\ count' = 0 /\ snap' = Nothing
    /\ ids' = {} /\ orphans' = {} /\ todo' = {} /\ cur' = Absent /\ calm' = {} /\ moved' = FALSE

Batch == SubSeq(listed, (page - 1) * PageSize + 1, Min({page * PageSize, Len(listed)}))

Seen == [e \in Emails |-> IF e \in ToSet(Batch) THEN panelDate[e] ELSE snap[e]]

Complete(clients) == Cardinality(clients) >= Len(listed)

LastPage == Batch = <<>> \/ count + Len(Batch) >= Len(listed)

\* One round of list_clients_paged in list_clients_all.
ReadPage ==
    /\ phase = "pages" /\ ~LastPage
    /\ snap' = Seen
    /\ count' = count + Len(Batch)
    /\ page' = page + 1
    /\ UNCHANGED <<keys, owners, phase, selected, ids, orphans, todo, cur, calm, moved,
                   mishaps>>

\* What was read is held against the total the panel names: an incomplete
\* list raises, and that, like an empty list, ends the sync.
GoOnWith(list) ==
    IF Complete(Known(list)) /\ Known(list) # {}
    THEN /\ phase' = "inbounds" /\ snap' = list /\ count' = 0 /\ page' = 1
         /\ UNCHANGED <<selected, ids, orphans, todo, cur, calm, moved>>
    ELSE EndSync

ReadLastPage ==
    /\ phase = "pages" /\ LastPage
    /\ GoOnWith(Seen)
    /\ UNCHANGED <<keys, owners, mishaps>>

\* A page comes back empty before its time.
PageEmpty ==
    /\ phase = "pages"
    /\ Mishap
    /\ GoOnWith(snap)
    /\ UNCHANGED <<keys, owners>>

\* The panel does not answer: extract_clients gives up, and so does the sync.
PageFails ==
    /\ phase = "pages"
    /\ Mishap
    /\ EndSync
    /\ UNCHANGED <<keys, owners>>

\* _fetch_id_tgid_map: a failure leaves every client without an id.
ReadInbounds ==
    /\ phase = "inbounds"
    /\ \/ ids' = ToSet(listed) /\ UNCHANGED mishaps
       \/ ids' = {} /\ Mishap
    /\ phase' = "compare"
    /\ UNCHANGED <<keys, owners, selected, page, count, snap, orphans, todo, cur, calm, moved>>

\* Mutant: a client without an id counts as absent from the panel.
Orphans_NoId == Known(keyCache) \ (Known(snap) \cap ids)
Orphans == Known(keyCache) \ Known(snap)

\* CacheComparator.compare: keys missing in the cache are looked at first.
Compare ==
    /\ phase = "compare"
    /\ todo' = (Known(snap) \ Known(keyCache)) \cap ids
    /\ orphans' = Orphans
    /\ phase' = "restore"
    /\ UNCHANGED <<keys, owners, selected, page, count, snap, ids, cur, calm, moved, mishaps>>

\* KeyCreator.create_key: INSERT, which uq_keys_email may refuse, then cache.
RestoreKey(e) ==
    /\ phase = "restore" /\ e \in todo
    /\ IF row[e] = Absent
       THEN /\ row' = [row EXCEPT ![e] = snap[e]]
            /\ cur' = e /\ phase' = "restored"
       ELSE UNCHANGED <<row, cur, phase>>
    /\ todo' = todo \ {e}
    /\ UNCHANGED <<listed, panelDate, keyCache, owners, selected, page, count, snap, ids,
                   orphans, calm, moved, mishaps>>

CacheRestored ==
    /\ phase = "restored"
    /\ keyCache' = [keyCache EXCEPT ![cur] = snap[cur]]
    /\ cur' = Absent /\ phase' = "restore"
    /\ UNCHANGED <<listed, panelDate, row, owners, selected, page, count, snap, ids,
                   orphans, todo, calm, moved, mishaps>>

RestoreDone ==
    /\ phase = "restore" /\ todo = {}
    /\ todo' = orphans
    /\ phase' = "cleanup"
    /\ UNCHANGED <<keys, owners, selected, page, count, snap, ids, orphans, cur, calm,
                   moved, mishaps>>

\* _cleanup_orphaned_keys: an orphan still in the cache loses its row, then
\* its place in the cache.
DropOrphan(e) ==
    /\ phase = "cleanup" /\ e \in todo
    /\ IF keyCache[e] # Absent
       THEN /\ row' = [row EXCEPT ![e] = Absent]
            /\ cur' = e /\ phase' = "cleaned"
       ELSE UNCHANGED <<row, cur, phase>>
    /\ todo' = todo \ {e}
    /\ UNCHANGED <<listed, panelDate, keyCache, owners, selected, page, count, snap, ids,
                   orphans, calm, moved, mishaps>>

\* Mutant: the cache keeps the orphan.
UncacheOrphan_Kept ==
    /\ phase = "cleaned"
    /\ cur' = Absent /\ phase' = "cleanup"
    /\ UNCHANGED <<keys, owners, selected, page, count, snap, ids, orphans, todo, calm,
                   moved, mishaps>>

UncacheOrphan ==
    /\ phase = "cleaned"
    /\ keyCache' = [keyCache EXCEPT ![cur] = Absent]
    /\ cur' = Absent /\ phase' = "cleanup"
    /\ UNCHANGED <<listed, panelDate, row, owners, selected, page, count, snap, ids,
                   orphans, todo, calm, moved, mishaps>>

CleanupDone ==
    /\ phase = "cleanup" /\ todo = {}
    /\ todo' = Known(snap)
    /\ phase' = "traffic"
    /\ UNCHANGED <<keys, owners, selected, page, count, snap, ids, orphans, cur, calm,
                   moved, mishaps>>

\* update_key_with_traffic: the object of the cache, or of the row, takes the
\* date the panel had when the list was read.  Unknown keys are passed over.
TakeDate(e) ==
    /\ phase = "traffic" /\ e \in todo
    /\ IF KeyAtHand(e) # Absent
       THEN /\ keyCache' = [keyCache EXCEPT ![e] = snap[e]]
            /\ cur' = e /\ phase' = "updating"
       ELSE UNCHANGED <<keyCache, cur, phase>>
    /\ todo' = todo \ {e}
    /\ UNCHANGED <<listed, panelDate, row, owners, selected, page, count, snap, ids,
                   orphans, calm, moved, mishaps>>

\* The subscription endpoint gave nothing usable for this client.
TrafficFails(e) ==
    /\ phase = "traffic" /\ e \in todo
    /\ Mishap
    /\ todo' = todo \ {e}
    /\ UNCHANGED <<keys, owners, phase, selected, page, count, snap, ids, orphans, cur,
                   calm, moved>>

UpdateRow ==
    /\ phase = "updating"
    /\ row' = [row EXCEPT ![cur] = IF @ = Absent THEN Absent ELSE snap[cur]]
    /\ phase' = "updated"
    /\ UNCHANGED <<listed, panelDate, keyCache, owners, selected, page, count, snap, ids,
                   orphans, todo, cur, calm, moved, mishaps>>

CacheUpdated ==
    /\ phase = "updated"
    /\ keyCache' = [keyCache EXCEPT ![cur] = snap[cur]]
    /\ cur' = Absent /\ phase' = "traffic"
    /\ UNCHANGED <<listed, panelDate, row, owners, selected, page, count, snap, ids,
                   orphans, todo, calm, moved, mishaps>>

SyncDone ==
    /\ phase = "traffic" /\ todo = {}
    /\ EndSync
    /\ UNCHANGED <<keys, owners, mishaps>>

-----------------------------------------------------------------------------
\* The process restarts: requests and sync are gone, the cache is loaded anew.
\* A key whose row was written is found again by its payment_id.
ProcessRestart ==
    /\ Mishap
    /\ keyCache' = row
    /\ doing' = [e \in Emails |->
                CASE doing[e] = "insert" -> "failed"
                  [] doing[e] \in {"cache", "save", "recache", "drop", "uncache"} -> "held"
                  [] OTHER -> doing[e]]
    /\ EndSync
    /\ UNCHANGED <<listed, panelDate, row, told, dropped, paid>>

RequestStep(e) ==
    \/ InsertRow(e) \/ CacheRow(e)
    \/ SaveDate(e) \/ CacheDate(e)
    \/ DropRow(e) \/ Uncache(e)

SyncStep ==
    \/ LoadRows \/ CacheRows \/ ReadPage \/ ReadLastPage \/ ReadInbounds \/ Compare
    \/ \E e \in Emails : RestoreKey(e) \/ DropOrphan(e) \/ TakeDate(e)
    \/ CacheRestored \/ RestoreDone \/ UncacheOrphan \/ CleanupDone
    \/ UpdateRow \/ CacheUpdated \/ SyncDone

SyncNext ==
    \/ \E e \in Emails :
          \/ CreateClient(e) \/ CreateFails(e) \/ InsertFails(e)
          \/ Renew(e)
          \/ DeleteClient(e) \/ LookupFails(e) \/ DeleteFails(e)
          \/ RequestStep(e)
          \/ TrafficFails(e)
    \/ SyncStep \/ PageFails \/ PageEmpty
    \/ ProcessRestart

SyncSpec == SyncInit /\ [][SyncNext]_syncVars

\* Requests that run go on, and so does the sync, which the scheduler starts
\* again every three hours.
FairSyncSpec ==
    /\ SyncSpec
    /\ \A e \in Emails : WF_syncVars(RequestStep(e))
    /\ WF_syncVars(SyncStep)
-----------------------------------------------------------------------------
(* Properties                                                              *)

\* The sync takes nobody's key away: a key its owner was told of before the
\* sync began to read the panel, and has left alone since, keeps its row, as
\* long as no client leaves the panel between two of its pages (what
\* list_clients_all raises an error for, and what keeping the clients with
\* tgId = 0 in extract_clients is for).
CalmKeysSurvive == ~moved => \A e \in calm : row[e] # Absent

\* The same without the proviso, which client.py promises of an incomplete
\* list.  It does not hold.
NothingTakenForDeleted == \A e \in calm : row[e] # Absent

\* No phantom key: what an owner was told of and did not delete is a client
\* of the panel (add_client answering False in CreateKey.proces).
NoPhantom == \A e \in told : OnPanel(e)

\* Both: the row of a key at rest and the client of a key told of stay.
KeysStay == CalmKeysSurvive /\ NoPhantom

\* The cache, which the API serves, holds the clients of the panel with the
\* dates they have there, and the table holds no key beyond them.
Mirrored ==
    \A e \in Emails :
        IF OnPanel(e) THEN keyCache[e] = panelDate[e] /\ row[e] \in {Absent, panelDate[e]}
                      ELSE keyCache[e] = Absent /\ row[e] = Absent

\* Once the owners leave their keys alone, the syncs bring the cache and the
\* table to what the panel has, whatever has gone wrong, unless the panel has
\* no client left: an empty list ends every sync.
Converges == <>[](Mirrored \/ listed = <<>>)

\* _restore_missing_data "restores missing keys": in the end every client of
\* the panel has a row.
RowsRestored == <>[](\A e \in Emails : OnPanel(e) => row[e] # Absent)

\* A renewal that was paid for stays paid for: the panel, "the source of truth
\* for expiry_time", keeps the date.
RenewalsCount ==
    \A e \in told : doing[e] = "held" => panelDate[e] >= paid[e]

\* admin_delete_key: "409 if the panel did not delete it, no orphan arises".
DeletedLeavesPanel == \A e \in dropped : ~OnPanel(e)

\* "One key for one payment" (uq_keys_payment_id).
OneKeyPerPurchase ==
    \A e, f \in Emails :
        PurchaseOf[e] = PurchaseOf[f] /\ row[e] # Absent /\ row[f] # Absent => e = f
=============================================================================
