-------------------------------- MODULE Wallet --------------------------------
(***************************************************************************)
(* The browser extension's wallet (sample/client/src): the cards in        *)
(* IndexedDB, the copies of them that the background worker and the popup  *)
(* hold, and the preparation of a card with the client helper.             *)
(*                                                                         *)
(* A save writes a whole record; a load makes new objects of all records.  *)
(* A handler that went to sleep on an await keeps the object it had.  Two  *)
(* handlers may share one: obj[own[a]] is the object that the preparation  *)
(* a works on.  The helper is CredStore, which ClientHelper implements.    *)
(*                                                                         *)
(* Left out: the progress bar, disclosing (Presentation), and the          *)
(* configuration in which the helper makes the show proofs                 *)
(* (clientHelperShowProof).                                                *)
(***************************************************************************)
EXTENDS Naturals, FiniteSets

CONSTANTS Card,     \* the credentials that may be imported
          Uid,      \* the UIDs that the client helper may draw
          Click,    \* the clicks on Accept
          MaxStops, \* bound on stops of the background worker
          MaxOpens  \* bound on how often the popup shows all cards anew

(* A new card's guid() is drawn once: the card itself stands for it.       *)
ASSUME IdAssumption == Card \cap Uid = {} /\ "none" \notin Card \cup Uid
ASSUME BoundsAssumption == MaxStops \in Nat /\ MaxOpens \in Nat

VARIABLES db,       \* the records in IndexedDB
          loaded,   \* Credential.creds in the background: objects nobody holds
          listed,   \* ... and the objects in it that a preparation holds
          reloads,  \* loads to come: UPDATE messages, and after an import
          awake,    \* whether the background worker runs
          bpc,      \* where a click's handlePrepare and pollStatus are
          own,      \* the object they work on
          obj,      \* the objects
          asked,    \* the id that handlePrepare was called with
          credUid,  \* the UID that handlePrepare was given
          polled,   \* the UID that pollStatus asks for
          slow,     \* the polls that were overtaken by a later one
          view,     \* the cards the popup shows
          linked,   \* whether status messages still reach these cards
          wpc,      \* where accept is in the popup
          opens,    \* how often the popup has shown all cards anew
          prepared, \* PREPARED messages on their way to the popup
          deletes,  \* DELETE messages on their way to the background
          hstatus, hprep,  \* the client helper
          imported, deleted, settled, seenReady, stops  \* history

backVars == <<awake, loaded, listed, bpc, own, obj, asked, credUid, polled,
              slow>>
popupVars == <<view, linked, wpc, opens>>
helperVars == <<hstatus, hprep>>
history == <<imported, deleted, settled, seenReady, stops>>
vars == <<db, reloads, prepared, deletes, backVars, popupVars, helperVars,
          history>>

Id == Card \cup Uid
Status == {"PENDING", "PREPARING", "PREPARED", "ERROR"}

(* showData is the UID of the credential whose data it is.                 *)
Record == [id : Id, card : Card, status : Status, showData : Uid \cup {"none"}]

(* A card of the popup; key is the id it was loaded under.                 *)
Element == [key : Id, id : Id, card : Card, status : Status]

(* Where a click is in the background while it may go on there; and where  *)
(* the popup has its answer, or will.                                      *)
Running == {"sent", "fetch", "remove", "poll", "load", "getshowdata", "reload"}
Replied == {"poll", "load", "getshowdata", "reload", "done", "error", "stuck",
            "stopped"}

HS == INSTANCE CredStore WITH status <- hstatus, preparation <- hprep

(* What a click holds before handlePrepare.                                *)
NoObject == [id |-> "none", card |-> "none", status |-> "PENDING",
             showData |-> "none"]

UniqueIds(s) == \A q, r \in s : q.id = r.id => q = r

TypeOK ==
  /\ db \subseteq Record /\ UniqueIds(db)
  /\ loaded \subseteq Record /\ UniqueIds(loaded)
  /\ listed \subseteq Click
  /\ awake \in BOOLEAN
  /\ reloads \in Nat
  /\ bpc \in [Click -> Running \cup
                {"idle", "lost", "refused", "killed"} \cup Replied]
  /\ own \in [Click -> Click]
  /\ obj \in [Click -> Record \cup {NoObject}]
  /\ \A a \in Click : bpc[a] \in Running \ {"sent"} => obj[own[a]] \in Record
  /\ asked \in [Click -> Id \cup {"none"}]
  /\ credUid \in [Click -> Uid \cup {"none"}]
  /\ polled \in [Click -> Uid \cup {"none"}]
  /\ slow \subseteq Click
  /\ view \subseteq Element /\ \A v, w \in view : v.key = w.key => v = w
  /\ linked \in BOOLEAN
  /\ wpc \in [Click -> {"idle", "waiting", "detached", "done", "dropped"}]
  /\ prepared \subseteq Uid
  /\ deletes \subseteq Uid
  /\ HS!TypeOK
  /\ imported \subseteq Card /\ deleted \subseteq imported
  /\ settled \subseteq deleted /\ seenReady \subseteq Uid
  /\ stops \in 0..MaxStops /\ opens \in 0..MaxOpens

Init ==
  /\ db = {} /\ loaded = {} /\ listed = {} /\ reloads = 0 /\ awake = TRUE
  /\ bpc = [a \in Click |-> "idle"]
  /\ own = [a \in Click |-> a]
  /\ obj = [a \in Click |-> NoObject]
  /\ asked = [a \in Click |-> "none"]
  /\ credUid = [a \in Click |-> "none"]
  /\ polled = [a \in Click |-> "none"]
  /\ slow = {}
  /\ view = {} /\ linked = FALSE
  /\ wpc = [a \in Click |-> "idle"]
  /\ prepared = {} /\ deletes = {}
  /\ HS!Init
  /\ imported = {} /\ deleted = {} /\ settled = {} /\ seenReady = {}
  /\ stops = 0 /\ opens = 0

-------------------------------------------------------------------------------
(* IndexedDB, and the lists of the two contexts                            *)

Without(s, i) == {r \in s : r.id # i}

addData(r) == db' = Without(db, r.id) \cup {r}

removeData(i) == db' = Without(db, i)

(* Credential.load in the background: new objects, which nobody holds.     *)
LoadCreds == loaded' = db /\ listed' = {}

(* The ids that Credential.get finds in the background.                    *)
KnownIds == {r.id : r \in loaded} \cup {obj[a].id : a \in listed}

Object(a) == obj[own[a]]

(* The object of a changes and is saved.                                   *)
ChangeAndSave(a, r) == /\ obj' = [obj EXCEPT ![own[a]] = r]
                       /\ addData(r)

Save(a) == ChangeAndSave(a, Object(a))

Goto(a, pc) == bpc' = [bpc EXCEPT ![a] = pc]

Waiting(a) == wpc[a] \in {"waiting", "detached"}

(* A preparation of this click may still save a record of its card.        *)
Live(a) == \/ bpc[a] \in Running
           \/ a \in slow
           \/ Waiting(a) /\ bpc[a] \in Replied

-------------------------------------------------------------------------------
(* The user                                                                *)

(* A page of the issuer, or a file: the record is saved and the background *)
(* loads it soon after.  The popup that imported a file shows all anew.    *)
Import(c) ==
  /\ c \notin imported
  /\ imported' = imported \cup {c}
  /\ addData([id |-> c, card |-> c, status |-> "PENDING", showData |-> "none"])
  /\ reloads' = reloads + 1
  /\ UNCHANGED <<prepared, deletes, backVars, popupVars, helperVars, deleted,
                 settled, seenReady, stops>>

(* The popup opens, or shows all cards anew after it imported a file:      *)
(* accept goes on with objects that are no longer shown.                   *)
InitWallet ==
  /\ opens < MaxOpens
  /\ opens' = opens + 1
  /\ view' = {[key |-> r.id, id |-> r.id, card |-> r.card,
               status |-> r.status] : r \in db}
  /\ linked' = TRUE
  /\ wpc' = [a \in Click |-> IF wpc[a] = "waiting" THEN "detached" ELSE wpc[a]]
  /\ UNCHANGED <<db, reloads, prepared, deletes, backVars, helperVars,
                 history>>

(* What waits for an answer is gone.                                       *)
ClosePopup ==
  /\ view' = {} /\ linked' = FALSE
  /\ wpc' = [a \in Click |-> IF Waiting(a) THEN "dropped" ELSE wpc[a]]
  /\ UNCHANGED <<db, reloads, opens, prepared, deletes, backVars, helperVars,
                 history>>

(* Accept is shown while a card is PENDING, also after it was clicked.  A  *)
(* PENDING card still has the id of its import.                            *)
Accept(a) ==
  /\ bpc[a] = "idle"
  /\ \E v \in view : /\ v.status = "PENDING"
                     /\ asked' = [asked EXCEPT ![a] = v.id]
  /\ Goto(a, "sent")
  /\ wpc' = [wpc EXCEPT ![a] = "waiting"]
  /\ UNCHANGED <<db, awake, loaded, listed, reloads, own, obj, credUid, polled,
                 slow, view, linked, opens, prepared, deletes, helperVars,
                 history>>

(* The popup changes its own copy, of the record as it was when accepted,  *)
(* and saves that.                                                         *)
AcceptReturns(a) ==
  /\ Waiting(a)
  /\ bpc[a] \in Replied
  /\ addData([id |-> credUid[a], card |-> asked[a], status |-> "PREPARING",
              showData |-> "none"])
  /\ reloads' = reloads + 1
  /\ view' = IF wpc[a] = "detached" THEN view
             ELSE {IF v.key = asked[a]
                     THEN [v EXCEPT !.id = credUid[a], !.status = "PREPARING"]
                     ELSE v : v \in view}
  /\ wpc' = [wpc EXCEPT ![a] = "done"]
  /\ UNCHANGED <<linked, opens, prepared, deletes, backVars, helperVars,
                 history>>

(* An error, or no answer because the background died: accept throws.      *)
AcceptThrows(a) ==
  /\ Waiting(a)
  /\ bpc[a] \in {"refused", "killed"}
  /\ wpc' = [wpc EXCEPT ![a] = "done"]
  /\ UNCHANGED <<db, reloads, view, linked, opens, prepared, deletes, backVars,
                 helperVars, history>>

(* Fault: the id that the card was loaded under is removed.                *)
ShownKey(v) == v.key

ShownId(v) == v.id

(* The x of a card, and Reject: reject, then remove.  reject also loads a  *)
(* list of objects that are not those on display.                          *)
Delete(v) ==
  /\ view' = view \ {v}
  /\ linked' = FALSE
  /\ removeData(ShownId(v))
  /\ deletes' = IF v.status \in {"PENDING", "PREPARING"}
                  THEN deletes ELSE deletes \cup {v.id}
  /\ deleted' = deleted \cup {v.card}
  /\ settled' = IF \/ \E a \in Click : Live(a) /\ asked[a] = v.card
                   \/ \E r \in db \cup (view \ {v}) :
                        r.card = v.card /\ ~(r \in db /\ r.id = v.id)
                  THEN settled ELSE settled \cup {v.card}
  /\ UNCHANGED <<reloads, wpc, opens, prepared, backVars, helperVars, imported,
                 seenReady, stops>>

(* The popup hears that a card is prepared; one that is closed does not.   *)
ShowPrepared(u) ==
  /\ u \in prepared
  /\ prepared' = prepared \ {u}
  /\ view' = IF linked
               THEN {IF v.id = u THEN [v EXCEPT !.status = "PREPARED"] ELSE v
                       : v \in view}
               ELSE view
  /\ UNCHANGED <<db, reloads, linked, wpc, opens, deletes, backVars,
                 helperVars, history>>

-------------------------------------------------------------------------------
(* handlePrepare                                                           *)

(* Credential.get, then POST /prepare.  A card that is not found fails an  *)
(* assertion, and the popup gets no answer.                                *)
HandlePrepare(a) ==
  /\ bpc[a] = "sent"
  /\ awake
  /\ \/ /\ \E b \in listed : /\ obj[b].id = asked[a]
                             /\ own' = [own EXCEPT ![a] = b]
        /\ Goto(a, "fetch")
        /\ UNCHANGED <<obj, loaded, listed>>
     \/ /\ \A b \in listed : obj[b].id # asked[a]
        /\ \E r \in loaded : /\ r.id = asked[a]
                             /\ obj' = [obj EXCEPT ![a] = r]
        /\ loaded' = Without(loaded, asked[a])
        /\ listed' = listed \cup {a}
        /\ Goto(a, "fetch")
        /\ UNCHANGED own
     \/ /\ asked[a] \notin KnownIds
        /\ Goto(a, "lost")
        /\ UNCHANGED <<own, obj, loaded, listed>>
  /\ UNCHANGED <<db, reloads, awake, asked, credUid, polled, slow, prepared,
                 deletes, popupVars, helperVars, history>>

(* The helper cannot be reached; or its answer is an error, which does not *)
(* parse as JSON, and the popup gets no answer.                            *)
PrepareFails(a) ==
  /\ bpc[a] = "fetch"
  /\ \E pc \in {"refused", "lost"} : Goto(a, pc)
  /\ UNCHANGED <<db, awake, loaded, listed, reloads, own, obj, asked, credUid,
                 polled, slow, prepared, deletes, popupVars, helperVars,
                 history>>

(* Fault: the old record is removed before the new one is saved.           *)
PrepareRemovesFirst(a) ==
  /\ bpc[a] = "fetch"
  /\ \E u \in Uid :
       /\ HS!Begin(u)
       /\ credUid' = [credUid EXCEPT ![a] = u]
       /\ obj' = [obj EXCEPT ![own[a]].id = u, ![own[a]].status = "PREPARING"]
  /\ removeData(asked[a])
  /\ Goto(a, "remove")
  /\ UNCHANGED <<awake, loaded, listed, reloads, own, asked, polled, slow,
                 prepared, deletes, popupVars, history>>

(* The card gets its new id.  The record of the old one is removed after   *)
(* the new one is saved.                                                   *)
PrepareSaves(a) ==
  /\ bpc[a] = "fetch"
  /\ \E u \in Uid :
       /\ HS!Begin(u)
       /\ credUid' = [credUid EXCEPT ![a] = u]
       /\ ChangeAndSave(a, [Object(a) EXCEPT !.id = u, !.status = "PREPARING"])
  /\ Goto(a, "remove")
  /\ UNCHANGED <<awake, loaded, listed, reloads, own, asked, polled, slow,
                 prepared, deletes, popupVars, history>>

PrepareRemoves(a) ==
  /\ bpc[a] = "remove"
  /\ removeData(asked[a])
  /\ polled' = [polled EXCEPT ![a] = Object(a).id]
  /\ Goto(a, "poll")
  /\ UNCHANGED <<awake, loaded, listed, reloads, own, obj, asked, credUid,
                 slow, prepared, deletes, popupVars, helperVars, history>>

-------------------------------------------------------------------------------
(* pollStatus and _prepareComplete                                         *)

(* The first poll comes a poll interval (5 s) after the answer to accept,  *)
(* which takes milliseconds.                                               *)
Polling(a) == bpc[a] = "poll" /\ wpc[a] \in {"done", "dropped"}

(* Of a step that changes no more than the object, its record and where    *)
(* the preparation is.                                                     *)
PollOnly == UNCHANGED <<awake, loaded, listed, reloads, own, asked, credUid,
                        deletes, popupVars, helperVars, imported, deleted,
                        settled, stops>>

(* "preparing": the progress is saved, with all the rest of the object.    *)
PollPreparing(a) ==
  /\ Polling(a)
  /\ hstatus[polled[a]] = "preparing"
  /\ Save(a)
  /\ PollOnly
  /\ UNCHANGED <<bpc, polled, slow, prepared, seenReady>>

(* Fault: any answer but "unknown" ends the poll.                          *)
AnswersKnown(u) == hstatus[u] # "unknown"

(* Fault: the answer is misspelt.                                          *)
AnswersDone(u) == hstatus[u] = "prepared"

AnswersReady(u) == hstatus[u] = "ready"

(* The object may have another id by now than the one that is ready.       *)
PollReady(a) ==
  /\ Polling(a)
  /\ AnswersReady(polled[a])
  /\ seenReady' = IF hstatus[polled[a]] = "ready"
                    THEN seenReady \cup {polled[a]} ELSE seenReady
  /\ ChangeAndSave(a, [Object(a) EXCEPT !.status = "PREPARED"])
  /\ polled' = [polled EXCEPT ![a] = Object(a).id]
  /\ Goto(a, "load")
  /\ PollOnly
  /\ UNCHANGED <<slow, prepared>>

(* Fault: the error is not saved.                                          *)
FailUnsaved(a) == /\ obj' = [obj EXCEPT ![own[a]].status = "ERROR"]
                  /\ Goto(a, "error")
                  /\ UNCHANGED db

(* The card is in error, and is saved.                                     *)
Fail(a) == /\ ChangeAndSave(a, [Object(a) EXCEPT !.status = "ERROR"])
           /\ Goto(a, "error")

PollUnknown(a) ==
  /\ Polling(a)
  /\ hstatus[polled[a]] = "unknown"
  /\ Fail(a)
  /\ PollOnly
  /\ UNCHANGED <<polled, slow, prepared, seenReady>>

(* The helper cannot be reached.                                           *)
PollFails(a) ==
  /\ Polling(a)
  /\ Fail(a)
  /\ PollOnly
  /\ UNCHANGED <<polled, slow, prepared, seenReady>>

(* A poll is not answered before the next: /status waits for the helper's  *)
(* Mutex.  When it is, after the end of polling, it still saves.           *)
PollSlow(a) ==
  /\ Polling(a)
  /\ slow' = slow \cup {a}
  /\ PollOnly
  /\ UNCHANGED <<db, bpc, obj, polled, prepared, seenReady>>

PollLate(a) ==
  /\ a \in slow
  /\ bpc[a] # "poll"
  /\ slow' = slow \ {a}
  /\ Save(a)
  /\ PollOnly
  /\ UNCHANGED <<bpc, polled, prepared, seenReady>>

(* Fault: no load after the show data was saved.                           *)
CompleteLoadOnce(a) ==
  /\ \/ /\ bpc[a] = "load"
        /\ LoadCreds
        /\ Goto(a, "getshowdata")
        /\ UNCHANGED prepared
     \/ /\ bpc[a] = "reload"
        /\ Goto(a, "done")
        /\ prepared' = prepared \cup {polled[a]}
        /\ UNCHANGED <<loaded, listed>>
  /\ UNCHANGED <<db, awake, reloads, own, obj, asked, credUid, polled, slow,
                 deletes, popupVars, helperVars, history>>

(* Credential.load after the save; then the popup is told.                 *)
CompleteLoad(a) ==
  /\ LoadCreds
  /\ \/ bpc[a] = "load" /\ Goto(a, "getshowdata") /\ UNCHANGED prepared
     \/ /\ bpc[a] = "reload"
        /\ Goto(a, "done")
        /\ prepared' = prepared \cup {polled[a]}
  /\ UNCHANGED <<db, awake, reloads, own, obj, asked, credUid, polled, slow,
                 deletes, popupVars, helperVars, history>>

(* fetchShowData: an answer without data does not parse as JSON, and this  *)
(* promise never settles.                                                  *)
FetchShowData(a) ==
  /\ bpc[a] = "getshowdata"
  /\ \/ /\ hstatus[polled[a]] = "ready"
        /\ ChangeAndSave(a, [Object(a) EXCEPT !.showData = polled[a]])
        /\ Goto(a, "reload")
     \/ /\ hstatus[polled[a]] # "ready"
        /\ Goto(a, "stuck")
        /\ UNCHANGED <<db, obj>>
     \/ Fail(a)
  /\ PollOnly
  /\ UNCHANGED <<polled, slow, prepared, seenReady>>

Prepare(a) == \/ HandlePrepare(a)
              \/ PrepareFails(a)
              \/ PrepareSaves(a)
              \/ PrepareRemoves(a)
              \/ CompleteLoad(a)
              \/ FetchShowData(a)

Poll(a) == PollPreparing(a) \/ PollReady(a) \/ PollUnknown(a)

-------------------------------------------------------------------------------
(* The other handlers of the background                                    *)

Reload ==
  /\ awake
  /\ reloads > 0
  /\ reloads' = reloads - 1
  /\ LoadCreds
  /\ UNCHANGED <<db, awake, bpc, own, obj, asked, credUid, polled, slow,
                 prepared, deletes, popupVars, helperVars, history>>

(* The assertion that the card is found; then GET /delete, which may fail. *)
HandleRemove(u) ==
  /\ awake
  /\ u \in deletes
  /\ deletes' = deletes \ {u}
  /\ \/ u \in KnownIds /\ HS!Forget(u)
     \/ UNCHANGED helperVars
  /\ UNCHANGED <<db, reloads, prepared, backVars, popupVars, history>>

(* The browser stops the worker, timers and all.  Who waits for its answer *)
(* gets none.                                                              *)
WorkerStops ==
  /\ awake
  /\ stops < MaxStops
  /\ stops' = stops + 1
  /\ awake' = FALSE
  /\ loaded' = {} /\ listed' = {}
  /\ bpc' = [a \in Click |->
               CASE bpc[a] \in {"sent", "fetch", "remove", "lost"} -> "killed"
                 [] bpc[a] \in Running \cap Replied -> "stopped"
                 [] OTHER -> bpc[a]]
  /\ slow' = {}
  /\ UNCHANGED <<db, reloads, own, obj, asked, credUid, polled, prepared,
                 deletes, popupVars, helperVars, imported, deleted, settled,
                 seenReady>>

(* A message starts it again; it loads the cards before it handles any.    *)
WorkerStarts ==
  /\ ~awake
  /\ reloads > 0 \/ deletes # {} \/ \E a \in Click : bpc[a] = "sent"
  /\ awake' = TRUE
  /\ LoadCreds
  /\ UNCHANGED <<db, reloads, bpc, own, obj, asked, credUid, polled, slow,
                 prepared, deletes, popupVars, helperVars, history>>

(* The client helper goes on, or restarts; it is of no matter here which   *)
(* UIDs nobody heard of it then leaves unused.                             *)
Helper ==
  /\ \/ \E u \in Uid : HS!End(u)
     \/ HS!Crash /\ \A u \in Uid : hprep[u] = "none" => hprep'[u] = "none"
  /\ UNCHANGED <<db, reloads, prepared, deletes, backVars, popupVars, history>>

Next == \/ \E c \in Card : Import(c)
        \/ InitWallet
        \/ ClosePopup
        \/ \E v \in view : Delete(v)
        \/ \E a \in Click : \/ Accept(a) \/ AcceptReturns(a) \/ AcceptThrows(a)
                            \/ Prepare(a)
                            \/ Poll(a) \/ PollFails(a)
                            \/ PollSlow(a) \/ PollLate(a)
        \/ \E u \in Uid : ShowPrepared(u) \/ HandleRemove(u)
        \/ Reload
        \/ WorkerStops \/ WorkerStarts
        \/ Helper

Spec == Init /\ [][Next]_vars

(* What has been started goes on; a poll comes every poll interval.  The   *)
(* popup takes an answer that is there.  Nothing makes the user, the       *)
(* helper or the browser act.                                              *)
Fairness == /\ WF_vars(WorkerStarts)
            /\ \A a \in Click : /\ WF_vars(Prepare(a))
                               /\ WF_vars(Poll(a))
                               /\ WF_vars(AcceptReturns(a))

FairSpec == Spec /\ Fairness

-------------------------------------------------------------------------------
(* A card that is not deleted has a record at all times, whichever of two  *)
(* saves and a removal the worker is stopped between (handlePrepare).      *)
CardNotLost == \A c \in imported \ deleted : \E r \in db : r.card = c

(* A card stays gone that was deleted when no preparation of it was under  *)
(* way and no second record of it was stored or shown: no other save, of   *)
(* the popup or of the background, brings it back (reject).                *)
SettledStaysGone == \A r \in db : r.card \notin settled

AcceptedOnce(c) == \A a, b \in Click : asked[a] = c /\ asked[b] = c => a = b

(* A card that was accepted with one click is PREPARED only after the      *)
(* helper said "ready" of its UID, and has the show data of that UID or    *)
(* none yet, whatever else saves the card (_prepareComplete).              *)
PreparedWasReady ==
  \A r \in db : AcceptedOnce(r.card) =>
     /\ r.status = "PREPARED" => r.id \in seenReady
     /\ r.showData \in {"none", r.id}

(* Such a card that is PREPARED without show data has a click that is      *)
(* about to fetch it, never gets an answer or was stopped with the worker: *)
(* an error in the fetch leaves no card PREPARED (_prepareComplete).       *)
PreparedHasData ==
  \A r \in db :
     AcceptedOnce(r.card) /\ r.status = "PREPARED" /\ r.showData = "none" =>
     \E a \in Click : /\ asked[a] = r.card
                      /\ bpc[a] \in {"load", "getshowdata", "stuck", "stopped"}

AcceptedTwice(c) ==
  \A a, b, e \in Click :
    asked[a] = c /\ asked[b] = c /\ asked[e] = c => a = b \/ b = e \/ a = e

(* When the background has nothing under way, its copy of a PREPARED card  *)
(* is the record in the database, with the show data, unless the card was  *)
(* deleted: this is the copy that a proof is made from (Credential.get).   *)
(* It holds of cards that were accepted with at most two clicks.  Three    *)
(* that share one object may part the two: a late poll of the first saves  *)
(* it PREPARED under the UID of the second, where the popup had just saved *)
(* PREPARING for the background to load; then the third gives the object   *)
(* its own UID, and what the second saves from there on leaves that record *)
(* alone.                                                                  *)
BackgroundIsCurrent ==
  /\ awake
  /\ reloads = 0
  /\ \A a \in Click : ~Live(a)
  => \A r \in db : /\ r.status = "PREPARED"
                  /\ r.card \notin deleted
                  /\ AcceptedTwice(r.card)
        => r \in loaded \cup {obj[a] : a \in listed}

(* A preparation ends, in PREPARED, in an error or with the worker, unless *)
(* the helper says "preparing" for ever (pollStatus).                      *)
Pending(a) == /\ bpc[a] \in Running
              /\ bpc[a] = "poll" => hstatus[polled[a]] # "preparing"

PreparationEnds == \A a \in Click : Pending(a) ~> ~Pending(a)

===============================================================================
