----------------------------- MODULE WalletProofs -----------------------------
(***************************************************************************)
(* Proofs about Wallet, for any number of cards, UIDs, clicks and stops.   *)
(***************************************************************************)
EXTENDS Wallet, TLAPS

(* The ids under which a card may be stored: its own and the UIDs that its *)
(* preparations were given.                                                *)
Ids(c) ==
  {c} \cup {u \in Uid : \E a \in Click : asked[a] = c /\ credUid[a] = u}

(* What holds of every record, object and element of a card.               *)
Good(x) == /\ x.card \in imported
           /\ x.id \in Ids(x.card)
           /\ (x.status = "PENDING") <=> (x.id \in Card)

(* handlePrepare has given the card its UID.                               *)
Past(a) == bpc[a] \in {"remove"} \cup Replied

(* What a click knows, by where it is.                                     *)
ClickInv ==
  \A a \in Click :
    /\ asked[a] \in imported \cup {"none"}
    /\ (bpc[a] = "idle") <=> (asked[a] = "none")
    /\ (wpc[a] = "idle") <=> (bpc[a] = "idle")
    /\ bpc[a] \in {"idle", "sent", "fetch"} => credUid[a] = "none"
    /\ Past(a) => credUid[a] \in Uid
    /\ bpc[a] \in {"poll", "load", "getshowdata", "reload"} =>
         polled[a] \in Uid
    /\ a \in slow => bpc[a] \in Replied

(* A UID is that of one click.                                             *)
UidInv ==
  \A a \in Click : credUid[a] # "none" =>
    /\ hprep[credUid[a]] # "none"
    /\ \A b \in Click : credUid[b] = credUid[a] => a = b

(* The object of a click is of the card that was accepted.                 *)
ObjInv ==
  /\ \A b \in Click : obj[b] = NoObject \/ Good(obj[b])
  /\ \A b \in Click : bpc[b] \in {"idle", "sent"} =>
        obj[b] = NoObject /\ own[b] = b
  /\ \A b \in listed : obj[b] # NoObject
  /\ \A a \in Click : bpc[a] = "fetch" \/ Past(a) =>
        Object(a) \in Record /\ Object(a).card = asked[a]
  /\ \A a \in Click : Past(a) => Object(a).id \in Uid

RecInv == /\ \A x \in db \cup loaded \cup view : Good(x)
          /\ \A v \in view : v.key \in Ids(v.card)

(* Before the old record is removed, the new one is there, or was deleted. *)
SaveInv ==
  \A a \in Click : bpc[a] = "remove" /\ asked[a] \notin deleted =>
    \E r \in db : r.card = asked[a] /\ r.id = credUid[a]

(* Nothing is left of a card that was deleted at rest that could save it.  *)
SettledInv ==
  \A c \in settled :
    /\ \A r \in db \cup view : r.card # c
    /\ \A a \in Click : asked[a] = c => ~Live(a)

(* Of a card that was accepted once, what PreparedWasReady says of its     *)
(* records, for its objects too.                                           *)
Ready(x) == /\ x.id \in Card => x.showData = "none"
            /\ AcceptedOnce(x.card) =>
                 /\ x.status = "PREPARED" => x.id \in seenReady
                 /\ x.showData \in {"none", x.id}

ReadyInv ==
  /\ \A x \in db \cup loaded : Ready(x)
  /\ \A b \in Click : obj[b] = NoObject \/ Ready(obj[b])
  /\ \A a \in Click : bpc[a] \in {"poll", "load", "getshowdata", "reload"}
        /\ AcceptedOnce(asked[a]) => polled[a] = credUid[a]

TypeInv == TypeOK /\ ClickInv /\ UidInv /\ ObjInv /\ RecInv

USE IdAssumption, BoundsAssumption
USE DEF backVars, popupVars, helperVars, history

-------------------------------------------------------------------------------
(***************************************************************************)
(* What each kind of step leaves alone                                     *)
(***************************************************************************)

(* A click keeps what it was asked and the UID it was given; imported only *)
(* grows, and a UID that was drawn stays drawn.                            *)
LEMMA ClickStays ==
  ASSUME TypeInv, [Next]_vars, NEW a \in Click
  PROVE  /\ asked[a] # "none" => asked'[a] = asked[a]
         /\ credUid[a] # "none" => credUid'[a] = credUid[a]
         /\ imported \subseteq imported'
  <1>1. ASSUME NEW b \in Click, Accept(b)
        PROVE  /\ asked[a] # "none" => asked'[a] = asked[a]
               /\ UNCHANGED <<credUid, imported>>
    BY <1>1 DEF Accept, TypeInv, TypeOK, ClickInv
  <1>2. ASSUME NEW b \in Click, PrepareSaves(b)
        PROVE  /\ credUid[a] # "none" => credUid'[a] = credUid[a]
               /\ UNCHANGED <<asked, imported>>
    BY <1>2 DEF PrepareSaves, TypeInv, TypeOK, ClickInv
  <1>3. ASSUME NEW c \in Card, Import(c)
        PROVE  UNCHANGED <<asked, credUid>> /\ imported \subseteq imported'
    BY <1>3 DEF Import
  <1>4. CASE UNCHANGED <<asked, credUid, imported>>
    BY <1>4
  <1>5. ASSUME NEW b \in Click,
               \/ AcceptReturns(b) \/ AcceptThrows(b)
               \/ HandlePrepare(b) \/ PrepareFails(b) \/ PrepareRemoves(b)
               \/ CompleteLoad(b) \/ FetchShowData(b)
               \/ Poll(b) \/ PollFails(b) \/ PollSlow(b) \/ PollLate(b)
        PROVE  UNCHANGED <<asked, credUid, imported>>
    BY <1>5 DEF AcceptReturns, AcceptThrows, HandlePrepare, PrepareFails,
                PrepareRemoves, CompleteLoad, FetchShowData, Poll,
                PollPreparing, PollReady, PollUnknown, PollFails, PollSlow,
                PollLate, PollOnly
  <1>6. CASE \/ InitWallet \/ ClosePopup \/ \E v \in view : Delete(v)
             \/ \E u \in Uid : ShowPrepared(u) \/ HandleRemove(u)
             \/ Reload \/ WorkerStops \/ WorkerStarts \/ Helper
    BY <1>6 DEF InitWallet, ClosePopup, Delete, ShowPrepared, HandleRemove,
                Reload, WorkerStops, WorkerStarts, Helper
  <1>7. QED
    BY <1>1, <1>2, <1>3, <1>4, <1>5, <1>6 DEF Next, Prepare, vars

LEMMA GoodStays ==
  ASSUME TypeInv, [Next]_vars, NEW x, Good(x), x.card \in Card
  PROVE  Good(x)'
  <1>1. imported \subseteq imported'
    <2>1. CASE Click = {}
      BY <2>1 DEF Next, vars, Import, InitWallet, ClosePopup, Delete,
                  ShowPrepared, HandleRemove, Reload, WorkerStops,
                  WorkerStarts, Helper
    <2>2. CASE Click # {}
      BY <2>2, ClickStays
    <2>3. QED
      BY <2>1, <2>2
  <1>2. ASSUME NEW u \in Uid, NEW a \in Click, asked[a] = x.card,
               credUid[a] = u
        PROVE  asked'[a] = x.card /\ credUid'[a] = u
    BY <1>2, ClickStays
  <1>3. QED
    BY <1>1, <1>2 DEF Good, Ids

(* Ids tell cards apart.                                                   *)
LEMMA IdsDisjoint ==
  ASSUME TypeInv, NEW c \in Card, NEW d \in Card, NEW i \in Ids(c),
         i \in Ids(d)
  PROVE  c = d
  BY DEF Ids, TypeInv, UidInv

(* The object that a preparation works on.                                 *)
LEMMA ObjectGood ==
  ASSUME TypeInv, NEW a \in Click, bpc[a] = "fetch" \/ Past(a)
  PROVE  /\ own[a] \in Click /\ Object(a) = obj[own[a]]
         /\ Object(a) \in Record /\ Object(a).card = asked[a]
         /\ Good(Object(a))
         /\ asked[a] \in Card
  <1>1. own[a] \in Click /\ Object(a) = obj[own[a]]
    BY DEF TypeInv, TypeOK, Object
  <1>2. Object(a) \in Record /\ Object(a).card = asked[a]
    BY DEF TypeInv, ObjInv
  <1>3. Object(a) # NoObject
    BY <1>2 DEF Record, NoObject, Id
  <1>4. Good(Object(a))
    BY <1>1, <1>3 DEF TypeInv, ObjInv
  <1>5. asked[a] \in Card
    BY <1>2 DEF Record
  <1>6. QED
    BY <1>1, <1>2, <1>4, <1>5

-------------------------------------------------------------------------------
(***************************************************************************)
(* Type correctness, with the invariants that it rests on                  *)
(***************************************************************************)

LEMMA TypeInit == Init => TypeInv
  <1> SUFFICES ASSUME Init PROVE TypeInv
    OBVIOUS
  <1>1. HS!TypeOK
    BY DEF Init, HS!Init, HS!TypeOK, HS!Statuses, HS!Phases
  <1>2. \A a \in Click : bpc[a] = "idle"
    BY DEF Init
  <1>3. TypeOK
    <2>1. bpc \in [Click -> {"idle"}] /\ wpc \in [Click -> {"idle"}]
      BY DEF Init
    <2>2. own \in [Click -> Click]
      BY DEF Init
    <2>3. /\ asked \in [Click -> {"none"}] /\ credUid \in [Click -> {"none"}]
          /\ polled \in [Click -> {"none"}]
      BY DEF Init
    <2>4. /\ db = {} /\ loaded = {} /\ listed = {} /\ reloads = 0
          /\ awake = TRUE /\ slow = {} /\ view = {} /\ linked = FALSE
          /\ prepared = {} /\ deletes = {}
          /\ imported = {} /\ deleted = {} /\ settled = {}
          /\ seenReady = {}
          /\ stops = 0 /\ opens = 0
      BY DEF Init
    <2>5. stops \in 0..MaxStops /\ opens \in 0..MaxOpens /\ reloads \in Nat
      BY <2>4
    <2>6. UniqueIds(db) /\ UniqueIds(loaded)
      BY <2>4 DEF UniqueIds
    <2>7. obj \in [Click -> Record \cup {NoObject}]
      BY DEF Init
    <2>8. QED
      BY <1>1, <1>2, <2>1, <2>2, <2>3, <2>4, <2>5, <2>6, <2>7
         DEF TypeOK, Running
  <1>4. ClickInv
    BY <1>2 DEF Init, ClickInv, Past, Replied
  <1>5. UidInv /\ RecInv
    BY DEF Init, UidInv, RecInv
  <1>6. ObjInv
    BY <1>2 DEF Init, ObjInv, Past, Replied, Object
  <1>7. QED
    BY <1>3, <1>4, <1>5, <1>6 DEF TypeInv

ClickTypes ==
  /\ bpc \in [Click -> Running \cup
                {"idle", "lost", "refused", "killed"} \cup Replied]
  /\ asked \in [Click -> Id \cup {"none"}]
  /\ credUid \in [Click -> Uid \cup {"none"}]
  /\ polled \in [Click -> Uid \cup {"none"}]
  /\ wpc \in [Click -> {"idle", "waiting", "detached", "done", "dropped"}]

LEMMA ClickNext == TypeInv /\ [Next]_vars => ClickInv'
  <1> SUFFICES ASSUME TypeInv, [Next]_vars PROVE ClickInv'
    OBVIOUS
  <1> USE DEF Past, Replied
  <1>0. ClickInv /\ ClickTypes
    BY DEF TypeInv, TypeOK, ClickTypes
  <1>1. ASSUME NEW a \in Click, Accept(a) PROVE ClickInv'
    <2>1. PICK v \in view : /\ v.status = "PENDING"
                            /\ asked' = [asked EXCEPT ![a] = v.id]
      BY <1>1 DEF Accept
    <2>2. Good(v)
      BY DEF TypeInv, RecInv
    <2>3. v.id \in imported /\ imported \subseteq Card
      BY <2>1, <2>2 DEF Good, Ids, TypeInv, TypeOK
    <2>4. QED
      BY <1>0, <1>1, <2>1, <2>3 DEF Accept, Goto, ClickInv, ClickTypes
  <1>2. ASSUME NEW a \in Click, AcceptReturns(a) \/ AcceptThrows(a)
        PROVE  ClickInv'
    BY <1>0, <1>2 DEF AcceptReturns, AcceptThrows, Waiting, ClickInv,
                      ClickTypes
  <1>3. ASSUME NEW a \in Click, HandlePrepare(a) \/ PrepareFails(a)
        PROVE  ClickInv'
    BY <1>0, <1>3 DEF HandlePrepare, PrepareFails, Goto, ClickInv, ClickTypes
  <1>4. ASSUME NEW a \in Click, PrepareSaves(a) PROVE ClickInv'
    BY <1>0, <1>4 DEF PrepareSaves, Goto, ClickInv, ClickTypes
  <1>5. ASSUME NEW a \in Click, PrepareRemoves(a) PROVE ClickInv'
    BY <1>0, <1>5 DEF PrepareRemoves, Goto, TypeInv, ClickInv, ObjInv,
                      ClickTypes
  <1>6. ASSUME NEW a \in Click, CompleteLoad(a) \/ FetchShowData(a)
        PROVE  ClickInv'
    BY <1>0, <1>6 DEF CompleteLoad, FetchShowData, PollOnly, Goto, Fail,
                      ClickInv, ClickTypes
  <1>7. ASSUME NEW a \in Click, Poll(a) \/ PollFails(a) PROVE ClickInv'
    BY <1>0, <1>7 DEF Poll, PollPreparing, PollReady, PollUnknown, PollFails,
                Polling, PollOnly, Goto, Fail, TypeInv, ClickInv,
                ObjInv, ClickTypes
  <1>8. ASSUME NEW a \in Click, PollSlow(a) \/ PollLate(a) PROVE ClickInv'
    BY <1>0, <1>8 DEF PollSlow, PollLate, Polling, PollOnly, ClickInv,
                ClickTypes
  <1>9. CASE InitWallet \/ ClosePopup
    BY <1>0, <1>9 DEF InitWallet, ClosePopup, Waiting, ClickInv, ClickTypes
  <1>10. CASE WorkerStops
    BY <1>0, <1>10 DEF WorkerStops, Running, ClickInv, ClickTypes
  <1>11. ASSUME NEW c \in Card, Import(c) PROVE ClickInv'
    BY <1>0, <1>11 DEF Import, ClickInv, ClickTypes
  <1>12. CASE \/ \E v \in view : Delete(v)
              \/ \E u \in Uid : ShowPrepared(u) \/ HandleRemove(u)
              \/ Reload \/ WorkerStarts \/ Helper
    BY <1>0, <1>12 DEF Delete, ShowPrepared, HandleRemove, Reload,
                       WorkerStarts, Helper, ClickInv, ClickTypes
  <1>13. CASE UNCHANGED vars
    BY <1>0, <1>13 DEF vars, ClickInv, ClickTypes
  <1>14. QED
    BY <1>1, <1>2, <1>3, <1>4, <1>5, <1>6, <1>7, <1>8, <1>9, <1>10, <1>11,
       <1>12, <1>13 DEF Next, Prepare

LEMMA UidNext == TypeInv /\ [Next]_vars => UidInv'
  <1> SUFFICES ASSUME TypeInv, [Next]_vars PROVE UidInv'
    OBVIOUS
  <1>1. ASSUME NEW a \in Click, PrepareSaves(a) PROVE UidInv'
    <2>1. PICK u \in Uid : HS!Begin(u) /\ credUid' = [credUid EXCEPT ![a] = u]
      BY <1>1 DEF PrepareSaves
    <2>2. \A b \in Click : credUid[b] # u
      BY <2>1 DEF TypeInv, UidInv, HS!Begin
    <2>3. \A b \in Click : credUid'[b] = IF b = a THEN u ELSE credUid[b]
      BY <2>1 DEF TypeInv, TypeOK
    <2>4. \A w \in Uid : hprep[w] # "none" => hprep'[w] # "none"
      BY <2>1 DEF HS!Begin, TypeInv, TypeOK, HS!TypeOK
    <2>5. hprep'[u] # "none"
      BY <2>1 DEF HS!Begin, TypeInv, TypeOK, HS!TypeOK
    <2>6. \A b \in Click : credUid[b] # "none" => credUid[b] \in Uid
      BY DEF TypeInv, TypeOK
    <2>7. QED
      BY <2>2, <2>3, <2>4, <2>5, <2>6 DEF TypeInv, UidInv
  <1>2. CASE Helper
    <2>1. UNCHANGED credUid
      BY <1>2 DEF Helper
    <2>2. \A w \in Uid : hprep[w] # "none" => hprep'[w] # "none"
      BY <1>2 DEF Helper, HS!End, HS!Crash, TypeInv, TypeOK, HS!TypeOK,
                  HS!Phases
    <2>3. \A b \in Click : credUid[b] # "none" => credUid[b] \in Uid
      BY DEF TypeInv, TypeOK
    <2>4. QED
      BY <2>1, <2>2, <2>3 DEF TypeInv, UidInv
  <1>3. CASE UNCHANGED <<credUid, hprep>>
    BY <1>3 DEF TypeInv, UidInv
  <1>4. ASSUME NEW u \in Uid, HandleRemove(u)
        PROVE  UNCHANGED <<credUid, hprep>>
    BY <1>4 DEF HandleRemove, HS!Forget
  <1>5. ASSUME NEW a \in Click,
               \/ Accept(a) \/ AcceptReturns(a) \/ AcceptThrows(a)
               \/ HandlePrepare(a) \/ PrepareFails(a) \/ PrepareRemoves(a)
               \/ CompleteLoad(a) \/ FetchShowData(a)
               \/ Poll(a) \/ PollFails(a) \/ PollSlow(a) \/ PollLate(a)
        PROVE  UNCHANGED <<credUid, hprep>>
    BY <1>5 DEF Accept, AcceptReturns, AcceptThrows, HandlePrepare,
                PrepareFails, PrepareRemoves, CompleteLoad, FetchShowData,
                Poll, PollPreparing, PollReady, PollUnknown, PollFails,
                PollSlow, PollLate, PollOnly
  <1>6. CASE \/ \E c \in Card : Import(c)
             \/ InitWallet \/ ClosePopup \/ \E v \in view : Delete(v)
             \/ \E u \in Uid : ShowPrepared(u)
             \/ Reload \/ WorkerStops \/ WorkerStarts \/ UNCHANGED vars
    BY <1>6 DEF Import, InitWallet, ClosePopup, Delete, ShowPrepared, Reload,
                WorkerStops, WorkerStarts, vars, TypeInv, UidInv
  <1>7. QED
    BY <1>1, <1>2, <1>3, <1>4, <1>5, <1>6 DEF Next, Prepare

(* A save and a removal keep the records apart.                            *)
LEMMA AddType ==
  ASSUME db \subseteq Record, UniqueIds(db), NEW r \in Record, addData(r)
  PROVE  /\ db' \subseteq Record /\ UniqueIds(db')
         /\ r \in db' /\ \A q \in db' : q = r \/ (q \in db /\ q.id # r.id)
         /\ \A q \in db : q.id # r.id => q \in db'
  BY DEF addData, Without, UniqueIds

LEMMA RemoveType ==
  ASSUME db \subseteq Record, UniqueIds(db), NEW i, removeData(i)
  PROVE  /\ db' \subseteq Record /\ UniqueIds(db')
         /\ db' = {q \in db : q.id # i}
  BY DEF removeData, Without, UniqueIds

(* What a step does that changes the object of a preparation and saves it. *)
LEMMA ChangeType ==
  ASSUME TypeInv, NEW a \in Click, NEW r \in Record, ChangeAndSave(a, r)
  PROVE  /\ db' \subseteq Record /\ UniqueIds(db')
         /\ r \in db' /\ \A q \in db' : q = r \/ (q \in db /\ q.id # r.id)
         /\ \A q \in db : q.id # r.id => q \in db'
         /\ \A b \in Click : obj'[b] = IF b = own[a] THEN r ELSE obj[b]
         /\ \A b \in Click : obj[own[b]] \in Record => obj'[own[b]] \in Record
  <1>1. own[a] \in Click /\ \A b \in Click : own[b] \in Click
    BY DEF TypeInv, TypeOK
  <1>2. \A b \in Click : obj'[b] = IF b = own[a] THEN r ELSE obj[b]
    BY <1>1 DEF ChangeAndSave, TypeInv, TypeOK
  <1>3. QED
    BY <1>1, <1>2, AddType DEF ChangeAndSave, TypeInv, TypeOK

Before(a) == bpc[a] \in {"idle", "sent"}
Holds(a) == bpc[a] = "fetch" \/ Past(a)

(* Objects stay good when they stay.                                       *)
LEMMA ObjSame ==
  ASSUME TypeInv, [Next]_vars,
         UNCHANGED <<obj, own>>, listed' \subseteq listed,
         \A b \in Click : /\ Holds(b)' => Holds(b) /\ asked'[b] = asked[b]
                          /\ Past(b)' => Past(b)
                          /\ Before(b)' => Before(b)
  PROVE  ObjInv'
  <1>1. \A b \in Click : obj[b] = NoObject \/ Good(obj[b])'
    <2> SUFFICES ASSUME NEW b \in Click, obj[b] # NoObject PROVE Good(obj[b])'
      BY Zenon
    <2>1. obj[b] \in Record /\ Good(obj[b])
      BY DEF TypeInv, TypeOK, ObjInv
    <2>2. obj[b].card \in Card
      BY <2>1 DEF Record
    <2>3. \A x : x = obj[b] => Good(x)'
      BY <2>1, <2>2, GoodStays
    <2>4. QED
      BY <2>3 DEF Good, Ids
  <1>2. \A b \in Click : Object(b)' = Object(b)
    BY DEF Object
  <1>3. ObjInv
    BY DEF TypeInv
  <1>4. QED
    BY <1>1, <1>2, <1>3 DEF ObjInv, Holds, Before, Good, Ids

(* ... and when one of them changes, with its record.                      *)
LEMMA ObjSaved ==
  ASSUME TypeInv, [Next]_vars, NEW a \in Click, Holds(a), Past(a)',
         NEW r \in Record, ChangeAndSave(a, r),
         r.card = asked[a], r.id \in Uid, Good(r)',
         UNCHANGED <<own, asked>>, listed' \subseteq listed,
         \A b \in Click : b # a => bpc'[b] = bpc[b]
  PROVE  ObjInv'
  <1> DEFINE o == own[a]
  <1>1. /\ o \in Click /\ obj[o] \in Record /\ obj[o].card = asked[a]
        /\ ObjInv
    BY ObjectGood DEF Holds, TypeInv
  <1>2. \A b \in Click : obj'[b] = IF b = o THEN r ELSE obj[b]
    BY ChangeType
  <1>3. \A b \in Click : own[b] \in Click /\ Object(b) = obj[own[b]]
                         /\ Object(b)' = obj'[own[b]]
    BY DEF TypeInv, TypeOK, Object
  <1>4. ASSUME NEW b \in Click PROVE (obj[b] = NoObject \/ Good(obj[b]))'
    <2>1. CASE b = o
      BY <1>2, <2>1 DEF Good, Ids
    <2>2. CASE b # o /\ obj[b] # NoObject
      <3>1. obj[b] \in Record /\ Good(obj[b])
        BY <2>2 DEF TypeInv, TypeOK, ObjInv
      <3>2. obj[b].card \in Card
        BY <3>1 DEF Record
      <3>3. \A x : x = obj[b] => Good(x)'
        BY <3>1, <3>2, GoodStays
      <3>4. QED
        BY <1>2, <2>2, <3>3 DEF Good, Ids
    <2>3. QED
      BY <1>2, <2>1, <2>2
  <1>5. obj[o] # NoObject
    BY <1>1 DEF Record, NoObject, Id
  <1>6. r # NoObject
    BY DEF Record, NoObject, Id
  <1>7. \A b \in Click : Before(b)' => obj'[b] = NoObject /\ own'[b] = b
    BY <1>1, <1>2, <1>5 DEF ObjInv, Before, Past, Replied
  <1>8. \A b \in listed' : obj'[b] # NoObject
    BY <1>1, <1>2, <1>6 DEF ObjInv, TypeInv, TypeOK
  <1>9. ASSUME NEW b \in Click, Holds(b)'
        PROVE  obj'[own[b]] \in Record /\ obj'[own[b]].card = asked[b]
    <2>1. Holds(b)
      BY <1>9 DEF Holds, Past
    <2>2. obj[own[b]] \in Record /\ obj[own[b]].card = asked[b]
      BY <1>1, <1>3, <2>1 DEF ObjInv, Holds
    <2>3. QED
      BY <1>1, <1>2, <1>3, <2>2
  <1>10. ASSUME NEW b \in Click, Past(b)' PROVE obj'[own[b]].id \in Uid
    <2>1. CASE own[b] = o
      BY <1>2, <1>3, <2>1
    <2>2. CASE own[b] # o
      <3>1. b # a /\ Past(b)
        BY <1>10, <2>2 DEF Past
      <3>2. QED
        BY <1>1, <1>2, <1>3, <2>2, <3>1 DEF ObjInv
    <2>3. QED
      BY <2>1, <2>2
  <1>11. ObjInv'
    BY <1>3, <1>4, <1>7, <1>8, <1>9, <1>10 DEF ObjInv, Holds, Before, Good, Ids
  <1>12. QED
    BY <1>11

(* The steps that save the object of a preparation, and how they leave it. *)
Saving(a) == \/ PrepareSaves(a)
             \/ PollPreparing(a) \/ PollReady(a) \/ PollUnknown(a)
             \/ PollFails(a) \/ PollLate(a)
             \/ FetchShowData(a) /\ bpc'[a] # "stuck"

SavedAs(a, r) == /\ ChangeAndSave(a, r)
                 /\ r \in Record /\ r.card = asked[a] /\ r.id \in Uid
                 /\ r.status # "PENDING"
                 /\ r.id \in Ids(asked[a])'

LEMMA SavingFrame ==
  ASSUME TypeInv, NEW a \in Click, Saving(a)
  PROVE  /\ Holds(a) /\ Past(a)'
         /\ UNCHANGED <<own, asked, listed, loaded, awake, reloads, opens,
                        linked, deletes, view, wpc, imported, deleted,
                        settled, stops>>
         /\ \A b \in Click : b # a => bpc'[b] = bpc[b]
  <1>1. ClickTypes /\ ClickInv
    BY DEF TypeInv, TypeOK, ClickTypes
  <1>2. CASE PrepareSaves(a)
    BY <1>1, <1>2 DEF PrepareSaves, Goto, Holds, Past, ClickTypes
  <1>3. CASE PollPreparing(a) \/ PollLate(a)
    BY <1>1, <1>3 DEF PollPreparing, PollLate, Polling, PollOnly, Holds, Past,
                      Replied, ClickInv
  <1>4. CASE PollReady(a) \/ PollUnknown(a) \/ PollFails(a)
    BY <1>1, <1>4 DEF PollReady, PollUnknown, PollFails, Polling, PollOnly,
                      Goto, Fail, Holds, Past, Replied, ClickTypes
  <1>5. CASE FetchShowData(a) /\ bpc'[a] # "stuck"
    BY <1>1, <1>5 DEF FetchShowData, PollOnly, Goto, Fail, Holds, Past,
                      Replied, ClickTypes
  <1>6. QED
    BY <1>2, <1>3, <1>4, <1>5 DEF Saving

LEMMA PreparingRecord ==
  ASSUME NEW x \in Record, NEW u \in Uid
  PROVE  [x EXCEPT !.id = u, !.status = "PREPARING"]
           = [id |-> u, card |-> x.card, status |-> "PREPARING",
              showData |-> x.showData]
  <1> DEFINE z == [x EXCEPT !.id = u, !.status = "PREPARING"]
  <1>1. z \in Record
    BY DEF Record, Id, Status
  <1>2. /\ z.id = u /\ z.card = x.card
        /\ z.status = "PREPARING" /\ z.showData = x.showData
    BY DEF Record
  <1>3. z = [id |-> z.id, card |-> z.card, status |-> z.status,
             showData |-> z.showData]
    <2> HIDE DEF z
    <2>1. QED
      BY <1>1 DEF Record
  <1>4. QED
    BY <1>2, <1>3

LEMMA SavingSaves ==
  ASSUME TypeInv, NEW a \in Click, Saving(a)
  PROVE  \E r \in Record : SavedAs(a, r)
  <1> DEFINE o == Object(a)
  <1>1. Holds(a)
    BY SavingFrame
  <1>2. o \in Record /\ o.card = asked[a] /\ Good(o) /\ asked[a] \in Card
    BY <1>1, ObjectGood DEF Holds
  <1>3. /\ o = [id |-> o.id, card |-> o.card, status |-> o.status,
                showData |-> o.showData]
        /\ o.id \in Id /\ o.card \in Card /\ o.status \in Status
        /\ o.showData \in Uid \cup {"none"}
    BY <1>2 DEF Record
  <1>4. CASE PrepareSaves(a)
    <2>1. PICK u \in Uid :
            /\ credUid' = [credUid EXCEPT ![a] = u]
            /\ ChangeAndSave(a, [o EXCEPT !.id = u, !.status = "PREPARING"])
      BY <1>4 DEF PrepareSaves
    <2> DEFINE r == [id |-> u, card |-> o.card, status |-> "PREPARING",
                     showData |-> o.showData]
    <2>2. [o EXCEPT !.id = u, !.status = "PREPARING"] = r
      BY <1>2, PreparingRecord
    <2>3. r \in Record
      BY <1>3 DEF Record, Id, Status
    <2>4. asked' = asked /\ credUid'[a] = u
      BY <1>4, <2>1 DEF PrepareSaves, TypeInv, TypeOK
    <2>5. u \in Ids(asked[a])'
      BY <2>4 DEF Ids
    <2>6. SavedAs(a, r)
      BY <1>2, <2>1, <2>2, <2>3, <2>5 DEF SavedAs
    <2>7. QED
      BY <2>3, <2>6
  <1>5. CASE ~PrepareSaves(a)
    <2>1. Past(a) /\ UNCHANGED <<asked, credUid>>
      BY <1>5, SavingFrame DEF Saving, PollPreparing, PollLate, PollReady,
         PollUnknown, PollFails, FetchShowData, PollOnly, Polling, Past,
         Replied, TypeInv, ClickInv
    <2>2. o.id \in Uid /\ o.id \in Ids(asked[a])'
      BY <1>2, <2>1 DEF Good, Ids, TypeInv, ObjInv
    <2>3. o.status # "PENDING"
      BY <1>2, <2>2 DEF Good
    <2> DEFINE with(st, d) == [id |-> o.id, card |-> o.card, status |-> st,
                               showData |-> d]
    <2>4. ASSUME NEW st \in Status, st # "PENDING",
                 NEW d \in Uid \cup {"none"}, ChangeAndSave(a, with(st, d))
          PROVE  \E r \in Record : SavedAs(a, r)
      <3>1. with(st, d) \in Record
        BY <1>3, <2>4 DEF Record
      <3>2. SavedAs(a, with(st, d))
        BY <1>2, <2>2, <2>4, <3>1 DEF SavedAs
      <3>3. QED
        BY <3>1, <3>2
    <2>5. CASE PollPreparing(a) \/ PollLate(a)
      <3>1. ChangeAndSave(a, with(o.status, o.showData))
        BY <1>3, <2>5 DEF PollPreparing, PollLate, Save
      <3>2. QED
        BY <1>3, <2>3, <2>4, <3>1
    <2>6. CASE PollReady(a)
      <3>1. [o EXCEPT !.status = "PREPARED"] = with("PREPARED", o.showData)
        BY <1>2 DEF Record
      <3>2. ChangeAndSave(a, with("PREPARED", o.showData))
        BY <2>6, <3>1 DEF PollReady
      <3>3. QED
        BY <1>3, <2>4, <3>2 DEF Status
    <2>7. CASE Fail(a)
      <3>1. [o EXCEPT !.status = "ERROR"] = with("ERROR", o.showData)
        BY <1>2 DEF Record
      <3>2. ChangeAndSave(a, with("ERROR", o.showData))
        BY <2>7, <3>1 DEF Fail
      <3>3. QED
        BY <1>3, <2>4, <3>2 DEF Status
    <2>8. CASE FetchShowData(a) /\ bpc'[a] # "stuck" /\ ~Fail(a)
      <3>1. [o EXCEPT !.showData = polled[a]] = with(o.status, polled[a])
        BY <1>2 DEF Record
      <3>2. ChangeAndSave(a, with(o.status, polled[a]))
        BY <2>8, <3>1 DEF FetchShowData, Goto, TypeInv, TypeOK
      <3>3. polled[a] \in Uid
        BY <2>8 DEF FetchShowData, TypeInv, ClickInv
      <3>4. QED
        BY <1>3, <2>3, <2>4, <3>2, <3>3
    <2>9. QED
      BY <1>5, <2>5, <2>6, <2>7, <2>8 DEF Saving, PollUnknown, PollFails
  <1>6. QED
    BY <1>4, <1>5

LEMMA SavedGood ==
  ASSUME TypeInv, [Next]_vars, NEW a \in Click, Saving(a), NEW r,
         SavedAs(a, r)
  PROVE  Good(r)'
  <1>1. Holds(a)
    BY SavingFrame
  <1>2. asked[a] \in imported /\ asked' = asked /\ imported' = imported
    BY <1>1, SavingFrame, ObjectGood DEF Holds, TypeInv, ClickInv
  <1>3. r.id \in Ids(asked[a])'
    BY DEF SavedAs
  <1>4. r.id \in Uid /\ r.status # "PENDING" /\ r.card = asked[a]
    BY DEF SavedAs
  <1>5. QED
    BY <1>2, <1>3, <1>4 DEF Good, Ids

(* The steps of the rest, by what they do to objects.                      *)
Quiet(a) == \/ AcceptReturns(a) \/ AcceptThrows(a)
            \/ PrepareFails(a) \/ PrepareRemoves(a)
            \/ CompleteLoad(a) \/ PollSlow(a)
            \/ FetchShowData(a) /\ bpc'[a] = "stuck"

LEMMA ClickSteps ==
  ASSUME NEW a \in Click,
         \/ Accept(a) \/ AcceptReturns(a) \/ AcceptThrows(a)
         \/ Prepare(a) \/ Poll(a) \/ PollFails(a) \/ PollSlow(a) \/ PollLate(a)
  PROVE  Accept(a) \/ HandlePrepare(a) \/ Saving(a) \/ Quiet(a)
  BY DEF Saving, Quiet, Prepare, Poll

LEMMA QuietObj ==
  ASSUME TypeInv, NEW a \in Click, Quiet(a)
  PROVE  /\ UNCHANGED <<obj, own, asked, credUid, imported>>
         /\ listed' \subseteq listed
         /\ \A b \in Click : /\ Holds(b)' => Holds(b)
                             /\ Past(b)' => Past(b)
                             /\ Before(b)' => Before(b)
  <1>1. ClickTypes
    BY DEF TypeInv, TypeOK, ClickTypes
  <1>2. CASE AcceptReturns(a) \/ AcceptThrows(a) \/ PollSlow(a)
    BY <1>2 DEF AcceptReturns, AcceptThrows, PollSlow, PollOnly, Holds, Past,
                Before
  <1>3. CASE PrepareFails(a) \/ PrepareRemoves(a)
    BY <1>1, <1>3 DEF PrepareFails, PrepareRemoves, Goto, Holds, Past, Before,
                      Replied, ClickTypes
  <1>4. CASE CompleteLoad(a)
    BY <1>1, <1>4 DEF CompleteLoad, LoadCreds, Goto, Holds, Past, Before,
                      Replied, ClickTypes
  <1>5. CASE FetchShowData(a) /\ bpc'[a] = "stuck"
    BY <1>1, <1>5 DEF FetchShowData, PollOnly, Goto, Fail, Holds, Past, Before,
                      Replied, ClickTypes
  <1>6. QED
    BY <1>2, <1>3, <1>4, <1>5 DEF Quiet

LEMMA HandlePrepareObj ==
  ASSUME TypeInv, [Next]_vars, NEW a \in Click, HandlePrepare(a)
  PROVE  ObjInv'
  <1>1. /\ ClickTypes /\ ClickInv /\ ObjInv /\ RecInv
        /\ own \in [Click -> Click]
        /\ obj \in [Click -> Record \cup {NoObject}]
        /\ listed \subseteq Click /\ loaded \subseteq Record
        /\ imported \subseteq Card
    BY DEF TypeInv, TypeOK, ClickTypes
  <1>2. bpc[a] = "sent" /\ asked[a] \in Card /\ obj[a] = NoObject
    BY <1>1 DEF HandlePrepare, ClickInv, ObjInv
  <1>3. UNCHANGED <<asked, credUid, imported>>
    BY DEF HandlePrepare
  <1>4. \A b \in Click : b # a => bpc'[b] = bpc[b]
    BY <1>1 DEF HandlePrepare, Goto, ClickTypes
  <1>5. CASE \E b \in listed : /\ obj[b].id = asked[a]
                               /\ own' = [own EXCEPT ![a] = b]
                               /\ Goto(a, "fetch")
                               /\ UNCHANGED <<obj, loaded, listed>>
    <2>1. PICK b \in listed : /\ obj[b].id = asked[a]
                              /\ own' = [own EXCEPT ![a] = b]
      BY <1>5
    <2>2. obj[b] \in Record /\ Good(obj[b])
      BY <1>1 DEF ObjInv
    <2>3. obj[b].card = asked[a]
      BY <1>2, <2>1, <2>2 DEF Good, Ids, Record
    <2>4. bpc'[a] = "fetch" /\ UNCHANGED <<obj, listed>>
      BY <1>1, <1>5 DEF Goto, ClickTypes
    <2>5. \A d \in Click : own'[d] = IF d = a THEN b ELSE own[d]
      BY <1>1, <2>1
    <2>6. \A d \in Click : obj[d] = NoObject \/ Good(obj[d])'
      BY <1>1, <1>3, <2>4 DEF ObjInv, Good, Ids
    <2>7. QED
      BY <1>1, <1>2, <1>3, <1>4, <2>2, <2>3, <2>4, <2>5, <2>6
         DEF ObjInv, Past, Replied, Object
  <1>6. CASE \E r \in loaded : /\ r.id = asked[a]
                               /\ obj' = [obj EXCEPT ![a] = r]
                               /\ listed' = listed \cup {a}
                               /\ Goto(a, "fetch")
                               /\ UNCHANGED own
    <2>1. PICK r \in loaded : r.id = asked[a] /\ obj' = [obj EXCEPT ![a] = r]
      BY <1>6
    <2>2. r \in Record /\ Good(r)
      BY <1>1 DEF RecInv
    <2>3. r.card = asked[a]
      BY <1>2, <2>1, <2>2 DEF Good, Ids, Record
    <2>4. bpc'[a] = "fetch" /\ own' = own /\ listed' = listed \cup {a}
      BY <1>1, <1>6 DEF Goto, ClickTypes
    <2>5. \A d \in Click : obj'[d] = IF d = a THEN r ELSE obj[d]
      BY <1>1, <2>1
    <2>6. \A d \in Click : (obj[d] = NoObject \/ Good(obj[d]))'
      BY <1>1, <1>3, <2>2, <2>5 DEF ObjInv, Good, Ids
    <2>7. r # NoObject
      BY <2>2 DEF Record, NoObject, Id
    <2>8. ASSUME NEW d \in Click, d # a, Holds(d) PROVE own[d] # a
      <3>1. obj[own[d]] \in Record
        BY <1>1, <2>8 DEF ObjInv, Holds, Object
      <3>2. QED
        BY <1>2, <3>1 DEF Record, NoObject, Id
    <2>9. own[a] = a
      BY <1>1, <1>2 DEF ObjInv
    <2>10. QED
      BY <1>1, <1>2, <1>3, <1>4, <2>2, <2>3, <2>4, <2>5, <2>6, <2>7, <2>8, <2>9
         DEF ObjInv, Past, Replied, Object, Holds
  <1>7. CASE Goto(a, "lost") /\ UNCHANGED <<own, obj, loaded, listed>>
    <2>1. bpc'[a] = "lost"
      BY <1>1, <1>7 DEF Goto, ClickTypes
    <2>2. QED
      BY <1>1, <1>3, <1>4, <1>7, <2>1, ObjSame DEF Holds, Past, Before, Replied
  <1>8. QED
    BY <1>5, <1>6, <1>7 DEF HandlePrepare

LEMMA ObjNext == TypeInv /\ [Next]_vars => ObjInv'
  <1> SUFFICES ASSUME TypeInv, [Next]_vars PROVE ObjInv'
    OBVIOUS
  <1>0. ClickTypes /\ ClickInv
    BY DEF TypeInv, TypeOK, ClickTypes
  <1>1. ASSUME NEW a \in Click, Accept(a) PROVE ObjInv'
    <2>1. bpc[a] = "idle" /\ \A b \in Click : bpc'[b] = IF b = a THEN "sent"
                                                         ELSE bpc[b]
      BY <1>0, <1>1 DEF Accept, Goto, ClickTypes
    <2>2. \A b \in Click : b # a => asked'[b] = asked[b]
      BY <1>0, <1>1 DEF Accept, ClickTypes
    <2>3. UNCHANGED <<obj, own, listed>>
      BY <1>1 DEF Accept
    <2>4. QED
      BY <2>1, <2>2, <2>3, ObjSame DEF Holds, Past, Before, Replied
  <1>2. ASSUME NEW a \in Click, HandlePrepare(a) PROVE ObjInv'
    BY <1>2, HandlePrepareObj
  <1>3. ASSUME NEW a \in Click, Saving(a) PROVE ObjInv'
    <2>1. PICK r \in Record : SavedAs(a, r)
      BY <1>3, SavingSaves
    <2>2. Good(r)'
      BY <1>3, <2>1, SavedGood
    <2>3. /\ Holds(a) /\ Past(a)' /\ UNCHANGED <<own, asked, listed>>
          /\ \A b \in Click : b # a => bpc'[b] = bpc[b]
      BY <1>3, SavingFrame
    <2>4. QED
      BY <2>1, <2>2, <2>3, ObjSaved DEF SavedAs
  <1>4. ASSUME NEW a \in Click, Quiet(a) PROVE ObjInv'
    BY <1>4, QuietObj, ObjSame
  <1>5. CASE WorkerStops
    <2>1. \A b \in Click : /\ Holds(b)' => Holds(b)
                           /\ Past(b)' => Past(b)
                           /\ Before(b)' => Before(b)
      BY <1>0, <1>5 DEF WorkerStops, Running, Replied, Holds, Past, Before
    <2>2. UNCHANGED <<obj, own, asked>> /\ listed' \subseteq listed
      BY <1>5 DEF WorkerStops
    <2>3. QED
      BY <2>1, <2>2, ObjSame
  <1>6. CASE \/ \E c \in Card : Import(c)
             \/ InitWallet \/ ClosePopup \/ \E v \in view : Delete(v)
             \/ \E u \in Uid : ShowPrepared(u) \/ HandleRemove(u)
             \/ Reload \/ WorkerStarts \/ Helper \/ UNCHANGED vars
    <2>1. UNCHANGED <<bpc, obj, own, asked>> /\ listed' \subseteq listed
      BY <1>6 DEF Import, InitWallet, ClosePopup, Delete, ShowPrepared,
                  HandleRemove, Reload, WorkerStarts, Helper, LoadCreds, vars
    <2>2. QED
      BY <2>1, ObjSame DEF Holds, Past, Before
  <1>7. QED
    BY <1>1, <1>2, <1>3, <1>4, <1>5, <1>6, ClickSteps DEF Next

LEMMA RecSame ==
  ASSUME TypeInv, [Next]_vars
  PROVE  /\ \A x \in db \cup loaded \cup view : Good(x)'
         /\ \A c \in Card : Ids(c) \subseteq Ids(c)'
  <1>1. ASSUME NEW x \in db \cup loaded \cup view PROVE Good(x)'
    <2>1. x.card \in Card
      BY DEF TypeInv, TypeOK, Record, Element
    <2>2. Good(x)
      BY DEF TypeInv, RecInv
    <2>3. QED
      BY <2>1, <2>2, GoodStays
  <1>2. ASSUME NEW u \in Uid, NEW a \in Click,
               asked[a] \in Card, credUid[a] = u
        PROVE  asked'[a] = asked[a] /\ credUid'[a] = u
    BY <1>2, ClickStays
  <1>3. QED
    BY <1>1, <1>2 DEF Ids

LEMMA RecNext == TypeInv /\ [Next]_vars => RecInv'
  <1> SUFFICES ASSUME TypeInv, [Next]_vars PROVE RecInv'
    OBVIOUS
  <1>0. /\ db \subseteq Record /\ UniqueIds(db) /\ imported \subseteq Card
        /\ \A x \in db \cup loaded \cup view : Good(x)'
        /\ \A v \in view : v.card \in Card /\ v.key \in Ids(v.card)'
    BY RecSame DEF TypeInv, TypeOK, RecInv, Element
  <1>1. ASSUME NEW c \in Card, Import(c) PROVE RecInv'
    <2> DEFINE r == [id |-> c, card |-> c, status |-> "PENDING",
                     showData |-> "none"]
    <2>1. r \in Record /\ addData(r) /\ UNCHANGED <<loaded, view>>
      BY <1>1 DEF Import, Record, Id, Status
    <2>2. Good(r)'
      BY <1>1 DEF Import, Good, Ids
    <2> HIDE DEF r
    <2>3. \A q \in db' : q = r \/ q \in db
      BY <1>0, <2>1, AddType
    <2>4. QED
      BY <1>0, <2>1, <2>2, <2>3 DEF RecInv, Good, Ids
  <1>2. CASE InitWallet
    <2>1. UNCHANGED <<db, loaded>>
      BY <1>2 DEF InitWallet
    <2>2. \A v \in view' : \E r \in db : /\ v.id = r.id /\ v.card = r.card
                                         /\ v.status = r.status
      BY <1>2 DEF InitWallet
    <2>3. \A v \in view' : Good(v)' /\ v.key \in Ids(v.card)'
      BY <1>0, <1>2, <2>2 DEF InitWallet, Good
    <2>4. QED
      BY <1>0, <2>1, <2>3 DEF RecInv, Good, Ids
  <1>3. ASSUME NEW a \in Click, AcceptReturns(a) PROVE RecInv'
    <2> DEFINE r == [id |-> credUid[a], card |-> asked[a],
                     status |-> "PREPARING", showData |-> "none"]
    <2>1. /\ addData(r) /\ UNCHANGED <<loaded, imported, asked, credUid>>
          /\ Past(a)
      BY <1>3 DEF AcceptReturns, Past
    <2>2. credUid[a] \in Uid /\ asked[a] \in imported
      BY <2>1 DEF TypeInv, ClickInv, Past, Replied
    <2>3. r \in Record
      BY <1>0, <2>2 DEF Record, Id, Status
    <2>4. Good(r)'
      BY <2>1, <2>2 DEF Good, Ids
    <2>5. \A q \in db' : q = r \/ q \in db
      <3> HIDE DEF r
      <3>1. QED
        BY <1>0, <2>1, <2>3, AddType
    <2>6. ASSUME NEW w \in view' PROVE Good(w)' /\ w.key \in Ids(w.card)'
      <3>1. CASE w \in view
        BY <1>0, <3>1
      <3>2. CASE w \notin view
        <4>1. PICK v \in view : /\ v.key = asked[a]
                                /\ w = [v EXCEPT !.id = credUid[a],
                                                 !.status = "PREPARING"]
          BY <1>3, <3>2 DEF AcceptReturns
        <4>2. v \in Element /\ Good(v)
          BY DEF TypeInv, TypeOK, RecInv
        <4>3. /\ w.id = credUid[a] /\ w.card = v.card
              /\ w.status = "PREPARING"
          BY <4>1, <4>2 DEF Element
        <4>4. v.card = asked[a]
          BY <1>0, <2>2, <4>1, <4>2 DEF TypeInv, RecInv, Ids, Element
        <4>5. w.key = v.key
          BY <4>1, <4>2 DEF Element
        <4>6. QED
          BY <1>0, <2>1, <2>2, <4>3, <4>4, <4>5 DEF Good, Ids
      <3>3. QED
        BY <3>1, <3>2
    <2>7. QED
      BY <1>0, <2>1, <2>4, <2>5, <2>6 DEF RecInv, Good, Ids
  <1>4. ASSUME NEW u \in Uid, ShowPrepared(u) PROVE RecInv'
    <2>1. UNCHANGED <<db, loaded, imported, asked, credUid>>
      BY <1>4 DEF ShowPrepared
    <2>2. ASSUME NEW w \in view'
          PROVE  \E v \in view : /\ w.id = v.id /\ w.card = v.card
                                 /\ w.key = v.key
                                 /\ \/ w.status = v.status
                                    \/ w.status = "PREPARED" /\ w.id \in Uid
      BY <1>4 DEF ShowPrepared, TypeInv, TypeOK, Element
    <2>3. \A w \in view' : Good(w)' /\ w.key \in Ids(w.card)'
      BY <1>0, <2>2 DEF Good
    <2>4. QED
      BY <1>0, <2>1, <2>3 DEF RecInv, Good, Ids
  <1>5. ASSUME NEW a \in Click, Saving(a) PROVE RecInv'
    <2>1. PICK r \in Record : SavedAs(a, r)
      BY <1>5, SavingSaves
    <2>2. Good(r)'
      BY <1>5, <2>1, SavedGood
    <2>3. \A q \in db' : q = r \/ q \in db
      BY <1>0, <2>1, AddType DEF SavedAs, ChangeAndSave
    <2>4. UNCHANGED <<loaded, view>>
      BY <1>5, SavingFrame
    <2>5. QED
      BY <1>0, <2>2, <2>3, <2>4 DEF RecInv, Good, Ids
  <1>6. CASE \/ ClosePopup \/ \E v \in view : Delete(v)
             \/ \E u \in Uid : HandleRemove(u)
             \/ Reload \/ WorkerStops \/ WorkerStarts \/ Helper
             \/ \E a \in Click : \/ Accept(a) \/ HandlePrepare(a)
                                 \/ Quiet(a) /\ ~AcceptReturns(a)
             \/ UNCHANGED vars
    <2> DEFINE Same == /\ db' \subseteq db /\ loaded' \subseteq db \cup loaded
                       /\ view' \subseteq view
    <2>1. ASSUME NEW a \in Click, Quiet(a), ~AcceptReturns(a) PROVE Same
      <3>1. CASE FetchShowData(a) /\ bpc'[a] = "stuck"
        BY <3>1 DEF FetchShowData, Fail, Goto, PollOnly, TypeInv, TypeOK
      <3>2. CASE \/ AcceptThrows(a) \/ PrepareFails(a) \/ PrepareRemoves(a)
                 \/ CompleteLoad(a) \/ PollSlow(a)
        BY <3>2 DEF AcceptThrows, PrepareFails, PrepareRemoves, CompleteLoad,
             PollSlow, PollOnly, LoadCreds, removeData, Without
      <3>3. QED
        BY <2>1, <3>1, <3>2 DEF Quiet
    <2>2. ASSUME NEW a \in Click, Accept(a) \/ HandlePrepare(a) PROVE Same
      BY <2>2 DEF Accept, HandlePrepare, Without
    <2>3. ASSUME NEW v \in view, Delete(v) PROVE Same
      BY <2>3 DEF Delete, removeData, Without
    <2>4. ASSUME NEW u \in Uid, HandleRemove(u) PROVE Same
      BY <2>4 DEF HandleRemove
    <2>5. ASSUME Reload \/ WorkerStops \/ WorkerStarts PROVE Same
      BY <2>5 DEF Reload, WorkerStops, WorkerStarts, LoadCreds
    <2>6. ASSUME ClosePopup \/ Helper \/ UNCHANGED vars PROVE Same
      BY <2>6 DEF ClosePopup, Helper, vars
    <2>7. Same
      <3> HIDE DEF Same
      <3>1. QED
        BY <1>6, <2>1, <2>2, <2>3, <2>4, <2>5, <2>6
    <2>8. QED
      BY <1>0, <2>7 DEF RecInv, Good, Ids
  <1>7. QED
    BY <1>1, <1>2, <1>3, <1>4, <1>5, <1>6, ClickSteps DEF Next

(* The conjuncts of TypeOK, a group at a time.                             *)
LEMMA DbType ==
  TypeInv /\ [Next]_vars => db' \subseteq Record /\ UniqueIds(db)'
  <1> SUFFICES ASSUME TypeInv, [Next]_vars
               PROVE  db' \subseteq Record /\ UniqueIds(db)'
    OBVIOUS
  <1>0. db \subseteq Record /\ UniqueIds(db) /\ imported \subseteq Card
    BY DEF TypeInv, TypeOK
  <1>1. ASSUME NEW r \in Record, addData(r)
        PROVE  db' \subseteq Record /\ UniqueIds(db)'
    BY <1>0, <1>1, AddType DEF UniqueIds
  <1>2. ASSUME NEW i, removeData(i)
        PROVE  db' \subseteq Record /\ UniqueIds(db)'
    BY <1>0, <1>2, RemoveType DEF UniqueIds
  <1>3. CASE UNCHANGED db
    BY <1>0, <1>3 DEF UniqueIds
  <1>4. ASSUME NEW c \in Card, Import(c)
        PROVE  db' \subseteq Record /\ UniqueIds(db)'
    <2>1. [id |-> c, card |-> c, status |-> "PENDING", showData |-> "none"]
             \in Record
      BY DEF Record, Id, Status
    <2>2. QED
      BY <1>1, <1>4, <2>1 DEF Import
  <1>5. ASSUME NEW a \in Click, AcceptReturns(a)
        PROVE  db' \subseteq Record /\ UniqueIds(db)'
    <2>1. credUid[a] \in Uid /\ asked[a] \in Card
      BY <1>0, <1>5 DEF AcceptReturns, TypeInv, ClickInv, Past, Replied
    <2>2. [id |-> credUid[a], card |-> asked[a], status |-> "PREPARING",
           showData |-> "none"] \in Record
      BY <2>1 DEF Record, Id, Status
    <2>3. QED
      BY <1>1, <1>5, <2>2 DEF AcceptReturns
  <1>6. ASSUME NEW a \in Click, Saving(a)
        PROVE  db' \subseteq Record /\ UniqueIds(db)'
    BY <1>1, <1>6, SavingSaves DEF SavedAs, ChangeAndSave
  <1>7. ASSUME NEW a \in Click, PrepareRemoves(a)
        PROVE  db' \subseteq Record /\ UniqueIds(db)'
    BY <1>2, <1>7 DEF PrepareRemoves
  <1>8. ASSUME NEW v \in view, Delete(v)
        PROVE  db' \subseteq Record /\ UniqueIds(db)'
    BY <1>2, <1>8 DEF Delete
  <1>9. ASSUME NEW a \in Click, FetchShowData(a), bpc'[a] = "stuck"
        PROVE  UNCHANGED db
    BY <1>9 DEF FetchShowData, Fail, Goto, TypeInv, TypeOK
  <1>10. ASSUME NEW a \in Click,
                \/ Accept(a) \/ AcceptThrows(a) \/ HandlePrepare(a)
                \/ PrepareFails(a) \/ CompleteLoad(a) \/ PollSlow(a)
         PROVE  UNCHANGED db
    BY <1>10 DEF Accept, AcceptThrows, HandlePrepare, PrepareFails,
                 CompleteLoad, PollSlow
  <1>11. CASE \/ InitWallet \/ ClosePopup
              \/ \E u \in Uid : ShowPrepared(u) \/ HandleRemove(u)
              \/ Reload \/ WorkerStops \/ WorkerStarts \/ Helper
              \/ UNCHANGED vars
    BY <1>3, <1>11 DEF InitWallet, ClosePopup, ShowPrepared, HandleRemove,
                       Reload, WorkerStops, WorkerStarts, Helper, vars
  <1>12. QED
    BY <1>3, <1>4, <1>5, <1>6, <1>7, <1>8, <1>9, <1>10, <1>11, ClickSteps
       DEF Next, Quiet

LEMMA ObjTypes ==
  TypeInv /\ [Next]_vars =>
    /\ loaded' \subseteq Record /\ UniqueIds(loaded)'
    /\ listed' \subseteq Click
    /\ own' \in [Click -> Click] /\ obj' \in [Click -> Record \cup {NoObject}]
  <1> DEFINE Same == UNCHANGED <<own, obj>>
             Lists == \/ loaded' \subseteq loaded /\ listed' \subseteq Click
                      \/ loaded' = db /\ listed' = {}
  <1> SUFFICES ASSUME TypeInv, [Next]_vars
               PROVE  /\ Lists
                      /\ own' \in [Click -> Click]
                      /\ obj' \in [Click -> Record \cup {NoObject}]
    BY DEF TypeInv, TypeOK, UniqueIds
  <1>0. /\ loaded \subseteq Record /\ listed \subseteq Click
        /\ own \in [Click -> Click]
        /\ obj \in [Click -> Record \cup {NoObject}]
    BY DEF TypeInv, TypeOK
  <1>1. ASSUME NEW a \in Click, HandlePrepare(a)
        PROVE  /\ Lists
               /\ own' \in [Click -> Click]
               /\ obj' \in [Click -> Record \cup {NoObject}]
    BY <1>0, <1>1 DEF HandlePrepare, Without
  <1>2. ASSUME NEW a \in Click, Saving(a)
        PROVE  /\ Lists
               /\ own' \in [Click -> Click]
               /\ obj' \in [Click -> Record \cup {NoObject}]
    BY <1>0, <1>2, SavingSaves, SavingFrame DEF SavedAs, ChangeAndSave
  <1>3. ASSUME Same, Lists
        PROVE  /\ Lists
               /\ own' \in [Click -> Click]
               /\ obj' \in [Click -> Record \cup {NoObject}]
    BY <1>0, <1>3
  <1>4. ASSUME NEW a \in Click, Accept(a) PROVE Same /\ Lists
    BY <1>0, <1>4 DEF Accept
  <1>5. ASSUME NEW a \in Click, Quiet(a) PROVE Same /\ Lists
    BY <1>0, <1>5 DEF Quiet, AcceptReturns, AcceptThrows, PrepareFails,
       PrepareRemoves, CompleteLoad, LoadCreds, PollSlow, FetchShowData, Fail,
       Goto, PollOnly, TypeInv, TypeOK
  <1>6. ASSUME \/ \E c \in Card : Import(c)
               \/ InitWallet \/ ClosePopup \/ \E v \in view : Delete(v)
               \/ \E u \in Uid : ShowPrepared(u) \/ HandleRemove(u)
               \/ Helper \/ UNCHANGED vars
        PROVE  Same /\ Lists
    BY <1>0, <1>6 DEF Import, InitWallet, ClosePopup, Delete, ShowPrepared,
                      HandleRemove, Helper, vars
  <1>7. ASSUME Reload \/ WorkerStops \/ WorkerStarts PROVE Same /\ Lists
    BY <1>0, <1>7 DEF Reload, WorkerStops, WorkerStarts, LoadCreds
  <1>8. QED
    <2> HIDE DEF Same, Lists
    <2>1. QED
      BY <1>1, <1>2, <1>3, <1>4, <1>5, <1>6, <1>7, ClickSteps DEF Next

LEMMA ClickTypesNext == TypeInv /\ [Next]_vars => ClickTypes'
  <1> SUFFICES ASSUME TypeInv, [Next]_vars PROVE ClickTypes'
    OBVIOUS
  <1>0. ClickTypes /\ ClickInv
    BY DEF TypeInv, TypeOK, ClickTypes
  <1> USE DEF Goto, Running, Replied
  <1>1. ASSUME NEW a \in Click, Accept(a) PROVE ClickTypes'
    <2>1. PICK v \in view : asked' = [asked EXCEPT ![a] = v.id]
      BY <1>1 DEF Accept
    <2>2. v.id \in Id
      BY DEF TypeInv, TypeOK, Element
    <2>3. QED
      BY <1>0, <1>1, <2>1, <2>2 DEF Accept, ClickTypes
  <1>2. ASSUME NEW a \in Click, HandlePrepare(a) \/ PrepareFails(a)
        PROVE  ClickTypes'
    BY <1>0, <1>2 DEF HandlePrepare, PrepareFails, ClickTypes
  <1>3. ASSUME NEW a \in Click, AcceptReturns(a) \/ AcceptThrows(a)
        PROVE  ClickTypes'
    BY <1>0, <1>3 DEF AcceptReturns, AcceptThrows, ClickTypes
  <1>4. ASSUME NEW a \in Click, PrepareSaves(a) PROVE ClickTypes'
    BY <1>0, <1>4 DEF PrepareSaves, ClickTypes
  <1>5. ASSUME NEW a \in Click, PrepareRemoves(a) PROVE ClickTypes'
    <2>1. Object(a).id \in Uid
      BY <1>5 DEF PrepareRemoves, TypeInv, ObjInv, Past
    <2>2. QED
      BY <1>0, <1>5, <2>1 DEF PrepareRemoves, ClickTypes
  <1>6. ASSUME NEW a \in Click, PollReady(a) PROVE ClickTypes'
    <2>1. Object(a).id \in Uid
      BY <1>6 DEF PollReady, Polling, TypeInv, ObjInv, Past
    <2>2. QED
      BY <1>0, <1>6, <2>1 DEF PollReady, PollOnly, ClickTypes
  <1>7. ASSUME NEW a \in Click,
               \/ PollPreparing(a) \/ PollUnknown(a) \/ PollFails(a)
               \/ PollSlow(a) \/ PollLate(a)
        PROVE  ClickTypes'
    BY <1>0, <1>7 DEF PollPreparing, PollUnknown, PollFails, PollSlow,
                      PollLate, PollOnly, Fail, ClickTypes
  <1>8. ASSUME NEW a \in Click, CompleteLoad(a) \/ FetchShowData(a)
        PROVE  ClickTypes'
    BY <1>0, <1>8 DEF CompleteLoad, FetchShowData, PollOnly, Fail, ClickTypes
  <1>9. CASE InitWallet \/ ClosePopup \/ WorkerStops
    BY <1>0, <1>9 DEF InitWallet, ClosePopup, WorkerStops, ClickTypes
  <1>10. CASE \/ \E c \in Card : Import(c)
              \/ \E v \in view : Delete(v)
              \/ \E u \in Uid : ShowPrepared(u) \/ HandleRemove(u)
              \/ Reload \/ WorkerStarts \/ Helper \/ UNCHANGED vars
    BY <1>0, <1>10 DEF Import, Delete, ShowPrepared, HandleRemove, Reload,
                       WorkerStarts, Helper, vars, ClickTypes
  <1>11. QED
    BY <1>1, <1>2, <1>3, <1>4, <1>5, <1>6, <1>7, <1>8, <1>9, <1>10
       DEF Next, Prepare, Poll

(* The popup.                                                              *)
LEMMA ViewType ==
  TypeInv /\ [Next]_vars =>
    /\ view' \subseteq Element
    /\ \A v, w \in view' : v.key = w.key => v = w
    /\ linked' \in BOOLEAN
  <1> DEFINE P == /\ view' \subseteq Element
                  /\ \A v, w \in view' : v.key = w.key => v = w
                  /\ linked' \in BOOLEAN
  <1> SUFFICES ASSUME TypeInv, [Next]_vars PROVE P
    OBVIOUS
  <1>0. /\ view \subseteq Element /\ linked \in BOOLEAN
        /\ \A v, w \in view : v.key = w.key => v = w
        /\ db \subseteq Record /\ UniqueIds(db)
    BY DEF TypeInv, TypeOK
  <1>1. CASE InitWallet
    <2>1. ASSUME NEW r \in db
          PROVE  [key |-> r.id, id |-> r.id, card |-> r.card,
                  status |-> r.status] \in Element
      BY <1>0, <2>1 DEF Record, Element
    <2>2. QED
      BY <1>0, <1>1, <2>1 DEF InitWallet, UniqueIds
  <1>2. ASSUME NEW a \in Click, AcceptReturns(a) PROVE P
    <2>1. credUid[a] \in Uid
      BY <1>2 DEF AcceptReturns, TypeInv, ClickInv, Past, Replied
    <2>2. ASSUME NEW v \in view
          PROVE  LET w == [v EXCEPT !.id = credUid[a], !.status = "PREPARING"]
                 IN  w \in Element /\ w.key = v.key
      BY <1>0, <2>1, <2>2 DEF Element, Id, Status
    <2> DEFINE shown(v) ==
          IF v.key = asked[a]
            THEN [v EXCEPT !.id = credUid[a], !.status = "PREPARING"] ELSE v
    <2>3. \A v \in view : shown(v) \in Element /\ shown(v).key = v.key
      BY <1>0, <2>2
    <2>4. view' = view \/ view' = {shown(v) : v \in view}
      BY <1>2 DEF AcceptReturns
    <2>5. linked' = linked
      BY <1>2 DEF AcceptReturns
    <2> HIDE DEF shown
    <2>6. QED
      BY <1>0, <2>3, <2>4, <2>5
  <1>3. ASSUME NEW u \in Uid, ShowPrepared(u) PROVE P
    <2>1. ASSUME NEW v \in view
          PROVE  LET w == [v EXCEPT !.status = "PREPARED"]
                 IN  w \in Element /\ w.key = v.key
      BY <1>0, <2>1 DEF Element, Status
    <2> DEFINE shown(v) ==
          IF v.id = u THEN [v EXCEPT !.status = "PREPARED"] ELSE v
    <2>2. \A v \in view : shown(v) \in Element /\ shown(v).key = v.key
      BY <1>0, <2>1
    <2>3. view' = view \/ view' = {shown(v) : v \in view}
      BY <1>3 DEF ShowPrepared
    <2>4. linked' = linked
      BY <1>3 DEF ShowPrepared
    <2> HIDE DEF shown
    <2>5. QED
      BY <1>0, <2>2, <2>3, <2>4
  <1>4. CASE ClosePopup \/ \E v \in view : Delete(v)
    BY <1>0, <1>4 DEF ClosePopup, Delete
  <1>5. CASE UNCHANGED <<view, linked>>
    BY <1>0, <1>5
  <1>6. ASSUME NEW a \in Click, Saving(a) PROVE UNCHANGED <<view, linked>>
    BY <1>6, SavingFrame
  <1>7. ASSUME NEW a \in Click,
               \/ Accept(a) \/ HandlePrepare(a)
               \/ Quiet(a) /\ ~AcceptReturns(a)
        PROVE  UNCHANGED <<view, linked>>
    BY <1>7 DEF Accept, HandlePrepare, Quiet, AcceptThrows, PrepareFails,
                PrepareRemoves, CompleteLoad, PollSlow, FetchShowData, PollOnly
  <1>8. ASSUME \/ \E c \in Card : Import(c)
               \/ \E u \in Uid : HandleRemove(u)
               \/ Reload \/ WorkerStops \/ WorkerStarts \/ Helper
               \/ UNCHANGED vars
        PROVE  UNCHANGED <<view, linked>>
    BY <1>8 DEF Import, HandleRemove, Reload, WorkerStops, WorkerStarts,
                Helper, vars
  <1>9. QED
    <2> HIDE DEF P
    <2>1. QED
      BY <1>1, <1>2, <1>3, <1>4, <1>5, <1>6, <1>7, <1>8, ClickSteps DEF Next

(* Messages, counters and the history.                                     *)
LEMMA RestTypes ==
  TypeInv /\ [Next]_vars =>
    /\ awake' \in BOOLEAN /\ reloads' \in Nat
    /\ slow' \subseteq Click
    /\ prepared' \subseteq Uid /\ deletes' \subseteq Uid
    /\ imported' \subseteq Card /\ deleted' \subseteq imported'
    /\ settled' \subseteq deleted' /\ seenReady' \subseteq Uid
    /\ stops' \in 0..MaxStops /\ opens' \in 0..MaxOpens
  <1> DEFINE P == /\ awake' \in BOOLEAN /\ reloads' \in Nat
                  /\ slow' \subseteq Click
                  /\ prepared' \subseteq Uid /\ deletes' \subseteq Uid
                  /\ imported' \subseteq Card /\ deleted' \subseteq imported'
                  /\ settled' \subseteq deleted' /\ seenReady' \subseteq Uid
                  /\ stops' \in 0..MaxStops /\ opens' \in 0..MaxOpens
  <1> SUFFICES ASSUME TypeInv, [Next]_vars PROVE P
    OBVIOUS
  <1>0. /\ awake \in BOOLEAN /\ reloads \in Nat /\ slow \subseteq Click
        /\ prepared \subseteq Uid /\ deletes \subseteq Uid
        /\ imported \subseteq Card /\ deleted \subseteq imported
        /\ settled \subseteq deleted /\ seenReady \subseteq Uid
        /\ stops \in 0..MaxStops /\ opens \in 0..MaxOpens
    BY DEF TypeInv, TypeOK
  <1>1. ASSUME NEW c \in Card, Import(c) PROVE P
    BY <1>0, <1>1 DEF Import
  <1>2. CASE InitWallet \/ ClosePopup
    BY <1>0, <1>2 DEF InitWallet, ClosePopup
  <1>3. ASSUME NEW v \in view, Delete(v) PROVE P
    <2>1. v \in Element /\ Good(v)
      BY DEF TypeInv, TypeOK, RecInv
    <2>2. v.status # "PENDING" => v.id \in Uid
      BY <2>1 DEF Good, Element, Id
    <2>3. v.card \in imported
      BY <2>1 DEF Good
    <2>4. /\ deletes' \subseteq deletes \cup {v.id}
          /\ v.status = "PENDING" => deletes' = deletes
          /\ deleted' = deleted \cup {v.card}
          /\ settled' \subseteq settled \cup {v.card}
          /\ UNCHANGED <<awake, reloads, slow, prepared, imported, seenReady,
                         stops, opens>>
      BY <1>3 DEF Delete
    <2>5. QED
      BY <1>0, <2>2, <2>3, <2>4
  <1>4. ASSUME NEW a \in Click, Accept(a) \/ HandlePrepare(a) \/ Quiet(a)
        PROVE  P
    <2>1. CASE Accept(a) \/ HandlePrepare(a)
      BY <1>0, <2>1 DEF Accept, HandlePrepare
    <2>2. CASE AcceptReturns(a) \/ AcceptThrows(a) \/ PrepareFails(a)
               \/ PrepareRemoves(a)
      <3>1. /\ reloads' \in {reloads, reloads + 1}
            /\ UNCHANGED <<awake, slow, prepared, deletes, imported, deleted,
                           settled, seenReady, stops, opens>>
        BY <2>2 DEF AcceptReturns, AcceptThrows, PrepareFails, PrepareRemoves
      <3>2. QED
        BY <1>0, <3>1
    <2>3. CASE CompleteLoad(a)
      BY <1>0, <2>3 DEF CompleteLoad, TypeInv, ClickInv
    <2>4. CASE PollSlow(a) \/ FetchShowData(a)
      BY <1>0, <2>4 DEF PollSlow, FetchShowData, PollOnly
    <2>5. QED
      BY <1>4, <2>1, <2>2, <2>3, <2>4 DEF Quiet
  <1>5. ASSUME NEW a \in Click, Saving(a) PROVE P
    <2>1. UNCHANGED <<awake, reloads, opens, deletes, imported, deleted,
                      settled, stops>>
      BY <1>5, SavingFrame
    <2>2. slow' \subseteq slow /\ prepared' = prepared
      BY <1>5 DEF Saving, PrepareSaves, PollPreparing, PollReady, PollUnknown,
                  PollFails, PollLate, FetchShowData
    <2>3. seenReady' \subseteq Uid
      <3>1. CASE PollReady(a)
        <4>1. polled[a] \in Uid
          BY <3>1 DEF PollReady, Polling, TypeInv, ClickInv
        <4>2. seenReady' \subseteq seenReady \cup {polled[a]}
          BY <3>1 DEF PollReady
        <4>3. QED
          BY <1>0, <4>1, <4>2
      <3>2. CASE ~PollReady(a)
        BY <1>0, <1>5, <3>2 DEF Saving, PrepareSaves, PollPreparing,
           PollUnknown, PollFails, PollLate, FetchShowData
      <3>3. QED
        BY <3>1, <3>2
    <2>4. QED
      BY <1>0, <2>1, <2>2, <2>3
  <1>6. ASSUME NEW u \in Uid, ShowPrepared(u) \/ HandleRemove(u) PROVE P
    BY <1>0, <1>6 DEF ShowPrepared, HandleRemove
  <1>7. CASE Reload \/ WorkerStops \/ WorkerStarts \/ Helper \/ UNCHANGED vars
    <2>1. CASE Reload
      BY <1>0, <2>1 DEF Reload
    <2>2. CASE WorkerStops
      <3>1. /\ stops < MaxStops /\ stops' = stops + 1
            /\ awake' = FALSE /\ slow' = {}
            /\ UNCHANGED <<reloads, prepared, deletes, imported, deleted,
                           settled, seenReady, opens>>
        BY <2>2 DEF WorkerStops
      <3>2. stops' \in 0..MaxStops
        BY <1>0, <3>1
      <3>3. QED
        BY <1>0, <3>1, <3>2, Zenon
    <2>3. CASE WorkerStarts \/ Helper \/ UNCHANGED vars
      BY <1>0, <2>3 DEF WorkerStarts, Helper, vars
    <2>4. QED
      BY <1>7, <2>1, <2>2, <2>3
  <1>8. QED
    <2> HIDE DEF P
    <2>1. QED
      BY <1>1, <1>2, <1>3, <1>4, <1>5, <1>6, <1>7, ClickSteps DEF Next

LEMMA HelperType == TypeInv /\ [Next]_vars => HS!TypeOK'
  <1> SUFFICES ASSUME TypeInv, [Next]_vars PROVE HS!TypeOK'
    OBVIOUS
  <1>0. HS!TypeOK
    BY DEF TypeInv, TypeOK
  <1>1. ASSUME NEW u \in Uid, HS!Begin(u) \/ HS!End(u) \/ HS!Forget(u)
        PROVE  HS!TypeOK'
    BY <1>0, <1>1 DEF HS!Begin, HS!End, HS!Forget, HS!TypeOK, HS!Statuses,
                      HS!Phases
  <1>2. CASE HS!Crash
    BY <1>0, <1>2 DEF HS!Crash, HS!TypeOK, HS!Statuses
  <1>3. CASE UNCHANGED helperVars
    BY <1>0, <1>3 DEF HS!TypeOK
  <1>4. ASSUME NEW a \in Click, PrepareSaves(a) PROVE HS!TypeOK'
    BY <1>1, <1>4 DEF PrepareSaves
  <1>5. ASSUME NEW u \in Uid, HandleRemove(u) PROVE HS!TypeOK'
    BY <1>1, <1>3, <1>5 DEF HandleRemove
  <1>6. CASE Helper
    BY <1>1, <1>2, <1>6 DEF Helper
  <1>7. ASSUME NEW a \in Click,
               \/ Accept(a) \/ AcceptReturns(a) \/ AcceptThrows(a)
               \/ HandlePrepare(a) \/ PrepareFails(a) \/ PrepareRemoves(a)
               \/ CompleteLoad(a) \/ FetchShowData(a)
               \/ Poll(a) \/ PollFails(a) \/ PollSlow(a) \/ PollLate(a)
        PROVE  UNCHANGED helperVars
    BY <1>7 DEF Accept, AcceptReturns, AcceptThrows, HandlePrepare,
                PrepareFails, PrepareRemoves, CompleteLoad, FetchShowData,
                Poll, PollPreparing, PollReady, PollUnknown, PollFails,
                PollSlow, PollLate, PollOnly
  <1>8. CASE \/ \E c \in Card : Import(c)
             \/ InitWallet \/ ClosePopup \/ \E v \in view : Delete(v)
             \/ \E u \in Uid : ShowPrepared(u)
             \/ Reload \/ WorkerStops \/ WorkerStarts \/ UNCHANGED vars
    BY <1>3, <1>8 DEF Import, InitWallet, ClosePopup, Delete, ShowPrepared,
                      Reload, WorkerStops, WorkerStarts, vars
  <1>9. QED
    BY <1>3, <1>4, <1>5, <1>6, <1>7, <1>8 DEF Next, Prepare

LEMMA TypeNext == TypeInv /\ [Next]_vars => TypeInv'
  <1> SUFFICES ASSUME TypeInv, [Next]_vars PROVE TypeInv'
    OBVIOUS
  <1>1. ClickInv' /\ UidInv' /\ ObjInv' /\ RecInv'
    BY ClickNext, UidNext, ObjNext, RecNext
  <1>2. \A a \in Click : bpc'[a] \in Running \ {"sent"} =>
          obj'[own'[a]] \in Record
    BY <1>1 DEF ObjInv, Object, Past, Replied, Running
  <1>3. ClickTypes' /\ HS!TypeOK'
    BY ClickTypesNext, HelperType
  <1>4. TypeOK'
    BY <1>2, <1>3, DbType, ObjTypes, ViewType, RestTypes DEF TypeOK, ClickTypes
  <1>5. QED
    BY <1>1, <1>4 DEF TypeInv

(* Every variable keeps its type, and a preparation that goes on has the   *)
(* object of its card.                                                     *)
THEOREM TypeCorrect == Spec => []TypeOK
  <1>1. TypeInv => TypeOK
    BY DEF TypeInv
  <1>2. QED
    BY <1>1, TypeInit, TypeNext, PTL DEF Spec

-------------------------------------------------------------------------------
(***************************************************************************)
(* No card is lost                                                         *)
(***************************************************************************)

(* A save may replace a record, but then by one of the same card.          *)
LEMMA AddKeeps ==
  ASSUME TypeInv, [Next]_vars, NEW r \in Record, addData(r), Good(r)'
  PROVE  \A q \in db : \E p \in db' : p.card = q.card /\ p.id = q.id
  <1> SUFFICES ASSUME NEW q \in db
               PROVE  \E p \in db' : p.card = q.card /\ p.id = q.id
    OBVIOUS
  <1>0. db \subseteq Record /\ UniqueIds(db)
    BY DEF TypeInv, TypeOK
  <1>1. r \in db' /\ (q.id # r.id => q \in db')
    BY <1>0, AddType
  <1>2. ASSUME q.id = r.id PROVE q.card = r.card
    <2>1. Good(q)' /\ UidInv'
      BY RecSame, UidNext
    <2>2. q.card \in Card /\ r.card \in Card
      BY <1>0 DEF Record
    <2>3. q.id \in Ids(q.card)' /\ q.id \in Ids(r.card)'
      BY <1>2, <2>1 DEF Good
    <2>4. QED
      BY <2>1, <2>2, <2>3 DEF Ids, UidInv
  <1>3. QED
    BY <1>1, <1>2

LEMMA SaveNext ==
  TypeInv /\ CardNotLost /\ SaveInv /\ [Next]_vars => CardNotLost' /\ SaveInv'
  <1> SUFFICES ASSUME TypeInv, CardNotLost, SaveInv, [Next]_vars
               PROVE  CardNotLost' /\ SaveInv'
    OBVIOUS
  <1> DEFINE Kept == \A q \in db : \E p \in db' :
                        p.card = q.card /\ p.id = q.id
             Clicks == \A a \in Click : bpc'[a] = "remove" =>
                         /\ bpc[a] = "remove"
                         /\ asked'[a] = asked[a] /\ credUid'[a] = credUid[a]
  <1>0. /\ ClickTypes /\ ClickInv /\ ObjInv /\ imported \subseteq Card
        /\ db \subseteq Record /\ UniqueIds(db)
    BY DEF TypeInv, TypeOK, ClickTypes
  <1>1. ASSUME Kept, Clicks, UNCHANGED <<imported, deleted>>
        PROVE  CardNotLost' /\ SaveInv'
    BY <1>1 DEF CardNotLost, SaveInv
  <1>2. ASSUME NEW c \in Card, Import(c) PROVE CardNotLost' /\ SaveInv'
    <2> DEFINE r == [id |-> c, card |-> c, status |-> "PENDING",
                     showData |-> "none"]
    <2>1. r \in Record /\ addData(r) /\ r.card = c
      BY <1>2 DEF Import, Record, Id, Status
    <2>2. Good(r)'
      BY <1>2 DEF Import, Good, Ids
    <2> HIDE DEF r
    <2>3. Kept /\ r \in db'
      BY <1>0, <2>1, <2>2, AddKeeps, AddType
    <2>4. /\ imported' = imported \cup {c}
          /\ UNCHANGED <<deleted, bpc, asked, credUid>>
      BY <1>2 DEF Import
    <2>5. QED
      BY <2>1, <2>3, <2>4 DEF CardNotLost, SaveInv
  <1>3. ASSUME NEW a \in Click, AcceptReturns(a)
        PROVE  CardNotLost' /\ SaveInv'
    <2> DEFINE r == [id |-> credUid[a], card |-> asked[a],
                     status |-> "PREPARING", showData |-> "none"]
    <2>1. /\ addData(r)
          /\ UNCHANGED <<imported, deleted, bpc, asked, credUid>>
          /\ Past(a)
      BY <1>3 DEF AcceptReturns, Past
    <2>2. credUid[a] \in Uid /\ asked[a] \in imported
      BY <1>0, <2>1 DEF ClickInv, Past, Replied
    <2>3. r \in Record
      BY <1>0, <2>2 DEF Record, Id, Status
    <2>4. PICK x : x = r
      OBVIOUS
    <2>5. Good(x)'
      BY <2>1, <2>2, <2>4 DEF Good, Ids
    <2>6. Kept
      <3>1. x \in Record /\ addData(x)
        BY <2>1, <2>3, <2>4
      <3>2. QED
        BY <2>5, <3>1, AddKeeps
    <2>7. QED
      BY <1>1, <2>1, <2>6
  <1>4. ASSUME NEW a \in Click, Saving(a) PROVE CardNotLost' /\ SaveInv'
    <2>1. PICK r \in Record : SavedAs(a, r)
      BY <1>4, SavingSaves
    <2>2. Kept /\ r \in db'
      BY <1>0, <1>4, <2>1, SavedGood, AddKeeps, AddType
         DEF SavedAs, ChangeAndSave
    <2>3. /\ UNCHANGED <<imported, deleted, asked>>
          /\ \A b \in Click : b # a => bpc'[b] = bpc[b]
      BY <1>4, SavingFrame
    <2>4. CASE PrepareSaves(a)
      <3>1. PICK u \in Uid :
              /\ credUid' = [credUid EXCEPT ![a] = u]
              /\ ChangeAndSave(a, [Object(a) EXCEPT !.id = u,
                                                    !.status = "PREPARING"])
        BY <2>4 DEF PrepareSaves
      <3>2. Object(a) \in Record /\ Object(a).card = asked[a]
        BY <2>4, ObjectGood DEF PrepareSaves
      <3> DEFINE o == [Object(a) EXCEPT !.id = u, !.status = "PREPARING"]
      <3>3. o.id = u /\ o.card = asked[a]
        BY <3>2 DEF Record
      <3>4. o \in db'
        BY <3>1 DEF ChangeAndSave, addData
      <3>5. /\ credUid'[a] = u
            /\ \A b \in Click : b # a => credUid'[b] = credUid[b]
        BY <1>0, <3>1 DEF ClickTypes
      <3>6. CardNotLost'
        BY <2>2, <2>3 DEF CardNotLost
      <3>7. \A b \in Click :
              b # a /\ bpc[b] = "remove" /\ asked[b] \notin deleted
              => \E p \in db' : p.card = asked[b] /\ p.id = credUid[b]
        BY <2>2 DEF SaveInv
      <3> HIDE DEF o
      <3>8. SaveInv'
        BY <2>3, <3>3, <3>4, <3>5, <3>7 DEF SaveInv
      <3>9. QED
        BY <3>6, <3>8
    <2>5. CASE ~PrepareSaves(a)
      <3>1. credUid' = credUid
        BY <1>4, <2>5 DEF Saving, PollPreparing, PollReady, PollUnknown,
           PollFails, PollLate, FetchShowData, PollOnly
      <3>2. bpc'[a] = "remove" => bpc[a] = "remove"
        BY <1>0, <1>4, <2>5 DEF Saving, PollPreparing, PollReady, PollUnknown,
           PollFails, PollLate, FetchShowData, Fail, Goto, ClickTypes
      <3>3. QED
        BY <1>1, <2>2, <2>3, <3>1, <3>2
    <2>6. QED
      BY <2>4, <2>5
  <1>5. ASSUME NEW a \in Click, PrepareRemoves(a)
        PROVE  CardNotLost' /\ SaveInv'
    <2>1. /\ bpc[a] = "remove" /\ bpc'[a] = "poll"
          /\ UNCHANGED <<imported, deleted, asked, credUid>>
          /\ \A b \in Click : b # a => bpc'[b] = bpc[b]
      BY <1>0, <1>5 DEF PrepareRemoves, Goto, ClickTypes
    <2>2. asked[a] \in Card
      BY <2>1, ObjectGood DEF Past
    <2>3. db' = {q \in db : q.id # asked[a]}
      BY <1>0, <1>5, RemoveType DEF PrepareRemoves
    <2>4. ASSUME NEW q \in db, q \notin db' PROVE q.card = asked[a]
      BY <1>0, <2>2, <2>3, <2>4 DEF TypeInv, RecInv, Good, Ids
    <2>5. \A q \in db : q.id \in Uid => q \in db'
      BY <2>2, <2>3
    <2>6. \A b \in Click : Past(b) => credUid[b] \in Uid
      BY <1>0 DEF ClickInv
    <2>7. SaveInv'
      BY <2>1, <2>5, <2>6 DEF SaveInv, Past
    <2>8. asked[a] \notin deleted => \E q \in db' : q.card = asked[a]
      BY <2>1, <2>5, <2>6 DEF SaveInv, Past
    <2>9. CardNotLost'
      BY <2>1, <2>4, <2>8 DEF CardNotLost
    <2>10. QED
      BY <2>7, <2>9
  <1>6. ASSUME NEW v \in view, Delete(v) PROVE CardNotLost' /\ SaveInv'
    <2>1. /\ deleted' = deleted \cup {v.card} /\ db' = {q \in db : q.id # v.id}
          /\ UNCHANGED <<imported, bpc, asked, credUid>>
      BY <1>6 DEF Delete, ShownId, removeData, Without
    <2>2. v.card \in Card /\ v.id \in Ids(v.card)
      BY DEF TypeInv, TypeOK, RecInv, Good, Element
    <2>3. ASSUME NEW q \in db, q \notin db' PROVE q.card = v.card
      <3>1. q.card \in Card /\ q.id \in Ids(q.card) /\ q.id = v.id
        BY <1>0, <2>1, <2>3 DEF TypeInv, RecInv, Good, Record
      <3>2. QED
        BY <2>2, <3>1, IdsDisjoint
    <2>4. QED
      BY <2>1, <2>3 DEF CardNotLost, SaveInv
  <1>7. ASSUME db' = db, Clicks, UNCHANGED <<imported, deleted>>
        PROVE  CardNotLost' /\ SaveInv'
    <2>1. Kept
      BY <1>7
    <2>2. QED
      BY <1>1, <1>7, <2>1
  <1>8. ASSUME NEW a \in Click,
               \/ Accept(a) \/ HandlePrepare(a)
               \/ Quiet(a) /\ ~AcceptReturns(a) /\ ~PrepareRemoves(a)
        PROVE  /\ db' = db /\ UNCHANGED <<imported, deleted>>
               /\ Clicks
    <2>1. CASE Accept(a)
      BY <1>0, <2>1 DEF Accept, Goto, ClickTypes
    <2>2. CASE HandlePrepare(a) \/ PrepareFails(a)
      BY <1>0, <2>2 DEF HandlePrepare, PrepareFails, Goto, ClickTypes
    <2>3. CASE AcceptThrows(a)
      BY <2>3 DEF AcceptThrows
    <2>4. CASE CompleteLoad(a)
      BY <1>0, <2>4 DEF CompleteLoad, Goto, ClickTypes
    <2>5. CASE PollSlow(a)
      BY <2>5 DEF PollSlow, PollOnly
    <2>6. CASE FetchShowData(a) /\ bpc'[a] = "stuck"
      BY <1>0, <2>6 DEF FetchShowData, Fail, Goto, PollOnly, ClickTypes
    <2>7. QED
      <3> HIDE DEF Clicks
      <3>1. QED
        BY <1>8, <2>1, <2>2, <2>3, <2>4, <2>5, <2>6 DEF Quiet
  <1>9. CASE WorkerStops
    <2>1. db' = db /\ UNCHANGED <<imported, deleted, asked, credUid>>
      BY <1>9 DEF WorkerStops
    <2>2. \A a \in Click : bpc'[a] # "remove"
      BY <1>0, <1>9 DEF WorkerStops, ClickTypes, Running, Replied
    <2>3. QED
      BY <1>7, <2>1, <2>2
  <1>10. CASE \/ InitWallet \/ ClosePopup
              \/ \E u \in Uid : ShowPrepared(u) \/ HandleRemove(u)
              \/ Reload \/ WorkerStarts \/ Helper \/ UNCHANGED vars
    <2>1. UNCHANGED <<db, bpc, asked, credUid, imported, deleted>>
      BY <1>10 DEF InitWallet, ClosePopup, ShowPrepared, HandleRemove, Reload,
                   WorkerStarts, Helper, vars
    <2>2. QED
      BY <1>7, <2>1
  <1>11. QED
    <2> HIDE DEF Clicks
    <2>1. QED
      BY <1>2, <1>3, <1>4, <1>5, <1>6, <1>7, <1>8, <1>9, <1>10, ClickSteps
         DEF Next

(* A card that is not deleted has a record at all times, however saves and *)
(* removals of the two contexts and stops of the worker interleave: the    *)
(* new record is there before the old one goes (handlePrepare).            *)
THEOREM CardNotLostCorrect == Spec => []CardNotLost
  <1>1. Init => CardNotLost /\ SaveInv
    BY DEF Init, CardNotLost, SaveInv
  <1>2. QED
    BY <1>1, TypeInit, TypeNext, SaveNext, PTL DEF Spec

-------------------------------------------------------------------------------
(***************************************************************************)
(* What is deleted at rest stays gone                                      *)
(***************************************************************************)

(* A click comes to life only by the click.                                *)
LEMMA LiveStays ==
  ASSUME TypeInv, [Next]_vars, NEW b \in Click, bpc[b] # "idle", Live(b)'
  PROVE  Live(b)
  <1>0. ClickTypes /\ ClickInv
    BY DEF TypeInv, TypeOK, ClickTypes
  <1> USE DEF Live, Waiting, Goto, Running, Replied
  <1>1. CASE UNCHANGED <<bpc, slow, wpc>>
    BY <1>1
  <1>2. ASSUME NEW a \in Click, Accept(a) PROVE Live(b)
    BY <1>0, <1>2 DEF Accept, ClickTypes
  <1>3. ASSUME NEW a \in Click, AcceptReturns(a) \/ AcceptThrows(a)
        PROVE  Live(b)
    BY <1>0, <1>3 DEF AcceptReturns, AcceptThrows, ClickTypes
  <1>4. ASSUME NEW a \in Click, HandlePrepare(a) \/ PrepareFails(a)
        PROVE  Live(b)
    BY <1>0, <1>4 DEF HandlePrepare, PrepareFails, ClickTypes
  <1>5. ASSUME NEW a \in Click,
               \/ PrepareRemoves(a) \/ CompleteLoad(a) \/ PollSlow(a)
               \/ FetchShowData(a)
        PROVE  Live(b)
    BY <1>0, <1>5 DEF PrepareRemoves, CompleteLoad, PollSlow, FetchShowData,
                      Polling, PollOnly, Fail, ClickTypes
  <1>6. ASSUME NEW a \in Click,
               \/ PrepareSaves(a) \/ PollPreparing(a) \/ PollReady(a)
               \/ PollUnknown(a) \/ PollFails(a) \/ PollLate(a)
        PROVE  Live(b)
    BY <1>0, <1>6 DEF PrepareSaves, PollPreparing, PollReady, PollUnknown,
                      PollFails, PollLate, Polling, PollOnly, Fail, ClickTypes
  <1>7. CASE InitWallet \/ ClosePopup
    BY <1>0, <1>7 DEF InitWallet, ClosePopup, ClickTypes
  <1>8. CASE WorkerStops
    BY <1>0, <1>8 DEF WorkerStops, ClickTypes
  <1>9. CASE \/ \E c \in Card : Import(c)
             \/ \E v \in view : Delete(v)
             \/ \E u \in Uid : ShowPrepared(u) \/ HandleRemove(u)
             \/ Reload \/ WorkerStarts \/ Helper \/ UNCHANGED vars
    BY <1>1, <1>9 DEF Import, Delete, ShowPrepared, HandleRemove, Reload,
                      WorkerStarts, Helper, vars
  <1>10. QED
    BY <1>2, <1>3, <1>4, <1>5, <1>6, <1>7, <1>8, <1>9 DEF Next, Prepare, Poll

(* What saves is alive.                                                    *)
LEMMA SaverLives ==
  ASSUME TypeInv, NEW a \in Click, Saving(a) \/ AcceptReturns(a)
  PROVE  Live(a) /\ asked[a] \in Card
  <1>1. Live(a)
    BY DEF Saving, AcceptReturns, PrepareSaves, PollPreparing, PollReady,
           PollUnknown, PollFails, PollLate, FetchShowData, Polling, Live,
           Running
  <1>2. Saving(a) => asked[a] \in Card
    BY SavingFrame, ObjectGood DEF Holds
  <1>3. AcceptReturns(a) => asked[a] \in Card
    BY ObjectGood DEF AcceptReturns, Past
  <1>4. QED
    BY <1>1, <1>2, <1>3

LEMMA SettledNext == TypeInv /\ SettledInv /\ [Next]_vars => SettledInv'
  <1> SUFFICES ASSUME TypeInv, SettledInv, [Next]_vars PROVE SettledInv'
    OBVIOUS
  <1>0. /\ ClickTypes /\ ClickInv /\ imported \subseteq Card
        /\ db \subseteq Record /\ UniqueIds(db) /\ view \subseteq Element
        /\ settled \subseteq imported
    BY DEF TypeInv, TypeOK, ClickTypes
  <1> DEFINE Gone(c) == /\ \A r \in db' \cup view' : r.card # c
                        /\ \A a \in Click : asked'[a] = c => ~Live(a)'
             CardsStay == \A x \in db' \cup view' :
                            \E y \in db \cup view : x.card = y.card
  <1>1. ASSUME NEW c \in settled,
               \A a \in Click : bpc[a] = "idle" => ~Live(a)' \/ asked'[a] # c
        PROVE  \A a \in Click : asked'[a] = c => ~Live(a)'
    <2> SUFFICES ASSUME NEW a \in Click, asked'[a] = c, Live(a)'
                 PROVE  FALSE
      OBVIOUS
    <2>1. bpc[a] # "idle"
      BY <1>1
    <2>2. asked[a] = c
      BY <1>0, <2>1, ClickStays DEF ClickInv
    <2>3. Live(a)
      BY <2>1, LiveStays
    <2>4. QED
      BY <2>2, <2>3 DEF SettledInv
  <1>2. ASSUME CardsStay, settled' = settled, bpc' = bpc,
               UNCHANGED <<slow, asked>>
        PROVE  SettledInv'
    <2>1. ASSUME NEW a \in Click, bpc[a] = "idle" PROVE ~Live(a)'
      BY <1>0, <1>2, <2>1 DEF ClickInv, Live, Waiting, Running, Replied
    <2>2. QED
      BY <1>1, <1>2, <2>1 DEF SettledInv
  <1>3. ASSUME CardsStay, settled' = settled,
               NEW a \in Click, bpc[a] # "idle", asked' = asked,
               \A b \in Click : b # a => bpc'[b] = bpc[b],
               slow' \subseteq slow \cup {a}
        PROVE  SettledInv'
    <2>1. ASSUME NEW b \in Click, bpc[b] = "idle" PROVE ~Live(b)'
      BY <1>0, <1>3, <2>1 DEF ClickInv, Live, Waiting, Running, Replied
    <2>2. QED
      BY <1>1, <1>3, <2>1 DEF SettledInv
  <1>4. ASSUME NEW c \in Card, Import(c) PROVE SettledInv'
    <2>1. c \notin settled
      BY <1>0, <1>4 DEF Import
    <2>2. UNCHANGED <<bpc, asked, wpc, slow, settled, view>>
      BY <1>4 DEF Import
    <2>3. \A r \in db' : r.card = c \/ r \in db
      BY <1>4 DEF Import, addData, Without
    <2>4. QED
      BY <2>1, <2>2, <2>3 DEF SettledInv, Live, Waiting
  <1>5. ASSUME NEW a \in Click, Accept(a) PROVE SettledInv'
    <2>1. PICK v \in view : /\ v.status = "PENDING"
                            /\ asked' = [asked EXCEPT ![a] = v.id]
      BY <1>5 DEF Accept
    <2>2. Good(v) /\ v.card \in Card
      BY <1>0 DEF TypeInv, RecInv, Element
    <2>3. v.id = v.card
      BY <2>1, <2>2 DEF Good, Ids
    <2>4. v.card \notin settled
      BY DEF SettledInv
    <2>5. /\ UNCHANGED <<db, view, settled, slow>>
          /\ asked'[a] = v.card
          /\ \A b \in Click : b # a => bpc'[b] = bpc[b]
      BY <1>0, <1>5, <2>1, <2>3 DEF Accept, Goto, ClickTypes
    <2>6. ASSUME NEW b \in Click, b # a, bpc[b] = "idle" PROVE ~Live(b)'
      BY <1>0, <2>5, <2>6 DEF ClickInv, Live, Running, Replied
    <2>7. QED
      BY <1>1, <2>4, <2>5, <2>6 DEF SettledInv
  <1>6. ASSUME NEW a \in Click, Saving(a) PROVE SettledInv'
    <2>1. PICK r \in Record : SavedAs(a, r)
      BY <1>6, SavingSaves
    <2>2. asked[a] \notin settled
      BY <1>6, SaverLives DEF SettledInv
    <2>3. \A q \in db' : q.card = asked[a] \/ q \in db
      BY <1>0, <2>1, AddType DEF SavedAs, ChangeAndSave
    <2>4. /\ Holds(a) /\ UNCHANGED <<view, settled, asked>>
          /\ \A b \in Click : b # a => bpc'[b] = bpc[b]
      BY <1>6, SavingFrame
    <2>5. slow' \subseteq slow
      BY <1>6 DEF Saving, PrepareSaves, PollPreparing, PollReady, PollUnknown,
                  PollFails, PollLate, FetchShowData
    <2>6. ASSUME NEW b \in Click, bpc[b] = "idle" PROVE ~Live(b)'
      BY <1>0, <2>4, <2>5, <2>6
         DEF ClickInv, Live, Running, Replied, Holds, Past
    <2>7. QED
      BY <1>1, <2>2, <2>3, <2>4, <2>6 DEF SettledInv
  <1>7. ASSUME NEW a \in Click, AcceptReturns(a) PROVE SettledInv'
    <2>1. asked[a] \notin settled
      BY <1>7, SaverLives DEF SettledInv
    <2>2. \A q \in db' : q.card = asked[a] \/ q \in db
      <3>1. addData([id |-> credUid[a], card |-> asked[a],
                     status |-> "PREPARING", showData |-> "none"])
        BY <1>7 DEF AcceptReturns
      <3>2. QED
        BY <3>1 DEF addData, Without
    <2>3. \A w \in view' : \E v \in view : w.card = v.card
      BY <1>0, <1>7 DEF AcceptReturns, Element
    <2>4. UNCHANGED <<bpc, slow, settled, asked>>
      BY <1>7 DEF AcceptReturns
    <2>5. ASSUME NEW b \in Click, bpc[b] = "idle" PROVE ~Live(b)'
      BY <1>0, <2>4, <2>5 DEF ClickInv, Live, Running, Replied
    <2>6. QED
      BY <1>1, <2>1, <2>2, <2>3, <2>4, <2>5 DEF SettledInv
  <1>8. ASSUME NEW v \in view, Delete(v) PROVE SettledInv'
    <2>1. /\ view' = view \ {v} /\ db' = {q \in db : q.id # v.id}
          /\ UNCHANGED <<bpc, wpc, slow, asked>>
      BY <1>8 DEF Delete, ShownId, removeData, Without
    <2>2. ASSUME NEW c \in settled PROVE Gone(c)
      BY <2>1, <2>2 DEF SettledInv, Live, Waiting
    <2>3. ASSUME v.card \in settled', v.card \notin settled
          PROVE  Gone(v.card)
      <3>1. /\ \A a \in Click : ~(Live(a) /\ asked[a] = v.card)
            /\ \A r \in db \cup (view \ {v}) :
                  r.card = v.card => r \in db /\ r.id = v.id
        BY <1>8, <2>3 DEF Delete
      <3>2. \A w \in view : w \notin db
        BY <1>0 DEF Record, Element
      <3>3. QED
        BY <2>1, <3>1, <3>2 DEF Live, Waiting
    <2>4. settled' \subseteq settled \cup {v.card}
      BY <1>8 DEF Delete
    <2>5. QED
      BY <2>2, <2>3, <2>4 DEF SettledInv
  <1>9. ASSUME NEW a \in Click,
               \/ HandlePrepare(a)
               \/ Quiet(a) /\ ~AcceptReturns(a)
        PROVE  SettledInv'
    <2>1. CASE HandlePrepare(a) \/ PrepareFails(a)
      BY <1>0, <1>3, <2>1 DEF HandlePrepare, PrepareFails, Goto, ClickTypes
    <2>2. CASE AcceptThrows(a)
      BY <1>2, <2>2 DEF AcceptThrows
    <2>3. CASE PrepareRemoves(a)
      BY <1>0, <1>3, <2>3 DEF PrepareRemoves, removeData, Without, Goto,
                              ClickTypes
    <2>4. CASE CompleteLoad(a)
      BY <1>0, <1>3, <2>4 DEF CompleteLoad, Goto, ClickTypes
    <2>5. CASE PollSlow(a)
      BY <1>0, <1>3, <2>5 DEF PollSlow, Polling, PollOnly
    <2>6. CASE FetchShowData(a) /\ bpc'[a] = "stuck"
      BY <1>0, <1>3, <2>6 DEF FetchShowData, Fail, Goto, PollOnly, ClickTypes
    <2>7. QED
      BY <1>9, <2>1, <2>2, <2>3, <2>4, <2>5, <2>6 DEF Quiet
  <1>10. CASE WorkerStops
    <2>1. UNCHANGED <<db, view, settled, asked, wpc>> /\ slow' = {}
      BY <1>10 DEF WorkerStops
    <2>2. ASSUME NEW b \in Click, bpc[b] = "idle" PROVE ~Live(b)'
      BY <1>0, <1>10, <2>2
         DEF WorkerStops, Live, Running, Replied, ClickTypes
    <2>3. QED
      BY <1>1, <2>1, <2>2 DEF SettledInv
  <1>11. CASE InitWallet
    BY <1>2, <1>11 DEF InitWallet
  <1>12. ASSUME NEW u \in Uid, ShowPrepared(u) PROVE SettledInv'
    <2>1. \A w \in view' : \E v \in view : w.card = v.card
      BY <1>0, <1>12 DEF ShowPrepared, Element
    <2>2. QED
      BY <1>2, <1>12, <2>1 DEF ShowPrepared
  <1>13. CASE \/ ClosePopup \/ \E u \in Uid : HandleRemove(u)
              \/ Reload \/ WorkerStarts \/ Helper \/ UNCHANGED vars
    <2>1. CASE ClosePopup
      BY <1>2, <2>1 DEF ClosePopup
    <2>2. UNCHANGED <<db, settled, bpc, slow, asked>> /\ view' \subseteq view
      BY <1>13 DEF ClosePopup, HandleRemove, Reload, WorkerStarts, Helper, vars
    <2>3. QED
      BY <1>2, <2>2
  <1>14. QED
    BY <1>4, <1>5, <1>6, <1>7, <1>8, <1>9, <1>10, <1>11, <1>12, <1>13,
       ClickSteps DEF Next

(* A card that was deleted when no preparation of it was under way and no  *)
(* other record of it was stored or shown stays gone (reject): what could  *)
(* save it has ended, and nothing starts that again.                       *)
THEOREM SettledStaysGoneCorrect == Spec => []SettledStaysGone
  <1>1. Init => SettledInv
    BY DEF Init, SettledInv
  <1>2. SettledInv => SettledStaysGone
    BY DEF SettledInv, SettledStaysGone
  <1>3. QED
    BY <1>1, <1>2, TypeInit, TypeNext, SettledNext, PTL DEF Spec

-------------------------------------------------------------------------------
(***************************************************************************)
(* What is PREPARED was ready                                              *)
(***************************************************************************)

LEMMA OnceStays ==
  ASSUME TypeInv, [Next]_vars, NEW c \in Card, AcceptedOnce(c)'
  PROVE  AcceptedOnce(c)
  <1> SUFFICES ASSUME NEW a \in Click, NEW b \in Click,
                      asked[a] = c, asked[b] = c
               PROVE  a = b
    BY DEF AcceptedOnce
  <1>1. asked'[a] = c /\ asked'[b] = c
    BY ClickStays
  <1>2. QED
    BY <1>1 DEF AcceptedOnce

LEMMA SeenGrows ==
  ASSUME [Next]_vars
  PROVE  seenReady \subseteq seenReady'
  <1>1. ASSUME NEW a \in Click,
               \/ Accept(a) \/ AcceptReturns(a) \/ AcceptThrows(a)
               \/ Prepare(a) \/ PollPreparing(a) \/ PollUnknown(a)
               \/ PollFails(a) \/ PollSlow(a) \/ PollLate(a)
        PROVE  seenReady' = seenReady
    BY <1>1 DEF Accept, AcceptReturns, AcceptThrows, Prepare, HandlePrepare,
       PrepareFails, PrepareSaves, PrepareRemoves, CompleteLoad, FetchShowData,
       PollPreparing, PollUnknown, PollFails, PollSlow, PollLate
  <1>2. ASSUME NEW a \in Click, PollReady(a)
        PROVE  seenReady \subseteq seenReady'
    BY <1>2 DEF PollReady
  <1>3. CASE \/ \E c \in Card : Import(c)
             \/ InitWallet \/ ClosePopup \/ \E v \in view : Delete(v)
             \/ \E u \in Uid : ShowPrepared(u) \/ HandleRemove(u)
             \/ Reload \/ WorkerStops \/ WorkerStarts \/ Helper
             \/ UNCHANGED vars
    BY <1>3 DEF Import, InitWallet, ClosePopup, Delete, ShowPrepared,
                HandleRemove, Reload, WorkerStops, WorkerStarts, Helper, vars
  <1>4. QED
    BY <1>1, <1>2, <1>3 DEF Next, Poll

LEMMA ReadyStays ==
  ASSUME TypeInv, [Next]_vars, NEW x, x.card \in Card, Ready(x)
  PROVE  Ready(x)'
  BY OnceStays, SeenGrows DEF Ready

(* The ids of the object of a card that was accepted once.                 *)
LEMMA OnceIds ==
  ASSUME TypeInv, NEW a \in Click, AcceptedOnce(asked[a])
  PROVE  /\ bpc[a] = "fetch" => Object(a).id \in Card
         /\ Past(a) => Object(a).id = credUid[a]
  <1>1. bpc[a] = "fetch" => credUid[a] = "none"
    BY DEF TypeInv, ClickInv
  <1>2. bpc[a] = "fetch" \/ Past(a) =>
          /\ Object(a).id \in Ids(asked[a]) /\ asked[a] \in Card
          /\ Past(a) => Object(a).id \in Uid
    BY ObjectGood DEF Good, TypeInv, ObjInv
  <1>3. Ids(asked[a]) \subseteq {asked[a], credUid[a]}
    BY DEF Ids, AcceptedOnce
  <1>4. bpc[a] = "fetch" \/ Past(a) => Object(a).id \in Id
    BY ObjectGood DEF Record
  <1>5. QED
    BY <1>1, <1>2, <1>3, <1>4 DEF Id

LEMMA SavingReady ==
  ASSUME TypeInv, ReadyInv, [Next]_vars, NEW a \in Click, Saving(a)
  PROVE  \E r \in Record : ChangeAndSave(a, r) /\ Ready(r)'
  <1> DEFINE o == Object(a)
             with(i, st, d) == [id |-> i, card |-> o.card, status |-> st,
                                showData |-> d]
  <1>1. Holds(a)
    BY SavingFrame
  <1>2. /\ o \in Record /\ o.card = asked[a] /\ asked[a] \in Card
        /\ Ready(o)
    <2>1. o # NoObject /\ own[a] \in Click /\ o = obj[own[a]]
      BY <1>1, ObjectGood DEF Holds, Record, NoObject, Id
    <2>2. QED
      BY <1>1, <2>1, ObjectGood DEF Holds, ReadyInv
  <1>3. /\ o = with(o.id, o.status, o.showData)
        /\ o.id \in Id /\ o.card \in Card /\ o.status \in Status
        /\ o.showData \in Uid \cup {"none"}
    BY <1>2 DEF Record
  <1>4. AcceptedOnce(asked[a])' => AcceptedOnce(asked[a])
    <2>1. asked' = asked
      BY SavingFrame
    <2>2. QED
      BY <1>2, <2>1, OnceStays DEF AcceptedOnce
  <1>5. ASSUME NEW i \in Uid, NEW st \in Status, NEW d \in Uid \cup {"none"},
               ChangeAndSave(a, with(i, st, d)),
               AcceptedOnce(asked[a]) =>
                 /\ st = "PREPARED" => i \in seenReady'
                 /\ d \in {"none", i}
        PROVE  \E r \in Record : ChangeAndSave(a, r) /\ Ready(r)'
    <2>1. PICK r : r = with(i, st, d)
      OBVIOUS
    <2>2. /\ r \in Record /\ r.id = i /\ r.card = asked[a]
          /\ r.status = st /\ r.showData = d
      BY <1>2, <1>3, <2>1 DEF Record, Id
    <2>3. AcceptedOnce(r.card)' => AcceptedOnce(asked[a])
      <3>1. asked' = asked
        BY SavingFrame
      <3>2. QED
        BY <1>4, <2>2, <3>1 DEF AcceptedOnce
    <2>4. Ready(r)'
      BY <1>5, <2>2, <2>3 DEF Ready
    <2>5. QED
      BY <1>5, <2>1, <2>2, <2>4
  <1>6. CASE PrepareSaves(a)
    <2>1. PICK u \in Uid :
            ChangeAndSave(a, [o EXCEPT !.id = u, !.status = "PREPARING"])
      BY <1>6 DEF PrepareSaves
    <2>2. ChangeAndSave(a, with(u, "PREPARING", o.showData))
      BY <1>2, <2>1, PreparingRecord
    <2>3. AcceptedOnce(asked[a]) => o.showData = "none"
      BY <1>2, <1>6, OnceIds DEF Ready, PrepareSaves
    <2>4. QED
      BY <1>3, <1>5, <2>2, <2>3 DEF Status
  <1>7. CASE ~PrepareSaves(a)
    <2>1. Past(a)
      BY <1>7 DEF Saving, PollPreparing, PollLate, PollReady, PollUnknown,
         PollFails, FetchShowData, Polling, Past, Replied, TypeInv, ClickInv
    <2>2. o.id \in Uid
      BY <2>1 DEF TypeInv, ObjInv
    <2>3. AcceptedOnce(asked[a]) =>
            /\ o.id = credUid[a]
            /\ o.status = "PREPARED" => o.id \in seenReady'
            /\ o.showData \in {"none", o.id}
      BY <1>2, <2>1, OnceIds, SeenGrows DEF Ready
    <2>4. CASE PollPreparing(a) \/ PollLate(a)
      <3>1. ChangeAndSave(a, with(o.id, o.status, o.showData))
        BY <1>3, <2>4 DEF PollPreparing, PollLate, Save
      <3>2. QED
        BY <1>3, <1>5, <2>2, <2>3, <3>1
    <2>5. CASE PollReady(a)
      <3>1. [o EXCEPT !.status = "PREPARED"]
              = with(o.id, "PREPARED", o.showData)
        BY <1>2 DEF Record
      <3>2. ChangeAndSave(a, with(o.id, "PREPARED", o.showData))
        BY <2>5, <3>1 DEF PollReady
      <3>3. polled[a] \in seenReady' /\ bpc[a] = "poll"
        BY <2>5 DEF PollReady, AnswersReady, Polling
      <3>4. AcceptedOnce(asked[a]) => polled[a] = credUid[a]
        BY <3>3 DEF ReadyInv
      <3>5. AcceptedOnce(asked[a]) => o.id \in seenReady'
        BY <2>3, <3>3, <3>4
      <3>6. QED
        BY <1>3, <1>5, <2>2, <2>3, <3>2, <3>5 DEF Status
    <2>6. CASE Fail(a)
      <3>1. [o EXCEPT !.status = "ERROR"] = with(o.id, "ERROR", o.showData)
        BY <1>2 DEF Record
      <3>2. ChangeAndSave(a, with(o.id, "ERROR", o.showData))
        BY <2>6, <3>1 DEF Fail
      <3>3. QED
        BY <1>3, <1>5, <2>2, <2>3, <3>2 DEF Status
    <2>7. CASE FetchShowData(a) /\ bpc'[a] # "stuck" /\ ~Fail(a)
      <3>1. [o EXCEPT !.showData = polled[a]]
              = with(o.id, o.status, polled[a])
        BY <1>2 DEF Record
      <3>2. ChangeAndSave(a, with(o.id, o.status, polled[a]))
        BY <2>7, <3>1 DEF FetchShowData, Goto, TypeInv, TypeOK
      <3>3. polled[a] \in Uid /\ bpc[a] = "getshowdata"
        BY <2>7 DEF FetchShowData, TypeInv, ClickInv
      <3>4. AcceptedOnce(asked[a]) => polled[a] = o.id
        BY <2>3, <3>3 DEF ReadyInv
      <3>5. QED
        BY <1>3, <1>5, <2>2, <2>3, <3>2, <3>3, <3>4
    <2>8. QED
      BY <1>7, <2>4, <2>5, <2>6, <2>7 DEF Saving, PollUnknown, PollFails
  <1>8. QED
    BY <1>6, <1>7

(* The UID that a click polls.                                             *)
LEMMA PolledNext ==
  ASSUME TypeInv, ReadyInv, [Next]_vars, NEW b \in Click,
         bpc'[b] \in {"poll", "load", "getshowdata", "reload"},
         AcceptedOnce(asked[b])'
  PROVE  polled'[b] = credUid'[b]
  <1> DEFINE P == {"poll", "load", "getshowdata", "reload"}
  <1>0. /\ ClickTypes /\ ClickInv /\ TypeInv' /\ ClickInv'
    BY TypeNext DEF TypeInv, TypeOK, ClickTypes
  <1>1. bpc[b] # "idle"
    <2> SUFFICES ASSUME bpc[b] = "idle" PROVE FALSE
      OBVIOUS
    <2>1. ~Holds(b) /\ Holds(b)'
      BY DEF Holds, Past, Replied
    <2>2. ASSUME NEW a \in Click, Accept(a) \/ HandlePrepare(a) PROVE FALSE
      BY <1>0, <2>2 DEF Accept, HandlePrepare, Goto, ClickTypes
    <2>3. ASSUME NEW a \in Click, Saving(a) PROVE FALSE
      BY <2>1, <2>3, SavingFrame DEF Holds, Past
    <2>4. ASSUME NEW a \in Click, Quiet(a) PROVE FALSE
      BY <2>1, <2>4, QuietObj
    <2>5. CASE WorkerStops
      BY <1>0, <2>5 DEF WorkerStops, ClickTypes, Running, Replied
    <2>6. CASE \/ \E c \in Card : Import(c)
               \/ InitWallet \/ ClosePopup \/ \E v \in view : Delete(v)
               \/ \E u \in Uid : ShowPrepared(u) \/ HandleRemove(u)
               \/ Reload \/ WorkerStarts \/ Helper \/ UNCHANGED vars
      BY <2>6 DEF Import, InitWallet, ClosePopup, Delete, ShowPrepared,
                  HandleRemove, Reload, WorkerStarts, Helper, vars
    <2>7. QED
      BY <2>2, <2>3, <2>4, <2>5, <2>6, ClickSteps DEF Next
  <1>2. asked'[b] = asked[b] /\ asked[b] \in Card
    BY <1>0, <1>1, ClickStays DEF TypeInv, TypeOK, ClickInv
  <1>3. AcceptedOnce(asked[b])
    BY <1>2, OnceStays DEF AcceptedOnce
  <1>4. bpc[b] \in P => polled[b] = credUid[b]
    BY <1>3 DEF ReadyInv
  <1>5. CASE \E a \in Click : PrepareRemoves(a) \/ PollReady(a)
    <2>1. PICK a \in Click : PrepareRemoves(a) \/ PollReady(a)
      BY <1>5
    <2>2. /\ credUid' = credUid /\ Past(a)
          /\ polled' = [polled EXCEPT ![a] = Object(a).id]
          /\ \A d \in Click : d # a => bpc'[d] = bpc[d]
      BY <1>0, <2>1 DEF PrepareRemoves, PollReady, PollOnly, Polling, Goto,
                        Past, Replied, ClickTypes
    <2>3. CASE b = a
      BY <1>0, <1>3, <2>2, <2>3, OnceIds DEF ClickTypes
    <2>4. CASE b # a
      BY <1>0, <1>4, <2>2, <2>4 DEF ClickTypes
    <2>5. QED
      BY <2>3, <2>4
  <1>6. CASE bpc[b] \in P /\ UNCHANGED polled
    BY <1>0, <1>4, <1>6, ClickStays DEF ClickInv, Past, Replied
  <1>7. ASSUME NEW a \in Click,
               \/ Accept(a) \/ HandlePrepare(a) \/ PrepareFails(a)
               \/ PrepareSaves(a)
        PROVE  bpc[b] \in P /\ UNCHANGED polled
    BY <1>0, <1>7 DEF Accept, HandlePrepare, PrepareFails, PrepareSaves, Goto,
                      ClickTypes
  <1>8. ASSUME NEW a \in Click,
               \/ AcceptReturns(a) \/ AcceptThrows(a)
               \/ CompleteLoad(a) \/ FetchShowData(a)
        PROVE  bpc[b] \in P /\ UNCHANGED polled
    BY <1>0, <1>8 DEF AcceptReturns, AcceptThrows, CompleteLoad, FetchShowData,
                      PollOnly, Fail, Goto, ClickTypes
  <1>9. ASSUME NEW a \in Click,
               \/ PollPreparing(a) \/ PollUnknown(a) \/ PollFails(a)
               \/ PollSlow(a) \/ PollLate(a)
        PROVE  bpc[b] \in P /\ UNCHANGED polled
    BY <1>0, <1>9 DEF PollPreparing, PollUnknown, PollFails, PollSlow,
                      PollLate, PollOnly, Fail, Goto, ClickTypes
  <1>10. ASSUME WorkerStops
         PROVE  bpc[b] \in P /\ UNCHANGED polled
    BY <1>0, <1>10 DEF WorkerStops, ClickTypes, Running, Replied
  <1>11. ASSUME \/ \E c \in Card : Import(c)
                \/ InitWallet \/ ClosePopup \/ \E v \in view : Delete(v)
                \/ \E u \in Uid : ShowPrepared(u) \/ HandleRemove(u)
                \/ Reload \/ WorkerStarts \/ Helper \/ UNCHANGED vars
         PROVE  bpc[b] \in P /\ UNCHANGED polled
    BY <1>11 DEF Import, InitWallet, ClosePopup, Delete, ShowPrepared,
                 HandleRemove, Reload, WorkerStarts, Helper, vars
  <1>12. QED
    BY <1>5, <1>6, <1>7, <1>8, <1>9, <1>10, <1>11 DEF Next, Prepare, Poll

LEMMA ReadyNext == TypeInv /\ ReadyInv /\ [Next]_vars => ReadyInv'
  <1> SUFFICES ASSUME TypeInv, ReadyInv, [Next]_vars PROVE ReadyInv'
    OBVIOUS
  <1>0. /\ db \subseteq Record /\ UniqueIds(db) /\ loaded \subseteq Record
        /\ own \in [Click -> Click]
        /\ obj \in [Click -> Record \cup {NoObject}]
    BY DEF TypeInv, TypeOK
  <1> DEFINE Stored == \A x \in db' \cup loaded' : Ready(x)'
             Held == \A b \in Click : (obj[b] = NoObject \/ Ready(obj[b]))'
  <1>1. \A x \in db \cup loaded : Ready(x)'
    BY <1>0, ReadyStays DEF ReadyInv, Record
  <1>2. ASSUME NEW b \in Click, obj[b] # NoObject,
               NEW x, x = obj[b]
        PROVE  Ready(x)'
    BY <1>0, <1>2, ReadyStays DEF ReadyInv, Record
  <1>3. \A b \in Click : bpc'[b] \in {"poll", "load", "getshowdata", "reload"}
          /\ AcceptedOnce(asked[b])' => polled'[b] = credUid'[b]
    BY PolledNext
  <1>4. ASSUME Stored, Held PROVE ReadyInv'
    BY <1>3, <1>4 DEF ReadyInv
  <1>5. ASSUME obj' = obj PROVE Held
    <2> SUFFICES ASSUME NEW b \in Click
                 PROVE  (obj[b] = NoObject \/ Ready(obj[b]))'
      OBVIOUS
    <2>1. PICK x : x = obj[b]
      OBVIOUS
    <2>2. x = NoObject \/ Ready(x)'
      BY <1>2, <2>1
    <2>3. QED
      BY <1>5, <2>1, <2>2 DEF Ready, AcceptedOnce
  <1>6. ASSUME NEW r \in Record, addData(r), Ready(r)',
               loaded' \subseteq loaded \cup db
        PROVE  Stored
    BY <1>0, <1>1, <1>6, AddType
  <1>7. ASSUME db' \subseteq db, loaded' \subseteq loaded \cup db PROVE Stored
    BY <1>1, <1>7
  <1>8. ASSUME NEW c \in Card, Import(c) PROVE ReadyInv'
    <2>1. PICK r : r = [id |-> c, card |-> c, status |-> "PENDING",
                       showData |-> "none"]
      OBVIOUS
    <2>2. r \in Record /\ addData(r) /\ UNCHANGED <<loaded, obj>>
      BY <1>8, <2>1 DEF Import, Record, Id, Status
    <2>3. Ready(r)'
      BY <2>1 DEF Ready
    <2>4. QED
      BY <1>4, <1>5, <1>6, <2>2, <2>3
  <1>9. ASSUME NEW a \in Click, AcceptReturns(a) PROVE ReadyInv'
    <2>1. PICK r : r = [id |-> credUid[a], card |-> asked[a],
                       status |-> "PREPARING", showData |-> "none"]
      OBVIOUS
    <2>2. addData(r) /\ UNCHANGED <<loaded, obj>> /\ Past(a)
      BY <1>9, <2>1 DEF AcceptReturns, Past
    <2>3. credUid[a] \in Uid /\ asked[a] \in Card
      BY <2>2 DEF TypeInv, TypeOK, ClickInv, Past, Replied
    <2>4. r \in Record /\ Ready(r)'
      BY <2>1, <2>3 DEF Ready, Record, Id, Status
    <2>5. QED
      BY <1>4, <1>5, <1>6, <2>2, <2>4
  <1>10. ASSUME NEW a \in Click, Saving(a) PROVE ReadyInv'
    <2>1. PICK r \in Record : ChangeAndSave(a, r) /\ Ready(r)'
      BY <1>10, SavingReady
    <2>2. loaded' = loaded
      BY <1>10, SavingFrame
    <2>3. Stored
      BY <1>6, <2>1, <2>2 DEF ChangeAndSave
    <2>4. ASSUME NEW b \in Click PROVE (obj[b] = NoObject \/ Ready(obj[b]))'
      <3>1. obj'[b] = IF b = own[a] THEN r ELSE obj[b]
        BY <2>1, ChangeType
      <3>2. PICK x : x = obj'[b]
        OBVIOUS
      <3>3. x = NoObject \/ Ready(x)'
        BY <1>2, <2>1, <3>1, <3>2
      <3>4. QED
        BY <3>2, <3>3 DEF Ready, AcceptedOnce
    <2>5. QED
      BY <1>4, <2>3, <2>4
  <1>11. ASSUME NEW a \in Click, HandlePrepare(a) PROVE ReadyInv'
    <2>1. db' = db /\ loaded' \subseteq loaded
      BY <1>11 DEF HandlePrepare, Without
    <2>2. ASSUME NEW b \in Click PROVE (obj[b] = NoObject \/ Ready(obj[b]))'
      <3>1. \/ obj'[b] = obj[b]
            \/ obj'[b] \in loaded
        BY <1>0, <1>11 DEF HandlePrepare
      <3>2. PICK x : x = obj'[b]
        OBVIOUS
      <3>3. x = NoObject \/ Ready(x)'
        BY <1>1, <1>2, <3>1, <3>2
      <3>4. QED
        BY <3>2, <3>3 DEF Ready, AcceptedOnce
    <2>3. QED
      BY <1>4, <1>7, <2>1, <2>2
  <1>12. ASSUME NEW a \in Click, Accept(a) \/ Quiet(a), ~AcceptReturns(a)
         PROVE  /\ db' \subseteq db /\ loaded' \subseteq loaded \cup db
                /\ obj' = obj
    <2>1. CASE FetchShowData(a) /\ bpc'[a] = "stuck"
      BY <2>1 DEF FetchShowData, Fail, Goto, PollOnly, TypeInv, TypeOK
    <2>2. CASE \/ Accept(a) \/ AcceptThrows(a) \/ PrepareFails(a)
               \/ PrepareRemoves(a) \/ CompleteLoad(a) \/ PollSlow(a)
      BY <2>2 DEF Accept, AcceptThrows, PrepareFails, PrepareRemoves,
           CompleteLoad, PollSlow, PollOnly, LoadCreds, removeData, Without
    <2>3. QED
      BY <1>12, <2>1, <2>2 DEF Quiet
  <1>13. ASSUME \/ InitWallet \/ ClosePopup \/ \E v \in view : Delete(v)
                \/ \E u \in Uid : ShowPrepared(u) \/ HandleRemove(u)
                \/ Reload \/ WorkerStops \/ WorkerStarts \/ Helper
                \/ UNCHANGED vars
         PROVE  /\ db' \subseteq db /\ loaded' \subseteq loaded \cup db
                /\ obj' = obj
    BY <1>13 DEF InitWallet, ClosePopup, Delete, removeData, Without,
                 ShowPrepared, HandleRemove, Reload, WorkerStops, WorkerStarts,
                 LoadCreds, Helper, vars
  <1>14. ASSUME db' \subseteq db, loaded' \subseteq loaded \cup db, obj' = obj
         PROVE  ReadyInv'
    BY <1>4, <1>5, <1>7, <1>14
  <1>15. QED
    BY <1>8, <1>9, <1>10, <1>11, <1>12, <1>13, <1>14, ClickSteps DEF Next

(* A card that was accepted with one click is PREPARED only after the      *)
(* helper said "ready" of its UID, and its show data is of that UID, in    *)
(* the database however the two contexts' saves interleave                 *)
(* (_prepareComplete).                                                     *)
THEOREM PreparedWasReadyCorrect == Spec => []PreparedWasReady
  <1>1. Init => ReadyInv
    BY DEF Init, ReadyInv
  <1>2. ReadyInv => PreparedWasReady
    BY DEF ReadyInv, Ready, PreparedWasReady
  <1>3. QED
    BY <1>1, <1>2, TypeInit, TypeNext, ReadyNext, PTL DEF Spec

-------------------------------------------------------------------------------
(***************************************************************************)
(* What is PREPARED has its data                                           *)
(***************************************************************************)

(* An object is that of the click that took it from the list; who shares   *)
(* one has none.                                                           *)
OwnInv ==
  \A b \in Click :
    /\ obj[b] # NoObject => own[b] = b /\ obj[b].card = asked[b]
    /\ obj[own[b]] = NoObject => own[b] = b

(* The click is about to fetch the show data, or will never have it.       *)
Fetching(a) == bpc[a] \in {"load", "getshowdata", "stuck", "stopped"}

(* What PreparedHasData says of the records, for the objects too.          *)
HasData(x) ==
  AcceptedOnce(x.card) /\ x.status = "PREPARED" /\ x.showData = "none" =>
    \E a \in Click : asked[a] = x.card /\ Fetching(a)

DataInv == /\ \A x \in db : HasData(x)
           /\ \A b \in Click : HasData(obj[b])

(* The record that a preparation saves, next to the object as it was.      *)
Saves(a, r) ==
  /\ SavedAs(a, r)
  /\ LET o == Object(a)
     IN  /\ r.card = o.card
         /\ \/ /\ PrepareSaves(a)
               /\ r.id = credUid'[a] /\ r.status = "PREPARING"
            \/ r = o /\ (PollPreparing(a) \/ PollLate(a)) /\ bpc' = bpc
            \/ PollReady(a) /\ r.id = o.id /\ r.status = "PREPARED"
            \/ /\ \/ PollUnknown(a) \/ PollFails(a)
                  \/ FetchShowData(a) /\ bpc'[a] = "error"
               /\ r.id = o.id /\ r.status = "ERROR" /\ bpc'[a] = "error"
            \/ /\ FetchShowData(a) /\ bpc'[a] = "reload"
               /\ r.id = o.id /\ r.status = o.status /\ r.showData \in Uid

LEMMA SavingRecord ==
  ASSUME TypeInv, NEW a \in Click, Saving(a)
  PROVE  \E r \in Record : Saves(a, r)
  <1> DEFINE o == Object(a)
  <1>1. PICK r \in Record : SavedAs(a, r)
    BY SavingSaves
  <1>2. o \in Record /\ own[a] \in Click /\ o.card = asked[a]
    BY SavingFrame, ObjectGood DEF Holds
  <1>3. bpc \in [Click -> Running \cup
                   {"idle", "lost", "refused", "killed"} \cup Replied]
        /\ obj \in [Click -> Record \cup {NoObject}]
    BY DEF TypeInv, TypeOK
  <1>4. r.card = o.card /\ r = obj'[own[a]]
    BY <1>1, <1>2, <1>3 DEF SavedAs, ChangeAndSave
  <1>5. ASSUME NEW q, ChangeAndSave(a, q) PROVE r = q
    BY <1>2, <1>3, <1>4, <1>5 DEF ChangeAndSave
  <1>6. CASE PrepareSaves(a)
    <2>1. PICK u \in Uid :
            /\ credUid' = [credUid EXCEPT ![a] = u]
            /\ ChangeAndSave(a, [o EXCEPT !.id = u, !.status = "PREPARING"])
      BY <1>6 DEF PrepareSaves
    <2>2. r.id = u /\ r.status = "PREPARING"
      <3>1. r = [o EXCEPT !.id = u, !.status = "PREPARING"]
        BY <1>5, <2>1
      <3>2. r = [id |-> u, card |-> o.card, status |-> "PREPARING",
                 showData |-> o.showData]
        BY <1>2, <3>1, PreparingRecord
      <3>3. QED
        BY <3>2
    <2>3. credUid'[a] = u
      BY <2>1 DEF TypeInv, TypeOK
    <2>4. QED
      BY <1>1, <1>4, <1>6, <2>2, <2>3 DEF Saves
  <1>7. CASE PollPreparing(a) \/ PollLate(a)
    <2>1. r = o /\ bpc' = bpc
      BY <1>5, <1>7 DEF PollPreparing, PollLate, Save
    <2>2. QED
      BY <1>1, <1>4, <1>7, <2>1 DEF Saves
  <1>8. CASE PollReady(a)
    <2>1. r = [o EXCEPT !.status = "PREPARED"]
      BY <1>5, <1>8 DEF PollReady
    <2>2. r.id = o.id /\ r.status = "PREPARED"
      BY <1>2, <2>1 DEF Record
    <2>3. QED
      BY <1>1, <1>4, <1>8, <2>2 DEF Saves
  <1>9. CASE Fail(a) /\ (PollUnknown(a) \/ PollFails(a) \/ FetchShowData(a))
    <2>1. r = [o EXCEPT !.status = "ERROR"]
      BY <1>5, <1>9 DEF Fail
    <2>2. r.id = o.id /\ r.status = "ERROR"
      BY <1>2, <2>1 DEF Record
    <2>3. bpc'[a] = "error"
      BY <1>3, <1>9 DEF Fail, Goto
    <2>4. QED
      BY <1>1, <1>4, <1>9, <2>2, <2>3 DEF Saves
  <1>10. CASE FetchShowData(a) /\ bpc'[a] # "stuck" /\ ~Fail(a)
    <2>1. r = [o EXCEPT !.showData = polled[a]] /\ bpc'[a] = "reload"
      BY <1>3, <1>5, <1>10 DEF FetchShowData, Goto
    <2>2. polled[a] \in Uid
      BY <1>10 DEF FetchShowData, TypeInv, ClickInv
    <2>3. r.id = o.id /\ r.status = o.status /\ r.showData = polled[a]
      BY <1>2, <2>1 DEF Record
    <2>4. QED
      BY <1>1, <1>4, <1>10, <2>1, <2>2, <2>3 DEF Saves
  <1>11. QED
    BY <1>6, <1>7, <1>8, <1>9, <1>10 DEF Saving, PollUnknown, PollFails

(* The database and the objects after such a save.                         *)
LEMMA SavesFrame ==
  ASSUME TypeInv, NEW a \in Click, NEW r \in Record, Saves(a, r)
  PROVE  /\ own[a] \in Click /\ Holds(a)
         /\ db' = Without(db, r.id) \cup {r}
         /\ \A b \in Click : obj'[b] = IF b = own[a] THEN r ELSE obj[b]
         /\ UNCHANGED <<own, asked, listed, loaded, awake, reloads, wpc,
                        deleted>>
         /\ slow' \subseteq slow
         /\ \A b \in Click : b # a => bpc'[b] = bpc[b]
  <1>1. Saving(a)
    BY Zenon DEF Saves, Saving
  <1>2. ChangeAndSave(a, r)
    BY Zenon DEF Saves, SavedAs
  <1>3. slow' \subseteq slow
    BY <1>1 DEF Saving, PrepareSaves, PollPreparing, PollReady, PollUnknown,
                PollFails, PollLate, FetchShowData
  <1>4. db' = Without(db, r.id) \cup {r}
    BY <1>2 DEF ChangeAndSave, addData
  <1>5. own[a] \in Click /\ Holds(a)
    BY <1>1, SavingFrame DEF TypeInv, TypeOK
  <1>6. QED
    BY <1>1, <1>2, <1>3, <1>4, <1>5, SavingFrame, ChangeType

(* The steps that are of no click.                                         *)
Others == \/ \E c \in Card : Import(c)
          \/ InitWallet \/ ClosePopup \/ \E v \in view : Delete(v)
          \/ \E u \in Uid : ShowPrepared(u) \/ HandleRemove(u)
          \/ Reload \/ WorkerStops \/ WorkerStarts \/ Helper
          \/ UNCHANGED vars

LEMMA Steps ==
  ASSUME [Next]_vars
  PROVE  \/ \E a \in Click : \/ Accept(a) \/ HandlePrepare(a)
                             \/ Saving(a) \/ Quiet(a)
         \/ Others
  BY ClickSteps DEF Next, Others

LEMMA OthersObj == Others => UNCHANGED <<obj, own, asked, credUid>>
  BY DEF Others, Import, InitWallet, ClosePopup, Delete, ShowPrepared,
         HandleRemove, Reload, WorkerStops, WorkerStarts, Helper, vars

(* The object that handlePrepare finds: one that another click holds, or   *)
(* one of the list.  It is PENDING, of the card that was asked for.        *)
LEMMA HandlePrepareFinds ==
  ASSUME TypeInv, NEW a \in Click, HandlePrepare(a)
  PROVE  /\ bpc[a] = "sent" /\ obj[a] = NoObject /\ own[a] = a
         /\ UNCHANGED <<db, asked, credUid, awake, reloads, slow, wpc,
                        deleted>>
         /\ \A b \in Click : b # a => bpc'[b] = bpc[b]
         /\ \/ \E b \in listed :
                 /\ obj[b] \in Record /\ obj[b].status = "PENDING"
                 /\ own' = [own EXCEPT ![a] = b]
                 /\ bpc'[a] = "fetch" /\ UNCHANGED <<obj, loaded, listed>>
            \/ \E r \in loaded :
                 /\ r.status = "PENDING" /\ r.card = asked[a]
                 /\ obj' = [obj EXCEPT ![a] = r]
                 /\ loaded' = Without(loaded, asked[a])
                 /\ listed' = listed \cup {a}
                 /\ bpc'[a] = "fetch" /\ own' = own
            \/ bpc'[a] = "lost" /\ UNCHANGED <<own, obj, loaded, listed>>
  <1>1. /\ ClickTypes /\ ClickInv /\ ObjInv /\ RecInv
        /\ obj \in [Click -> Record \cup {NoObject}]
        /\ listed \subseteq Click /\ loaded \subseteq Record
        /\ imported \subseteq Card
    BY DEF TypeInv, TypeOK, ClickTypes
  <1>2. bpc[a] = "sent" /\ obj[a] = NoObject /\ own[a] = a
    BY <1>1 DEF HandlePrepare, ObjInv
  <1>3. asked[a] \in Card
    BY <1>1, <1>2 DEF ClickInv
  <1>4. UNCHANGED <<db, asked, credUid, awake, reloads, slow, wpc, deleted>>
    BY DEF HandlePrepare
  <1>5. /\ \A b \in Click : b # a => bpc'[b] = bpc[b]
        /\ \A pc : Goto(a, pc) => bpc'[a] = pc
    BY <1>1 DEF HandlePrepare, Goto, ClickTypes
  <1>6. ASSUME NEW b \in listed, obj[b].id = asked[a]
        PROVE  obj[b] \in Record /\ obj[b].status = "PENDING"
    BY <1>1, <1>3, <1>6 DEF ObjInv, Good
  <1>7. ASSUME NEW r \in loaded, r.id = asked[a]
        PROVE  r.status = "PENDING" /\ r.card = asked[a]
    BY <1>1, <1>3, <1>7 DEF RecInv, Good, Ids, Record
  <1>8. CASE \E b \in listed : /\ obj[b].id = asked[a]
                               /\ own' = [own EXCEPT ![a] = b]
                               /\ Goto(a, "fetch")
                               /\ UNCHANGED <<obj, loaded, listed>>
    BY <1>2, <1>4, <1>5, <1>6, <1>8
  <1>9. CASE \E r \in loaded : /\ r.id = asked[a]
                               /\ obj' = [obj EXCEPT ![a] = r]
                               /\ loaded' = Without(loaded, asked[a])
                               /\ listed' = listed \cup {a}
                               /\ Goto(a, "fetch")
                               /\ UNCHANGED own
    BY <1>2, <1>4, <1>5, <1>7, <1>9
  <1>10. CASE Goto(a, "lost") /\ UNCHANGED <<own, obj, loaded, listed>>
    BY <1>2, <1>4, <1>5, <1>10
  <1>11. QED
    BY <1>8, <1>9, <1>10 DEF HandlePrepare

LEMMA OwnNext == TypeInv /\ OwnInv /\ [Next]_vars => OwnInv'
  <1> SUFFICES ASSUME TypeInv, OwnInv, [Next]_vars PROVE OwnInv'
    OBVIOUS
  <1>0. /\ ClickTypes /\ ClickInv /\ ObjInv
        /\ own \in [Click -> Click]
        /\ obj \in [Click -> Record \cup {NoObject}]
        /\ listed \subseteq Click /\ loaded \subseteq Record
        /\ NoObject \notin Record
    BY DEF TypeInv, TypeOK, ClickTypes, NoObject, Record, Id
  <1>1. ASSUME NEW a \in Click, Accept(a) PROVE OwnInv'
    <2>1. bpc[a] = "idle" /\ UNCHANGED <<obj, own>>
          /\ \A b \in Click : b # a => asked'[b] = asked[b]
      BY <1>0, <1>1 DEF Accept, ClickTypes
    <2>2. obj[a] = NoObject
      BY <1>0, <2>1 DEF ObjInv
    <2>3. QED
      BY <2>1, <2>2 DEF OwnInv
  <1>2. ASSUME NEW a \in Click, HandlePrepare(a) PROVE OwnInv'
    <2>1. obj[a] = NoObject /\ own[a] = a /\ asked' = asked
      BY <1>2, HandlePrepareFinds
    <2>2. ASSUME NEW b \in listed, obj[b] \in Record, obj' = obj,
                 own' = [own EXCEPT ![a] = b]
          PROVE  OwnInv'
      BY <1>0, <2>1, <2>2 DEF OwnInv
    <2>3. ASSUME NEW r \in loaded, r.card = asked[a], own' = own,
                 obj' = [obj EXCEPT ![a] = r]
          PROVE  OwnInv'
      BY <1>0, <2>1, <2>3 DEF OwnInv
    <2>4. ASSUME UNCHANGED <<own, obj>> PROVE OwnInv'
      BY <2>1, <2>4 DEF OwnInv
    <2>5. QED
      BY <1>2, <2>2, <2>3, <2>4, HandlePrepareFinds
  <1>3. ASSUME NEW a \in Click, Saving(a) PROVE OwnInv'
    <2>1. PICK r \in Record : Saves(a, r)
      BY <1>3, SavingRecord
    <2>2. /\ own[a] \in Click /\ UNCHANGED <<own, asked>>
          /\ \A b \in Click : obj'[b] = IF b = own[a] THEN r ELSE obj[b]
      BY <2>1, SavesFrame
    <2>3. obj[own[a]] \in Record /\ r.card = obj[own[a]].card
      BY <1>3, <2>1, SavingFrame, ObjectGood DEF Holds, Saves
    <2>4. QED
      BY <1>0, <2>2, <2>3 DEF OwnInv
  <1>4. ASSUME NEW a \in Click, Quiet(a) PROVE OwnInv'
    BY <1>4, QuietObj DEF OwnInv
  <1>5. CASE Others
    BY <1>5, OthersObj DEF OwnInv
  <1>6. QED
    BY <1>1, <1>2, <1>3, <1>4, <1>5, Steps

(* What the other steps save is not PREPARED.                              *)
LEMMA RestSaves ==
  ASSUME TypeInv,
         Others \/ \E a \in Click : Accept(a) \/ Quiet(a)
  PROVE  \E r : r.status # "PREPARED" /\ db' \subseteq db \cup {r}
  <1>1. ASSUME NEW a \in Click, AcceptReturns(a)
        PROVE  \E r : r.status # "PREPARED" /\ db' \subseteq db \cup {r}
    <2>1. PICK r : r = [id |-> credUid[a], card |-> asked[a],
                        status |-> "PREPARING", showData |-> "none"]
      OBVIOUS
    <2>2. QED
      BY <1>1, <2>1 DEF AcceptReturns, addData, Without
  <1>2. ASSUME NEW c \in Card, Import(c)
        PROVE  \E r : r.status # "PREPARED" /\ db' \subseteq db \cup {r}
    <2>1. PICK r : r = [id |-> c, card |-> c, status |-> "PENDING",
                        showData |-> "none"]
      OBVIOUS
    <2>2. QED
      BY <1>2, <2>1 DEF Import, addData, Without
  <1>3. ASSUME db' \subseteq db
        PROVE  \E r : r.status # "PREPARED" /\ db' \subseteq db \cup {r}
    <2>1. NoObject.status # "PREPARED"
      BY DEF NoObject
    <2>2. QED
      BY <1>3, <2>1
  <1>4. ASSUME NEW a \in Click,
               \/ Accept(a)
               \/ Quiet(a) /\ ~AcceptReturns(a)
        PROVE  db' \subseteq db
    BY <1>4 DEF Accept, Quiet, AcceptThrows, PrepareFails, PrepareRemoves,
       CompleteLoad, PollSlow, PollOnly, removeData, Without, FetchShowData,
       Fail, Goto, TypeInv, TypeOK
  <1>5. CASE Others /\ ~\E c \in Card : Import(c)
    <2>1. db' \subseteq db
      BY <1>5 DEF Others, InitWallet, ClosePopup, Delete, removeData, Without,
         ShowPrepared, HandleRemove, Reload, WorkerStops, WorkerStarts, Helper,
         vars
    <2>2. QED
      BY <1>3, <2>1
  <1>6. QED
    BY <1>1, <1>2, <1>3, <1>4, <1>5

(* A click is done with fetching only by the show data or an error.        *)
LEMMA FetchingStays ==
  ASSUME TypeInv, [Next]_vars, NEW b \in Click, Fetching(b)
  PROVE  /\ asked'[b] = asked[b] /\ asked[b] \in Card
         /\ \/ Fetching(b)'
            \/ FetchShowData(b) /\ bpc'[b] \in {"reload", "error"}
  <1>0. ClickTypes /\ ClickInv /\ imported \subseteq Card
    BY DEF TypeInv, TypeOK, ClickTypes
  <1>1. asked'[b] = asked[b] /\ asked[b] \in Card
    BY <1>0, ClickStays DEF ClickInv, Fetching
  <1> SUFFICES \/ Fetching(b)'
               \/ FetchShowData(b) /\ bpc'[b] \in {"reload", "error"}
    BY <1>1
  <1>2. ASSUME NEW a \in Click,
               \/ Accept(a) \/ HandlePrepare(a) \/ PrepareFails(a)
               \/ PrepareSaves(a) \/ PrepareRemoves(a)
        PROVE  Fetching(b)'
    BY <1>0, <1>2 DEF Accept, HandlePrepare, PrepareFails, PrepareSaves,
                      PrepareRemoves, Goto, Fetching, ClickTypes
  <1>3. ASSUME NEW a \in Click,
               \/ PollPreparing(a) \/ PollReady(a) \/ PollUnknown(a)
               \/ PollFails(a) \/ PollSlow(a) \/ PollLate(a)
        PROVE  Fetching(b)'
    BY <1>0, <1>3 DEF PollPreparing, PollReady, PollUnknown, PollFails,
       PollSlow, PollLate, Polling, Fail, Goto, Fetching, ClickTypes
  <1>4. ASSUME NEW a \in Click, CompleteLoad(a) PROVE Fetching(b)'
    BY <1>0, <1>4 DEF CompleteLoad, Goto, Fetching, ClickTypes
  <1>5. ASSUME NEW a \in Click, FetchShowData(a)
        PROVE  \/ Fetching(b)'
               \/ FetchShowData(b) /\ bpc'[b] \in {"reload", "error"}
    BY <1>0, <1>5 DEF FetchShowData, Fail, Goto, Fetching, ClickTypes
  <1>6. ASSUME NEW a \in Click, AcceptReturns(a) \/ AcceptThrows(a)
        PROVE  Fetching(b)'
    BY <1>6 DEF AcceptReturns, AcceptThrows, Fetching
  <1>7. CASE WorkerStops
    BY <1>0, <1>7 DEF WorkerStops, Fetching, ClickTypes, Running, Replied
  <1>8. CASE Others /\ ~WorkerStops
    <2>1. bpc' = bpc
      BY <1>8 DEF Others, Import, InitWallet, ClosePopup, Delete, ShowPrepared,
                  HandleRemove, Reload, WorkerStarts, Helper, vars
    <2>2. QED
      BY <2>1 DEF Fetching
  <1>9. QED
    BY <1>2, <1>3, <1>4, <1>5, <1>6, <1>7, <1>8 DEF Next, Prepare, Poll, Others

(* A record or an object stays as good, unless the click that fetches its  *)
(* show data saves it.                                                     *)
LEMMA HasDataStays ==
  ASSUME TypeInv, [Next]_vars, NEW x, x.card \in Card, HasData(x),
         \A a \in Click : FetchShowData(a) /\ asked[a] = x.card
           => bpc'[a] \notin {"reload", "error"}
  PROVE  HasData(x)'
  <1> SUFFICES ASSUME AcceptedOnce(x.card)', x.status = "PREPARED",
                      x.showData = "none"
               PROVE  \E a \in Click : asked'[a] = x.card /\ Fetching(a)'
    BY DEF HasData
  <1>1. AcceptedOnce(x.card)
    BY OnceStays
  <1>2. PICK a \in Click : asked[a] = x.card /\ Fetching(a)
    BY <1>1 DEF HasData
  <1>3. QED
    BY <1>2, FetchingStays

LEMMA DataNext == TypeInv /\ OwnInv /\ DataInv /\ [Next]_vars => DataInv'
  <1> SUFFICES ASSUME TypeInv, OwnInv, DataInv, [Next]_vars PROVE DataInv'
    OBVIOUS
  <1>0. /\ ClickTypes /\ ClickInv /\ ObjInv
        /\ db \subseteq Record /\ UniqueIds(db)
        /\ obj \in [Click -> Record \cup {NoObject}]
        /\ listed \subseteq Click /\ loaded \subseteq Record
    BY DEF TypeInv, TypeOK, ClickTypes
  <1>1. HasData(NoObject)' /\ \A x : x.status # "PREPARED" => HasData(x)'
    BY DEF HasData, NoObject
  <1>2. ASSUME NEW x, x \in db \cup {obj[b] : b \in Click},
               \A a \in Click : FetchShowData(a) /\ asked[a] = x.card
                 => bpc'[a] \notin {"reload", "error"}
        PROVE  HasData(x)'
    BY <1>0, <1>1, <1>2, HasDataStays DEF DataInv, Record
  <1>3. ASSUME \A x \in db' : HasData(x)',
               \A b \in Click : \E x : x = obj'[b] /\ HasData(x)'
        PROVE  DataInv'
    <2>1. ASSUME NEW b \in Click PROVE HasData(obj[b])'
      <3>1. PICK x : x = obj'[b] /\ HasData(x)'
        BY <1>3
      <3>2. QED
        BY <3>1 DEF HasData, AcceptedOnce
    <2>2. QED
      BY <1>3, <2>1 DEF DataInv
  <1>4. ASSUME obj' = obj, NEW r, r.status # "PREPARED",
               db' \subseteq db \cup {r},
               \A a \in Click : FetchShowData(a)
                 => bpc'[a] \notin {"reload", "error"}
        PROVE  DataInv'
    BY <1>1, <1>2, <1>3, <1>4
  <1>5. ASSUME NEW a \in Click, HandlePrepare(a) PROVE DataInv'
    <2>1. db' = db /\ \A b \in Click : FetchShowData(b) => bpc'[b] = bpc[b]
      BY <1>5, HandlePrepareFinds DEF FetchShowData
    <2>2. \A b \in Click : FetchShowData(b) => bpc[b] = "getshowdata"
      BY DEF FetchShowData
    <2>3. \A b \in Click : obj'[b] = obj[b] \/ obj'[b].status = "PENDING"
      BY <1>0, <1>5, HandlePrepareFinds
    <2>4. QED
      BY <1>1, <1>2, <1>3, <2>1, <2>2, <2>3
  <1>6. ASSUME NEW a \in Click, Saving(a) PROVE DataInv'
    <2>1. PICK r \in Record : Saves(a, r)
      BY <1>6, SavingRecord
    <2>2. /\ own[a] \in Click /\ Holds(a)
          /\ db' = Without(db, r.id) \cup {r}
          /\ \A b \in Click : obj'[b] = IF b = own[a] THEN r ELSE obj[b]
          /\ UNCHANGED asked
          /\ \A b \in Click : b # a => bpc'[b] = bpc[b]
      BY <2>1, SavesFrame
    <2>3. /\ Object(a) = obj[own[a]] /\ Object(a) \in Record
          /\ r.card = asked[a] /\ asked[a] \in Card
      BY <2>1, <2>2, ObjectGood DEF Holds, Saves
    <2>4. \A b \in Click : FetchShowData(b) /\ b # a => bpc'[b] = "getshowdata"
      BY <2>2 DEF FetchShowData
    <2>5. ASSUME ~FetchShowData(a) PROVE DataInv'
      <3>1. HasData(r)'
        <4>1. CASE PollReady(a)
          <5>1. bpc'[a] = "load" /\ asked'[a] = r.card
            BY <1>0, <2>2, <2>3, <4>1 DEF PollReady, Goto, ClickTypes
          <5>2. QED
            BY <5>1 DEF HasData, Fetching
        <4>2. CASE r = Object(a)
          BY <1>2, <2>2, <2>3, <2>4, <2>5, <4>2
        <4>3. CASE r.status # "PREPARED"
          BY <1>1, <4>3
        <4>4. QED
          BY <2>1, <2>5, <4>1, <4>2, <4>3 DEF Saves
      <3>2. \A x \in db \cup {obj[b] : b \in Click} : HasData(x)'
        BY <1>2, <2>4, <2>5
      <3>3. QED
        BY <1>3, <2>2, <3>1, <3>2 DEF Without
    <2>6. ASSUME FetchShowData(a) PROVE DataInv'
      <3>1. /\ bpc[a] = "getshowdata" /\ Past(a)
            /\ ~(bpc' = bpc) /\ ~PollReady(a) /\ ~PrepareSaves(a)
        BY <1>0, <2>6 DEF FetchShowData, PollReady, Polling, PrepareSaves,
                          Fail, Goto, Past, Replied, ClickTypes
      <3>2. r.status = "ERROR" \/ r.showData \in Uid
        BY <2>1, <3>1 DEF Saves
      <3>3. HasData(r)'
        BY <3>2 DEF HasData
      <3>4. AcceptedOnce(asked[a])' => AcceptedOnce(asked[a])
        BY <2>2, <2>3, OnceStays DEF AcceptedOnce
      <3>5. AcceptedOnce(asked[a]) => r.id = credUid[a]
        BY <2>1, <3>1, OnceIds DEF Saves
      <3>6. ASSUME NEW x \in Record, x.card = asked[a], Good(x),
                   AcceptedOnce(asked[a]), x.status = "PREPARED"
            PROVE  x.id = r.id
        <4>1. x.id \in Uid /\ x.id \in Ids(asked[a])
          BY <3>6 DEF Good, Record, Id
        <4>2. QED
          BY <2>3, <3>5, <3>6, <4>1 DEF Ids, AcceptedOnce
      <3>7. ASSUME NEW x, x \in db \cup {obj[b] : b \in Click},
                   x.card = asked[a] /\ AcceptedOnce(asked[a])' =>
                     x.status # "PREPARED"
            PROVE  HasData(x)'
        <4>1. CASE x.card # asked[a]
          BY <1>2, <2>4, <3>7, <4>1
        <4>2. CASE x.card = asked[a]
          BY <2>2, <3>7, <4>2 DEF HasData, AcceptedOnce
        <4>3. QED
          BY <4>1, <4>2
      <3>8. ASSUME NEW x \in db, x.id # r.id PROVE HasData(x)'
        <4>1. x \in Record /\ Good(x)
          BY <1>0 DEF TypeInv, RecInv
        <4>2. QED
          BY <3>4, <3>6, <3>7, <3>8, <4>1
      <3>9. ASSUME NEW b \in Click, b # own[a], NEW x, x = obj[b]
            PROVE  HasData(x)'
        <4>1. ASSUME x.card = asked[a], AcceptedOnce(asked[a])
              PROVE  x.status # "PREPARED"
          <5>1. CASE x = NoObject
            BY <5>1 DEF NoObject
          <5>2. CASE x # NoObject
            <6>1. own[b] = b /\ asked[b] = asked[a]
              BY <3>9, <4>1, <5>2 DEF OwnInv
            <6>2. QED
              BY <3>9, <4>1, <6>1 DEF AcceptedOnce
          <5>3. QED
            BY <5>1, <5>2
        <4>2. QED
          BY <3>4, <3>7, <3>9, <4>1
      <3>10. QED
        BY <1>3, <2>2, <3>3, <3>8, <3>9 DEF Without
    <2>7. QED
      BY <2>5, <2>6
  <1>7. ASSUME NEW a \in Click, Accept(a) PROVE DataInv'
    <2>1. UNCHANGED <<db, obj>>
      BY <1>7 DEF Accept
    <2>2. \A b \in Click : FetchShowData(b) => bpc'[b] = "getshowdata"
      BY <1>0, <1>7 DEF Accept, FetchShowData, Goto, ClickTypes
    <2>3. NoObject.status # "PREPARED"
      BY DEF NoObject
    <2>4. QED
      BY <1>4, <2>1, <2>2, <2>3
  <1>8. ASSUME NEW a \in Click, Quiet(a) PROVE DataInv'
    <2>1. obj' = obj
      BY <1>8, QuietObj
    <2>2. ASSUME NEW b \in Click, FetchShowData(b)
          PROVE  bpc'[b] \notin {"reload", "error"}
      <3>1. bpc[b] = "getshowdata"
        BY <2>2 DEF FetchShowData
      <3>2. CASE AcceptReturns(a) \/ AcceptThrows(a) \/ PollSlow(a)
        BY <3>1, <3>2 DEF AcceptReturns, AcceptThrows, PollSlow
      <3>3. CASE \/ PrepareFails(a) \/ PrepareRemoves(a) \/ CompleteLoad(a)
                 \/ FetchShowData(a) /\ bpc'[a] = "stuck"
        BY <1>0, <3>1, <3>3 DEF PrepareFails, PrepareRemoves, CompleteLoad,
                                FetchShowData, Fail, Goto, ClickTypes
      <3>4. QED
        BY <1>8, <3>2, <3>3 DEF Quiet
    <2>3. QED
      BY <1>4, <1>8, <2>1, <2>2, RestSaves
  <1>9. CASE Others
    <2>1. obj' = obj
      BY <1>9, OthersObj
    <2>2. ASSUME NEW b \in Click, FetchShowData(b)
          PROVE  bpc'[b] \notin {"reload", "error"}
      BY <1>0, <1>9, <2>2 DEF FetchShowData, Others, Import, InitWallet,
         ClosePopup, Delete, ShowPrepared, HandleRemove, Reload, WorkerStops,
         WorkerStarts, Helper, vars, ClickTypes, Running, Replied
    <2>3. QED
      BY <1>4, <1>9, <2>1, <2>2, RestSaves
  <1>10. QED
    BY <1>5, <1>6, <1>7, <1>8, <1>9, Steps

(* A card accepted with one click that is stored PREPARED without show     *)
(* data has a click of it that is in load or getshowdata, that hangs or    *)
(* that was stopped with the worker, however the saves of popup and        *)
(* background interleave (_prepareComplete).                               *)
THEOREM PreparedHasDataCorrect == Spec => []PreparedHasData
  <1>1. Init => OwnInv /\ DataInv
    <2> SUFFICES ASSUME Init PROVE OwnInv /\ DataInv
      OBVIOUS
    <2>1. db = {} /\ \A b \in Click : obj[b] = NoObject /\ own[b] = b
      BY DEF Init
    <2>2. HasData(NoObject)
      BY DEF HasData, NoObject
    <2>3. QED
      BY <2>1, <2>2 DEF OwnInv, DataInv
  <1>2. DataInv => PreparedHasData
    BY DEF DataInv, HasData, Fetching, PreparedHasData
  <1>3. QED
    BY <1>1, <1>2, TypeInit, TypeNext, OwnNext, DataNext, PTL DEF Spec

-------------------------------------------------------------------------------
(***************************************************************************)
(* The background is current                                               *)
(***************************************************************************)

(* A preparation that uses the object may still save it.                   *)
Used(e) ==
  \E a \in Click :
    /\ own[a] = e
    /\ \/ a \in slow
       \/ bpc[a] \in {"fetch", "remove", "poll", "load", "getshowdata",
                      "reload"}

(* The helper said "ready" to the click.                                   *)
ToldReady(a) == bpc[a] \in {"load", "getshowdata", "reload", "done", "stuck",
                            "stopped", "error"}

(* The popup has its answer long before pollStatus asks for the first      *)
(* time; only one that the worker was stopped before may come late.        *)
WaitInv ==
  \A a \in Click : ToldReady(a) /\ bpc[a] # "stopped" => ~Waiting(a)

(* The object that has the UID of a click is the one that the click uses.  *)
GivenInv ==
  \A a, e \in Click :
    credUid[a] # "none" /\ obj[e].id = credUid[a] => own[a] = e

(* What the worker was stopped with is not used any more.                  *)
StopInv ==
  \A a \in Click :
    bpc[a] = "stopped" => ~Used(own[a]) /\ own[a] \notin listed

(* What is PREPARED was so by a click that was told "ready".               *)
ToldInv ==
  \A x \in db \cup {obj[b] : b \in Click} :
    x.status = "PREPARED" => \E a \in Click : asked[a] = x.card /\ ToldReady(a)

(* An object that is PREPARED and may still be saved is what the database  *)
(* has, or is saved by a poll to come.                                     *)
StoredInv ==
  \A e \in Click :
    obj[e].status = "PREPARED" /\ obj[e].card \notin deleted /\ Used(e) =>
      \/ obj[e] \in db
      \/ \E a \in Click : bpc[a] = "poll" /\ own[a] = e

(* ... and is in the list only until the load that follows "ready".        *)
ListedInv ==
  \A e \in listed :
    obj[e].status = "PREPARED" => \E a \in Click : bpc[a] = "load"

(* The background has the record, or will load it, or a poll to come of    *)
(* its object saves it and loads then.                                     *)
Current(r) ==
  \/ r \in loaded \cup {obj[a] : a \in listed}
  \/ ~awake
  \/ reloads > 0
  \/ \E a \in Click : bpc[a] \in {"load", "reload"}
  \/ \E a \in Click : bpc[a] = "poll" /\ Object(a).id = r.id

CurrentInv ==
  \A r \in db : /\ r.status = "PREPARED"
                /\ r.card \notin deleted
                /\ AcceptedTwice(r.card)
                => Current(r)

(* The steps that move a click.                                            *)
LEMMA Moves ==
  ASSUME TypeInv, [Next]_vars, NEW b \in Click
  PROVE  \/ bpc'[b] = bpc[b]
         \/ Accept(b) \/ HandlePrepare(b) \/ PrepareFails(b) \/ PrepareSaves(b)
         \/ PrepareRemoves(b) \/ PollReady(b) \/ PollUnknown(b) \/ PollFails(b)
         \/ CompleteLoad(b) \/ FetchShowData(b) \/ WorkerStops
  <1> DEFINE M(a) ==
        \/ Accept(a) \/ HandlePrepare(a) \/ PrepareFails(a) \/ PrepareSaves(a)
        \/ PrepareRemoves(a) \/ PollReady(a) \/ PollUnknown(a) \/ PollFails(a)
        \/ CompleteLoad(a) \/ FetchShowData(a)
  <1>1. ClickTypes
    BY DEF TypeInv, TypeOK, ClickTypes
  <1>2. ASSUME NEW a \in Click, M(a), a # b PROVE bpc'[b] = bpc[b]
    BY <1>1, <1>2 DEF Accept, HandlePrepare, PrepareFails, PrepareSaves,
       PrepareRemoves, PollReady, PollUnknown, PollFails, CompleteLoad,
       FetchShowData, Fail, Goto, ClickTypes
  <1>3. ASSUME NEW a \in Click,
               \/ AcceptReturns(a) \/ AcceptThrows(a)
               \/ PollPreparing(a) \/ PollSlow(a) \/ PollLate(a)
        PROVE  bpc' = bpc
    BY <1>3 DEF AcceptReturns, AcceptThrows, PollPreparing, PollSlow, PollLate
  <1>4. CASE Others /\ ~WorkerStops
    BY <1>4 DEF Others, Import, InitWallet, ClosePopup, Delete, ShowPrepared,
                HandleRemove, Reload, WorkerStarts, Helper, vars
  <1>5. \/ \E a \in Click : \/ M(a)
                            \/ AcceptReturns(a) \/ AcceptThrows(a)
                            \/ PollPreparing(a) \/ PollSlow(a) \/ PollLate(a)
        \/ Others
    BY DEF Next, Others, Prepare, Poll
  <1>6. QED
    <2> HIDE DEF M
    <2>1. CASE \E a \in Click : M(a)
      <3>1. CASE M(b)
        BY <3>1 DEF M
      <3>2. CASE ~M(b)
        BY <1>2, <2>1, <3>2
      <3>3. QED
        BY <3>1, <3>2
    <2>2. QED
      BY <1>3, <1>4, <1>5, <2>1

(* Where the moves lead.                                                   *)
LEMMA MovesTo ==
  ASSUME TypeInv, [Next]_vars, NEW b \in Click, bpc'[b] # bpc[b]
  PROVE  \/ bpc[b] = "idle" /\ bpc'[b] = "sent" /\ Accept(b)
         \/ bpc[b] = "sent" /\ bpc'[b] \in {"fetch", "lost"}
              /\ HandlePrepare(b)
         \/ bpc[b] = "fetch" /\ bpc'[b] \in {"refused", "lost"}
              /\ PrepareFails(b)
         \/ bpc[b] = "fetch" /\ bpc'[b] = "remove" /\ PrepareSaves(b)
         \/ bpc[b] = "remove" /\ bpc'[b] = "poll" /\ PrepareRemoves(b)
         \/ bpc[b] = "poll" /\ bpc'[b] = "load" /\ PollReady(b)
         \/ bpc[b] = "poll" /\ bpc'[b] = "error"
              /\ (PollUnknown(b) \/ PollFails(b))
         \/ bpc[b] = "load" /\ bpc'[b] = "getshowdata" /\ CompleteLoad(b)
         \/ bpc[b] = "reload" /\ bpc'[b] = "done" /\ CompleteLoad(b)
         \/ bpc[b] = "getshowdata" /\ bpc'[b] \in {"reload", "stuck", "error"}
              /\ FetchShowData(b)
         \/ WorkerStops
  <1>1. ClickTypes
    BY DEF TypeInv, TypeOK, ClickTypes
  <1>2. ASSUME NEW pc, Goto(b, pc) PROVE bpc'[b] = pc
    BY <1>1, <1>2 DEF Goto, ClickTypes
  <1>3. CASE Accept(b) \/ HandlePrepare(b) \/ PrepareFails(b)
    BY <1>2, <1>3 DEF Accept, HandlePrepare, PrepareFails
  <1>4. CASE PrepareSaves(b) \/ PrepareRemoves(b) \/ CompleteLoad(b)
    BY <1>2, <1>4 DEF PrepareSaves, PrepareRemoves, CompleteLoad
  <1>5. CASE PollReady(b) \/ PollUnknown(b) \/ PollFails(b)
    BY <1>2, <1>5 DEF PollReady, PollUnknown, PollFails, Polling, Fail
  <1>6. CASE FetchShowData(b)
    BY <1>2, <1>6 DEF FetchShowData, Fail
  <1>7. QED
    BY <1>3, <1>4, <1>5, <1>6, Moves

LEMMA WaitNext == TypeInv /\ WaitInv /\ [Next]_vars => WaitInv'
  <1> SUFFICES ASSUME TypeInv, WaitInv, [Next]_vars,
                      NEW b \in Click, ToldReady(b)', bpc'[b] # "stopped"
               PROVE  ~Waiting(b)'
    BY DEF WaitInv
  <1>0. ClickTypes
    BY DEF TypeInv, TypeOK, ClickTypes
  <1>1. bpc[b] # "idle"
    BY <1>0, MovesTo DEF WorkerStops, ToldReady, ClickTypes, Running, Replied
  <1>2. Waiting(b)' => Waiting(b)
    <2>1. CASE UNCHANGED wpc
      BY <2>1 DEF Waiting
    <2>2. ASSUME NEW a \in Click, Accept(a)
          PROVE  Waiting(b)' => Waiting(b)
      BY <1>0, <1>1, <2>2 DEF Accept, Waiting, ClickTypes
    <2>3. ASSUME NEW a \in Click, AcceptReturns(a) \/ AcceptThrows(a)
          PROVE  Waiting(b)' => Waiting(b)
      BY <1>0, <2>3 DEF AcceptReturns, AcceptThrows, Waiting, ClickTypes
    <2>4. CASE InitWallet \/ ClosePopup
      BY <1>0, <2>4 DEF InitWallet, ClosePopup, Waiting, ClickTypes
    <2>5. ASSUME NEW a \in Click, HandlePrepare(a) \/ Saving(a)
          PROVE  wpc' = wpc
      BY <2>5, SavingFrame DEF HandlePrepare
    <2>6. ASSUME NEW a \in Click, Quiet(a), ~AcceptReturns(a), ~AcceptThrows(a)
          PROVE  wpc' = wpc
      BY <2>6 DEF Quiet, PrepareFails, PrepareRemoves, CompleteLoad, PollSlow,
                  FetchShowData, PollOnly
    <2>7. CASE Others /\ ~InitWallet /\ ~ClosePopup
      BY <2>1, <2>7 DEF Others, Import, Delete, ShowPrepared, HandleRemove,
                        Reload, WorkerStops, WorkerStarts, Helper, vars
    <2>8. QED
      BY <2>1, <2>2, <2>3, <2>4, <2>5, <2>6, <2>7, Steps
  <1>3. CASE ToldReady(b) /\ bpc[b] # "stopped"
    BY <1>2, <1>3 DEF WaitInv
  <1>4. CASE PollReady(b) \/ PollUnknown(b) \/ PollFails(b)
    BY <1>2, <1>4 DEF PollReady, PollUnknown, PollFails, Polling, Waiting
  <1>5. bpc'[b] # bpc[b] => ToldReady(b) \/ WorkerStops
                            \/ PollReady(b) \/ PollUnknown(b) \/ PollFails(b)
    BY MovesTo DEF ToldReady
  <1>6. bpc[b] = "stopped" => bpc'[b] = "stopped"
    BY <1>0, MovesTo DEF WorkerStops, ClickTypes, Running, Replied
  <1>7. CASE WorkerStops
    BY <1>0, <1>3, <1>6, <1>7
       DEF WorkerStops, ToldReady, ClickTypes, Running, Replied
  <1>8. QED
    BY <1>3, <1>4, <1>5, <1>6, <1>7 DEF ToldReady

(* A preparation comes to use an object when handlePrepare finds it.       *)
LEMMA UsedNext ==
  ASSUME TypeInv, [Next]_vars, NEW e \in Click, Used(e)'
  PROVE  /\ ~WorkerStops
         /\ \/ Used(e)
            \/ \E a \in Click : /\ HandlePrepare(a)
                                /\ bpc'[a] = "fetch" /\ own'[a] = e
  <1>0. ClickTypes /\ ClickInv
    BY DEF TypeInv, TypeOK, ClickTypes
  <1> DEFINE W == {"fetch", "remove", "poll", "load", "getshowdata", "reload"}
  <1>1. PICK b \in Click : own'[b] = e /\ (b \in slow' \/ bpc'[b] \in W)
    BY DEF Used
  <1>2. ~WorkerStops
    BY <1>0, <1>1 DEF WorkerStops, ClickTypes, Running, Replied
  <1>3. CASE HandlePrepare(b)
    <2>1. bpc'[b] = "fetch"
      BY <1>0, <1>1, <1>3, HandlePrepareFinds DEF ClickInv, Replied
    <2>2. QED
      BY <1>1, <1>2, <1>3, <2>1
  <1>4. CASE ~HandlePrepare(b)
    <2>1. bpc'[b] \in W => bpc[b] \in W
      BY <1>2, <1>4, MovesTo
    <2>2. own'[b] = own[b]
      <3>1. ASSUME NEW a \in Click, HandlePrepare(a)
            PROVE  own'[b] = own[b]
        BY <1>4, <3>1, HandlePrepareFinds DEF TypeInv, TypeOK
      <3>2. ASSUME NEW a \in Click, Saving(a) PROVE own' = own
        BY <3>2, SavingFrame
      <3>3. ASSUME NEW a \in Click, Quiet(a) PROVE own' = own
        BY <3>3, QuietObj
      <3>4. ASSUME NEW a \in Click, Accept(a) PROVE own' = own
        BY <3>4 DEF Accept
      <3>5. QED
        BY <3>1, <3>2, <3>3, <3>4, OthersObj, Steps
    <2>3. b \in slow' => b \in slow \/ bpc[b] = "poll"
      <3>1. ASSUME NEW a \in Click, PollSlow(a)
            PROVE  slow' = slow \cup {a} /\ bpc[a] = "poll"
        BY <3>1 DEF PollSlow, Polling
      <3>2. ASSUME NEW a \in Click, Saving(a) PROVE slow' \subseteq slow
        BY <3>2, SavingRecord, SavesFrame
      <3>3. ASSUME NEW a \in Click,
                   \/ Accept(a) \/ HandlePrepare(a)
                   \/ Quiet(a) /\ ~PollSlow(a)
            PROVE  slow' = slow
        BY <3>3 DEF Accept, HandlePrepare, Quiet, AcceptReturns, AcceptThrows,
                    PrepareFails, PrepareRemoves, CompleteLoad, FetchShowData
      <3>4. CASE Others
        BY <3>4 DEF Others, Import, InitWallet, ClosePopup, Delete,
                    ShowPrepared, HandleRemove, Reload, WorkerStops,
                    WorkerStarts, Helper, vars
      <3>5. QED
        BY <3>1, <3>2, <3>3, <3>4, Steps
    <2>4. QED
      BY <1>1, <1>2, <2>1, <2>2, <2>3 DEF Used
  <1>5. QED
    BY <1>3, <1>4

LEMMA StopNext == TypeInv /\ StopInv /\ [Next]_vars => StopInv'
  <1> SUFFICES ASSUME TypeInv, StopInv, [Next]_vars,
                      NEW b \in Click, bpc'[b] = "stopped"
               PROVE  ~Used(own[b])' /\ own'[b] \notin listed'
    BY DEF StopInv
  <1>0. ClickTypes /\ ObjInv /\ own \in [Click -> Click] /\ TypeInv'
        /\ listed \subseteq Click
    BY TypeNext DEF TypeInv, TypeOK, ClickTypes
  <1>1. own'[b] \in Click
    BY <1>0 DEF TypeInv, TypeOK
  <1>2. CASE WorkerStops
    <2>1. PICK d \in Click : d = own'[b]
      BY <1>1
    <2>2. ~Used(d)' /\ listed' = {}
      BY <1>2, UsedNext DEF WorkerStops
    <2>3. QED
      BY <2>1, <2>2 DEF Used
  <1>3. CASE ~WorkerStops
    <2>1. bpc[b] = "stopped"
      BY <1>3, MovesTo
    <2>2. obj[own[b]] # NoObject /\ own[b] \in Click
      BY <1>0, <2>1 DEF ObjInv, Past, Replied, Object, NoObject, Record, Id
    <2>3. ~Used(own[b]) /\ own[b] \notin listed
      BY <2>1 DEF StopInv
    <2>4. ASSUME NEW a \in Click, HandlePrepare(a)
          PROVE  /\ own'[b] = own[b] /\ own[b] \notin listed'
                 /\ bpc'[a] = "fetch" => own'[a] # own[b]
      <3>1. a # b /\ own[a] = a /\ own[b] # a
        BY <2>1, <2>2, <2>4, HandlePrepareFinds
      <3>2. \/ \E d \in listed : /\ own' = [own EXCEPT ![a] = d]
                                /\ listed' = listed
            \/ own' = own /\ listed' = listed \cup {a}
            \/ own' = own /\ listed' = listed /\ bpc'[a] = "lost"
        BY <2>4, HandlePrepareFinds
      <3>3. QED
        BY <1>0, <2>3, <3>1, <3>2
    <2>5. own'[b] = own[b] /\ own[b] \notin listed'
      <3>1. ASSUME NEW a \in Click, Saving(a)
            PROVE  own' = own /\ listed' = listed
        BY <3>1, SavingFrame
      <3>2. ASSUME NEW a \in Click, Quiet(a)
            PROVE  own' = own /\ listed' \subseteq listed
        BY <3>2, QuietObj
      <3>3. ASSUME NEW a \in Click, Accept(a)
            PROVE  own' = own /\ listed' = listed
        BY <3>3 DEF Accept
      <3>4. ASSUME Others
            PROVE  own' = own /\ listed' \subseteq listed
        BY <3>4 DEF Others, Import, InitWallet, ClosePopup, Delete,
           ShowPrepared, HandleRemove, Reload, WorkerStops, WorkerStarts,
           Helper, LoadCreds, vars
      <3>5. QED
        BY <2>3, <2>4, <3>1, <3>2, <3>3, <3>4, Steps
    <2>6. ~Used(own[b])'
      <3> DEFINE e == own[b]
      <3>1. PICK d \in Click : d = e
        BY <2>2
      <3>2. ASSUME Used(d)' PROVE FALSE
        BY <2>3, <2>4, <3>1, <3>2, UsedNext
      <3>3. ~\E a \in Click :
               /\ own'[a] = d
               /\ \/ a \in slow'
                  \/ bpc'[a] \in {"fetch", "remove", "poll", "load",
                                  "getshowdata", "reload"}
        BY <3>2 DEF Used
      <3>4. QED
        BY <2>5, <3>1, <3>3 DEF Used
    <2>7. QED
      BY <2>5, <2>6 DEF Used
  <1>4. QED
    BY <1>2, <1>3

LEMMA GivenNext == TypeInv /\ GivenInv /\ [Next]_vars => GivenInv'
  <1> SUFFICES ASSUME TypeInv, GivenInv, [Next]_vars PROVE GivenInv'
    OBVIOUS
  <1>0. /\ ClickTypes /\ ClickInv /\ UidInv /\ ObjInv /\ RecInv
        /\ own \in [Click -> Click]
        /\ obj \in [Click -> Record \cup {NoObject}]
        /\ loaded \subseteq Record
    BY DEF TypeInv, TypeOK, ClickTypes
  <1>1. ASSUME NEW a \in Click, HandlePrepare(a) PROVE GivenInv'
    <2>1. credUid[a] = "none" /\ credUid' = credUid
      BY <1>0, <1>1, HandlePrepareFinds DEF ClickInv
    <2>2. \A b \in Click : b # a => own'[b] = own[b]
      BY <1>0, <1>1, HandlePrepareFinds
    <2>3. ASSUME NEW e \in Click
          PROVE  obj'[e] = obj[e] \/ obj'[e].id \in Card
      <3>1. ASSUME NEW r \in loaded, r.status = "PENDING"
            PROVE  r.id \in Card
        BY <1>0, <3>1 DEF RecInv, Good
      <3>2. QED
        BY <1>0, <1>1, <3>1, HandlePrepareFinds
    <2>4. \A b \in Click : credUid[b] \notin Card
      BY <1>0 DEF ClickTypes
    <2>5. QED
      BY <2>1, <2>2, <2>3, <2>4 DEF GivenInv
  <1>2. ASSUME NEW a \in Click, Saving(a) PROVE GivenInv'
    <2>1. PICK r \in Record : Saves(a, r)
      BY <1>2, SavingRecord
    <2>2. /\ own[a] \in Click /\ own' = own
          /\ \A b \in Click : obj'[b] = IF b = own[a] THEN r ELSE obj[b]
      BY <2>1, SavesFrame
    <2>3. CASE PrepareSaves(a)
      <3>1. PICK u \in Uid :
              HS!Begin(u) /\ credUid' = [credUid EXCEPT ![a] = u]
        BY <2>3 DEF PrepareSaves
      <3>2. \A b \in Click : credUid[b] # u
        BY <3>1 DEF TypeInv, UidInv, HS!Begin
      <3>3. r.id = u
        <4>1. bpc[a] = "fetch" /\ bpc'[a] = "remove"
          BY <1>0, <2>3 DEF PrepareSaves, Goto, ClickTypes
        <4>2. r.id = credUid'[a]
          BY <2>1, <4>1 DEF Saves, PollReady, Polling, PollUnknown, PollFails,
             FetchShowData
        <4>3. QED
          BY <1>0, <3>1, <4>2 DEF ClickTypes
      <3>4. ASSUME NEW e \in Click, obj[e].id = u PROVE FALSE
        <4>1. obj[e] # NoObject
          BY <3>4 DEF NoObject
        <4>2. QED
          BY <1>0, <3>2, <3>4, <4>1 DEF ObjInv, Good, Ids, Record
      <3>5. \A b \in Click : credUid'[b] = IF b = a THEN u ELSE credUid[b]
        BY <1>0, <3>1 DEF ClickTypes
      <3>6. QED
        BY <2>2, <3>2, <3>3, <3>4, <3>5 DEF GivenInv
    <2>4. CASE ~PrepareSaves(a)
      <3>1. credUid' = credUid
        BY <1>2, <2>4 DEF Saving, PollPreparing, PollReady, PollUnknown,
           PollFails, PollLate, FetchShowData, PollOnly
      <3>2. r.id = obj[own[a]].id
        BY <2>1, <2>4 DEF Saves, Object
      <3>3. QED
        BY <2>2, <3>1, <3>2 DEF GivenInv
    <2>5. QED
      BY <2>3, <2>4
  <1>3. ASSUME NEW a \in Click, Quiet(a) PROVE GivenInv'
    BY <1>3, QuietObj DEF GivenInv
  <1>4. ASSUME NEW a \in Click, Accept(a) PROVE GivenInv'
    BY <1>4 DEF Accept, GivenInv
  <1>5. CASE Others
    BY <1>5, OthersObj DEF GivenInv
  <1>6. QED
    BY <1>1, <1>2, <1>3, <1>4, <1>5, Steps

LEMMA ToldNext == TypeInv /\ ToldInv /\ [Next]_vars => ToldInv'
  <1> SUFFICES ASSUME TypeInv, ToldInv, [Next]_vars PROVE ToldInv'
    OBVIOUS
  <1> DEFINE Told(x) == \E a \in Click : asked[a] = x.card /\ ToldReady(a)
             Later(x) == \E a \in Click : asked'[a] = x.card /\ ToldReady(a)'
  <1>0. ClickTypes /\ ClickInv /\ ObjInv
    BY DEF TypeInv, TypeOK, ClickTypes
  <1>1. ASSUME NEW x, Told(x) PROVE Later(x)
    <2>1. PICK a \in Click : asked[a] = x.card /\ ToldReady(a)
      BY <1>1
    <2>2. ToldReady(a)'
      BY <1>0, <2>1, MovesTo
         DEF ToldReady, WorkerStops, ClickTypes, Running, Replied
    <2>3. asked'[a] = asked[a]
      BY <1>0, <2>1, ClickStays DEF ClickInv, ToldReady
    <2>4. QED
      BY <2>1, <2>2, <2>3
  <1>2. ASSUME NEW x, x \in db \cup {obj[b] : b \in Click},
               x.status = "PREPARED"
        PROVE  Later(x)
    BY <1>1, <1>2 DEF ToldInv
  <1>3. ASSUME \A x \in db' \cup {obj'[b] : b \in Click} :
                 x.status = "PREPARED" => Later(x)
        PROVE  ToldInv'
    BY <1>3 DEF ToldInv
  <1>4. ASSUME NEW a \in Click, Saving(a) PROVE ToldInv'
    <2>1. PICK r \in Record : Saves(a, r)
      BY <1>4, SavingRecord
    <2>2. /\ own[a] \in Click /\ Holds(a)
          /\ db' = Without(db, r.id) \cup {r}
          /\ \A b \in Click : obj'[b] = IF b = own[a] THEN r ELSE obj[b]
          /\ asked' = asked
      BY <2>1, SavesFrame
    <2>3. r.card = asked[a] /\ Object(a) \in {obj[b] : b \in Click}
          /\ r.card = Object(a).card
      BY <2>1, <2>2 DEF Saves, SavedAs, Object
    <2>4. ASSUME r.status = "PREPARED" PROVE Later(r)
      <3>1. CASE Object(a).status = "PREPARED"
        <4>1. Told(Object(a))
          BY <2>3, <3>1 DEF ToldInv
        <4>2. QED
          BY <1>1, <2>3, <4>1
      <3>2. CASE PollReady(a)
        <4>1. bpc'[a] = "load"
          BY <1>0, <3>2 DEF PollReady, Goto, ClickTypes
        <4>2. QED
          BY <2>2, <2>3, <4>1 DEF ToldReady
      <3>3. QED
        BY <2>1, <2>4, <3>1, <3>2 DEF Saves
    <2> HIDE DEF Later
    <2>5. QED
      BY <1>2, <1>3, <2>2, <2>4 DEF Without
  <1>5. ASSUME NEW a \in Click, HandlePrepare(a) PROVE ToldInv'
    <2>1. db' = db /\ \A b \in Click : obj'[b] = obj[b]
                                       \/ obj'[b].status = "PENDING"
      BY <1>5, HandlePrepareFinds DEF TypeInv, TypeOK
    <2> HIDE DEF Later
    <2>2. QED
      BY <1>2, <1>3, <2>1
  <1>6. ASSUME obj' = obj, NEW r, r.status # "PREPARED",
               db' \subseteq db \cup {r}
        PROVE  ToldInv'
    <2> HIDE DEF Later
    <2>1. QED
      BY <1>2, <1>3, <1>6
  <1>7. ASSUME NEW a \in Click, Accept(a) \/ Quiet(a) PROVE ToldInv'
    BY <1>6, <1>7, RestSaves, QuietObj DEF Accept
  <1>8. CASE Others
    BY <1>6, <1>8, RestSaves, OthersObj
  <1>9. QED
    BY <1>4, <1>5, <1>7, <1>8, Steps

(* What is PREPARED has the UID of a click.                                *)
LEMMA PreparedUid ==
  ASSUME TypeInv, NEW x, x.status = "PREPARED",
         x \in db \cup {obj[b] : b \in Click}
  PROVE  /\ x \in Record /\ Good(x) /\ x.id \in Uid
         /\ \E a \in Click : asked[a] = x.card /\ credUid[a] = x.id
  <1>1. x \in Record /\ Good(x)
    BY DEF TypeInv, TypeOK, RecInv, ObjInv, NoObject
  <1>2. x.id \in Uid
    BY <1>1 DEF Good, Record, Id
  <1>3. QED
    BY <1>1, <1>2 DEF Good, Ids, Record

LEMMA StoredNext ==
  TypeInv /\ WaitInv /\ GivenInv /\ StopInv /\ StoredInv /\ [Next]_vars
    => StoredInv'
  <1> SUFFICES ASSUME TypeInv, WaitInv, GivenInv, StopInv, StoredInv,
                      [Next]_vars,
                      NEW e \in Click, obj'[e].status = "PREPARED",
                      obj'[e].card \notin deleted', Used(e)'
               PROVE  \/ obj'[e] \in db'
                      \/ \E a \in Click : bpc'[a] = "poll" /\ own'[a] = e
    BY DEF StoredInv
  <1>0. /\ ClickTypes /\ ClickInv /\ ObjInv /\ GivenInv'
        /\ db \subseteq Record /\ own \in [Click -> Click]
        /\ obj \in [Click -> Record \cup {NoObject}]
        /\ imported \subseteq Card
    BY GivenNext DEF TypeInv, TypeOK, ClickTypes
  <1> DEFINE Polled == \E a \in Click : bpc[a] = "poll" /\ own[a] = e
  <1>1. ~WorkerStops
    BY UsedNext
  <1>2. Used(e)
    <2>1. ASSUME NEW a \in Click, HandlePrepare(a), bpc'[a] = "fetch",
                 own'[a] = e
          PROVE  obj'[e].status = "PENDING"
      BY <1>0, <2>1, HandlePrepareFinds
    <2>2. QED
      BY <2>1, UsedNext
  <1>3. CASE \E a \in Click : Saving(a)
    <2>1. PICK a \in Click : Saving(a)
      BY <1>3
    <2>2. PICK r \in Record : Saves(a, r)
      BY <2>1, SavingRecord
    <2>3. /\ own[a] \in Click
          /\ db' = Without(db, r.id) \cup {r}
          /\ \A b \in Click : obj'[b] = IF b = own[a] THEN r ELSE obj[b]
          /\ UNCHANGED <<own, deleted>>
          /\ \A b \in Click : b # a => bpc'[b] = bpc[b]
      BY <2>2, SavesFrame
    <2>4. CASE e = own[a]
      BY <2>3, <2>4
    <2>5. CASE e # own[a]
      <3>1. obj'[e] = obj[e] /\ obj'[own[a]] = r
        BY <2>3, <2>5
      <3>2. obj[e] \in db \/ Polled
        BY <1>2, <2>3, <3>1 DEF StoredInv
      <3>3. CASE Polled
        BY <2>3, <2>5, <3>3
      <3>4. ASSUME obj[e].id = r.id PROVE FALSE
        <4>1. PICK p \in Click : credUid[p] = obj[e].id
          BY <3>1, PreparedUid
        <4>2. credUid'[p] = obj[e].id /\ obj[e].id # "none"
          BY <3>1, <4>1, ClickStays, PreparedUid
        <4>3. own'[p] = e /\ own'[p] = own[a]
          BY <1>0, <2>3, <3>1, <3>4, <4>2 DEF GivenInv
        <4>4. QED
          BY <2>5, <4>3
      <3>5. QED
        BY <2>3, <3>1, <3>2, <3>3, <3>4 DEF Without
    <2>6. QED
      BY <2>4, <2>5
  <1>4. CASE ~\E a \in Click : Saving(a)
    <2>1. obj'[e] = obj[e]
      <3>1. ASSUME NEW a \in Click, HandlePrepare(a) PROVE obj'[e] = obj[e]
        BY <1>0, <3>1, HandlePrepareFinds
      <3>2. ASSUME NEW a \in Click, Accept(a) \/ Quiet(a) PROVE obj' = obj
        BY <3>2, QuietObj DEF Accept
      <3>3. QED
        BY <1>4, <3>1, <3>2, OthersObj, Steps
    <2>2. deleted \subseteq deleted'
      <3>1. ASSUME NEW v \in view, Delete(v) PROVE deleted \subseteq deleted'
        BY <3>1 DEF Delete
      <3>2. ASSUME NEW a \in Click, Accept(a) \/ HandlePrepare(a) \/ Quiet(a)
            PROVE  deleted' = deleted
        BY <3>2 DEF Accept, HandlePrepare, Quiet, AcceptReturns, AcceptThrows,
                    PrepareFails, PrepareRemoves, CompleteLoad, PollSlow,
                    FetchShowData, PollOnly
      <3>3. CASE Others /\ ~\E v \in view : Delete(v)
        BY <3>3 DEF Others, Import, InitWallet, ClosePopup, ShowPrepared,
           HandleRemove, Reload, WorkerStops, WorkerStarts, Helper, vars
      <3>4. QED
        BY <1>4, <3>1, <3>2, <3>3, Steps
    <2>3. obj[e] \in db \/ Polled
      BY <1>2, <2>1, <2>2 DEF StoredInv
    <2>4. ASSUME NEW p \in Click, bpc[p] = "poll", own[p] = e
          PROVE  bpc'[p] = "poll" /\ own'[p] = e
      <3>1. bpc'[p] = "poll"
        BY <1>1, <1>4, <2>4, MovesTo DEF Saving
      <3>2. ASSUME NEW a \in Click, HandlePrepare(a) PROVE own'[p] = own[p]
        BY <1>0, <2>4, <3>2, HandlePrepareFinds
      <3>3. ASSUME NEW a \in Click, Accept(a) \/ Quiet(a) PROVE own' = own
        BY <3>3, QuietObj DEF Accept
      <3>4. QED
        BY <1>4, <2>4, <3>1, <3>2, <3>3, OthersObj, Steps
    <2>5. ASSUME obj[e] \in db
          PROVE  obj[e] \in db' \/ Polled
      <3>1. obj[e].id \in Uid /\ Good(obj[e]) /\ obj[e].card \in Card
        BY <2>1, PreparedUid DEF Record
      <3>2. ASSUME NEW c \in Card, Import(c) PROVE obj[e] \in db'
        BY <2>5, <3>1, <3>2 DEF Import, addData, Without
      <3>3. ASSUME NEW a \in Click, AcceptReturns(a)
            PROVE  obj[e] \in db' \/ Polled
        <4>1. CASE obj[e].id # credUid[a]
          BY <2>5, <3>3, <4>1 DEF AcceptReturns, addData, Without
        <4>2. CASE obj[e].id = credUid[a]
          <5>1. own[a] = e
            BY <3>1, <4>2 DEF GivenInv
          <5>2. bpc[a] \in {"poll", "stopped"}
            BY <3>3 DEF AcceptReturns, Replied, WaitInv, ToldReady
          <5>3. bpc[a] # "stopped"
            BY <1>2, <5>1 DEF StopInv
          <5>4. QED
            BY <5>1, <5>2, <5>3
        <4>3. QED
          BY <4>1, <4>2
      <3>4. ASSUME NEW a \in Click, PrepareRemoves(a) PROVE obj[e] \in db'
        <4>1. asked[a] \in Card
          BY <3>4, ObjectGood DEF PrepareRemoves, Past
        <4>2. QED
          BY <2>5, <3>1, <3>4, <4>1 DEF PrepareRemoves, removeData, Without
      <3>5. ASSUME NEW v \in view, Delete(v) PROVE obj[e] \in db'
        <4>1. v.card \in Card /\ v.id \in Ids(v.card)
          BY DEF TypeInv, TypeOK, RecInv, Good, Element
        <4>2. v.card \in deleted' /\ db' = Without(db, v.id)
          BY <3>5 DEF Delete, ShownId, removeData
        <4>3. obj[e].id # v.id
          BY <2>1, <3>1, <4>1, <4>2, IdsDisjoint DEF Good
        <4>4. QED
          BY <2>5, <4>2, <4>3 DEF Without
      <3>6. ASSUME NEW a \in Click,
                   \/ Accept(a) \/ HandlePrepare(a)
                   \/ Quiet(a) /\ ~AcceptReturns(a) /\ ~PrepareRemoves(a)
            PROVE  db' = db
        BY <3>6 DEF Accept, HandlePrepare, Quiet, AcceptThrows, PrepareFails,
                    CompleteLoad, PollSlow, PollOnly, FetchShowData, Fail,
                    Goto, TypeInv, TypeOK
      <3>7. CASE Others /\ ~(\E c \in Card : Import(c))
                        /\ ~(\E v \in view : Delete(v))
        BY <2>5, <3>7 DEF Others, InitWallet, ClosePopup, ShowPrepared,
           HandleRemove, Reload, WorkerStops, WorkerStarts, Helper, vars
      <3>8. QED
        BY <1>4, <2>5, <3>2, <3>3, <3>4, <3>5, <3>6, <3>7, Steps
    <2>6. QED
      BY <2>1, <2>3, <2>4, <2>5
  <1>5. QED
    BY <1>3, <1>4

LEMMA ListedNext == TypeInv /\ ListedInv /\ [Next]_vars => ListedInv'
  <1> SUFFICES ASSUME TypeInv, ListedInv, [Next]_vars,
                      NEW e \in listed', obj'[e].status = "PREPARED"
               PROVE  \E a \in Click : bpc'[a] = "load"
    BY DEF ListedInv
  <1>0. /\ ClickTypes /\ own \in [Click -> Click] /\ listed \subseteq Click
        /\ obj \in [Click -> Record \cup {NoObject}]
    BY DEF TypeInv, TypeOK, ClickTypes
  <1>1. ASSUME NEW a \in Click, bpc[a] = "load", listed' # {}
        PROVE  bpc'[a] = "load"
    BY <1>1, MovesTo DEF CompleteLoad, LoadCreds, WorkerStops
  <1>2. ASSUME e \in listed, obj[e].status = "PREPARED"
        PROVE  \E a \in Click : bpc'[a] = "load"
    BY <1>1, <1>2 DEF ListedInv
  <1>3. ASSUME NEW a \in Click, Saving(a)
        PROVE  \E b \in Click : bpc'[b] = "load"
    <2>1. PICK r \in Record : Saves(a, r)
      BY <1>3, SavingRecord
    <2>2. /\ own[a] \in Click /\ listed' = listed
          /\ \A b \in Click : obj'[b] = IF b = own[a] THEN r ELSE obj[b]
      BY <2>1, SavesFrame
    <2>3. CASE PollReady(a)
      BY <1>0, <2>3 DEF PollReady, Goto, ClickTypes
    <2>4. CASE ~PollReady(a)
      <3>1. e = own[a] => r.status # "PREPARED" \/ obj[e].status = "PREPARED"
        BY <2>1, <2>4 DEF Saves, Object
      <3>2. obj[e].status = "PREPARED"
        BY <1>0, <2>2, <3>1
      <3>3. QED
        BY <1>2, <2>2, <3>2
    <2>5. QED
      BY <2>3, <2>4
  <1>4. ASSUME NEW a \in Click, HandlePrepare(a)
        PROVE  e \in listed /\ obj[e].status = "PREPARED"
    BY <1>0, <1>4, HandlePrepareFinds
  <1>5. ASSUME NEW a \in Click, Accept(a) \/ Quiet(a)
        PROVE  e \in listed /\ obj[e].status = "PREPARED"
    BY <1>5, QuietObj DEF Accept
  <1>6. ASSUME Others
        PROVE  e \in listed /\ obj[e].status = "PREPARED"
    <2>1. listed' \subseteq listed
      BY <1>6 DEF Others, Import, InitWallet, ClosePopup, Delete, ShowPrepared,
         HandleRemove, Reload, WorkerStops, WorkerStarts, LoadCreds, Helper,
         vars
    <2>2. QED
      BY <1>6, <2>1, OthersObj
  <1>7. QED
    BY <1>2, <1>3, <1>4, <1>5, <1>6, Steps

LEMMA TwiceStays ==
  ASSUME TypeInv, [Next]_vars, NEW c \in Card, AcceptedTwice(c)'
  PROVE  AcceptedTwice(c)
  <1> SUFFICES ASSUME NEW a \in Click, NEW b \in Click, NEW e \in Click,
                      asked[a] = c, asked[b] = c, asked[e] = c
               PROVE  a = b \/ b = e \/ a = e
    BY DEF AcceptedTwice
  <1>1. asked'[a] = c /\ asked'[b] = c /\ asked'[e] = c
    BY ClickStays
  <1>2. QED
    BY <1>1 DEF AcceptedTwice

BackInv == /\ WaitInv /\ GivenInv /\ StopInv /\ ToldInv /\ StoredInv
           /\ ListedInv /\ CurrentInv

(* The record that a preparation saves: it loads afterwards, or is to save *)
(* it again, or saves what was there.                                      *)
LEMMA SavedCurrent ==
  ASSUME TypeInv, BackInv, [Next]_vars, NEW a \in Click,
         NEW r \in Record, Saves(a, r),
         r.status = "PREPARED", r.card \notin deleted', AcceptedTwice(r.card)'
  PROVE  Current(r)'
  <1>0. /\ ClickTypes /\ own \in [Click -> Click]
        /\ obj \in [Click -> Record \cup {NoObject}]
    BY DEF TypeInv, TypeOK, ClickTypes
  <1>1. /\ own[a] \in Click /\ Holds(a)
        /\ db' = Without(db, r.id) \cup {r}
        /\ \A b \in Click : obj'[b] = IF b = own[a] THEN r ELSE obj[b]
        /\ UNCHANGED <<own, listed, loaded, awake, reloads, deleted>>
        /\ \A b \in Click : b # a => bpc'[b] = bpc[b]
    BY SavesFrame
  <1>2. CASE PollReady(a)
    <2>1. bpc'[a] = "load"
      BY <1>0, <1>2 DEF PollReady, Goto, ClickTypes
    <2>2. QED
      BY <2>1 DEF Current
  <1>3. CASE FetchShowData(a) /\ bpc'[a] = "reload"
    BY <1>3 DEF Current
  <1>4. CASE PollPreparing(a) /\ bpc' = bpc
    <2>1. bpc'[a] = "poll" /\ obj'[own'[a]].id = r.id
      BY <1>1, <1>4 DEF PollPreparing, Polling
    <2>2. QED
      BY <2>1 DEF Current, Object
  <1>5. CASE PollLate(a) /\ r = Object(a) /\ bpc' = bpc
    <2>1. r = obj[own[a]] /\ \A b \in Click : obj'[b] = obj[b]
      BY <1>1, <1>5 DEF Object
    <2>2. Used(own[a])
      BY <1>5 DEF PollLate, Used
    <2>3. r \in db \/ \E b \in Click : bpc[b] = "poll" /\ own[b] = own[a]
      BY <1>1, <2>1, <2>2 DEF BackInv, StoredInv
    <2>4. ASSUME NEW b \in Click, bpc[b] = "poll", own[b] = own[a]
          PROVE  Current(r)'
      <3>1. bpc'[b] = "poll" /\ obj'[own'[b]].id = r.id
        BY <1>1, <1>5, <2>1, <2>4
      <3>2. QED
        BY <3>1 DEF Current, Object
    <2>5. ASSUME r \in db PROVE Current(r)'
      <3>1. AcceptedTwice(r.card)
        <4>1. r.card \in Card
          BY DEF Record
        <4>2. PICK c \in Card : c = r.card
          BY <4>1
        <4>3. QED
          BY <4>2, TwiceStays
      <3>2. Current(r)
        BY <1>1, <2>5, <3>1 DEF BackInv, CurrentInv
      <3>3. \A b \in Click : Object(b)' = Object(b)
        BY <1>0, <1>1, <2>1 DEF Object
      <3>4. {obj'[b] : b \in listed'} = {obj[b] : b \in listed}
        BY <1>1, <2>1 DEF TypeInv, TypeOK
      <3>5. QED
        BY <1>1, <1>5, <3>2, <3>3, <3>4 DEF Current
    <2>6. QED
      BY <2>3, <2>4, <2>5
  <1>6. QED
    BY <1>2, <1>3, <1>4, <1>5 DEF Saves

(* A record that the step leaves there.                                    *)
LEMMA OldCurrent ==
  ASSUME TypeInv, BackInv, [Next]_vars, NEW a \in Click,
         NEW r \in Record, Saves(a, r),
         NEW q \in db, q.id # r.id,
         q.status = "PREPARED", q.card \notin deleted', AcceptedTwice(q.card)'
  PROVE  Current(q)'
  <1>0. /\ ClickTypes /\ own \in [Click -> Click] /\ listed \subseteq Click
        /\ obj \in [Click -> Record \cup {NoObject}]
    BY DEF TypeInv, TypeOK, ClickTypes
  <1>1. /\ own[a] \in Click /\ Holds(a)
        /\ \A b \in Click : obj'[b] = IF b = own[a] THEN r ELSE obj[b]
        /\ UNCHANGED <<own, asked, listed, loaded, awake, reloads, deleted>>
        /\ \A b \in Click : b # a => bpc'[b] = bpc[b]
    BY SavesFrame
  <1>2. Current(q) /\ AcceptedTwice(q.card) /\ q.card \in Card
    <2>1. q.card \in Card
      BY DEF TypeInv, TypeOK, Record
    <2>2. PICK c \in Card : c = q.card
      BY <2>1
    <2>3. AcceptedTwice(q.card)
      BY <2>2, TwiceStays
    <2>4. QED
      BY <1>1, <2>1, <2>3 DEF BackInv, CurrentInv
  <1>3. \A b \in Click : bpc[b] = "load" => bpc'[b] = "load"
    BY <1>1, MovesTo DEF Saves, PrepareSaves, PollPreparing, PollReady,
       PollUnknown, PollFails, Polling, FetchShowData
  <1>4. CASE q \in loaded \/ ~awake \/ reloads > 0
    BY <1>1, <1>4 DEF Current
  <1>5. ASSUME NEW b \in listed, q = obj[b] PROVE Current(q)'
    <2>1. PICK e \in Click : bpc[e] = "load"
      BY <1>5 DEF BackInv, ListedInv
    <2>2. QED
      BY <1>3, <2>1 DEF Current
  <1>6. ASSUME NEW b \in Click, bpc[b] \in {"load", "reload"} PROVE Current(q)'
    <2>1. bpc'[b] = bpc[b]
      BY <1>1, <1>6 DEF Saves, PrepareSaves, PollPreparing, PollReady,
                        PollUnknown, PollFails, Polling, FetchShowData
    <2>2. QED
      BY <1>6, <2>1 DEF Current
  <1>7. ASSUME NEW b \in Click, bpc[b] = "poll", Object(b).id = q.id
        PROVE  Current(q)'
    <2>1. /\ Object(a) = obj[own[a]] /\ Object(b) = obj[own[b]]
          /\ asked[a] = Object(a).card /\ asked[b] = Object(b).card
          /\ Good(Object(b)) /\ asked[b] \in Card
      BY <1>1, <1>7, ObjectGood DEF Holds, Past, Replied
    <2>2. ASSUME PrepareSaves(a), own[b] = own[a] PROVE FALSE
      <3>1. q.card = asked[b]
        BY <1>2, <1>7, <2>1, IdsDisjoint, PreparedUid DEF Good
      <3>2. PICK e \in Click : asked[e] = q.card /\ ToldReady(e)
        BY DEF BackInv, ToldInv
      <3>3. bpc[a] = "fetch"
        BY <2>2 DEF PrepareSaves
      <3>4. a # b /\ b # e /\ a # e
        BY <1>7, <3>2, <3>3 DEF ToldReady
      <3>5. QED
        BY <1>2, <2>1, <2>2, <3>1, <3>2, <3>4 DEF AcceptedTwice
    <2>3. own[b] # own[a]
      <3>1. ASSUME own[b] = own[a] PROVE FALSE
        <4>1. r.id = Object(a).id
          BY <2>2, <3>1 DEF Saves
        <4>2. QED
          BY <1>7, <2>1, <3>1, <4>1
      <3>2. QED
        BY <3>1
    <2>4. bpc'[b] = "poll" /\ Object(b)' = Object(b)
      BY <1>0, <1>1, <1>7, <2>3 DEF Object
    <2>5. QED
      BY <1>7, <2>4 DEF Current
  <1>8. QED
    BY <1>2, <1>4, <1>5, <1>6, <1>7 DEF Current

LEMMA CurrentNext == TypeInv /\ BackInv /\ [Next]_vars => CurrentInv'
  <1> SUFFICES ASSUME TypeInv, BackInv, [Next]_vars,
                      NEW q \in db', q.status = "PREPARED",
                      q.card \notin deleted', AcceptedTwice(q.card)'
               PROVE  Current(q)'
    BY DEF CurrentInv
  <1>0. /\ ClickTypes /\ own \in [Click -> Click] /\ listed \subseteq Click
        /\ obj \in [Click -> Record \cup {NoObject}] /\ reloads \in Nat
        /\ ObjInv /\ db \subseteq Record /\ TypeInv'
    BY TypeNext DEF TypeInv, TypeOK, ClickTypes
  <1>1. ASSUME NEW a \in Click, Saving(a) PROVE Current(q)'
    <2>1. PICK r \in Record : Saves(a, r)
      BY <1>1, SavingRecord
    <2>2. q = r \/ (q \in db /\ q.id # r.id)
      BY <2>1, SavesFrame DEF Without
    <2>3. CASE q = r
      BY <2>1, <2>3, SavedCurrent
    <2>4. CASE q \in db /\ q.id # r.id
      BY <2>1, <2>4, OldCurrent
    <2>5. QED
      BY <2>2, <2>3, <2>4
  <1>2. ASSUME q \in db, deleted \subseteq deleted' PROVE Current(q)
    <2>1. PICK c \in Card : c = q.card
      BY <1>0, <1>2 DEF Record
    <2>2. AcceptedTwice(q.card)
      BY <2>1, TwiceStays
    <2>3. QED
      BY <1>2, <2>2 DEF BackInv, CurrentInv
  <1>3. ASSUME Current(q), UNCHANGED <<loaded, listed, obj, own, awake>>,
               reloads' = reloads,
               \A b \in Click : bpc[b] \in {"load", "reload", "poll"}
                                  => bpc'[b] = bpc[b]
        PROVE  Current(q)'
    <2>1. \A b \in Click : Object(b)' = Object(b)
      BY <1>3 DEF Object
    <2>2. QED
      BY <1>3, <2>1 DEF Current
  <1>4. ASSUME LoadCreds, db' = db PROVE Current(q)'
    BY <1>4 DEF LoadCreds, Current
  <1>5. ASSUME reloads' > 0 \/ ~awake' PROVE Current(q)'
    BY <1>5 DEF Current
  <1>6. ASSUME NEW a \in Click, HandlePrepare(a) PROVE Current(q)'
    <2>1. /\ bpc[a] = "sent" /\ obj[a] = NoObject /\ own[a] = a
          /\ UNCHANGED <<db, awake, reloads, deleted>>
          /\ \A b \in Click : b # a => bpc'[b] = bpc[b]
      BY <1>6, HandlePrepareFinds
    <2>2. Current(q) /\ q.id \notin Card
      BY <1>0, <1>2, <2>1, PreparedUid
    <2>3. asked[a] \in Card
      BY <2>1 DEF TypeInv, TypeOK, ClickInv
    <2>4. q \in loaded => q \in loaded'
      BY <1>0, <1>6, <2>2, <2>3, HandlePrepareFinds DEF Without
    <2>5. \A b \in listed : b \in listed' /\ obj'[b] = obj[b]
      BY <1>0, <1>6, <2>1, HandlePrepareFinds DEF ObjInv
    <2>6. ASSUME NEW b \in Click, bpc[b] = "poll"
          PROVE  Object(b)' = Object(b)
      <3>1. obj[own[b]] # NoObject /\ b # a /\ own[b] \in Click
        BY <1>0, <2>1, <2>6 DEF ObjInv, Past, Replied, Object, NoObject,
           Record, Id
      <3>2. QED
        BY <1>0, <1>6, <2>1, <3>1, HandlePrepareFinds DEF Object
    <2>7. QED
      BY <2>1, <2>2, <2>4, <2>5, <2>6 DEF Current
  <1>7. ASSUME NEW a \in Click, Accept(a) PROVE Current(q)'
    BY <1>0, <1>2, <1>3, <1>7 DEF Accept, Goto, ClickTypes
  <1>8. ASSUME NEW a \in Click, Quiet(a) PROVE Current(q)'
    <2>1. CASE AcceptReturns(a)
      <3>1. reloads' = reloads + 1
        BY <2>1 DEF AcceptReturns
      <3>2. QED
        BY <1>0, <1>5, <3>1
    <2>2. CASE CompleteLoad(a)
      BY <1>4, <2>2 DEF CompleteLoad
    <2>3. CASE PrepareRemoves(a)
      <3>1. /\ db' \subseteq db /\ bpc[a] = "remove" /\ deleted' = deleted
            /\ UNCHANGED <<loaded, listed, obj, own, awake, reloads>>
            /\ \A b \in Click : b # a => bpc'[b] = bpc[b]
        BY <1>0, <2>3 DEF PrepareRemoves, removeData, Without, Goto, ClickTypes
      <3>2. QED
        BY <1>2, <1>3, <3>1
    <2>4. CASE \/ AcceptThrows(a) \/ PrepareFails(a) \/ PollSlow(a)
               \/ FetchShowData(a) /\ bpc'[a] = "stuck"
      <3>1. /\ db' = db /\ deleted' = deleted
            /\ UNCHANGED <<loaded, listed, obj, own, awake, reloads>>
            /\ \A b \in Click : bpc[b] \in {"load", "reload", "poll"}
                                  => bpc'[b] = bpc[b]
        BY <1>0, <2>4 DEF AcceptThrows, PrepareFails, PollSlow, PollOnly,
           FetchShowData, Fail, Goto, ClickTypes
      <3>2. QED
        BY <1>2, <1>3, <3>1
    <2>5. QED
      BY <1>8, <2>1, <2>2, <2>3, <2>4 DEF Quiet
  <1>9. CASE Others
    <2>1. CASE \E c \in Card : Import(c)
      BY <1>0, <1>5, <2>1 DEF Import
    <2>2. CASE WorkerStops
      BY <1>5, <2>2 DEF WorkerStops
    <2>3. CASE Reload \/ WorkerStarts
      BY <1>4, <2>3 DEF Reload, WorkerStarts
    <2>4. CASE \/ InitWallet \/ ClosePopup \/ \E v \in view : Delete(v)
               \/ \E u \in Uid : ShowPrepared(u) \/ HandleRemove(u)
               \/ Helper \/ UNCHANGED vars
      <3>1. /\ db' \subseteq db /\ deleted \subseteq deleted'
            /\ UNCHANGED <<loaded, listed, obj, own, awake, reloads, bpc>>
        BY <2>4 DEF InitWallet, ClosePopup, Delete, removeData, Without,
                    ShowPrepared, HandleRemove, Helper, vars
      <3>2. QED
        BY <1>2, <1>3, <3>1
    <2>5. QED
      BY <1>9, <2>1, <2>2, <2>3, <2>4 DEF Others
  <1>10. QED
    BY <1>1, <1>6, <1>7, <1>8, <1>9, Steps

(* When the worker is awake, no load is to come and no click is under way, *)
(* the record of every PREPARED card that is not deleted and was accepted  *)
(* with at most two clicks is among the background's copies, however       *)
(* preparations share objects, poll late, fail or are stopped with the     *)
(* worker (Credential.get, _prepareComplete).                              *)
THEOREM BackgroundIsCurrentCorrect == Spec => []BackgroundIsCurrent
  <1>1. Init => BackInv
    <2> SUFFICES ASSUME Init PROVE BackInv
      OBVIOUS
    <2>1. /\ db = {} /\ listed = {} /\ slow = {}
          /\ \A b \in Click : /\ obj[b] = NoObject /\ bpc[b] = "idle"
                              /\ credUid[b] = "none"
      BY DEF Init
    <2>2. NoObject.status # "PREPARED"
      BY DEF NoObject
    <2>3. QED
      BY <2>1, <2>2 DEF BackInv, WaitInv, GivenInv, StopInv, ToldInv,
         StoredInv, ListedInv, CurrentInv, ToldReady
  <1>2. TypeInv /\ BackInv /\ [Next]_vars => BackInv'
    BY WaitNext, GivenNext, StopNext, ToldNext, StoredNext, ListedNext,
       CurrentNext DEF BackInv
  <1>3. TypeInv /\ BackInv => BackgroundIsCurrent
    BY DEF TypeInv, TypeOK, BackInv, CurrentInv, Current, Live, Running,
           BackgroundIsCurrent
  <1>4. QED
    BY <1>1, <1>2, <1>3, TypeInit, TypeNext, PTL DEF Spec

===============================================================================
