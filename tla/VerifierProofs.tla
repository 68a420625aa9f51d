---------------------------- MODULE VerifierProofs ----------------------------
(***************************************************************************)
(* Proofs about Verifier, for any number of sessions, calls, issuers, keys *)
(* and restarts, and any order in which the shared folders are listed.     *)
(***************************************************************************)
EXTENDS Verifier, TLAPS

USE DEF inputs, book, disk, world, GoTo, AddEntry, SetPem, Break, Here, Refuse

(* A call past its first checks carries the inputs that passed them.       *)
InputInv ==
  \A r \in Request : rpc[r] \in Running =>
    /\ rsession[r] \in sessions
    /\ rschema[r] \in SCHEMA_UIDS
    /\ rissuer[r] \in Issuer
    /\ rdisc[r] \in Disclosures

(* A call is at an entry of the listing, from the first one on.            *)
PlaceInv ==
  \A r \in Request :
    /\ rpc[r] \in {"idle", "check", "mkdir"} => rnext[r] = 1
    /\ rpc[r] = "link" => rnext[r] \in 1..Len(Listing[rschema[r]])

(* What a call fetched is a key.                                           *)
KeptInv == \A r \in Request : rpc[r] \in {"truncate", "write"} => rkey[r] \in Key

TypeInv == TypeOK /\ InputInv /\ PlaceInv /\ KeptInv

(* How far a call has come with the links is what it finds in the folder.  *)
LinkInv ==
  \A r \in Request :
    /\ rpc[r] = "link" =>
         \A n \in 1..(rnext[r] - 1) : Listing[rschema[r]][n] \in Here(r)
    /\ rpc[r] \in {"fetch", "truncate", "write"} =>
         rschema[r] # "mdl_1" /\ shared(rschema[r]) \subseteq Here(r)

First(f) == Listing[f[1]][1]

(* The first link is what the calls compete for.                           *)
BuildInv ==
  /\ \A r \in Request : Building(r) => First(issuer_folder(r)) \in Here(r)
  /\ OneBuilder

(* The builder of a JWT folder is the one who writes its key, once.        *)
PemInv ==
  /\ \A f \in Folder :
       /\ pem[f] # "none" <=> "issuer.pub" \in folder[f]
       /\ f[1] = "mdl_1" => pem[f] \in {"none", SharedKey}
       /\ f[1] # "mdl_1" /\ pem[f] # "none" => shared(f[1]) \subseteq folder[f]
  /\ \A r \in Request :
       Building(r) /\ rschema[r] # "mdl_1" =>
         pem[issuer_folder(r)] = IF rpc[r] = "write" THEN "empty" ELSE "none"

(* Where each key comes from.                                              *)
ServedInv ==
  /\ \A s \in SCHEMA_UIDS \ {"mdl_1"}, i \in Issuer :
       jwk[i] \in served[<<s, issuer_uid[i]>>]
  /\ \A f \in Folder : f[1] = "mdl_1" => SharedKey \in served[f]
  /\ \A f \in Folder : pem[f] \in Key => pem[f] \in served[f]
  /\ \A r \in Request :
       /\ rpc[r] \in {"truncate", "write"} => rkey[r] \in served[issuer_folder(r)]
       /\ rpc[r] = "verify" => rkey[r] \in served[issuer_folder(r)] \cup {"empty"}

(* Who is to complete a folder, from its first link on and before it.      *)
CauseInv ==
  /\ \A r \in Request :
       rpc[r] \in Running \ {"check", "mkdir"} => Here(r) # {}
  /\ \A f \in Folder \ broken : folder[f] # {} /\ ~Complete(f) =>
       \E r \in Request : rpc[r] \in SettingUp /\ issuer_folder(r) = f
  /\ \A f \in Folder \ broken : First(f) \in folder[f] /\ ~Complete(f) =>
       \E r \in Request : Building(r) /\ issuer_folder(r) = f

Inv == LinkInv /\ BuildInv /\ PemInv /\ ServedInv /\ ResultIsEarned /\ CauseInv

-------------------------------------------------------------------------------
(***************************************************************************)
(* Type correctness                                                        *)
(***************************************************************************)

LEMMA Tables ==
  /\ \A s \in SCHEMA_UIDS : cred_type_from_schema(s) = "jwt" <=> s # "mdl_1"
  /\ \A s \in SCHEMA_UIDS : cred_type_from_schema(s) = "mdl" <=> s = "mdl_1"
  BY DEF SCHEMA_UIDS, cred_type_from_schema

LEMMA Entries ==
  ASSUME NEW s \in SCHEMA_UIDS
  PROVE  /\ Len(Listing[s]) \in Nat
         /\ \A n \in 1..Len(Listing[s]) : Listing[s][n] \in shared(s)
         /\ \A e \in shared(s) : \E n \in 1..Len(Listing[s]) : Listing[s][n] = e
         /\ Len(Listing[s]) >= 1
         /\ shared(s) \subseteq SharedEntry
         /\ "cache" \in shared(s)
         /\ "issuer.pub" \in shared(s) <=> s = "mdl_1"
  <1>1. Listing[s] \in Seq(SharedEntry) /\ shared(s) = {Listing[s][n] : n \in 1..Len(Listing[s])}
    BY ListingAssumption
  <1>2. "cache" \in shared(s) /\ shared(s) \subseteq SharedEntry
    BY DEF shared, SharedEntry
  <1>3. Len(Listing[s]) \in Nat /\ \E n \in 1..Len(Listing[s]) : Listing[s][n] = "cache"
    BY <1>1, <1>2
  <1>4. Len(Listing[s]) >= 1
    BY <1>3
  <1>5. "issuer.pub" \in shared(s) <=> s = "mdl_1"
    BY DEF shared
  <1>6. QED
    BY <1>1, <1>2, <1>3, <1>4, <1>5

LEMMA IssuerFolder ==
  ASSUME TypeInv, NEW r \in Request, rpc[r] \in Running
  PROVE  issuer_folder(r) \in Folder /\ issuer_folder(r)[1] = rschema[r]
  BY IssuerAssumption DEF TypeInv, InputInv, issuer_folder, Folder

(* The folder of a call stays its folder.                                  *)
LEMMA SameFolder ==
  ASSUME NEW r \in Request, rschema'[r] = rschema[r], rissuer'[r] = rissuer[r]
  PROVE  issuer_folder(r)' = issuer_folder(r)
  BY DEF issuer_folder

LEMMA TypeInit == Init => TypeInv
  <1> SUFFICES ASSUME Init PROVE TypeInv
    OBVIOUS
  <1>1. served \in [Folder -> SUBSET Key]
    BY KeyAssumption DEF Init
  <1>2. QED
    BY <1>1, RestartsAssumption DEF Init, TypeInv, TypeOK, InputInv, PlaceInv, KeptInv,
       Running, SettingUp

LEMMA BaseContextType ==
  ASSUME TypeInv, base_context
  PROVE  /\ sessions \subseteq sessions' /\ sessions' \subseteq Session
         /\ drawn \subseteq drawn' /\ drawn' \subseteq Session
  BY DEF base_context, TypeInv, TypeOK

(* What a step of one call leaves alone.                                   *)
LEMMA VerifyFrame ==
  ASSUME TypeInv, NEW r \in Request, Verify(r)
  PROVE  /\ \A q \in Request \ {r} :
              /\ rpc'[q] = rpc[q]
              /\ rsession'[q] = rsession[q]
              /\ rschema'[q] = rschema[q]
              /\ rissuer'[q] = rissuer[q]
              /\ rdisc'[q] = rdisc[q]
              /\ rnext'[q] = rnext[q]
              /\ rkey'[q] = rkey[q]
         /\ rpc[r] # "idle" => UNCHANGED inputs
         /\ UNCHANGED <<world, restarts>>
         /\ sessions \subseteq sessions'
         /\ broken \subseteq broken'
  BY BaseContextType DEF Verify, VerifyReceive, VerifyCheck, VerifyMkdir, VerifyLink,
     VerifyLinkFails, VerifyFetch, VerifyFetchFails, VerifyTruncate, VerifyWrite,
     VerifyPaths, VerifyMkcache, VerifyLoad, VerifyAccept, VerifyInvalid, VerifyPanics,
     TypeInv, TypeOK

LEMMA FrameFolder ==
  ASSUME TypeInv, NEW r \in Request, Verify(r)
  PROVE  \A q \in Request : q # r \/ rpc[r] # "idle" =>
           issuer_folder(q)' = issuer_folder(q)
  BY VerifyFrame, SameFolder

LEMMA InputType ==
  ASSUME TypeInv, NEW r \in Request, rpc[r] \in Running
  PROVE  rschema[r] \in SCHEMA_UIDS /\ rissuer[r] \in Issuer
  BY DEF TypeInv, InputInv

LEMMA NextEntryType ==
  ASSUME TypeInv, NEW r \in Request, rpc[r] = "link"
  PROVE  NextEntry(r) \in shared(rschema[r])
  BY InputType, Entries DEF TypeInv, PlaceInv, NextEntry, Running, SettingUp

LEMMA TypeNext == TypeInv /\ [Next]_vars => TypeInv'
  <1> SUFFICES ASSUME TypeInv, [Next]_vars PROVE TypeInv'
    OBVIOUS
  <1>1. ASSUME NEW r \in Request, Verify(r) PROVE TypeInv'
    <2>1. CASE VerifyReceive(r)
      <3>1. TypeOK'
        BY <2>1, BaseContextType DEF VerifyReceive, TypeInv, TypeOK, Running, Ended
      <3>2. InputInv'
        BY <2>1, BaseContextType
        DEF VerifyReceive, TypeInv, TypeOK, InputInv, Running, SettingUp, Ended
      <3>3. PlaceInv' /\ KeptInv'
        BY <2>1 DEF VerifyReceive, TypeInv, TypeOK, PlaceInv, KeptInv
      <3>4. QED
        BY <3>1, <3>2, <3>3 DEF TypeInv
    <2>2. CASE ~VerifyReceive(r)
      <3>1. rpc[r] \in Running /\ issuer_folder(r) \in Folder
        BY <1>1, <2>2, IssuerFolder DEF Verify, VerifyCheck, VerifyMkdir, VerifyLink,
           VerifyLinkFails, VerifyFetch, VerifyFetchFails, VerifyTruncate, VerifyWrite,
           VerifyPaths, VerifyMkcache, VerifyLoad, VerifyAccept, VerifyInvalid,
           VerifyPanics,
           Running, SettingUp
      <3>2. UNCHANGED inputs
        BY <1>1, <3>1, VerifyFrame DEF Running, SettingUp
      <3>3. InputInv'
        BY <1>1, <3>1, <3>2, VerifyFrame DEF TypeInv, InputInv
      <3>4. TypeOK'
        <4> USE <3>1 DEF TypeInv, TypeOK, Running, SettingUp, Ended, FolderEntry, SharedEntry
        <4>1. CASE VerifyCheck(r)
          BY <4>1 DEF VerifyCheck
        <4>2. CASE VerifyMkdir(r)
          BY <4>2 DEF VerifyMkdir
        <4>3. CASE VerifyLink(r)
          <5>1. NextEntry(r) \in FolderEntry
            BY <4>3, InputType, NextEntryType, Entries DEF VerifyLink
          <5>2. folder' \in [Folder -> SUBSET FolderEntry]
            BY <4>3, <5>1 DEF VerifyLink
          <5>3. pem' \in [Folder -> Key \cup {"none", "empty"}]
            BY <4>3, KeyAssumption DEF VerifyLink
          <5>4. rnext' \in [Request -> Nat]
            BY <4>3 DEF VerifyLink
          <5>5. rpc' \in [Request -> Running \cup Ended \cup {"idle"}]
            BY <4>3 DEF VerifyLink
          <5>6. QED
            BY <4>3, <5>2, <5>3, <5>4, <5>5 DEF VerifyLink
        <4>4. CASE VerifyLinkFails(r)
          BY <4>4, BaseContextType DEF VerifyLinkFails
        <4>5. CASE VerifyFetch(r)
          BY <4>5, InputType DEF VerifyFetch
        <4>6. CASE VerifyFetchFails(r)
          BY <4>6 DEF VerifyFetchFails
        <4>7. CASE VerifyTruncate(r)
          BY <4>7 DEF VerifyTruncate
        <4>8. CASE VerifyWrite(r)
          BY <4>8 DEF VerifyWrite
        <4>9. CASE VerifyPaths(r)
          BY <4>9 DEF VerifyPaths
        <4>10. CASE VerifyMkcache(r)
          BY <4>10 DEF VerifyMkcache
        <4>11. CASE VerifyLoad(r)
          BY <4>11 DEF VerifyLoad
        <4>12. CASE VerifyAccept(r)
          <5>1. PICK p \in Proof : results' = [results EXCEPT ![rsession[r]] = {p}]
            BY <4>12 DEF VerifyAccept
          <5>2. results' \in [Session -> SUBSET Proof]
            BY <5>1
          <5>3. QED
            BY <4>12, <5>2 DEF VerifyAccept
        <4>13. CASE VerifyInvalid(r)
          BY <4>13, BaseContextType DEF VerifyInvalid
        <4>14. CASE VerifyPanics(r)
          BY <4>14 DEF VerifyPanics
        <4>15. QED
          BY <1>1, <2>2, <4>1, <4>2, <4>3, <4>4, <4>5, <4>6, <4>7, <4>8, <4>9, <4>10,
             <4>11, <4>12, <4>13, <4>14 DEF Verify
      <3>5. PlaceInv'
        <4>1. /\ rpc'[r] \in {"idle", "check", "mkdir"} => rnext'[r] = 1
              /\ rpc'[r] = "link" => rnext'[r] \in 1..Len(Listing[rschema[r]])
          BY <1>1, <2>2, <3>1, InputType, Entries DEF Verify, VerifyCheck, VerifyMkdir,
             VerifyLink, VerifyLinkFails, VerifyFetch, VerifyFetchFails, VerifyTruncate,
             VerifyWrite, VerifyPaths, VerifyMkcache, VerifyLoad, VerifyAccept,
             VerifyInvalid, VerifyPanics, TypeInv, TypeOK, PlaceInv
        <4>2. QED
          BY <1>1, <3>2, <4>1, VerifyFrame DEF TypeInv, PlaceInv
      <3>6. KeptInv'
        <4>1. rpc'[r] \in {"truncate", "write"} => rkey'[r] \in Key
          BY <1>1, <2>2, <3>1, InputType DEF Verify, VerifyCheck, VerifyMkdir,
             VerifyLink, VerifyLinkFails, VerifyFetch, VerifyFetchFails, VerifyTruncate,
             VerifyWrite, VerifyPaths, VerifyMkcache, VerifyLoad, VerifyAccept,
             VerifyInvalid, VerifyPanics, TypeInv, TypeOK, KeptInv
        <4>2. QED
          BY <1>1, <4>1, VerifyFrame DEF TypeInv, KeptInv
      <3>7. QED
        BY <3>3, <3>4, <3>5, <3>6 DEF TypeInv
    <2>3. QED
      BY <2>1, <2>2
  <1>2. CASE LoginPage
    BY <1>2, BaseContextType DEF LoginPage, TypeInv, TypeOK, InputInv, PlaceInv, KeptInv
  <1>3. ASSUME NEW i \in Issuer, RotateKey(i) PROVE TypeInv'
    BY <1>3 DEF RotateKey, TypeInv, TypeOK, InputInv, PlaceInv, KeptInv
  <1>4. CASE Restart
    <2>1. \A r \in Request : rpc'[r] \notin Running
      BY <1>4 DEF Restart, TypeInv, TypeOK, Running, SettingUp
    <2>2. \A r \in Request : rpc[r] \in SettingUp => issuer_folder(r) \in Folder
      BY IssuerFolder DEF Running
    <2>3. broken' \subseteq Folder
      BY <1>4, <2>2 DEF Restart, TypeInv, TypeOK
    <2>4. QED
      BY <1>4, <2>1, <2>3, RestartsAssumption
      DEF Restart, TypeInv, TypeOK, InputInv, PlaceInv, KeptInv,
          Running, SettingUp, Ended
  <1>5. CASE UNCHANGED vars
    BY <1>5 DEF vars, TypeInv, TypeOK, InputInv, PlaceInv, KeptInv
  <1>6. QED
    BY <1>1, <1>2, <1>3, <1>4, <1>5 DEF Next

(***************************************************************************)
(* Every variable of the verifier keeps its type in every behaviour.       *)
(***************************************************************************)
THEOREM TypeCorrect == Spec => []TypeOK
  <1>1. Spec => []TypeInv
    BY TypeInit, TypeNext, PTL DEF Spec
  <1>2. TypeInv => TypeOK
    BY DEF TypeInv
  <1>3. QED
    BY <1>1, <1>2, PTL

-------------------------------------------------------------------------------
(***************************************************************************)
(* What the steps leave alone                                              *)
(***************************************************************************)

LEMMA Quiet ==
  ASSUME [Next]_vars, ~Restart, \A r \in Request : ~Verify(r)
  PROVE  UNCHANGED <<folder, pem, rpc, inputs, rnext, rkey, broken, restarts, results>>
  BY DEF Next, LoginPage, RotateKey, vars

LEMMA RestartFrame ==
  ASSUME TypeInv, Restart
  PROVE  /\ \A r \in Request : rpc'[r] \notin Running
         /\ \A r \in Request : rpc'[r] = rpc[r] \/ rpc'[r] = "killed"
         /\ UNCHANGED <<disk, world, inputs, rnext, rkey, drawn>>
         /\ \A r \in Request : rpc[r] \in SettingUp => issuer_folder(r) \in broken'
         /\ broken \subseteq broken'
  BY DEF Restart, TypeInv, TypeOK, Running, SettingUp, Ended

LEMMA FirstShared ==
  ASSUME NEW f \in Folder
  PROVE  First(f) \in SharedEntry /\ First(f) \notin {"dir", "cache_dir"}
  <1>1. f[1] \in SCHEMA_UIDS
    BY DEF Folder
  <1>2. First(f) \in SharedEntry
    BY <1>1, Entries DEF First
  <1>3. QED
    BY <1>2 DEF SharedEntry

(* Only its own folder does a call change, and it removes nothing.         *)
LEMMA FolderStep ==
  ASSUME TypeInv, NEW r \in Request, Verify(r)
  PROVE  /\ \A f \in Folder : folder[f] \subseteq folder'[f]
         /\ \A f \in Folder \ {issuer_folder(r)} :
              folder'[f] = folder[f] /\ pem'[f] = pem[f]
         /\ VerifyMkdir(r) \/ VerifyLink(r) \/ VerifyTruncate(r) \/ VerifyMkcache(r)
              \/ UNCHANGED folder
         /\ VerifyLink(r) \/ VerifyTruncate(r) \/ VerifyWrite(r) \/ UNCHANGED pem
  <1>1. VerifyMkdir(r) \/ VerifyLink(r) \/ VerifyTruncate(r) \/ VerifyMkcache(r)
          \/ UNCHANGED folder
    BY DEF Verify, VerifyReceive, VerifyCheck, VerifyLinkFails, VerifyFetch,
       VerifyFetchFails, VerifyWrite, VerifyPaths, VerifyLoad, VerifyAccept, VerifyInvalid,
       VerifyPanics
  <1>2. VerifyLink(r) \/ VerifyTruncate(r) \/ VerifyWrite(r) \/ UNCHANGED pem
    BY DEF Verify, VerifyReceive, VerifyCheck, VerifyMkdir, VerifyLinkFails, VerifyFetch,
       VerifyFetchFails, VerifyPaths, VerifyMkcache, VerifyLoad, VerifyAccept,
       VerifyInvalid, VerifyPanics
  <1>3. \/ UNCHANGED folder
        \/ \E e : folder' = [folder EXCEPT ![issuer_folder(r)] = @ \cup {e}]
    BY <1>1 DEF VerifyMkdir, VerifyLink, VerifyTruncate, VerifyMkcache
  <1>4. \/ UNCHANGED pem
        \/ \E p : pem' = [pem EXCEPT ![issuer_folder(r)] = p]
    BY <1>2 DEF VerifyLink, VerifyTruncate, VerifyWrite
  <1>5. /\ \A f \in Folder : folder[f] \subseteq folder'[f]
        /\ \A f \in Folder \ {issuer_folder(r)} :
             folder'[f] = folder[f] /\ pem'[f] = pem[f]
    BY <1>3, <1>4 DEF TypeInv, TypeOK
  <1>6. QED
    BY <1>1, <1>2, <1>5

(* How a call comes to build, and to go on doing so.                       *)
LEMMA BecomesBuilder ==
  ASSUME TypeInv, NEW r \in Request, Verify(r), Building(r)'
  PROVE  VerifyLink(r) \/ VerifyFetch(r) \/ VerifyTruncate(r)
  BY DEF Verify, VerifyReceive, VerifyCheck, VerifyMkdir, VerifyLinkFails,
     VerifyFetchFails, VerifyWrite, VerifyPaths, VerifyMkcache, VerifyLoad,
     VerifyAccept, VerifyInvalid, VerifyPanics, Building, TypeInv, TypeOK, PlaceInv

LEMMA RunsOn ==
  ASSUME NEW r \in Request, Verify(r), ~VerifyReceive(r)
  PROVE  rpc[r] \in Running /\ rpc[r] # "idle"
  BY DEF Verify, VerifyCheck, VerifyMkdir, VerifyLink, VerifyLinkFails, VerifyFetch,
     VerifyFetchFails, VerifyTruncate, VerifyWrite, VerifyPaths, VerifyMkcache,
     VerifyLoad, VerifyAccept, VerifyInvalid, VerifyPanics, Running, SettingUp

-------------------------------------------------------------------------------
(***************************************************************************)
(* The inductive invariant, one conjunct at a time                         *)
(***************************************************************************)

LEMMA InvInit == Init => Inv
  <1> SUFFICES ASSUME Init PROVE Inv
    OBVIOUS
  <1>1. LinkInv /\ BuildInv
    BY DEF Init, LinkInv, BuildInv, Building, OneBuilder
  <1>2. PemInv
    BY KeyAssumption DEF Init, PemInv, Building
  <1>3. ServedInv
    <2>1. \A s \in SCHEMA_UIDS \ {"mdl_1"}, i \in Issuer :
            jwk[i] \in served[<<s, issuer_uid[i]>>]
      BY IssuerAssumption DEF Init, Folder
    <2>2. \A f \in Folder : f[1] = "mdl_1" => SharedKey \in served[f]
      BY DEF Init
    <2>3. QED
      BY <2>1, <2>2, KeyAssumption DEF Init, ServedInv
  <1>4. ResultIsEarned
    BY DEF Init, ResultIsEarned
  <1>5. CauseInv
    BY DEF Init, CauseInv, Running, SettingUp
  <1>6. QED
    BY <1>1, <1>2, <1>3, <1>4, <1>5 DEF Inv

LEMMA LinkNext == TypeInv /\ LinkInv /\ [Next]_vars => LinkInv'
  <1> SUFFICES ASSUME TypeInv, LinkInv, [Next]_vars PROVE LinkInv'
    OBVIOUS
  <1>1. ASSUME NEW r \in Request, Verify(r) PROVE LinkInv'
    <2>1. ASSUME NEW q \in Request \ {r}, rpc[q] \in Running
          PROVE  Here(q) \subseteq Here(q)'
      BY <1>1, <2>1, FolderStep, FrameFolder, IssuerFolder
    <2>2. CASE VerifyReceive(r)
      <3>1. rpc'[r] \notin {"link", "fetch", "truncate", "write"}
        BY <2>2 DEF VerifyReceive, TypeInv, TypeOK
      <3>2. QED
        BY <1>1, <2>1, <3>1, VerifyFrame DEF LinkInv, Running, SettingUp
    <2>3. CASE ~VerifyReceive(r)
      <3>1. rpc[r] \in Running /\ rpc[r] # "idle" /\ issuer_folder(r) \in Folder
        BY <1>1, <2>3, RunsOn, IssuerFolder
      <3>2. issuer_folder(r)' = issuer_folder(r) /\ rschema'[r] = rschema[r]
        BY <1>1, <3>1, FrameFolder, VerifyFrame
      <3>3. Here(r) \subseteq Here(r)'
        BY <1>1, <3>1, <3>2, FolderStep
      <3>4. ASSUME rpc'[r] = "link", NEW n \in 1..(rnext'[r] - 1)
            PROVE  Listing[rschema[r]][n] \in Here(r)'
        <4>1. CASE VerifyMkdir(r)
          BY <3>4, <4>1 DEF VerifyMkdir, TypeInv, TypeOK, PlaceInv
        <4>2. CASE VerifyLink(r)
          <5>1. NextEntry(r) \in Here(r)' /\ rnext'[r] = rnext[r] + 1
            BY <3>1, <3>2, <4>2 DEF VerifyLink, TypeInv, TypeOK
          <5>2. n \in 1..(rnext[r] - 1) \/ n = rnext[r]
            BY <3>4, <5>1 DEF TypeInv, TypeOK
          <5>3. QED
            BY <3>3, <4>2, <5>1, <5>2 DEF VerifyLink, NextEntry, LinkInv
        <4>3. VerifyMkdir(r) \/ VerifyLink(r)
          BY <1>1, <2>3, <3>4 DEF Verify, VerifyCheck, VerifyLinkFails, VerifyFetch,
             VerifyFetchFails, VerifyTruncate, VerifyWrite, VerifyPaths, VerifyMkcache,
             VerifyLoad, VerifyAccept, VerifyInvalid, VerifyPanics, TypeInv, TypeOK
        <4>4. QED
          BY <4>1, <4>2, <4>3
      <3>5. ASSUME rpc'[r] \in {"fetch", "truncate", "write"}
            PROVE  rschema[r] # "mdl_1" /\ shared(rschema[r]) \subseteq Here(r)'
        <4>1. CASE VerifyLink(r)
          <5>1. NextEntry(r) \in Here(r)' /\ rschema[r] \in SCHEMA_UIDS
            BY <3>1, <3>2, <4>1, InputType DEF VerifyLink, TypeInv, TypeOK
          <5>2. rnext[r] >= Len(Listing[rschema[r]]) /\ rschema[r] # "mdl_1"
            BY <3>5, <4>1, <5>1, Tables, Entries DEF VerifyLink, TypeInv, TypeOK
          <5>3. \A n \in 1..Len(Listing[rschema[r]]) : Listing[rschema[r]][n] \in Here(r)'
            <6> SUFFICES ASSUME NEW n \in 1..Len(Listing[rschema[r]])
                         PROVE  Listing[rschema[r]][n] \in Here(r)'
              OBVIOUS
            <6>1. Len(Listing[rschema[r]]) \in Nat /\ rnext[r] \in Nat
              BY <5>1, Entries DEF TypeInv, TypeOK
            <6>2. n \in 1..(rnext[r] - 1) \/ n = rnext[r]
              BY <4>1, <5>2, <6>1 DEF VerifyLink, TypeInv, PlaceInv
            <6>3. QED
              BY <3>3, <4>1, <5>1, <6>2 DEF VerifyLink, NextEntry, LinkInv
          <5>4. QED
            BY <5>1, <5>2, <5>3, Entries
        <4>2. CASE ~VerifyLink(r)
          <5>1. rpc[r] \in {"fetch", "truncate"}
            BY <1>1, <2>3, <3>5, <4>2 DEF Verify, VerifyCheck, VerifyMkdir,
               VerifyLinkFails, VerifyFetch, VerifyFetchFails, VerifyTruncate, VerifyWrite,
               VerifyPaths, VerifyMkcache, VerifyLoad, VerifyAccept, VerifyInvalid,
               VerifyPanics,
               TypeInv, TypeOK
          <5>2. QED
            BY <3>3, <5>1 DEF LinkInv
        <4>3. QED
          BY <4>1, <4>2
      <3>6. QED
        BY <1>1, <2>1, <3>2, <3>4, <3>5, VerifyFrame DEF LinkInv, Running, SettingUp
    <2>4. QED
      BY <2>2, <2>3
  <1>2. CASE Restart
    BY <1>2, RestartFrame DEF LinkInv, Running, SettingUp
  <1>3. CASE UNCHANGED <<folder, rpc, inputs, rnext>>
    BY <1>3 DEF LinkInv, issuer_folder
  <1>4. QED
    BY <1>1, <1>2, <1>3, Quiet

LEMMA BuildNext == TypeInv /\ BuildInv /\ [Next]_vars => BuildInv'
  <1> SUFFICES ASSUME TypeInv, BuildInv, [Next]_vars PROVE BuildInv'
    OBVIOUS
  <1>1. ASSUME NEW r \in Request, Verify(r) PROVE BuildInv'
    <2>1. \A q \in Request \ {r} : /\ Building(q)' <=> Building(q)
                                   /\ issuer_folder(q)' = issuer_folder(q)
      BY <1>1, VerifyFrame, FrameFolder DEF Building
    <2>2. \A q \in Request : Building(q) => rpc[q] \in Running
      BY DEF Building, Running, SettingUp
    <2>3. \A q \in Request \ {r} : Building(q)' => First(issuer_folder(q)') \in Here(q)'
      BY <1>1, <2>1, <2>2, FolderStep, IssuerFolder DEF BuildInv
    <2>4. ASSUME Building(r)'
          PROVE  /\ issuer_folder(r)' = issuer_folder(r)
                 /\ First(issuer_folder(r)) \in Here(r)'
                 /\ \A q \in Request \ {r} :
                      Building(q) => issuer_folder(q) # issuer_folder(r)
      <3>1. rpc[r] \in {"link", "fetch", "truncate"}
        BY <1>1, <2>4, BecomesBuilder DEF VerifyLink, VerifyFetch, VerifyTruncate
      <3>2. /\ issuer_folder(r)' = issuer_folder(r)
            /\ issuer_folder(r) \in Folder
            /\ issuer_folder(r)[1] = rschema[r]
        BY <1>1, <3>1, FrameFolder, IssuerFolder DEF Running, SettingUp
      <3>3. Here(r) \subseteq Here(r)'
        BY <1>1, <3>2, FolderStep
      <3>4. CASE Building(r)
        BY <3>2, <3>3, <3>4 DEF BuildInv, OneBuilder
      <3>5. CASE ~Building(r)
        <4>1. VerifyLink(r) /\ rnext[r] = 1
          BY <1>1, <2>4, <3>1, <3>5, BecomesBuilder
          DEF Building, VerifyLink, VerifyFetch, VerifyTruncate, TypeInv, TypeOK, PlaceInv
        <4>2. NextEntry(r) = First(issuer_folder(r))
          BY <3>2, <4>1 DEF NextEntry, First
        <4>3. First(issuer_folder(r)) \in Here(r)' /\ First(issuer_folder(r)) \notin Here(r)
          BY <3>2, <4>1, <4>2 DEF VerifyLink, Taken, TypeInv, TypeOK
        <4>4. QED
          BY <3>2, <4>3 DEF BuildInv
      <3>6. QED
        BY <3>4, <3>5
    <2>5. OneBuilder'
      BY <2>1, <2>4 DEF BuildInv, OneBuilder
    <2>6. \A q \in Request : Building(q)' => First(issuer_folder(q)') \in Here(q)'
      BY <2>3, <2>4
    <2>7. QED
      BY <2>5, <2>6 DEF BuildInv, First
  <1>2. CASE Restart
    BY <1>2, RestartFrame DEF BuildInv, OneBuilder, Building, Running, SettingUp
  <1>3. CASE UNCHANGED <<folder, rpc, inputs, rnext>>
    BY <1>3 DEF BuildInv, OneBuilder, Building, issuer_folder
  <1>4. QED
    BY <1>1, <1>2, <1>3, Quiet

(* The folder of a builder is no other call's to write.                    *)
LEMMA PemNext ==
  TypeInv /\ LinkInv /\ BuildInv /\ PemInv /\ [Next]_vars => PemInv'
  <1> SUFFICES ASSUME TypeInv, LinkInv, BuildInv, PemInv, [Next]_vars PROVE PemInv'
    OBVIOUS
  <1> DEFINE FolderOk(f) ==
        /\ pem[f] # "none" <=> "issuer.pub" \in folder[f]
        /\ f[1] = "mdl_1" => pem[f] \in {"none", SharedKey}
        /\ f[1] # "mdl_1" /\ pem[f] # "none" => shared(f[1]) \subseteq folder[f]
  <1> DEFINE CallOk(q) ==
        Building(q) /\ rschema[q] # "mdl_1" =>
          pem[issuer_folder(q)] = IF rpc[q] = "write" THEN "empty" ELSE "none"
  <1>1. ASSUME NEW r \in Request, Verify(r) PROVE PemInv'
    <2>1. ASSUME NEW f \in Folder \ {issuer_folder(r)} PROVE FolderOk(f)'
      BY <1>1, FolderStep DEF PemInv
    <2>2. CASE UNCHANGED folder /\ UNCHANGED pem /\ ~VerifyFetch(r)
      <3>1. \A f \in Folder : FolderOk(f)'
        BY <2>2 DEF PemInv
      <3>2. \A q \in Request \ {r} : CallOk(q)'
        BY <1>1, <2>2, VerifyFrame, FrameFolder DEF PemInv, Building
      <3>3. ~Building(r)'
        <4>1. SUFFICES ASSUME VerifyLink(r) \/ VerifyTruncate(r) PROVE FALSE
          BY <1>1, <2>2, BecomesBuilder
        <4>2. /\ rpc[r] \in {"link", "truncate"}
              /\ issuer_folder(r) \in Folder
              /\ issuer_folder(r)[1] = rschema[r]
          BY <4>1, IssuerFolder DEF VerifyLink, VerifyTruncate, Running, SettingUp
        <4>3. CASE VerifyLink(r)
          BY <2>2, <4>2, <4>3 DEF VerifyLink, Taken, TypeInv, TypeOK
        <4>4. CASE VerifyTruncate(r)
          BY <2>2, <4>2, <4>4 DEF VerifyTruncate, TypeInv, TypeOK, PemInv, Building, LinkInv
        <4>5. QED
          BY <4>1, <4>3, <4>4
      <3>4. QED
        BY <3>1, <3>2, <3>3 DEF PemInv
    <2>3. CASE ~(UNCHANGED folder /\ UNCHANGED pem /\ ~VerifyFetch(r))
      <3>1. VerifyMkdir(r) \/ VerifyLink(r) \/ VerifyTruncate(r) \/ VerifyMkcache(r)
              \/ VerifyWrite(r) \/ VerifyFetch(r)
        BY <1>1, <2>3, FolderStep
      <3>2. /\ rpc[r] \in Running
            /\ rpc[r] # "idle"
            /\ issuer_folder(r) \in Folder
            /\ issuer_folder(r)[1] = rschema[r]
            /\ issuer_folder(r)' = issuer_folder(r)
            /\ rschema'[r] = rschema[r]
            /\ rschema[r] \in SCHEMA_UIDS
        <4>1. rpc[r] \in Running /\ rpc[r] # "idle"
          BY <3>1 DEF VerifyMkdir, VerifyLink, VerifyTruncate, VerifyMkcache, VerifyWrite,
                      VerifyFetch, Running, SettingUp
        <4>2. QED
          BY <1>1, <4>1, IssuerFolder, FrameFolder, VerifyFrame, InputType
      <3> DEFINE f == issuer_folder(r)
      <3>3. CASE VerifyMkdir(r) \/ VerifyMkcache(r)
        <4>1. /\ pem' = pem
              /\ folder[f] \subseteq folder'[f]
              /\ "issuer.pub" \in folder'[f] => "issuer.pub" \in folder[f]
          BY <3>2, <3>3 DEF VerifyMkdir, VerifyMkcache, TypeInv, TypeOK
        <4>2. FolderOk(f)'
          BY <3>2, <4>1 DEF PemInv
        <4>3. ~Building(r)'
          BY <3>3 DEF VerifyMkdir, VerifyMkcache, Building, TypeInv, TypeOK, PlaceInv
        <4>4. \A q \in Request \ {r} : CallOk(q)'
          BY <1>1, <4>1, VerifyFrame, FrameFolder DEF PemInv, Building
        <4>5. QED
          BY <2>1, <3>2, <4>2, <4>3, <4>4 DEF PemInv
      <3>4. CASE VerifyLink(r)
        <4>1. /\ NextEntry(r) \in shared(rschema[r])
              /\ NextEntry(r) \notin folder[f]
              /\ folder'[f] = folder[f] \cup {NextEntry(r)}
          BY <3>2, <3>4, NextEntryType DEF VerifyLink, Taken, TypeInv, TypeOK
        <4>2. CASE rschema[r] = "mdl_1"
          <5>1. FolderOk(f)'
            BY <3>2, <3>4, <4>1, <4>2, KeyAssumption DEF VerifyLink, PemInv, TypeInv, TypeOK
          <5>2. \A q \in Request : Building(q)' /\ rschema'[q] # "mdl_1" =>
                  /\ q # r
                  /\ Building(q)
                  /\ issuer_folder(q)' = issuer_folder(q)
                  /\ issuer_folder(q) \in Folder
                  /\ issuer_folder(q) # f
                  /\ rschema[q] # "mdl_1"
            BY <1>1, <3>2, <4>2, VerifyFrame, FrameFolder, IssuerFolder
            DEF Building, Running, SettingUp
          <5>3. \A q \in Request : CallOk(q)'
            BY <1>1, <5>2, FolderStep, VerifyFrame DEF PemInv
          <5>4. QED
            BY <2>1, <3>2, <5>1, <5>3 DEF PemInv
        <4>3. CASE rschema[r] # "mdl_1"
          <5>1. pem' = pem
            BY <3>2, <3>4, <4>1, <4>3, Entries DEF VerifyLink
          <5>2. pem[f] = "none"
            <6>1. CASE rnext[r] = 1
              <7>1. NextEntry(r) = First(f) /\ First(f) \notin folder[f]
                BY <3>2, <4>1, <6>1 DEF First, NextEntry
              <7>2. QED
                BY <3>2, <4>1, <4>3, <7>1 DEF PemInv
            <6>2. CASE rnext[r] # 1
              BY <3>2, <3>4, <4>3, <6>2 DEF VerifyLink, PemInv, Building, TypeInv, PlaceInv
            <6>3. QED
              BY <6>1, <6>2
          <5>3. FolderOk(f)'
            BY <3>2, <4>1, <4>3, <5>1, <5>2, Entries DEF PemInv
          <5>4. rpc'[r] # "write"
            BY <3>4 DEF VerifyLink, TypeInv, TypeOK
          <5>5. \A q \in Request : CallOk(q)'
            BY <1>1, <3>2, <5>1, <5>2, <5>4, VerifyFrame, FrameFolder DEF PemInv, Building
          <5>6. QED
            BY <2>1, <3>2, <5>3, <5>5 DEF PemInv
        <4>4. QED
          BY <4>2, <4>3
      <3>5. CASE VerifyFetch(r) \/ VerifyTruncate(r) \/ VerifyWrite(r)
        <4>1. Building(r) /\ rschema[r] # "mdl_1" /\ shared(rschema[r]) \subseteq folder[f]
          BY <3>5 DEF VerifyFetch, VerifyTruncate, VerifyWrite, Building, LinkInv
        <4>2. folder[f] \subseteq folder'[f]
          BY <1>1, <3>2, FolderStep
        <4>3. \A q \in Request \ {r} : Building(q)' => Building(q) /\ issuer_folder(q) # f
          BY <1>1, <4>1, VerifyFrame DEF BuildInv, OneBuilder, Building
        <4>4. \A q \in Request \ {r} : CallOk(q)'
          <5> SUFFICES ASSUME NEW q \in Request \ {r}, Building(q)', rschema'[q] # "mdl_1"
                       PROVE  CallOk(q)'
            OBVIOUS
          <5>1. /\ Building(q)
                /\ issuer_folder(q) # f
                /\ issuer_folder(q)' = issuer_folder(q)
                /\ issuer_folder(q) \in Folder
            BY <1>1, <4>3, FrameFolder, IssuerFolder DEF Building, Running, SettingUp
          <5>2. QED
            BY <1>1, <5>1, FolderStep, VerifyFrame DEF PemInv
        <4>5. FolderOk(f)' /\ CallOk(r)'
          <5>1. CASE VerifyFetch(r)
            BY <3>2, <4>1, <5>1 DEF VerifyFetch, PemInv, Building, TypeInv, TypeOK
          <5>2. CASE VerifyTruncate(r)
            BY <3>2, <4>1, <4>2, <5>2 DEF VerifyTruncate, PemInv, Building, TypeInv, TypeOK
          <5>3. CASE VerifyWrite(r)
            <6>1. rkey[r] # "none"
              BY <5>3, KeyAssumption DEF VerifyWrite, TypeInv, KeptInv
            <6>2. pem'[f] = rkey[r] /\ folder' = folder /\ rpc'[r] = "paths"
              BY <3>2, <5>3 DEF VerifyWrite, TypeInv, TypeOK
            <6>3. pem[f] = "empty"
              BY <4>1, <5>3 DEF VerifyWrite, PemInv
            <6>4. QED
              BY <3>2, <4>1, <6>1, <6>2, <6>3 DEF PemInv, Building
          <5>4. QED
            BY <3>5, <5>1, <5>2, <5>3
        <4>6. QED
          BY <2>1, <3>2, <4>4, <4>5 DEF PemInv
      <3>6. QED
        BY <3>1, <3>3, <3>4, <3>5
    <2>4. QED
      BY <2>2, <2>3
  <1>2. CASE Restart
    BY <1>2, RestartFrame DEF PemInv, Building, Running, SettingUp
  <1>3. CASE UNCHANGED <<folder, pem, rpc, inputs, rnext>>
    BY <1>3 DEF PemInv, Building, issuer_folder
  <1>4. QED
    BY <1>1, <1>2, <1>3, Quiet

LEMMA ServedGrows ==
  ASSUME TypeInv, [Next]_vars
  PROVE  \A f \in Folder : served[f] \subseteq served'[f]
  <1>1. ASSUME NEW r \in Request, Verify(r) PROVE UNCHANGED served
    BY <1>1, VerifyFrame
  <1>2. ASSUME NEW i \in Issuer, RotateKey(i)
        PROVE  \A f \in Folder : served[f] \subseteq served'[f]
    BY <1>2 DEF RotateKey, TypeInv, TypeOK
  <1>3. QED
    BY <1>1, <1>2 DEF Next, LoginPage, Restart, vars

LEMMA ServedNext ==
  TypeInv /\ LinkInv /\ PemInv /\ ServedInv /\ [Next]_vars => ServedInv'
  <1> SUFFICES ASSUME TypeInv, LinkInv, PemInv, ServedInv, [Next]_vars PROVE ServedInv'
    OBVIOUS
  <1> DEFINE CallOk(q) ==
        /\ rpc[q] \in {"truncate", "write"} => rkey[q] \in served[issuer_folder(q)]
        /\ rpc[q] = "verify" => rkey[q] \in served[issuer_folder(q)] \cup {"empty"}
  <1>1. ASSUME NEW r \in Request, Verify(r) PROVE ServedInv'
    <2>1. UNCHANGED <<jwk, served>>
      BY <1>1, VerifyFrame
    <2>2. \A q \in Request \ {r} : CallOk(q)'
      BY <1>1, <2>1, VerifyFrame, FrameFolder DEF ServedInv
    <2>3. CASE VerifyReceive(r)
      <3>1. CallOk(r)' /\ UNCHANGED pem
        BY <2>3 DEF VerifyReceive, TypeInv, TypeOK
      <3>2. QED
        BY <2>1, <2>2, <3>1 DEF ServedInv
    <2>4. CASE ~VerifyReceive(r)
      <3>1. /\ issuer_folder(r) \in Folder
            /\ issuer_folder(r)[1] = rschema[r]
            /\ issuer_folder(r)' = issuer_folder(r)
            /\ rschema[r] \in SCHEMA_UIDS
            /\ rissuer[r] \in Issuer
        BY <1>1, <2>4, RunsOn, IssuerFolder, FrameFolder, InputType
      <3>2. CallOk(r)'
        <4>1. CASE VerifyFetch(r)
          <5>1. rschema[r] # "mdl_1"
            BY <4>1 DEF VerifyFetch, LinkInv
          <5>2. rkey'[r] = jwk[rissuer[r]] /\ rpc'[r] = "truncate"
            BY <4>1 DEF VerifyFetch, TypeInv, TypeOK
          <5>3. jwk[rissuer[r]] \in served[issuer_folder(r)]
            BY <3>1, <5>1 DEF ServedInv, issuer_folder
          <5>4. QED
            BY <2>1, <3>1, <5>2, <5>3
        <4>2. CASE VerifyTruncate(r)
          BY <2>1, <3>1, <4>2 DEF VerifyTruncate, ServedInv, TypeInv, TypeOK
        <4>3. CASE VerifyLoad(r)
          <5>1. CASE rpc'[r] = "verify"
            <6>1. rkey'[r] = pem[issuer_folder(r)] /\ "issuer.pub" \in Here(r)
              BY <4>3, <5>1 DEF VerifyLoad, TypeInv, TypeOK
            <6>2. pem[issuer_folder(r)] \in Key \cup {"empty"}
              BY <3>1, <6>1 DEF PemInv, TypeInv, TypeOK
            <6>3. QED
              BY <2>1, <3>1, <5>1, <6>1, <6>2 DEF ServedInv
          <5>2. CASE rpc'[r] # "verify"
            BY <4>3, <5>2 DEF VerifyLoad, TypeInv, TypeOK
          <5>3. QED
            BY <5>1, <5>2
        <4>4. CASE ~VerifyFetch(r) /\ ~VerifyTruncate(r) /\ ~VerifyLoad(r)
          BY <1>1, <2>4, <4>4 DEF Verify, VerifyCheck, VerifyMkdir, VerifyLink,
             VerifyLinkFails, VerifyFetchFails, VerifyWrite, VerifyPaths, VerifyMkcache,
             VerifyAccept, VerifyInvalid, VerifyPanics, TypeInv, TypeOK
        <4>5. QED
          BY <4>1, <4>2, <4>3, <4>4
      <3>3. \A f \in Folder : pem'[f] \in Key => pem'[f] \in served[f]
        <4>1. CASE VerifyLink(r)
          <5>1. rschema[r] = "mdl_1" \/ UNCHANGED pem
            BY <3>1, <4>1, NextEntryType, Entries DEF VerifyLink
          <5>2. \/ UNCHANGED pem
                \/ /\ rschema[r] = "mdl_1"
                   /\ pem' = [pem EXCEPT ![issuer_folder(r)] = SharedKey]
            BY <4>1, <5>1 DEF VerifyLink
          <5>3. QED
            BY <3>1, <5>2 DEF ServedInv, TypeInv, TypeOK
        <4>2. CASE VerifyTruncate(r)
          BY <3>1, <4>2, KeyAssumption DEF VerifyTruncate, ServedInv, TypeInv, TypeOK
        <4>3. CASE VerifyWrite(r)
          BY <3>1, <4>3 DEF VerifyWrite, ServedInv, TypeInv, TypeOK
        <4>4. QED
          BY <1>1, <4>1, <4>2, <4>3, FolderStep DEF ServedInv
      <3>4. QED
        BY <2>1, <2>2, <3>2, <3>3 DEF ServedInv
    <2>5. QED
      BY <2>3, <2>4
  <1>2. ASSUME NEW i \in Issuer, RotateKey(i) PROVE ServedInv'
    <2>1. PICK k \in Key :
            /\ jwk' = [jwk EXCEPT ![i] = k]
            /\ served' = [f \in Folder |->
                            IF f[1] # "mdl_1" /\ f[2] = issuer_uid[i]
                              THEN served[f] \cup {k} ELSE served[f]]
      BY <1>2 DEF RotateKey
    <2>2. \A s \in SCHEMA_UIDS \ {"mdl_1"}, j \in Issuer :
            <<s, issuer_uid[j]>> \in Folder
      BY IssuerAssumption DEF Folder
    <2>3. \A s \in SCHEMA_UIDS \ {"mdl_1"}, j \in Issuer :
            jwk'[j] \in served'[<<s, issuer_uid[j]>>]
      BY <2>1, <2>2 DEF ServedInv, TypeInv, TypeOK
    <2>4. UNCHANGED <<pem, rpc, inputs, rkey>>
      BY <1>2 DEF RotateKey
    <2>5. \A q \in Request : rpc[q] \in Running => issuer_folder(q) \in Folder
      BY IssuerFolder
    <2>6. \A q \in Request : CallOk(q)'
      BY <2>4, <2>5, ServedGrows, SameFolder DEF ServedInv, Running, SettingUp
    <2>7. \A f \in Folder : /\ pem'[f] \in Key => pem'[f] \in served'[f]
                            /\ f[1] = "mdl_1" => SharedKey \in served'[f]
      BY <2>4, ServedGrows DEF ServedInv
    <2>8. QED
      BY <2>3, <2>6, <2>7 DEF ServedInv
  <1>3. CASE Restart
    BY <1>3, RestartFrame DEF ServedInv, Running, SettingUp
  <1>4. CASE UNCHANGED <<pem, world, rpc, inputs, rkey>>
    BY <1>4 DEF ServedInv, issuer_folder
  <1>5. QED
    BY <1>1, <1>2, <1>3, <1>4 DEF Next, LoginPage, vars

LEMMA ResultNext ==
  TypeInv /\ ServedInv /\ ResultIsEarned /\ [Next]_vars => ResultIsEarned'
  <1> SUFFICES ASSUME TypeInv, ServedInv, ResultIsEarned, [Next]_vars,
                      NEW s \in Session, NEW p \in results'[s]
               PROVE  /\ s \in sessions'
                      /\ p.session = s
                      /\ \E n \in FolderName : p.key \in served'[<<p.schema, n>>]
    BY DEF ResultIsEarned
  <1>1. CASE p \in results[s] /\ ~Restart
    <2>1. s \in sessions'
      BY <1>1, VerifyFrame, BaseContextType
      DEF ResultIsEarned, Next, LoginPage, RotateKey, vars
    <2>2. p \in Proof
      BY <1>1 DEF TypeInv, TypeOK
    <2>3. PICK n \in FolderName : p.key \in served[<<p.schema, n>>]
      BY <1>1 DEF ResultIsEarned
    <2>4. <<p.schema, n>> \in Folder
      BY <2>2 DEF Proof, Folder
    <2>5. p.key \in served'[<<p.schema, n>>]
      BY <2>3, <2>4, ServedGrows
    <2>6. QED
      BY <1>1, <2>1, <2>5 DEF ResultIsEarned
  <1>2. CASE p \notin results[s] /\ ~Restart
    <2>1. PICK r \in Request : VerifyAccept(r)
      BY <1>2 DEF Next, Verify, VerifyReceive, VerifyCheck, VerifyMkdir, VerifyLink,
         VerifyLinkFails, VerifyFetch, VerifyFetchFails, VerifyTruncate, VerifyWrite,
         VerifyPaths, VerifyMkcache, VerifyLoad, VerifyInvalid,
         VerifyPanics, LoginPage, RotateKey, vars
    <2>2. s = rsession[r] /\ ProofMatches(r, p) /\ p \in Proof
      BY <1>2, <2>1 DEF VerifyAccept, TypeInv, TypeOK
    <2>3. rpc[r] = "verify" /\ rpc[r] \in Running
      BY <2>1 DEF VerifyAccept, Running, SettingUp
    <2>4. s \in sessions'
      BY <2>1, <2>2, <2>3 DEF TypeInv, InputInv, VerifyAccept
    <2>5. p.key \in served[issuer_folder(r)]
      BY <2>2, <2>3, KeyAssumption DEF ServedInv, ProofMatches, Proof
    <2>6. UNCHANGED served
      BY <2>1 DEF VerifyAccept
    <2>7. issuer_folder(r) = <<p.schema, issuer_uid[rissuer[r]]>>
      BY <2>2 DEF issuer_folder, ProofMatches
    <2>8. issuer_uid[rissuer[r]] \in FolderName
      BY <2>3, InputType, IssuerAssumption
    <2>9. QED
      BY <2>2, <2>4, <2>5, <2>6, <2>7, <2>8 DEF ProofMatches
  <1>3. CASE Restart
    BY <1>3 DEF Restart
  <1>4. QED
    BY <1>1, <1>2, <1>3

(* The cause of an incomplete folder: somebody builds it, or it is broken. *)
LEMMA CauseNext ==
  TypeInv /\ LinkInv /\ BuildInv /\ PemInv /\ PemInv' /\ CauseInv /\ [Next]_vars
    => CauseInv'
  <1> SUFFICES ASSUME TypeInv, LinkInv, BuildInv, PemInv, PemInv', CauseInv, [Next]_vars
               PROVE  CauseInv'
    OBVIOUS
  <1> DEFINE CallOk(q) == rpc[q] \in Running \ {"check", "mkdir"} => Here(q) # {}
  <1> DEFINE Cared(f) ==
        /\ folder[f] # {} /\ ~Complete(f) =>
             \E r \in Request : rpc[r] \in SettingUp /\ issuer_folder(r) = f
        /\ First(f) \in folder[f] /\ ~Complete(f) =>
             \E r \in Request : Building(r) /\ issuer_folder(r) = f
  <1>1. ASSUME NEW r \in Request, Verify(r) PROVE CauseInv'
    <2>1. ASSUME NEW q \in Request \ {r} PROVE CallOk(q)'
      BY <1>1, VerifyFrame, FrameFolder, FolderStep, IssuerFolder DEF CauseInv
    <2>2. ASSUME NEW f \in Folder \ broken', f # issuer_folder(r) PROVE Cared(f)'
      <3>1. f \notin broken /\ folder'[f] = folder[f] /\ pem'[f] = pem[f]
        BY <1>1, <2>2, VerifyFrame, FolderStep
      <3>2. Complete(f)' = Complete(f) /\ First(f)' = First(f)
        BY <3>1 DEF Complete, First
      <3>3. \A q \in Request : issuer_folder(q) = f =>
              /\ issuer_folder(q)' = f
              /\ rpc[q] \in SettingUp => rpc'[q] \in SettingUp
              /\ Building(q) => Building(q)'
        BY <1>1, <2>2, VerifyFrame, FrameFolder DEF Building
      <3>4. QED
        BY <3>1, <3>2, <3>3 DEF CauseInv
    <2>3. CASE VerifyReceive(r)
      <3>1. rpc'[r] \notin Running \ {"check", "mkdir"}
        BY <2>3 DEF VerifyReceive, TypeInv, TypeOK, Running, SettingUp
      <3>2. UNCHANGED <<folder, pem, broken>> /\ rpc[r] \notin SettingUp /\ ~Building(r)
        BY <2>3 DEF VerifyReceive, SettingUp, Building
      <3>3. ASSUME NEW f \in Folder \ broken' PROVE Cared(f)'
        <4>1. Complete(f)' = Complete(f) /\ First(f)' = First(f)
          BY <3>2 DEF Complete, First
        <4>2. \A q \in Request :
                /\ rpc[q] \in SettingUp =>
                     rpc'[q] \in SettingUp /\ issuer_folder(q)' = issuer_folder(q)
                /\ Building(q) => Building(q)' /\ issuer_folder(q)' = issuer_folder(q)
          BY <1>1, <3>2, VerifyFrame, FrameFolder DEF Building
        <4>3. QED
          BY <3>2, <4>1, <4>2 DEF CauseInv
      <3>4. QED
        BY <2>1, <3>1, <3>3 DEF CauseInv
    <2>4. CASE ~VerifyReceive(r)
      <3> DEFINE g == issuer_folder(r)
      <3>1. /\ g \in Folder
            /\ g[1] = rschema[r]
            /\ issuer_folder(r)' = g
            /\ rschema[r] \in SCHEMA_UIDS
            /\ rpc[r] \in Running
            /\ rpc[r] # "idle"
        BY <1>1, <2>4, RunsOn, IssuerFolder, FrameFolder, InputType
      <3>2. folder[g] \subseteq folder'[g]
        BY <1>1, <3>1, FolderStep
      <3>3. CallOk(r)'
        <4>1. CASE VerifyCheck(r) \/ VerifyMkdir(r)
          <5>1. CASE VerifyCheck(r)
            BY <3>1, <5>1 DEF VerifyCheck, TypeInv, TypeOK
          <5>2. CASE VerifyMkdir(r)
            <6>1. "dir" \in folder'[g]
              BY <3>1, <5>2 DEF VerifyMkdir, TypeInv, TypeOK
            <6>2. QED
              BY <3>1, <6>1
          <5>3. QED
            BY <4>1, <5>1, <5>2
        <4>2. CASE ~VerifyCheck(r) /\ ~VerifyMkdir(r)
          <5>1. rpc[r] \notin {"check", "mkdir"}
            BY <1>1, <2>4, <4>2 DEF Verify, VerifyLink, VerifyLinkFails, VerifyFetch,
               VerifyFetchFails, VerifyTruncate, VerifyWrite, VerifyPaths, VerifyMkcache,
               VerifyLoad, VerifyAccept, VerifyInvalid, VerifyPanics
          <5>2. QED
            BY <3>1, <3>2, <5>1 DEF CauseInv
        <4>3. QED
          BY <4>1, <4>2
      <3>4. ASSUME rpc'[r] \in SettingUp,
                   First(g) \in folder'[g] => Building(r)' \/ First(g) \in folder[g],
                   Building(r) => Building(r)',
                   pem'[g] = pem[g] \/ ~Complete(g)
            PROVE  g \notin broken' => Cared(g)'
        <4>1. First(g)' = First(g)
          BY <3>1 DEF First
        <4>2. Complete(g) => Complete(g)'
          BY <3>1, <3>2, <3>4 DEF Complete
        <4>3. \A q \in Request : Building(q) /\ issuer_folder(q) = g =>
                Building(q)' /\ issuer_folder(q)' = g
          BY <1>1, <3>1, <3>4, VerifyFrame, FrameFolder DEF Building
        <4>4. broken \subseteq broken'
          BY <1>1, VerifyFrame
        <4>5. QED
          BY <3>1, <3>4, <4>1, <4>2, <4>3, <4>4 DEF CauseInv
      <3>5. ASSUME rpc[r] \notin SettingUp, UNCHANGED pem,
                   \/ folder'[g] = folder[g]
                   \/ folder[g] # {} /\ First(g) \notin folder'[g] \ folder[g]
            PROVE  g \notin broken' => Cared(g)'
        <4>1. First(g)' = First(g) /\ (Complete(g) => Complete(g)')
          BY <3>1, <3>2, <3>5 DEF Complete, First
        <4>2. \A q \in Request :
                /\ rpc[q] \in SettingUp =>
                     rpc'[q] \in SettingUp /\ issuer_folder(q)' = issuer_folder(q)
                /\ Building(q) => Building(q)' /\ issuer_folder(q)' = issuer_folder(q)
          BY <1>1, <3>1, <3>5, VerifyFrame, FrameFolder DEF Building, SettingUp
        <4>3. broken \subseteq broken'
          BY <1>1, VerifyFrame
        <4>4. QED
          BY <3>1, <3>5, <4>1, <4>2, <4>3 DEF CauseInv
      <3>6. g \notin broken' => Cared(g)'
        <4>1. CASE VerifyCheck(r)
          <5>1. rpc[r] \notin SettingUp /\ UNCHANGED <<folder, pem>>
            BY <4>1 DEF VerifyCheck, SettingUp
          <5>2. QED
            BY <3>5, <5>1
        <4>2. CASE VerifyMkdir(r)
          <5>1. /\ rpc[r] = "mkdir"
                /\ rpc'[r] = "link"
                /\ UNCHANGED pem
                /\ folder'[g] = folder[g] \cup {"dir"}
            BY <3>1, <4>2 DEF VerifyMkdir, TypeInv, TypeOK
          <5>2. First(g) # "dir"
            BY <3>1, FirstShared
          <5>3. ~Building(r) /\ rpc'[r] \in SettingUp
            BY <5>1 DEF Building, SettingUp
          <5>4. QED
            BY <3>4, <5>1, <5>2, <5>3
        <4>3. CASE VerifyLink(r)
          <5>1. CASE rpc'[r] \in {"link", "fetch"}
            <6>1. Building(r)' /\ rpc'[r] \in SettingUp
              BY <4>3, <5>1 DEF VerifyLink, Building, SettingUp, TypeInv, TypeOK, PlaceInv
            <6>2. pem'[g] = pem[g] \/ ~Complete(g)
              BY <3>1, <4>3, KeyAssumption
              DEF VerifyLink, Taken, PemInv, Complete, TypeInv, TypeOK
            <6>3. QED
              BY <3>4, <6>1, <6>2
          <5>2. CASE rpc'[r] \notin {"link", "fetch"}
            <6>1. rschema[r] = "mdl_1" /\ rnext[r] >= Len(Listing[rschema[r]])
              BY <3>1, <4>3, <5>2, Tables, Entries DEF VerifyLink, TypeInv, TypeOK
            <6>2. NextEntry(r) \in folder'[g] /\ rpc[r] = "link"
              BY <3>1, <4>3 DEF VerifyLink, TypeInv, TypeOK
            <6>3. shared(rschema[r]) \subseteq folder'[g]
              <7> SUFFICES ASSUME NEW n \in 1..Len(Listing[rschema[r]])
                           PROVE  Listing[rschema[r]][n] \in folder'[g]
                BY <3>1, Entries
              <7>1. Len(Listing[rschema[r]]) \in Nat /\ rnext[r] \in Nat
                BY <3>1, Entries DEF TypeInv, TypeOK
              <7>2. n \in 1..(rnext[r] - 1) \/ n = rnext[r]
                BY <6>1, <6>2, <7>1 DEF TypeInv, PlaceInv
              <7>3. QED
                BY <3>2, <6>2, <7>2 DEF LinkInv, NextEntry
            <6>4. pem'[g] \in Key
              BY <3>1, <6>1, <6>3, Entries, KeyAssumption DEF PemInv
            <6>5. Complete(g)'
              BY <3>1, <6>3, <6>4 DEF Complete
            <6>6. QED
              BY <3>1, <6>5
          <5>3. QED
            BY <5>1, <5>2
        <4>4. CASE VerifyLinkFails(r)
          <5>1. /\ rpc[r] = "link"
                /\ UNCHANGED <<folder, pem>>
                /\ LostTheRace(r) \/ g \in broken'
            BY <4>4 DEF VerifyLinkFails
          <5>2. CASE LostTheRace(r)
            <6>1. ~Building(r) /\ First(g) \in folder[g]
              BY <3>1, <5>1, <5>2 DEF LostTheRace, NextEntry, First, Building
            <6>2. \A q \in Request : Building(q) /\ issuer_folder(q) = g =>
                    /\ Building(q)'
                    /\ rpc'[q] \in SettingUp
                    /\ issuer_folder(q)' = g
              BY <1>1, <3>1, <6>1, VerifyFrame, FrameFolder DEF Building, SettingUp
            <6>3. First(g)' = First(g) /\ (Complete(g) => Complete(g)')
              BY <3>1, <5>1 DEF Complete, First
            <6>4. broken \subseteq broken'
              BY <1>1, VerifyFrame
            <6>5. QED
              BY <3>1, <5>1, <6>1, <6>2, <6>3, <6>4 DEF CauseInv
          <5>3. QED
            BY <5>1, <5>2
        <4>5. CASE VerifyFetch(r)
          <5>1. UNCHANGED <<folder, pem>> /\ Building(r)' /\ rpc'[r] \in SettingUp
            BY <4>5 DEF VerifyFetch, Building, SettingUp, TypeInv, TypeOK
          <5>2. QED
            BY <3>4, <5>1
        <4>6. CASE VerifyFetchFails(r)
          BY <4>6 DEF VerifyFetchFails
        <4>7. CASE VerifyTruncate(r)
          <5>1. Building(r)' /\ rpc'[r] \in SettingUp
            BY <4>7 DEF VerifyTruncate, Building, SettingUp, TypeInv, TypeOK
          <5>2. pem[g] = "none"
            BY <4>7 DEF VerifyTruncate, Building, LinkInv, PemInv
          <5>3. ~Complete(g)
            BY <5>2, KeyAssumption DEF Complete
          <5>4. QED
            BY <3>4, <5>1, <5>3
        <4>8. CASE VerifyWrite(r)
          <5>1. shared(g[1]) \subseteq folder'[g] /\ pem'[g] \in Key
            BY <3>1, <3>2, <4>8 DEF VerifyWrite, LinkInv, TypeInv, TypeOK, KeptInv
          <5>2. Complete(g)'
            BY <3>1, <5>1 DEF Complete
          <5>3. QED
            BY <3>1, <5>2
        <4>9. CASE VerifyMkcache(r)
          <5>1. rpc[r] \notin SettingUp /\ UNCHANGED pem /\ folder[g] # {}
            BY <4>9 DEF VerifyMkcache, SettingUp, Running, CauseInv
          <5>2. folder'[g] \ folder[g] \subseteq {"cache_dir"}
            BY <3>1, <4>9 DEF VerifyMkcache, TypeInv, TypeOK
          <5>3. QED
            BY <3>1, <3>5, <5>1, <5>2, FirstShared
        <4>10. CASE VerifyPaths(r) \/ VerifyLoad(r) \/ VerifyAccept(r)
                      \/ VerifyInvalid(r) \/ VerifyPanics(r)
          <5>1. rpc[r] \notin SettingUp /\ UNCHANGED <<folder, pem>>
            BY <4>10 DEF VerifyPaths, VerifyLoad, VerifyAccept, VerifyInvalid,
               VerifyPanics, SettingUp
          <5>2. QED
            BY <3>5, <5>1
        <4>11. QED
          BY <1>1, <2>4, <4>1, <4>2, <4>3, <4>4, <4>5, <4>6, <4>7, <4>8, <4>9, <4>10
          DEF Verify
      <3>7. QED
        BY <2>1, <2>2, <3>1, <3>3, <3>6 DEF CauseInv
    <2>5. QED
      BY <2>3, <2>4
  <1>2. CASE Restart
    <2>1. \A f \in Folder \ broken' : Complete(f)' = Complete(f) /\ First(f)' = First(f)
      BY <1>2, RestartFrame DEF Complete, First
    <2>2. \A f \in Folder \ broken' :
            \A r \in Request : rpc[r] \in SettingUp => issuer_folder(r) # f
      BY <1>2, RestartFrame
    <2>3. \A r \in Request : Building(r) => rpc[r] \in SettingUp
      BY DEF Building, SettingUp
    <2>4. QED
      BY <1>2, <2>1, <2>2, <2>3, RestartFrame DEF CauseInv
  <1>3. CASE UNCHANGED <<folder, pem, rpc, inputs, rnext, broken>>
    BY <1>3 DEF CauseInv, Building, Complete, issuer_folder, First
  <1>4. QED
    BY <1>1, <1>2, <1>3, Quiet

LEMMA InvNext == TypeInv /\ Inv /\ [Next]_vars => Inv'
  BY LinkNext, BuildNext, PemNext, ServedNext, ResultNext, CauseNext DEF Inv

LEMMA InvCorrect == Spec => [](TypeInv /\ Inv)
  <1>1. Init => TypeInv /\ Inv
    BY TypeInit, InvInit
  <1>2. TypeInv /\ Inv /\ [Next]_vars => (TypeInv /\ Inv)'
    BY TypeNext, InvNext
  <1>3. QED
    BY <1>1, <1>2, PTL DEF Spec

-------------------------------------------------------------------------------
(***************************************************************************)
(* Every result is that of a proof over its own session, under a key that  *)
(* an issuer of that folder published.                                     *)
(***************************************************************************)
THEOREM ResultIsEarnedCorrect == Spec => []ResultIsEarned
  <1>1. Inv => ResultIsEarned
    BY DEF Inv
  <1>2. QED
    BY <1>1, InvCorrect, PTL

(***************************************************************************)
(* The first link is a lock: one call builds a folder.                     *)
(***************************************************************************)
THEOREM OneBuilderCorrect == Spec => []OneBuilder
  <1>1. Inv => OneBuilder
    BY DEF Inv, BuildInv
  <1>2. QED
    BY <1>1, InvCorrect, PTL

(***************************************************************************)
(* Every folder that stays incomplete was broken by a failure or restart.  *)
(***************************************************************************)
THEOREM IncompleteHasCauseCorrect == Spec => []IncompleteHasCause
  <1>1. Inv => IncompleteHasCause
    BY DEF Inv, CauseInv, IncompleteHasCause
  <1>2. QED
    BY <1>1, InvCorrect, PTL

(* Nobody but a builder writes a key, and the builder finds none.          *)
LEMMA KeyStep ==
  TypeInv /\ Inv /\ [Next]_vars =>
    \A f \in Folder : pem[f] \in Key => pem'[f] = pem[f]
  <1> SUFFICES ASSUME TypeInv, Inv, [Next]_vars, NEW f \in Folder, pem[f] \in Key
               PROVE  pem'[f] = pem[f]
    OBVIOUS
  <1>1. ASSUME NEW r \in Request, Verify(r), pem'[f] # pem[f] PROVE FALSE
    <2>1. f = issuer_folder(r)
      BY <1>1, FolderStep
    <2>2. CASE VerifyLink(r)
      <3>1. NextEntry(r) = "issuer.pub" /\ "issuer.pub" \notin folder[f]
        BY <1>1, <2>1, <2>2 DEF VerifyLink, Taken
      <3>2. QED
        BY <3>1, KeyAssumption DEF Inv, PemInv
    <2>3. CASE VerifyTruncate(r) \/ VerifyWrite(r)
      <3>1. Building(r) /\ rschema[r] # "mdl_1"
        BY <2>3 DEF VerifyTruncate, VerifyWrite, Building, Inv, LinkInv
      <3>2. pem[f] \in {"none", "empty"}
        BY <2>1, <3>1 DEF Inv, PemInv
      <3>3. QED
        BY <3>2, KeyAssumption
    <2>4. QED
      BY <1>1, <2>2, <2>3, FolderStep
  <1>2. CASE Restart
    BY <1>2, RestartFrame
  <1>3. QED
    BY <1>1, <1>2, Quiet

(***************************************************************************)
(* A key on disk stays as it was written.                                  *)
(***************************************************************************)
THEOREM KeyNeverChangesCorrect == Spec => KeyNeverChanges
  <1>1. QED
    BY KeyStep, InvCorrect, PTL DEF Spec, KeyNeverChanges

LEMMA PanicStep ==
  TypeInv /\ Inv /\ [Next]_vars =>
    \A r \in Request :
       rpc[r] \notin {"panicked", "mkcache", "verify"} /\ rpc'[r] = "panicked"
         => ~Complete(issuer_folder(r))
  <1> SUFFICES ASSUME TypeInv, Inv, [Next]_vars, NEW r \in Request,
                      rpc[r] \notin {"panicked", "mkcache", "verify"},
                      rpc'[r] = "panicked",
                      Complete(issuer_folder(r))
               PROVE  FALSE
    OBVIOUS
  <1>1. ~Restart
    BY RestartFrame
  <1>2. PICK q \in Request : Verify(q)
    BY <1>1, Quiet
  <1>3. q = r
    BY <1>2, VerifyFrame
  <1>4. VerifyFetchFails(r) \/ VerifyLoad(r)
    BY <1>2, <1>3 DEF Verify, VerifyReceive, VerifyCheck, VerifyMkdir, VerifyLink,
       VerifyLinkFails, VerifyFetch, VerifyTruncate, VerifyWrite, VerifyPaths,
       VerifyMkcache, VerifyAccept, VerifyInvalid, VerifyPanics, TypeInv, TypeOK
  <1>5. /\ issuer_folder(r) \in Folder
        /\ issuer_folder(r)[1] = rschema[r]
    BY <1>4, IssuerFolder DEF VerifyFetchFails, VerifyLoad, Running, SettingUp
  <1>6. CASE VerifyFetchFails(r)
    <2>1. pem[issuer_folder(r)] = "none"
      BY <1>6 DEF VerifyFetchFails, Inv, LinkInv, PemInv, Building
    <2>2. QED
      BY <2>1, KeyAssumption DEF Complete
  <1>7. CASE VerifyLoad(r)
    <2>1. "issuer.pub" \in Here(r)
      BY <1>5, KeyAssumption DEF Inv, PemInv, Complete
    <2>2. rpc'[r] = "verify"
      BY <1>5, <1>7, <2>1 DEF VerifyLoad, Complete, TypeInv, TypeOK
    <2>3. QED
      BY <2>2
  <1>8. QED
    BY <1>4, <1>6, <1>7

(***************************************************************************)
(* A call that works with a complete folder panics in verify_show only,    *)
(* over its proof, or when its cache folder was made by another call.      *)
(***************************************************************************)
THEOREM CompleteServesCorrect == Spec => CompleteServes
  <1>1. QED
    BY PanicStep, InvCorrect, PTL DEF Spec, CompleteServes

-------------------------------------------------------------------------------
(***************************************************************************)
(* Verifier implements SessionBook                                         *)
(***************************************************************************)

(* A session with a result is an active one, and an active one was drawn.  *)
BookInv == /\ sessions \subseteq drawn
           /\ \A s \in Session : results[s] # {} => s \in sessions

LEMMA BookNext == TypeInv /\ BookInv /\ [Next]_vars => BookInv'
  <1> SUFFICES ASSUME TypeInv, BookInv, [Next]_vars PROVE BookInv'
    OBVIOUS
  <1>1. ASSUME NEW r \in Request, Verify(r), ~VerifyAccept(r)
        PROVE  UNCHANGED results /\ (UNCHANGED book \/ base_context)
    BY <1>1 DEF Verify, VerifyReceive, VerifyCheck, VerifyMkdir, VerifyLink,
       VerifyLinkFails, VerifyFetch, VerifyFetchFails, VerifyTruncate, VerifyWrite,
       VerifyPaths, VerifyMkcache, VerifyLoad, VerifyInvalid, VerifyPanics
  <1>2. ASSUME UNCHANGED results, UNCHANGED book \/ base_context PROVE BookInv'
    BY <1>2 DEF BookInv, base_context
  <1>3. ASSUME NEW r \in Request, VerifyAccept(r) PROVE BookInv'
    BY <1>3 DEF VerifyAccept, BookInv, TypeInv, TypeOK, InputInv, Running
  <1>4. CASE Restart
    BY <1>4 DEF Restart, BookInv
  <1>5. QED
    BY <1>1, <1>2, <1>3, <1>4 DEF Next, LoginPage, RotateKey, vars

LEMMA SameStanding ==
  ASSUME UNCHANGED <<results, book>>
  PROVE  UNCHANGED [s \in Session |-> standingOf(s)]
  BY DEF standingOf

LEMMA BaseContextRefines ==
  ASSUME TypeInv, BookInv, base_context, UNCHANGED results
  PROVE  [SB!Next]_[s \in Session |-> standingOf(s)]
  <1>1. CASE UNCHANGED book
    BY <1>1, SameStanding
  <1>2. CASE ~UNCHANGED book
    <2>1. PICK s \in Session \ drawn : /\ sessions' = sessions \cup {s}
                                       /\ drawn' = drawn \cup {s}
      BY <1>2 DEF base_context
    <2>2. standingOf(s) = "fresh" /\ standingOf(s)' = "open"
      BY <2>1 DEF BookInv, standingOf
    <2>3. \A t \in Session \ {s} : standingOf(t)' = standingOf(t)
      BY <2>1 DEF standingOf
    <2>4. SB!Issue(s)
      BY <2>2, <2>3 DEF SB!Issue
    <2>5. QED
      BY <2>4 DEF SB!Next
  <1>3. QED
    BY <1>1, <1>2

LEMMA AcceptRefines ==
  ASSUME TypeInv, BookInv, NEW r \in Request, VerifyAccept(r)
  PROVE  [SB!Next]_[s \in Session |-> standingOf(s)]
  <1>1. PICK s \in Session : s = rsession[r] /\ s \in sessions
    BY DEF VerifyAccept, TypeInv, TypeOK, InputInv, Running
  <1>2. results'[s] # {} /\ UNCHANGED book
    BY <1>1 DEF VerifyAccept, TypeInv, TypeOK
  <1>3. \A t \in Session \ {s} : standingOf(t)' = standingOf(t)
    BY <1>1 DEF VerifyAccept, TypeInv, TypeOK, standingOf
  <1>4. standingOf(s)' = "validated"
    BY <1>2 DEF standingOf
  <1>5. CASE standingOf(s) = "validated"
    BY <1>3, <1>4, <1>5
  <1>6. CASE standingOf(s) = "open"
    <2>1. SB!Validate(s)
      BY <1>3, <1>4, <1>6 DEF SB!Validate
    <2>2. QED
      BY <2>1 DEF SB!Next
  <1>7. QED
    BY <1>1, <1>5, <1>6 DEF standingOf

LEMMA StepRefines ==
  TypeInv /\ BookInv /\ [Next]_vars => [SB!Next]_[s \in Session |-> standingOf(s)]
  <1> SUFFICES ASSUME TypeInv, BookInv, [Next]_vars
               PROVE  [SB!Next]_[s \in Session |-> standingOf(s)]
    OBVIOUS
  <1>1. ASSUME NEW r \in Request, Verify(r), ~VerifyAccept(r)
        PROVE  UNCHANGED results /\ (UNCHANGED book \/ base_context)
    BY <1>1 DEF Verify, VerifyReceive, VerifyCheck, VerifyMkdir, VerifyLink,
       VerifyLinkFails, VerifyFetch, VerifyFetchFails, VerifyTruncate, VerifyWrite,
       VerifyPaths, VerifyMkcache, VerifyLoad, VerifyInvalid, VerifyPanics
  <1>2. CASE Restart
    <2>1. \A s \in Session :
            standingOf(s)' = IF standingOf(s) = "fresh" THEN "fresh" ELSE "lost"
      BY <1>2 DEF Restart, BookInv, standingOf
    <2>2. SB!Crash
      BY <2>1 DEF SB!Crash
    <2>3. QED
      BY <2>2 DEF SB!Next
  <1>3. CASE UNCHANGED <<results, book>>
    BY <1>3, SameStanding
  <1>4. QED
    BY <1>1, <1>2, <1>3, BaseContextRefines, AcceptRefines
    DEF Next, LoginPage, RotateKey, vars

(***************************************************************************)
(* The verifier keeps the promise of SessionBook for any number of         *)
(* sessions and concurrent calls.                                          *)
(***************************************************************************)
THEOREM VerifierImplementsSessionBook == Spec => ImplementsSessionBook
  <1>1. Init => SB!Init /\ BookInv
    BY DEF Init, SB!Init, standingOf, BookInv
  <1>2. Spec => []BookInv
    BY <1>1, BookNext, InvCorrect, PTL DEF Spec
  <1>3. QED
    BY <1>1, <1>2, StepRefines, InvCorrect, PTL DEF Spec, ImplementsSessionBook, SB!Spec
===============================================================================
