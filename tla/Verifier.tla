------------------------------- MODULE Verifier -------------------------------
(***************************************************************************)
(* The verifier: a Rocket server that puts a session ID on each login page *)
(* and checks the proofs that come back for it                             *)
(* (sample/verifier/src/main.rs).                                          *)
(*                                                                         *)
(* In memory it keeps the session IDs it issued and the result of each     *)
(* session; both are lost in a restart.  On disk it keeps a folder per     *)
(* schema and issuer, which the first /verify for that pair sets up: links *)
(* to the shared parameters, then, for a JWT, the issuer's key.  Whether   *)
(* the folder exists is all that later calls check.  /verify calls run     *)
(* concurrently; a step is what a call does between two points where       *)
(* another may observe it, mostly a system call.  A panic ends the call.   *)
(***************************************************************************)
EXTENDS CrescentCommon, Sequences

CONSTANTS Session,          \* the UUIDs that base_context draws
          Request,          \* the calls of /verify
          Issuer,           \* issuer URLs
          FolderName,       \* folder names made of them
          issuer_uid,       \* the name made of each URL
          Key,              \* the public keys of issuers, as PEM
          SharedKey,        \* the mDL issuer's key, put there at setup
          Listing,          \* the order in which each shared folder is listed
          RequestedSchema,  \* the schema_uid values that clients send
          MaxRestarts       \* bound on restarts of the process

(* Nobody changes the shared folders, so that they are listed in the same  *)
(* order every time.                                                       *)
SharedEntry == {"cache", "config.json", "io_locations.sym", "issuer.pub"}

shared(s) == {"cache", "config.json", "io_locations.sym"}
               \cup (IF s = "mdl_1" THEN {"issuer.pub"} ELSE {})

ASSUME ListingAssumption ==
  \A s \in SCHEMA_UIDS :
     /\ Listing[s] \in Seq(SharedEntry)
     /\ {Listing[s][n] : n \in 1..Len(Listing[s])} = shared(s)
     /\ \A m, n \in 1..Len(Listing[s]) : Listing[s][m] = Listing[s][n] => m = n
ASSUME IssuerAssumption == issuer_uid \in [Issuer -> FolderName]
ASSUME KeyAssumption ==
  SharedKey \in Key /\ "none" \notin Key /\ "empty" \notin Key
ASSUME RestartsAssumption == MaxRestarts \in Nat

VARIABLES sessions, \* active_session_ids
          results,  \* validation_results: {} or {the proof} of each session
          folder,   \* the entries of each issuer folder, {} when there is none
          pem,      \* what its issuer.pub holds: "none", "empty" or a key
          jwk,      \* the key each issuer serves at its jwks.json
          rpc,      \* where each /verify is
          rsession, \* the session ID it was given
          rschema,  \* the schema_uid
          rissuer,  \* the issuer_url
          rdisc,    \* the disclosure_uid
          rnext,    \* which entry of the shared folder it links next
          rkey,     \* the key it fetched, or the one it read
          restarts, \* how often the process was restarted
          drawn,    \* history: session IDs ever issued
          served,   \* history: the keys published for each folder
          broken    \* history: folders whose set-up did not end well

inputs == <<rsession, rschema, rissuer, rdisc>>
book == <<sessions, drawn>>
disk == <<folder, pem>>
world == <<jwk, served>>
vars == <<book, results, disk, world, rpc, inputs, rnext, rkey, restarts, broken>>

Folder == SCHEMA_UIDS \X FolderName

FolderEntry == SharedEntry \cup {"dir", "cache_dir"}

(* What a proof was made to show: the configured spec of the JWT site, or  *)
(* that the holder of an mDL has the age of the disclosure.                *)
ProofSpecs == {"site1"} \cup AgeDisclosures

spec(s, disc) == IF cred_type_from_schema(s) = "mdl" THEN disc ELSE "site1"

(* A show proof that deserialises, by what verify_show compares: the       *)
(* schema of its parameters, the key that signed the credential, the       *)
(* challenge in its presentation message and what it shows.                *)
Proof == [schema : SCHEMA_UIDS, key : Key, session : Session, spec : ProofSpecs]

SettingUp == {"mkdir", "link", "fetch", "truncate", "write"}
Running == SettingUp \cup {"check", "paths", "mkcache", "load", "verify"}
Ended == {"refused", "redirected", "panicked", "killed"}

TypeOK ==
  /\ sessions \subseteq Session
  /\ results \in [Session -> SUBSET Proof]
  /\ folder \in [Folder -> SUBSET FolderEntry]
  /\ pem \in [Folder -> Key \cup {"none", "empty"}]
  /\ jwk \in [Issuer -> Key]
  /\ rpc \in [Request -> Running \cup Ended \cup {"idle"}]
  /\ rsession \in [Request -> Session \cup {"none"}]
  /\ rschema \in [Request -> SCHEMA_UIDS \cup {"none"}]
  /\ rissuer \in [Request -> Issuer \cup {"none"}]
  /\ rdisc \in [Request -> Disclosures \cup {"none"}]
  /\ rnext \in [Request -> Nat]
  /\ rkey \in [Request -> Key \cup {"none", "empty"}]
  /\ restarts \in 0..MaxRestarts
  /\ drawn \subseteq Session
  /\ served \in [Folder -> SUBSET Key]
  /\ broken \subseteq Folder

Init ==
  /\ sessions = {}
  /\ results = [s \in Session |-> {}]
  /\ folder = [f \in Folder |-> {}]
  /\ pem = [f \in Folder |-> "none"]
  /\ jwk \in [Issuer -> Key]
  /\ rpc = [r \in Request |-> "idle"]
  /\ rsession = [r \in Request |-> "none"]
  /\ rschema = [r \in Request |-> "none"]
  /\ rissuer = [r \in Request |-> "none"]
  /\ rdisc = [r \in Request |-> "none"]
  /\ rnext = [r \in Request |-> 1]
  /\ rkey = [r \in Request |-> "none"]
  /\ restarts = 0
  /\ drawn = {}
  /\ served = [f \in Folder |->
                 IF f[1] = "mdl_1" THEN {SharedKey}
                 ELSE {jwk[i] : i \in {j \in Issuer : issuer_uid[j] = f[2]}}]
  /\ broken = {}

issuer_folder(r) == <<rschema[r], issuer_uid[rissuer[r]]>>

Here(r) == folder[issuer_folder(r)]

GoTo(r, pc) == rpc' = [rpc EXCEPT ![r] = pc]

AddEntry(r, e) == folder' = [folder EXCEPT ![issuer_folder(r)] = @ \cup {e}]

SetPem(r, p) == pem' = [pem EXCEPT ![issuer_folder(r)] = p]

Break(r) == broken' = broken \cup {issuer_folder(r)}

(* A folder in which verification finds everything it needs.               *)
Complete(f) == shared(f[1]) \subseteq folder[f] /\ pem[f] \in Key

-------------------------------------------------------------------------------
(* Fault: an ID is only compared with those that are active.               *)
base_context_reuses ==
  \/ \E s \in Session \ sessions : /\ sessions' = sessions \cup {s}
                                   /\ drawn' = drawn \cup {s}
  \/ Session \subseteq sessions /\ UNCHANGED book

(* Every login page, and every error page, carries a new session ID.  The  *)
(* finite Session is a bound: IDs beyond it are ones that nobody uses.     *)
base_context ==
  \/ \E s \in Session \ drawn : /\ sessions' = sessions \cup {s}
                                /\ drawn' = drawn \cup {s}
  \/ Session \subseteq drawn /\ UNCHANGED book

LoginPage ==
  /\ ~(Session \subseteq drawn)
  /\ base_context
  /\ UNCHANGED <<results, disk, world, rpc, inputs, rnext, rkey, restarts, broken>>

Refuse(r) == GoTo(r, "refused") /\ base_context
-------------------------------------------------------------------------------
(* POST /verify                                                            *)

(* The checks that come before anything is done.                           *)
VerifyReceive(r) ==
  /\ rpc[r] = "idle"
  /\ \E s \in drawn, schema \in RequestedSchema, i \in Issuer,
        disc \in Disclosures :
       IF /\ s \in sessions
          /\ schema \in SCHEMA_UIDS
          /\ is_disc_supported_by_schema(disc, schema)
         THEN /\ GoTo(r, "check")
              /\ rsession' = [rsession EXCEPT ![r] = s]
              /\ rschema' = [rschema EXCEPT ![r] = schema]
              /\ rissuer' = [rissuer EXCEPT ![r] = i]
              /\ rdisc' = [rdisc EXCEPT ![r] = disc]
              /\ UNCHANGED book
         ELSE /\ Refuse(r)
              /\ UNCHANGED inputs
  /\ UNCHANGED <<results, disk, world, rnext, rkey, restarts, broken>>

VerifyCheck(r) ==
  /\ rpc[r] = "check"
  /\ GoTo(r, IF Here(r) = {} THEN "mkdir" ELSE "paths")
  /\ UNCHANGED <<book, results, disk, world, inputs, rnext, rkey, restarts,
                 broken>>

(* create_dir_all does not mind a folder that appeared meanwhile.          *)
VerifyMkdir(r) ==
  /\ rpc[r] = "mkdir"
  /\ AddEntry(r, "dir")
  /\ GoTo(r, "link")
  /\ UNCHANGED <<book, results, pem, world, inputs, rnext, rkey, restarts,
                 broken>>

(* The name that the next link takes in the folder.                        *)
NextEntry(r) == Listing[rschema[r]][rnext[r]]

(* An empty cache folder made by CachePaths takes the name of the link.    *)
Taken(r) == \/ NextEntry(r) \in Here(r)
            \/ NextEntry(r) = "cache" /\ "cache_dir" \in Here(r)

(* Fault: a link that exists already is passed over.                       *)
VerifyLinkTolerates(r) ==
  /\ rpc[r] = "link"
  /\ AddEntry(r, NextEntry(r))
  /\ IF NextEntry(r) = "issuer.pub" THEN SetPem(r, SharedKey) ELSE UNCHANGED pem
  /\ rnext' = [rnext EXCEPT ![r] = @ + 1]
  /\ GoTo(r, IF rnext[r] < Len(Listing[rschema[r]]) THEN "link"
             ELSE IF cred_type_from_schema(rschema[r]) = "jwt" THEN "fetch"
             ELSE "paths")
  /\ UNCHANGED <<book, results, world, inputs, rkey, restarts, broken>>

VerifyLink(r) ==
  /\ rpc[r] = "link"
  /\ ~Taken(r)
  /\ AddEntry(r, NextEntry(r))
  /\ IF NextEntry(r) = "issuer.pub" THEN SetPem(r, SharedKey) ELSE UNCHANGED pem
  /\ rnext' = [rnext EXCEPT ![r] = @ + 1]
  /\ GoTo(r, IF rnext[r] < Len(Listing[rschema[r]]) THEN "link"
             ELSE IF cred_type_from_schema(rschema[r]) = "jwt" THEN "fetch"
             ELSE "paths")
  /\ UNCHANGED <<book, results, world, inputs, rkey, restarts, broken>>

(* The first link is taken: another call is setting up the folder, or has  *)
(* done so.                                                                *)
LostTheRace(r) == rnext[r] = 1 /\ NextEntry(r) \in Here(r)

(* Fault: the call waits for the one that is setting up the folder.        *)
VerifyLinkWaits(r) ==
  /\ rpc[r] = "link"
  /\ Taken(r)
  /\ pem[issuer_folder(r)] \in Key
  /\ GoTo(r, "paths")
  /\ UNCHANGED <<book, results, disk, world, inputs, rnext, rkey, restarts,
                 broken>>

(* A name that is taken, or a shared folder that cannot be read.           *)
VerifyLinkFails(r) ==
  /\ rpc[r] = "link"
  /\ Taken(r) \/ rnext[r] = 1
  /\ Refuse(r)
  /\ IF LostTheRace(r) THEN UNCHANGED broken ELSE Break(r)
  /\ UNCHANGED <<results, disk, world, inputs, rnext, rkey, restarts>>

(* Fault: the call goes on without the issuer's key.                       *)
VerifyFetchIgnored(r) ==
  /\ rpc[r] = "fetch"
  /\ GoTo(r, "paths")
  /\ UNCHANGED <<book, results, disk, world, inputs, rnext, rkey, restarts,
                 broken>>

VerifyFetch(r) ==
  /\ rpc[r] = "fetch"
  /\ rkey' = [rkey EXCEPT ![r] = jwk[rissuer[r]]]
  /\ GoTo(r, "truncate")
  /\ UNCHANGED <<book, results, disk, world, inputs, rnext, restarts, broken>>

(* Any failure of the request is a panic (expect).                         *)
VerifyFetchFails(r) ==
  /\ rpc[r] = "fetch"
  /\ GoTo(r, "panicked")
  /\ Break(r)
  /\ UNCHANGED <<book, results, disk, world, inputs, rnext, rkey, restarts>>

(* fs::write empties the file before it writes the key.                    *)
VerifyTruncate(r) ==
  /\ rpc[r] = "truncate"
  /\ SetPem(r, "empty")
  /\ AddEntry(r, "issuer.pub")
  /\ GoTo(r, "write")
  /\ UNCHANGED <<book, results, world, inputs, rnext, rkey, restarts, broken>>

VerifyWrite(r) ==
  /\ rpc[r] = "write"
  /\ SetPem(r, rkey[r])
  /\ GoTo(r, "paths")
  /\ UNCHANGED <<book, results, folder, world, inputs, rnext, rkey, restarts,
                 broken>>

VerifyPaths(r) ==
  /\ rpc[r] = "paths"
  /\ GoTo(r, IF Here(r) \cap {"cache", "cache_dir"} = {} THEN "mkcache"
                                                         ELSE "load")
  /\ UNCHANGED <<book, results, disk, world, inputs, rnext, rkey, restarts,
                 broken>>

VerifyMkcache(r) ==
  /\ rpc[r] = "mkcache"
  /\ IF Here(r) \cap {"cache", "cache_dir"} = {}
       THEN AddEntry(r, "cache_dir") /\ GoTo(r, "load")
       ELSE GoTo(r, "panicked") /\ UNCHANGED folder
  /\ UNCHANGED <<book, results, pem, world, inputs, rnext, rkey, restarts,
                 broken>>

(* VerifierParams: a file that is missing is a panic.  The entries are     *)
(* read one after the other, but where issuer.pub is found the others have *)
(* been there before it.                                                   *)
VerifyLoad(r) ==
  /\ rpc[r] = "load"
  /\ IF shared(rschema[r]) \cup {"issuer.pub"} \subseteq Here(r)
       THEN /\ rkey' = [rkey EXCEPT ![r] = pem[issuer_folder(r)]]
            /\ GoTo(r, "verify")
       ELSE GoTo(r, "panicked") /\ UNCHANGED rkey
  /\ UNCHANGED <<book, results, disk, world, inputs, rnext, restarts, broken>>

(* Fault: the challenge is not put into the proof spec.                    *)
ProofAnyChallenge(r, p) ==
  /\ p.schema = rschema[r]
  /\ p.key = rkey[r]
  /\ p.spec = spec(rschema[r], rdisc[r])

(* Fault: whatever key signed the credential will do.                      *)
ProofAnyKey(r, p) ==
  /\ p.schema = rschema[r]
  /\ p.session = rsession[r]
  /\ p.spec = spec(rschema[r], rdisc[r])

(* What verify_show needs to accept a proof, its age apart.                *)
ProofMatches(r, p) ==
  /\ p.schema = rschema[r]
  /\ p.key = rkey[r]
  /\ p.session = rsession[r]
  /\ p.spec = spec(rschema[r], rdisc[r])

VerifyAccept(r) ==
  /\ rpc[r] = "verify"
  /\ \E p \in Proof :
       /\ ProofMatches(r, p)
       /\ results' = [results EXCEPT ![rsession[r]] = {p}]
  /\ GoTo(r, "redirected")
  /\ UNCHANGED <<book, disk, world, inputs, rnext, rkey, restarts, broken>>

(* A proof of something else, one that is too old, or no proof at all.     *)
VerifyInvalid(r) ==
  /\ rpc[r] = "verify"
  /\ Refuse(r)
  /\ UNCHANGED <<results, disk, world, inputs, rnext, rkey, restarts, broken>>

(* verify_show panics on a proof that lacks a part it goes by: as many     *)
(* inputs as the circuit has, commitments for them, the preimages of       *)
(* hashed claims, or that has a range proof too many.                      *)
VerifyPanics(r) ==
  /\ rpc[r] = "verify"
  /\ GoTo(r, "panicked")
  /\ UNCHANGED <<book, results, disk, world, inputs, rnext, rkey, restarts,
                 broken>>

Verify(r) == \/ VerifyReceive(r)
             \/ VerifyCheck(r)
             \/ VerifyMkdir(r)
             \/ VerifyLink(r)
             \/ VerifyLinkFails(r)
             \/ VerifyFetch(r)
             \/ VerifyFetchFails(r)
             \/ VerifyTruncate(r)
             \/ VerifyWrite(r)
             \/ VerifyPaths(r)
             \/ VerifyMkcache(r)
             \/ VerifyLoad(r)
             \/ VerifyAccept(r)
             \/ VerifyInvalid(r)
             \/ VerifyPanics(r)
-------------------------------------------------------------------------------
(* An issuer replaces the key it publishes.                                *)
RotateKey(i) ==
  /\ \E k \in Key \ {jwk[i]} :
       /\ jwk' = [jwk EXCEPT ![i] = k]
       /\ served' = [f \in Folder |->
                       IF f[1] # "mdl_1" /\ f[2] = issuer_uid[i]
                         THEN served[f] \cup {k} ELSE served[f]]
  /\ UNCHANGED <<book, results, disk, rpc, inputs, rnext, rkey, restarts, broken>>

(* The process dies and starts again; the folders stay as they are.        *)
Restart ==
  /\ restarts < MaxRestarts
  /\ restarts' = restarts + 1
  /\ sessions' = {}
  /\ results' = [s \in Session |-> {}]
  /\ rpc' = [r \in Request |-> IF rpc[r] \in Running THEN "killed" ELSE rpc[r]]
  /\ broken' = broken \cup
       {issuer_folder(r) : r \in {q \in Request : rpc[q] \in SettingUp}}
  /\ UNCHANGED <<disk, world, inputs, rnext, rkey, drawn>>

Next == \/ LoginPage
        \/ \E r \in Request : Verify(r)
        \/ \E i \in Issuer : RotateKey(i)
        \/ Restart

Spec == Init /\ [][Next]_vars

(* The runtime keeps running a call that was received, and a request to    *)
(* the issuer ends.                                                        *)
Fairness == \A r \in Request : WF_vars(rpc[r] # "idle" /\ Verify(r))

FairSpec == Spec /\ Fairness

-------------------------------------------------------------------------------
(***************************************************************************)
(* A session has a result only if the verifier issued its ID, and then for *)
(* a proof over this very ID under a key that the issuer of that folder    *)
(* has published, whatever happened to the folder meanwhile.               *)
(***************************************************************************)
ResultIsEarned ==
  \A s \in Session : \A p \in results[s] :
    /\ s \in sessions
    /\ p.session = s
    /\ \E n \in FolderName : p.key \in served[<<p.schema, n>>]

(***************************************************************************)
(* An issuer's key is written at most once: a key on disk is never emptied *)
(* or replaced, however many calls raced to set the folder up (and however *)
(* often the issuer rotates its key).                                      *)
(***************************************************************************)
KeyNeverChanges ==
  [][\A f \in Folder : pem[f] \in Key => pem'[f] = pem[f]]_vars

(***************************************************************************)
(* Of the calls that race to set up a folder, at most one gets past its    *)
(* first link: a link that exists makes copy_with_symlinks fail.           *)
(***************************************************************************)
Building(r) == \/ rpc[r] = "link" /\ rnext[r] > 1
               \/ rpc[r] \in {"fetch", "truncate", "write"}

OneBuilder ==
  \A r, q \in Request :
    Building(r) /\ Building(q) /\ issuer_folder(r) = issuer_folder(q) => r = q

(***************************************************************************)
(* Once the folder of its issuer is complete no call panics for want of a  *)
(* file or of a key: it comes to verify_show, which decides about the      *)
(* proof (and panics on some, see VerifyPanics), or answers with an error  *)
(* page.  The exception is a call that found no cache while the folder was *)
(* being set up and is about to make one.                                  *)
(***************************************************************************)
CompleteServes ==
  [][\A r \in Request :
       rpc[r] \notin {"panicked", "mkcache", "verify"} /\ rpc'[r] = "panicked"
         => ~Complete(issuer_folder(r))]_vars

(***************************************************************************)
(* A folder is incomplete only while a call sets it up, or for a reason: a *)
(* fetch that failed, a link that failed for the call that was building, a *)
(* shared folder that could not be read, or a restart in the middle.  A    *)
(* call that merely lost the race leaves no damage.                        *)
(***************************************************************************)
IncompleteHasCause ==
  \A f \in Folder : folder[f] # {} /\ ~Complete(f) =>
    \/ f \in broken
    \/ \E r \in Request : rpc[r] \in SettingUp /\ issuer_folder(r) = f

(***************************************************************************)
(* Every /verify comes to an end.                                          *)
(***************************************************************************)
VerifyEnds == \A r \in Request : rpc[r] # "idle" ~> rpc[r] \in Ended

-------------------------------------------------------------------------------
standingOf(s) == IF results[s] # {} THEN "validated"
                 ELSE IF s \in sessions THEN "open"
                 ELSE IF s \in drawn THEN "lost" ELSE "fresh"

SB == INSTANCE SessionBook WITH standing <- [s \in Session |-> standingOf(s)]

ImplementsSessionBook == SB!Spec
===============================================================================
