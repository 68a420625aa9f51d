----------------------------- MODULE Presentation -----------------------------
(***************************************************************************)
(* A presentation, from a login page of the verifier to the page it lets   *)
(* the user see: the tabs and their content script, the popup, the         *)
(* background worker of the browser extension (sample/client/src) and the  *)
(* verifier (sample/verifier/src/main.rs, creds/src/lib.rs).               *)
(*                                                                         *)
(* The verifier's sessions are a SessionBook, which Verifier implements;   *)
(* its folders are those of Verifier, where each link and each write is a  *)
(* step of its own (here a folder is "partial" until the last).  The end   *)
(* of a card's preparation is that of Wallet: its record is marked         *)
(* PREPARED, then the popup is told.                                       *)
(***************************************************************************)
EXTENDS Integers

CONSTANTS Session,     \* the UUIDs that base_context draws
          Tab,         \* the tabs of the browser
          Card,        \* the cards of the wallet, all of which fit all requests
          Click,       \* the clicks on Disclose
          Aged,        \* the cards that disclose an age
          Offered,     \* which requests the verifier takes of which card
          Key,         \* the public keys of issuers
          signer,      \* the key that signed each card
          Folder,      \* the verifier's folders, one per schema and issuer
          issuer_folder, \* the folder of each card
          Found,       \* what the verifier may find in a folder at first
          Validity,    \* SHOW_PROOF_VALIDITY_SECONDS
          Skew,        \* how much the client's clock is ahead (or behind)
          MaxAge       \* bound on the age of a proof that is on its way

ASSUME NoneAssumption == "none" \notin Session \cup Tab \cup Card
ASSUME FolderAssumption ==
  /\ "none" \notin Key /\ "partial" \notin Key
  /\ signer \in [Card -> Key] /\ issuer_folder \in [Card -> Folder]
  /\ Found \subseteq {"none", "partial"} \cup Key
ASSUME ClockAssumption == Validity \in Nat /\ Skew \in Int /\ MaxAge \in Nat

VARIABLES standing,  \* of each session ID: the SessionBook
          results,   \* {} or {the card} each session was validated with
          folder,    \* of each folder: "none", "partial", or the key in it
          page,      \* what each tab shows
          active,    \* the active tab
          stage,     \* how far the preparation of each card is
          open,      \* whether the popup is open
          scan,      \* whether a scan of the active tab is to come
          status,    \* of each card in the popup
          params,    \* the session its Disclose button would answer
          labels,    \* the sessions whose request the card displays
          timer,     \* whether a PREPARED message is to take effect on it
          early,     \* history: loaded while _prepareComplete was at work
          job,       \* the disclosure that each click started
          wait,      \* what the popup does about it
          consented  \* history: what was displayed when the user clicked

server == <<standing, results, folder>>
browser == <<page, active>>
popup == <<open, scan, status, params, labels, timer, early>>
vars == <<server, browser, stage, popup, job, wait, consented>>

Book == INSTANCE SessionBook

(* A login page carries its session ID in meta tags; "blank" is any page   *)
(* without a request or a result.                                          *)
Page == [kind : {"blank"}, session : {"none"}]
          \cup [kind : {"login", "result"}, session : Session]

Blank == [kind |-> "blank", session |-> "none"]

(* A show proof: how long ago it was made, and whether the verifier counts *)
(* the days of the age that it shows, if any, as the prover did: both      *)
(* count from their own date.                                              *)
Made == [card : Card, since : 0..MaxAge, alike : BOOLEAN]

(* At the verifier: it is about to make the folder of the issuer, links    *)
(* the shared parameters and fetches the key, or has done so.              *)
SettingUp == {"making", "linking", "linked"}

(* Where a disclosure is; "thrown" in the background, which never answers. *)
Places == {"idle", "sent", "made", "posting", "accepted", "refused",
           "thrown", "over"} \cup SettingUp

(* Of _prepareComplete: "marked" from the save of PREPARED until the popup *)
(* is told, between which the show data is fetched and saved.              *)
Stages == {"preparing", "marked", "told"}

NoJob == [pc |-> "idle", card |-> "none", session |-> "none", proof |-> {},
          tab |-> "none"]

TypeOK ==
  /\ Book!TypeOK
  /\ results \in [Session -> SUBSET Card]
  /\ folder \in [Folder -> {"none", "partial"} \cup Key]
  /\ page \in [Tab -> Page] /\ active \in Tab
  /\ stage \in [Card -> Stages]
  /\ open \in BOOLEAN /\ scan \in BOOLEAN
  /\ status \in [Card -> {"none", "PREPARING", "PREPARED", "DISCLOSABLE",
                          "SHOWPROOF_PENDING"}]
  /\ params \in [Card -> Session \cup {"none"}]
  /\ \A c \in Card : status[c] \in {"DISCLOSABLE", "SHOWPROOF_PENDING"} =>
        params[c] \in labels[c]
  /\ labels \in [Card -> SUBSET Session]
  /\ timer \in [Card -> BOOLEAN] /\ early \in [Card -> BOOLEAN]
  /\ job \in [Click -> [pc : Places,
                        card : Card \cup {"none"},
                        session : Session \cup {"none"},
                        proof : SUBSET Made, tab : Tab \cup {"none"}]]
  /\ wait \in [Click -> {"idle", "waiting", "detached", "over"}]
  /\ consented \subseteq Card \X Session

Closed(s, p, l, t, e) ==
  /\ s = [c \in Card |-> "none"] /\ p = [c \in Card |-> "none"]
  /\ l = [c \in Card |-> {}]
  /\ t = [c \in Card |-> FALSE] /\ e = [c \in Card |-> FALSE]

Init ==
  /\ Book!Init /\ results = [s \in Session |-> {}]
  /\ folder \in [Folder -> Found]
  /\ page = [t \in Tab |-> Blank] /\ active \in Tab
  /\ stage = [c \in Card |-> "preparing"]
  /\ open = FALSE /\ scan = FALSE
  /\ Closed(status, params, labels, timer, early)
  /\ job = [d \in Click |-> NoJob] /\ wait = [d \in Click |-> "idle"]
  /\ consented = {}

Goto(d, pc) == job' = [job EXCEPT ![d].pc = pc]

End(j, pc) == [NoJob EXCEPT !.pc = pc, !.card = j.card]

Finish(d, pc) == job' = [job EXCEPT ![d] = End(@, pc)]

(* A document that is left takes no more part in the fetch it has started. *)
Leave(j, t) ==
  [d \in Click |-> IF j[d].tab = t THEN [j[d] EXCEPT !.tab = "none"] ELSE j[d]]

-------------------------------------------------------------------------------
(* The browser and the user                                                *)

(* Time passes: all proofs on their way grow old.                          *)
Tick ==
  /\ \E d \in Click : job[d].proof # {}
  /\ \A d \in Click : \A p \in job[d].proof : p.since < MaxAge
  /\ job' = [d \in Click |->
               [job[d] EXCEPT
                  !.proof = {[p EXCEPT !.since = @ + 1] : p \in @}]]
  /\ UNCHANGED <<server, browser, stage, popup, wait, consented>>

(* The date changes at the verifier, and with it what days it counts.      *)
Midnight ==
  /\ \E d \in Click : job[d].card \in Aged /\ job[d].proof # {}
  /\ \E same \in SUBSET Click :
       job' = [d \in Click |->
                 [job[d] EXCEPT
                    !.proof = {[p EXCEPT !.alike = \/ d \in same
                                                   \/ p.card \notin Aged]
                                 : p \in @}]]
  /\ UNCHANGED <<server, browser, stage, popup, wait, consented>>

(* base_context: every login page, and error page, has a new session ID.   *)
(* IDs beyond the finite Session are ones that nobody uses.                *)
Draw == \/ \E s \in Session : Book!Issue(s)
        \/ (\A s \in Session : standing[s] # "fresh") /\ UNCHANGED standing

(* login_page or signup1_page in tab t.  When it has loaded in the active  *)
(* tab, an open popup is told to scan it (onUpdated).                      *)
Visit(t) ==
  /\ \E s \in Session :
       /\ Book!Issue(s)
       /\ page' = [page EXCEPT ![t] = [kind |-> "login", session |-> s]]
  /\ job' = Leave(job, t)
  /\ scan' = (scan \/ (open /\ t = active))
  /\ UNCHANGED <<results, folder, active, stage, open, status, params, labels,
                 timer, early, wait, consented>>

(* Any other page in tab t, which has no request (queryDisclosureRequest). *)
GoAway(t) ==
  /\ page' = [page EXCEPT ![t] = Blank]
  /\ job' = Leave(job, t)
  /\ UNCHANGED <<server, active, stage, popup, wait, consented>>

(* Another tab: onActivated asks for its request and drops the answer.     *)
Activate(t) ==
  /\ active' = t
  /\ UNCHANGED <<server, page, stage, popup, job, wait, consented>>

-------------------------------------------------------------------------------
(* The preparation of a card, and the popup                                *)

MarkPrepared(c) ==
  /\ stage[c] = "preparing"
  /\ stage' = [stage EXCEPT ![c] = "marked"]
  /\ UNCHANGED <<server, browser, popup, job, wait, consented>>

(* The PREPARED message, which a popup that is closed does not get.        *)
TellPrepared(c) ==
  /\ stage[c] = "marked"
  /\ stage' = [stage EXCEPT ![c] = "told"]
  /\ timer' = [timer EXCEPT ![c] = open]
  /\ UNCHANGED <<server, browser, open, scan, status, params, labels, early,
                 job, wait, consented>>

(* Cards as they are stored; a new element displays no request yet.        *)
LoadCards ==
  /\ status' = [c \in Card |-> IF stage[c] = "preparing" THEN "PREPARING"
                                                         ELSE "PREPARED"]
  /\ params' = [c \in Card |-> "none"] /\ labels' = [c \in Card |-> {}]
  /\ timer' = [c \in Card |-> FALSE]
  /\ early' = [c \in Card |-> stage[c] = "marked"]

OpenPopup ==
  /\ ~open
  /\ open' = TRUE /\ scan' = TRUE
  /\ LoadCards
  /\ UNCHANGED <<server, browser, stage, job, wait, consented>>

(* initWallet after the import of a file: a disclosure that is under way   *)
(* keeps the object of the card that was on display.                       *)
ShowAnew ==
  /\ open
  /\ LoadCards
  /\ wait' = [d \in Click |->
                IF wait[d] = "waiting" THEN "detached" ELSE wait[d]]
  /\ UNCHANGED <<server, browser, stage, open, scan, job, consented>>

(* What waits for an answer is gone.                                       *)
Close == /\ open' = FALSE /\ scan' = FALSE
         /\ Closed(status', params', labels', timer', early')
         /\ wait' = [d \in Click |->
                       IF wait[d] = "idle" THEN "idle" ELSE "over"]

ClosePopup ==
  /\ open
  /\ Close
  /\ UNCHANGED <<server, browser, stage, job, consented>>

(* The timer that a PREPARED message starts sets the status, whatever it   *)
(* is by then.                                                             *)
ShowPrepared(c) ==
  /\ timer[c]
  /\ timer' = [timer EXCEPT ![c] = FALSE]
  /\ status' = [status EXCEPT ![c] = "PREPARED"]
  /\ UNCHANGED <<server, browser, stage, open, scan, params, labels, early,
                 job, wait, consented>>

(* Fault: the meta tags of the page are not checked.                       *)
AnyPage(p) == TRUE

HasRequest(p) == p.kind = "login"

(* Fault: a card that makes a proof takes requests, too.                   *)
TakesAlways(c) == status[c] \in {"PREPARED", "SHOWPROOF_PENDING"}

TakesRequest(c) == status[c] = "PREPARED"

(* scanForDisclosureRequest: the request of the page that is active now is *)
(* displayed, below those that the card displays already.                  *)
Scan ==
  /\ scan /\ scan' = FALSE
  /\ LET s == page[active].session
         T == {c \in Card : TakesRequest(c)}
     IN IF HasRequest(page[active])
          THEN /\ status' = [c \in Card |-> IF c \in T THEN "DISCLOSABLE"
                                                       ELSE status[c]]
               /\ params' = [c \in Card |-> IF c \in T THEN s ELSE params[c]]
               /\ labels' = [c \in Card |-> IF c \in T THEN labels[c] \cup {s}
                                                       ELSE labels[c]]
          ELSE UNCHANGED <<status, params, labels>>
  /\ UNCHANGED <<server, browser, stage, open, timer, early, job, wait,
                 consented>>

(* Fault: what is answered is the request of the page that is active now.  *)
ActiveRequest(c) == IF HasRequest(page[active]) THEN page[active].session
                                                ELSE params[c]

(* The request that the card's element keeps.                              *)
KeptRequest(c) == params[c]

Disclose(d) ==
  /\ job[d].pc = "idle"
  /\ \E c \in Card :
       /\ status[c] = "DISCLOSABLE"
       /\ status' = [status EXCEPT ![c] = "SHOWPROOF_PENDING"]
       /\ job' = [job EXCEPT ![d] = [NoJob EXCEPT !.pc = "sent", !.card = c,
                                                  !.session = KeptRequest(c)]]
       /\ consented' = consented \cup {<<c, s>> : s \in labels[c]}
  /\ wait' = [wait EXCEPT ![d] = "waiting"]
  /\ UNCHANGED <<server, browser, stage, open, scan, params, labels, timer,
                 early>>

(* sendMessage has an answer, or undefined where the worker was stopped.   *)
Answered(d) == job[d].pc \notin {"idle", "sent", "thrown"}

(* The popup closes, whatever the answer is.                               *)
DiscloseReturns(d) ==
  /\ wait[d] \in {"waiting", "detached"}
  /\ Answered(d)
  /\ Close
  /\ UNCHANGED <<server, browser, stage, job, consented>>

-------------------------------------------------------------------------------
(* The background worker and the content script                            *)

JobOnly == UNCHANGED <<server, browser, stage, popup, wait, consented>>

(* create_show_proof: of a credential that has not expired, by the date    *)
(* that the proof is given (show_range asserts it).                        *)
MakeProof(d) ==
  \E alike \in IF job[d].card \in Aged THEN BOOLEAN ELSE {TRUE} :
    job' = [job EXCEPT ![d].pc = "made",
                       ![d].proof = {[card |-> job[d].card, since |-> 0,
                                      alike |-> alike]}]

(* handleDisclose.  A proof that cannot be made in wasm, as when the card  *)
(* has no show data yet, fails an assertion.  A build with                 *)
(* clientHelperShowProof asks the helper: it may not be reached, and what  *)
(* it answers, an error message included, is the proof.  The model has     *)
(* both builds in one.                                                     *)
HandleDisclose(d) ==
  /\ job[d].pc = "sent"
  /\ \/ MakeProof(d)
     \/ Finish(d, "thrown")
     \/ Goto(d, "made")
     \/ Finish(d, "over")
  /\ JobOnly

(* messageToActiveTab: the tab that is active by now, if it listens.       *)
SendProof(d) ==
  /\ job[d].pc = "made"
  /\ \/ job' = [job EXCEPT ![d].pc = "posting", ![d].tab = active]
     \/ Finish(d, "over")
  /\ JobOnly

(* Fault: the operands of saturating_sub change places.                    *)
SwappedAge(p) == IF Skew >= p.since THEN Skew - p.since ELSE 0

(* Fault: an unsigned subtraction that wraps around.                       *)
WrappedAge(p) == (p.since - Skew) % 1000

(* Its age by the verifier's clock: now.saturating_sub(cur_time), where    *)
(* cur_time is of the client's clock.                                      *)
Age(p) == IF p.since >= Skew THEN p.since - Skew ELSE 0

Validated(s) == standing[s] = "validated"

Known(s) == standing[s] \in {"open", "validated"}

(* is_disc_supported_by_schema.                                            *)
Supported(j) == <<j.card, j.session>> \in Offered

issuer_folder_of(j) == issuer_folder[j.card]

Here(j) == folder[issuer_folder_of(j)]

(* Fault: a session is answered once.                                      *)
AdmittedOnce(j) == standing[j.session] = "open" /\ Supported(j)

(* What /verify asks before it does anything.                              *)
Admitted(j) == Known(j.session) /\ Supported(j)

(* verify_show, with the parameters and the key in the folder: a proof, no *)
(* error message, under that key, not too old, and about as many days.     *)
Valid(j) ==
  /\ Here(j) = signer[j.card]
  /\ \E p \in j.proof : Age(p) <= Validity /\ p.alike

(* The folder is there when /verify looks for it, or has been set up.      *)
AtProof(j) ==
  j.pc = "linked" \/ (j.pc = "posting" /\ Admitted(j) /\ Here(j) # "none")

SetFolder(d, x) == folder' = [folder EXCEPT ![issuer_folder_of(job[d])] = x]

(* POST /verify when there is no folder yet.                               *)
VerifyMisses(d) ==
  /\ job[d].pc = "posting"
  /\ Admitted(job[d]) /\ Here(job[d]) = "none"
  /\ Goto(d, "making")
  /\ JobOnly

(* The first link, which only one of several calls can make.               *)
VerifyMakes(d) ==
  /\ job[d].pc = "making"
  /\ Here(job[d]) = "none"
  /\ SetFolder(d, "partial")
  /\ Goto(d, "linking")
  /\ UNCHANGED <<standing, results, browser, stage, popup, wait, consented>>

(* The rest of copy_with_symlinks, and the key: a shared one, or the one   *)
(* that the issuer publishes by now.                                       *)
VerifyLinks(d) ==
  /\ job[d].pc = "linking"
  /\ \E k \in Key : SetFolder(d, k)
  /\ Goto(d, "linked")
  /\ UNCHANGED <<standing, results, browser, stage, popup, wait, consented>>

(* Valid, and redirected to the page of the session.                       *)
VerifyAccepts(d) ==
  /\ AtProof(job[d])
  /\ Valid(job[d])
  /\ LET s == job[d].session
     IN /\ results' = [results EXCEPT ![s] = {p.card : p \in job[d].proof}]
        /\ \/ Book!Validate(s)
           \/ Validated(s) /\ UNCHANGED standing
  /\ job' = [job EXCEPT ![d].pc = "accepted", ![d].proof = {}]
  /\ UNCHANGED <<folder, browser, stage, popup, wait, consented>>

(* What ends with an error page: a session or a disclosure that is not     *)
(* known, a link that exists already, or fails, and a proof that is not    *)
(* valid.                                                                  *)
Refusable(j) == \/ j.pc = "posting" /\ ~Admitted(j)
                \/ j.pc = "making" /\ Here(j) # "none"
                \/ j.pc = "linking"
                \/ AtProof(j) /\ ~Valid(j)

(* error_template: a login page with the error and a new session ID, and   *)
(* status 200.                                                             *)
VerifyRefuses(d) ==
  /\ Refusable(job[d])
  /\ Draw
  /\ job' = [job EXCEPT ![d].pc = "refused", ![d].proof = {}]
  /\ UNCHANGED <<results, folder, browser, stage, popup, wait, consented>>

(* The verifier cannot be reached, or panics: the issuer's key cannot be   *)
(* fetched, or the folder is not complete.                                 *)
VerifyFails(d) ==
  /\ job[d].pc \in {"posting"} \cup SettingUp
  /\ Finish(d, "over")
  /\ JobOnly

(* The tab that posted the proof goes to the URL of the response: the page *)
(* of the session (resource_page, signup2_page), or an error when it has   *)
(* no result any more; of a refusal, the URL of /verify, where there is    *)
(* nothing to GET.                                                         *)
ShowResponse(d) ==
  /\ job[d].pc \in {"accepted", "refused"}
  /\ LET t == job[d].tab
         s == job[d].session
         p == IF job[d].pc = "accepted" /\ results[s] # {}
                THEN [kind |-> "result", session |-> s] ELSE Blank
     IN IF t = "none"
          THEN Finish(d, "over") /\ UNCHANGED page
          ELSE /\ page' = [page EXCEPT ![t] = p]
               /\ job' = Leave([job EXCEPT ![d] = End(@, "over")], t)
  /\ UNCHANGED <<server, active, stage, popup, wait, consented>>

Present(d) == \/ HandleDisclose(d) \/ SendProof(d)
              \/ VerifyMisses(d) \/ VerifyMakes(d) \/ VerifyLinks(d)
              \/ VerifyAccepts(d) \/ VerifyRefuses(d) \/ VerifyFails(d)
              \/ ShowResponse(d)

-------------------------------------------------------------------------------
(* The worker is stopped: handlers that run, or wait for the helper or for *)
(* the active tab, are gone.                                               *)
WorkerStops ==
  /\ job' = [d \in Click |-> IF job[d].pc \in {"sent", "made"}
                               THEN End(job[d], "over") ELSE job[d]]
  /\ UNCHANGED <<server, browser, stage, popup, wait, consented>>

(* The verifier restarts without its sessions, its results and the calls   *)
(* at work; its folders stay as they are.                                  *)
VerifierRestarts ==
  /\ Book!Crash
  /\ results' = [s \in Session |-> {}]
  /\ job' = [d \in Click |-> IF job[d].pc \in SettingUp
                               THEN End(job[d], "over") ELSE job[d]]
  /\ UNCHANGED <<folder, browser, stage, popup, wait, consented>>

Next == \/ Tick \/ Midnight
        \/ \E t \in Tab : Visit(t) \/ GoAway(t) \/ Activate(t)
        \/ OpenPopup \/ ShowAnew \/ ClosePopup \/ Scan
        \/ \E c \in Card : MarkPrepared(c) \/ TellPrepared(c) \/ ShowPrepared(c)
        \/ \E d \in Click : Disclose(d) \/ DiscloseReturns(d) \/ Present(d)
        \/ WorkerStops \/ VerifierRestarts

Spec == Init /\ [][Next]_vars

-------------------------------------------------------------------------------
(* A session has a result only from a card that displayed the request of   *)
(* that very session when the user clicked Disclose, whatever the popup,   *)
(* the tabs and later scans did meanwhile; and a tab shows the page of a   *)
(* session only if there was such a click (discloserRequest, disclose).    *)
ResultIsConsented ==
  /\ \A s \in Session : \A c \in results[s] : <<c, s>> \in consented
  /\ \A t \in Tab : page[t].kind = "result" =>
       \E c \in Card : <<c, page[t].session>> \in consented

(* A proof is accepted at most Validity after it was made, by the clock of *)
(* the verifier, plus what the client's clock is ahead: saturating_sub     *)
(* takes one that is dated in the future for new (verify_show).            *)
AcceptedInTime ==
  [][\A d \in Click : job[d].pc # "accepted" /\ job'[d].pc = "accepted" =>
       \A p \in job[d].proof :
          p.since <= Validity + (IF Skew > 0 THEN Skew ELSE 0)]_vars

(* The verifier refuses a proof of this client only for a reason (verify): *)
(* it has restarted since the login page; the disclosure is none that the  *)
(* card's schema offers; the call lost the race to set up the folder of    *)
(* the issuer, or a link of it failed; the folder has another key than the *)
(* one that signed the card, or no key; the helper gave a message for a    *)
(* proof; the proof is too old, by the clocks of both; or the verifier     *)
(* counts other days for the age, because its date is another.  Other      *)
(* pages, other refusals and other presentations, also for the same        *)
(* session, are no reason, and neither is a second call for a folder that  *)
(* is set up.  Wallet and verifier share the parameters of one setup.      *)
RefusalHasCause ==
  [][\A d \in Click :
       job[d].pc # "refused" /\ job'[d].pc = "refused" =>
         \/ standing[job[d].session] = "lost"
         \/ <<job[d].card, job[d].session>> \notin Offered
         \/ job[d].pc = "making" /\ Here(job[d]) # "none"
         \/ job[d].pc = "linking"
         \/ Here(job[d]) \in {"partial"} \cup (Key \ {signer[job[d].card]})
         \/ job[d].proof = {}
         \/ \E p \in job[d].proof : p.since > Validity + Skew \/ ~p.alike]_vars

(* Two proofs of a card on display are made at a time only if the popup    *)
(* loaded it while its preparation was coming to its end: the PREPARED     *)
(* message then makes a card that is in use take requests again (popup.ts, *)
(* discloserRequest).                                                      *)
OneProofAtATime ==
  \A d, e \in Click :
    /\ wait[d] = "waiting" /\ wait[e] = "waiting"
    /\ job[d].card = job[e].card
    => d = e \/ early[job[d].card]
===============================================================================
