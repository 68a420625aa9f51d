# Crescent: specifications, model checking and proofs

Crescent proves possession of a JWT or a mobile driver's licence (mDL) without showing the credential. This
directory holds TLA+ modules of the parts of the repository that keep state and run concurrently, the TLC
configurations that check them on small instances, and TLAPS proofs for every instance.

All source paths are relative to the repository root, under `src/`.

## 1. The system

```
 Issuer ──JWT in a page──> Browser extension ──/prepare /status /show /delete──> Client helper
   │                        (popup, background, IndexedDB)                        │  (map + folders)
   │                              │ proof over session ID                         │
   │                              v                                               │
   └──.well-known/jwks.json──> Verifier (sessions, results, issuer folders) <─────┘ same parameters,
                                                                                    made by setup/zksetup
```

| Part | State | Operations | Hard behaviour | What makes it correct | Model |
|---|---|---|---|---|---|
| **Client helper** `sample/client_helper/src/main.rs` | map UID → `None`/`ShowData` behind one tokio Mutex; a folder per credential | `/prepare` (spawns a task), `/status`, `/getshowdata`, `/show`, `/delete` | the task races with deletes and with the handler that spawned it; file system steps outside the Mutex; `Err` and panic differ; restart | ready entries are backed by their own folder; "preparing" has a cause and ends; deleted means deleted | `ClientHelper` |
| **Verifier** `sample/verifier/src/main.rs` | issued session IDs, one result per ID; a folder per schema and issuer | login pages, `/verify`, key download | unlocked check-then-create of folders; half made folders; failed download; restart; key rotation | a result is earned by a proof over that ID; one builder per folder; a key is written once; a half made folder has a cause | `Verifier` |
| **Shared tables** `sample/setup_service/src/common.rs` | none | schema and disclosure tables, `copy_with_symlinks` | used from both servers | both sides agree | `CrescentCommon` |
| **Credential library** `creds/src/lib.rs`, `main.rs` | parameter cache on disk | `zksetup`, `prove`, `show`, `verify`; `CachePaths` | files of one setup written one by one; interrupted commands; stale client state; layout of the public inputs agreed on by counting, on both sides | what verify accepts is true of the credential; honest shows verify; what is not revealed stays hidden; files of one cache belong together | `ShowProof`, `CredsCli` |
| **Browser extension** `sample/client/src/` | cards in IndexedDB; copies of them in background and popup; a poll per preparation; the request that a card displays | import, accept, delete, poll; scan, disclose, post | whole-record saves from two processes; the poll outlives what it polls for; the worker is stopped; tabs change while a proof is made | a card is never lost unless deleted; PREPARED means the helper said ready; a proof goes where the user consented | `Wallet`, `Presentation` |
| **Setup service** `sample/setup_service/src/main.rs` | files | serves parameters | none | the script ran before | external |
| **Issuer** `sample/issuer/src/main.rs` | login cookies, key | login, issue | none (fixed users) | tokens only for a logged-in user | its key and rotation are in `Verifier` |
| **Day stamps** `creds/src/daystamp.rs` | none | `ymd_to_ordinal`, `days_to_be_age` | leap years, 29 February, centuries | agrees with the calendar; an accepted age is a true one | `AgeProof` |
| **Device proof** `ecdsa-pop/src/emulated/` | none; limbs and an overflow counter per element | add, multiply, reduce, fold, compare, membership | limbs that wrap around the native field, at the end of long chains; carries; grouping | limbs keep their number; equality decides | `EmulatedField` |
| **Prover inputs** `creds/src/prep_inputs.rs` | none | parse, find claims, pad, pack | a text that the prover searches and the circuit decodes anew, at places that both count | the circuit sees the text that was searched; a claim is shown as issued or not at all, for known reasons | `PrepInputs`, `ClaimFlow` |
| **Circuits** `circuit_setup/` | none | from the signed message to the public signal of a claim; generation of the circuit from `config.json` | windows, lengths and indices at their limits; order of the public signals | prover and verifier agree on places and bytes | `ClaimCircuit`; layout in `ShowProof` |
| Algebra of the proof system, elliptic curve gadgets, mDL tools, forks | none | algebra, code generation, vendored code | | | not modelled (section 8) |

How they interact: the extension hands a JWT to the helper and polls `/status`; it shows a proof that it made
itself from `/getshowdata` or asked `/show` for, over the challenge the verifier put in its page (the session
ID); the verifier checks the proof with parameters that were set up once per schema and a key it downloads
from the issuer once per issuer. Helper, wallet and verifier share no memory: only UIDs, session IDs, keys
and parameter files, which is what the models keep of each other.

## 2. Modules

| Module | What it is |
|---|---|
| `CrescentCommon` | the schema and disclosure tables that helper and verifier both extend |
| `CredStore` | what the helper promises about a credential UID, with no handler, task or folder in it |
| `ClientHelper` | the helper's handlers and tasks, step by step |
| `ClientHelperProofs` | proofs about it; it implements `CredStore` |
| `SessionBook` | what the verifier promises about a session ID |
| `Verifier` | the verifier's handlers, step by step |
| `VerifierProofs` | proofs about it; it implements `SessionBook` |
| `AgeProof` | the day counts of the age proofs, a reference calendar, and a proof on its way across midnight |
| `AgeProofProofs` | proofs about it |
| `Wallet` | the extension's cards in IndexedDB, background and popup, and their preparation; composed with `CredStore` as its helper |
| `WalletProofs` | proofs about it |
| `Presentation` | from a login page to the page behind it: tabs, popup, worker and verifier; composed with `SessionBook` as its verifier |
| `PresentationProofs` | proofs about it |
| `ShowProof` | the public inputs of a show proof, and how prover and verifier agree on their places |
| `CredsCli` | the commands over one cache folder, on top of `ShowProof` |
| `CredsCliProofs` | proofs about both: the layout of the public inputs, then the commands |
| `EmulatedField` | a prime field in limbs over another one |
| `EmulatedFieldProofs` | proofs about it: numbers in limbs, then the operations |
| `Jwt` | tokens: JSON text and base64url, external |
| `PrepInputs` | what the prover computes from a token for the circuit |
| `ClaimCircuit` | what the circuit demands of it, template by template |
| `ClaimFlow` | a claim from the issuer to the verifier's answer, on top of both |
| `ClaimFlowProofs` | proofs that the circuit decodes what the prover searched, that an accepted token shows the issuer's claim, and of what becomes of a token otherwise |
| `MC...` | constants for TLC: model values, small sets, symmetry |

Operators named `*Fault*` or introduced by a comment "Fault:" are not part of any specification. Each is a
variant of the definition it stands before, changed as a plausible bug would, that shows that a property
notices it.

### 2.1 ClientHelper

State and code: `tasks` is `SharedState` (line 60): `"absent"` is no entry, `"preparing"` is `None`, and the
name of a `/prepare` call stands for the `ShowData` that call made. `lock` is the holder of the tokio Mutex
between steps; a critical section without an `.await` or a long computation inside is one step guarded by
`lock = "free"`. `folder` is the set of entries of each credential's folder. `hpc`, `tpc`, `dpc` and `spc`
say where a `/prepare` handler, its task, a `/delete` and a `/show` are.

| Actions | Code |
|---|---|
| `PrepareReject`, `PrepareFolder`, `PrepareInsert`, `PrepareClaimsPanic`, `PrepareSpawn`, `PrepareAnswer` | `prepare`, 114-247: schema check, folder and links, `None` into the map, claims of a `jwt_sd`, `task::spawn`, the answer |
| `TaskFetch`, `TaskPaths`, `TaskLoad`, `TaskBuild`, `TaskStore`, `TaskError` | the spawned task: key of the issuer, `CachePaths`, parameters, client state, `ShowData` into the map, or the entry out of it |
| `DeleteBegin`, `DeleteUnlink`, `DeleteRmdir`, `DeleteEntry` | `delete_cred`: `remove_dir_all` entry by entry, then the map |
| `ShowBegin`, `ShowSign`, `ShowProve` | `show`: lookup, device signature and proof, all under the Mutex |
| `Restart` | the process dies: the map is gone, the folders stay |

`/status` and `/getshowdata` change nothing: they are `StatusOf`. A panic ends a handler or a task where it
is and releases the Mutex (tokio's is not poisoned).

### 2.2 Verifier

`sessions` and `results` are the two maps of `VerifierConfig`, `folder` and `pem` the issuer folders and
what their `issuer.pub` holds, `jwk` what each issuer serves. `Listing` is the order in which the operating
system lists a shared folder: `copy_with_symlinks` links in that order, and every order is allowed by
`ListingAssumption`. Since the first link fails where it exists, it decides the race for a folder.

| Actions | Code |
|---|---|
| `LoginPage`, `base_context` | every page draws a session ID, error pages too |
| `VerifyReceive`, `VerifyCheck` | session, schema and disclosure checks; does the folder exist |
| `VerifyMkdir`, `VerifyLink`, `VerifyLinkFails` | `create_dir_all`, `copy_with_symlinks`; on an error the error page |
| `VerifyFetch`, `VerifyFetchFails`, `VerifyTruncate`, `VerifyWrite` | `fetch_and_save_jwk(...).expect(...)`; `fs::write` empties the file before it writes |
| `VerifyPaths`, `VerifyMkcache`, `VerifyLoad` | `CachePaths::new_from_str`, `VerifierParams::new` |
| `VerifyAccept`, `VerifyInvalid`, `VerifyPanics` | `verify_show` and what follows from it; a proof that lacks a part makes it panic |
| `RotateKey` | external: the issuer publishes another key |
| `Restart` | the process dies: sessions and results are gone, the folders stay |

A proof is a record of what `verify_show` compares: the schema of its parameters, the signer's key, the
challenge in its presentation message and its spec. That a proof with these values verifies, and no other
does, is the soundness of the proof system and is assumed. The age of a proof (300 s) is a free choice:
`VerifyInvalid` may refuse any proof. `VerifyPanics` is free as well: `verify_show` indexes and unwraps what a proof brings
(`lib.rs:465`, 501, 606, `groth16rand.rs:262`, 269), so that one that lacks something panics whatever the folder holds.

### 2.3 AgeProof

`today` is the local date of each machine, the prover's and the verifier's: each calls `Local::now()` for itself, in its
own time zone, and the dates may be a day apart, either way, but by assumption no more (`NextDay` is the midnight of
one of them). `proof` is a proof of age between `create_show_proof` and `verify_show`. The tables and functions of
`daystamp.rs` are translated one by one, `usize` as integers (years are large enough for every subtraction). What comes
from the crate chrono (the length of months, the next date, `num_days_from_ce`) is the reference and is marked external;
`MonthStart`, the days before each month, is its running sum. The commitments are left out: the prover's and the verifier's are the same
exactly if both subtracted the same number of days, which is what `RangeVerifies` says.

### 2.4 Wallet

`db` is IndexedDB, a set of whole records. The background's `Credential.creds` is `loaded` and `listed`: the
objects that no handler holds, and those that a preparation does. A preparation is a click on Accept; `bpc` says
where its `handlePrepare` and `pollStatus` are, `obj[own[a]]` is the object they hold, which two clicks may
share and which a load may have dropped from the list. `view` is what the popup shows and `wpc` where its
`accept` is. `hstatus` and `hprep` are the client helper, an instance of `CredStore`, which `ClientHelper` is
proved to implement: every answer of the helper here is one that the other model gives.

| Actions | Code |
|---|---|
| `Import` | a new `Credential` is saved and loaded (`background.ts`, `popup.ts`) |
| `InitWallet`, `ClosePopup`, `ShowPrepared` | `popup.ts`; closing is external |
| `Accept`, `AcceptReturns`, `AcceptThrows` | `accept` before and after its await, `clientHelper.prepare` |
| `Delete` | `delete`: `reject`, then `clientHelper.remove` |
| `HandlePrepare`, `PrepareFails`, `PrepareSaves`, `PrepareRemoves` | `handlePrepare` from await to await |
| `PollPreparing`, `PollReady`, `PollUnknown`, `PollFails` | an answer of `/status` in `fetchPrepareStatus`, and what follows |
| `PollSlow`, `PollLate` | a poll that the next one overtakes, and its answer |
| `CompleteLoad`, `FetchShowData` | `_prepareComplete` from await to await |
| `Reload`, `HandleRemove` | the UPDATE and DELETE messages in the background |
| `WorkerStops`, `WorkerStarts` | the browser stops the service worker (external); `init` |

The polls are 5 s apart, an answer to `accept` takes milliseconds: the first poll comes after it (`Polling`). A
card's `guid()` and the card are one value. The progress bar is left out, its saves are not (`PollPreparing`).

### 2.5 Presentation

`page` is what each tab shows, `params` the request that a card's element keeps and `labels` the requests it
displays, `status` the state of its button. `job` is the disclosure that a click has started, as the background
and the content script carry it on, `wait` what the popup does about it. The verifier is an instance of
`SessionBook`, which `Verifier` is proved to implement, with the results beside it; the wallet's preparation is
what `Wallet` shows of it, the save of PREPARED before the popup is told. A clock is kept as the age of each
proof (`Tick`); `Skew` is what the client's clock is ahead of the verifier's. `folder` is what `/verify` finds for an issuer:
nothing, a folder that is not complete, or the key in it; its single links and writes are in `Verifier`. `alike` says of a
proof of age whether the verifier counts the same days as the prover did, which `AgeProof` is about: it may change when
the date does (`Midnight`). `Offered` stands for `is_disc_supported_by_schema`.

| Actions | Code |
|---|---|
| `Visit`, `GoAway`, `Activate` | `base_context` in a login page; any other page; `onUpdated`, `onActivated` |
| `MarkPrepared`, `TellPrepared`, `ShowPrepared` | `_prepareComplete`, and the PREPARED message with its timer in `popup.ts` |
| `OpenPopup`, `ShowAnew`, `ClosePopup`, `Scan` | `initWallet`; `scanForDisclosureRequest`, `discloserRequest` |
| `Disclose`, `DiscloseReturns` | `disclose` before and after its await |
| `HandleDisclose`, `SendProof` | `handleDisclose`, `messageToActiveTab` |
| `VerifyMisses`, `VerifyMakes`, `VerifyLinks` | `/verify` finds no folder, makes it with its first link, links the rest and has the key |
| `VerifyAccepts`, `VerifyRefuses`, `VerifyFails`, `ShowResponse` | the answer of `/verify`, each error page of it and its panics; the redirect, as the content script follows it |
| `WorkerStops`, `VerifierRestarts`, `Tick`, `Midnight` | external |

Sessions are finite in number: those beyond are drawn and used by nobody (`Draw`). In the wallet all cards fit all
requests. An expired credential is refused by nobody: the assertion of `show_range` leaves it without a proof, and
`verify_show` compares the expiry with the date that the proof was given.

### 2.6 ShowProof and CredsCli

A configuration gives the claims of a credential and their kinds; `IOLocations` is the list of public signals
that the circuit generated from it has. `IOTypes` says of each whether it is revealed, committed or hidden, in
the order of assignments of `create_show_proof`. The prover takes openings by index, the verifier consumes the
values it knows in the order of places: `Shows`, `ShowProof` and `Accepts` are the two sides, with every index
of the code. Commitments stand for the place they commit to, keys for the `zksetup` they are from, and a proof
verifies exactly if both sides mean the same (completeness and soundness of the proof system are assumed). The
hash of a claim is an injective function; the limbs of a modulus are one signal, which all stand together; `Err` and panic are both "no
proof".

`CredsCli` adds the files. `writes` are those that a running command has still to write: each is emptied
(`Truncate`), then filled (`Fill`), and `Interrupt` may come at any time. `Zksetup`, `Prove`, `Show` and `Verify` are
`run_zksetup`, `run_prover`, `run_show` and `run_verifier`; `RunSetup` is `run_setup.sh`, which removes the folder first
and is one step; `EditSpec` and `NewCredential` are the user's. Commands run one after the other.

### 2.7 EmulatedField

An element is a sequence of limbs with its `overflow`. Operators have the names of the functions of
`ecdsa-pop/src/emulated/`; each is the function with all calls it makes, so that `mul` reduces, multiplies and folds.
`reg` holds the elements of a circuit, `value` the number each should stand for, and each action is one operation
on them. Constants and allocated limbs are told apart, as the code does. Values are those of an honest prover: the checks
that only bind others (range checks of freshly split limbs) hold by construction and are left out. An error, a violated
constraint and a panic are results of an operation (`Fails`) and end the circuit. Subtractions occur in
`assert_is_equal` only, as in the circuit of the device proof (section 7 says why that matters).

### 2.8 Jwt, PrepInputs, ClaimCircuit and ClaimFlow

A text is a sequence of characters, some of which matter: quotes, braces, colons, digits, `@`. A character of base64url
is what it ends and what it begins (`Sextet`), so that decoding gives a byte exactly if two characters that belong
together stand side by side at the right offset; one place off, and the text is lost, as it is in the code. A template
of the circuit is an operator for its outputs, and one for what its constraints and `assert`s demand where it has
any. The program that `prepare_setup.py` writes is `Main`, its public signal `Output`. Hashes are of the text itself;
the RSA signature is assumed to verify.

| Actions of `ClaimFlow` | Code |
|---|---|
| `Issue` | external: a member of the payload, appended to its text; `header` and `sep` are chosen in `Init` |
| `PrepareSucceeds`, `PrepareFails` | `prepare_prover_inputs`, with the two functions it calls for the claim |
| `ProveSucceeds`, `ProveFails` | `create_client_state`: the witness is computed and satisfies the circuit, or not |
| `VerifyAccepts`, `VerifyRefuses` | `verify_show`, as far as it is about the claim: a digest is compared with the preimage, the values are made readable |

`FailsEarly`, `FailsLate` and `DoesNotOpen` say in terms of the token's members, with no place in a text, which claims
are refused, unprovable or rejected; only `ValuePlace`, and the end of a string claim that is found at an inner number,
are read off the text. `Found` is what stands in the place of the value, `NumberFound` and `Searched` what the circuit makes
of it. Every reason in them is a limit of the code, and there is no other: among them the limit on the zero bytes that pad a
digest's value (`CalculatePadding`), which refuses lengths that the buffer has room for (section 7).

Names of claims and members are text of any length in which no character is a brace, a zero byte or one that JSON escapes, and which does
not begin with a colon, a comma or `]` (`NameAssumption`): such a name could be found between a closing quote and the next opening one,
as `,` is in `"x","y"`. Values are free of that restriction: strings and lists may hold quotes,
backslashes, braces and the name itself. A number is written with digits, sign, point and exponent, an inner object has one member, and an issuer
writes `:` or `: ` behind a name.

## 3. Runs

| Run | Distinct states | Asks | Shows |
|---|---|---|---|
| `helper` | 291,851 | Two `/prepare`, one `/delete`, one `/show`, one restart, every outcome of every step | an entry with `ShowData` has its folder with all files while nobody deletes it (`ReadyIsBacked`); an entry "preparing" has a handler, a task or a recorded panic behind it (`PreparingHasWorker`); a show works on an entry that stays (`ShowHoldsEntry`); after the answer "Deleted" nothing of the folder comes back, not even by the task (`DeletedStaysGone`); a UID deleted after its task ended stays unknown (`SettledStaysUnknown`); one deleted earlier may become ready again, which `CredStore` allows; ready ends by delete or restart only (`ReadyLostOnlyByDelete`); the helper implements `CredStore` |
| `helper_live` | 109,713 | Fairness of section 5 | the Mutex is always released (`LockIsReleased`), "preparing" ends unless a panic left it (`PreparingEnds`) |
| `verifier` | 325,624 | Two `/verify` for the same or different folders (JWT and mDL), two sessions, any proof, key rotation, a restart | a result is earned by a proof over that session ID under a key the issuer published (`ResultIsEarned`); one builder per folder (`OneBuilder`); an incomplete folder has a cause (`IncompleteHasCause`); a stored key stays (`KeyNeverChanges`); a call whose folder is complete panics in `verify_show` only, over its proof, or when another call was before it with the cache folder (`CompleteServes`); each call ends, in an answer or a panic (`VerifyEnds`); the verifier implements `SessionBook` |
| `wallet` | 665,479 | One card, two clicks on Accept, the popup shown twice, a stop of the worker, helper restarts | a card is never lost (`CardNotLost`); one that was deleted at rest stays gone (`SettledStaysGone`); for a card accepted once, PREPARED comes after "ready" (`PreparedWasReady`), and without show data only if a click of it is fetching them, hangs or was stopped (`PreparedHasData`); when the worker is awake with no load to come and no click under way, the record of a PREPARED card is among the background's copies, which proofs are made from (`BackgroundIsCurrent`); a preparation ends unless the helper says "preparing" for ever (`PreparationEnds`) |
| `presentation` | about 1,394,000 | Two login pages in two tabs, one card, two clicks on Disclose, a clock that is ahead, stops of the worker, restarts of the verifier; the folder of the issuer is there | a session has a result, and a tab its page, only from a card that displayed the request of this session when the user clicked (`ResultIsConsented`); two proofs of a card are under way only if the popup loaded it at the end of its preparation (`OneProofAtATime`); a proof is accepted in time, up to the skew of the clocks (`AcceptedInTime`) |
| `presentation_verdict` | about 1,047,000 | One tab, a card that shows an age, two sessions of which one asks for a disclosure its schema does not offer, no folder of the issuer at first, two keys to fetch, a clock that is behind, midnights | a refusal has one of these causes: a restart, the disclosure, a race or a failed link while the folder is set up, no key or another one in it, a message in place of a proof, its age, or the date (`RefusalHasCause`) |
| `creds_cli` | 230,894 | The four commands over one folder, in any order, interrupted anywhere, with two configurations, three credentials and five specifications | what `verify` prints is true of the credential shown, of its issuer, its expiry, its ages, and is what `show` was asked for (`AcceptedIsTrue`); nothing made with the parameters of an earlier `zksetup` is accepted (`AcceptedIsCurrent`); two credentials that agree on what is revealed give the same proof (`ShowHidesTheRest`); a show made by the book verifies, whatever was interrupted before (`HonestVerifies`) |
| `show_order` | violation | `README.md:89` | attributes revealed in another order than that of the configuration (section 7) |
| `age` | 258,132 | Each day of 1999-2001, 2018-2022 and 2099-2101, ages 18, 20, 21, 65, dates of prover and verifier up to a day apart | days are counted right but for two that each turn of a century adds (`CenturiesAddTwoDays`); the day counted back to is the right birthday (`CutoffIsBirthday`); an honest proof is refused only if the two counted on different dates, and 29 February, 1 March or 1 January at a turn of a century begins in between (`HonestProofVerifies`) |
| `age_century` | violation | The same count in 2025 | ages that go back across a turn of the century (section 7) |
| `emulated` | 57,887 | Circuits of three operations on two elements, constant or allocated, with and without folding | limbs stand for the number they should, through products, folding and reductions (`ValueKept`); `overflow` bounds them (`LimbsCounted`); `assert_is_equal` holds for equal numbers and no others (`EqualityDecides`); the membership check by limbs is the comparison of numbers (`MembershipIsExact`); `enforce_m_valid` accepts the right number only (`RelationIsDecided`) |
| `claims` | 549,720 | Tokens of up to three members in nine configurations (revealed, domain only, digest over one and two blocks, hidden; strings and numbers) | the circuit decodes a token to the text that the prover searched (`DecodeAligned`); what a verifier learns is the issuer's value (by digest as JSON writes it), its domain, or nothing (`ShownIsClaim`); a claim fails for the stated reasons only, and where they say (`OutcomeIsExplained`) |

## 4. Bounds

| Bound | Value | Why enough |
|---|---|---|
| `/prepare` calls | 2 | The helper draws a fresh UID for each call, so that calls meet only at the Mutex and at the map. Two show everything that one preparation does to another. |
| `/delete` calls | 1 | One deletes during each step of the preparation. Of two that race for a folder, the proofs speak. |
| `/show` calls | 1 | A show holds the Mutex throughout and changes nothing. |
| restarts (`MaxRestarts`) | 1; 0 in `helper_live` | After a restart the map is as at the start; the only thing a second one could meet are more old folders, which no step looks at again. |
| `/verify` calls | 2 | Two make every pair of steps race. For more, the proofs speak. |
| sessions | 1, 2 | Two tell an ID from the ID of a proof made for somebody else's page. |
| issuer URLs, names, keys | 1, 1, 2 | An old key and a new one. URLs with different names do not meet, as two schemas do not; the proofs cover those that share a name (a scheme more or less). |
| `Listing` | one order for each schema | The order of the system's directory listing; the proofs are for every order. |
| cards, UIDs, clicks on Accept | 1, 1, 2 | Preparations meet only at one card and its object, in pairs; of two clicks, one may be answered by the helper and one not. More of all are in the proofs. |
| `MaxStops` | 1 | After a stop nothing of the worker's memory is left; a second one could stop only what a new click began. |
| `MaxOpens` | 2 | Before a click, and during its preparation or after it. |
| sessions, tabs, clicks on Disclose | 2, 2, 2 | A proof and another place it could go to, or another proof. |
| cards of `Presentation` | 1 | Cards share only the request that is scanned. |
| `Validity`, `Skew`, `MaxAge` | 0, 1, 2; 1, -1, 1 in `presentation_verdict` | Ages on both sides of what is accepted with a clock that is ahead: 0 and 1 are in time, 2 is not; with one that is behind, 0 is in time, 1 is not. |
| `Folder`, `Key`, `Found` | one folder with the signer's key; in `presentation_verdict` one that is not there, two keys | Calls meet in one folder only. The key of the card's issuer or another one. |
| tabs in `presentation_verdict` | 1 | What the verifier answers does not depend on the tab. |
| dates of `AgeProof` | at most a day apart at one moment | An assumption, of the run and of the theorem: clocks about right, time zones at most a day apart (between the far ends, 25 or 26 hours, there are two days for an hour or two). With a midnight at the verifier before it verifies, up to two days begin between the counts. |
| `MaxGen` | 2 | Files of an earlier `zksetup` and of a later one. |
| `MaxChanges`, `MaxTime` | 1, 1 | A folder as it was and as it is now; a credential that is valid, then not. |
| configurations | a device-bound JWT, an mDL; for `show_order` a plain JWT | After `circuit_setup/inputs`, with the orders that occur there. |
| credentials | 3 | Two of the issuer that differ in all but one of the claims, and one of somebody else. |
| specifications | 5, and no file | With and without digests, ranges, device signatures and messages. |
| `E`, `C`, `BitsPerLimb`, `NumLimbs` | 5, 3, 2, 3 | The prime 29 = 2^5 - 3 needs three limbs of two bits, the last one half used, and its C is large enough for folding to need a carry. |
| `Native`, `Capacity` | 8209, 13 | The least number of bits that lets two products be added and compared; overflow reaches its limit within two operations. |
| `Reg`, `MaxSteps`, `Inputs`, `Factors` | 2, 3, {28, 29, 63}, {7} | The largest number of the field, the modulus itself and the largest number that fits in the limbs. The third operation meets limbs at the limit of their overflow. |
| `Block`, `LenBytes`, `MaxCredLen`, `FieldLen` | 16, 2, 64, 6 | For 64, 8, 2048 and 31; at most 13 zero bytes for 55. Tokens of three members fit or are too long by little; a value may stand so late that a field's length reaches beyond the text. |
| `MaxClaims`, header, `Separator` | 3, 8, 2 | A member before the claim, one after it or another one before; headers of all lengths modulo three, with a brace, with the claim's name, with a brace and an inner object of that name. |
| lengths of values | 0 to 9, 11 to 14, 22 | About `max_claim_byte_len` of 6, with and without quotes, for strings, domains and numbers; 12 lets a digest be longer than a field element; 18 gives it two blocks, with quoted values of 13 to 16 bytes, from the last that leaves room for the length in the first block to one that fills it. Two numbers, of the claim and of a header's member, that the circuit takes for each other (100048 and 1000009: the first six digits of the second one, and 48); a string that escapes make longer than what can be hashed. |
| years (`FirstDay`, `LastYear`) | 1999-2001, 2018-2022, 2099-2101 | All kinds of years: common, leap, a century that is a leap year and one that is not, each with the first day after it; and years from which ages go back across the turn of 2000, exactly to it (2018, 2020, 2021), or not. |
| ages | 18, 20, 21, 65 | Those of the disclosures, and one that leads from a leap year to a leap year. |

`CHECK_DEADLOCK FALSE` in all runs: calls, clicks, imports, commands and operations are finite in number and the
calendar stops, after which nothing need happen; that no call waits for ever is what `PreparingEnds`, `LockIsReleased`,
`VerifyEnds` and `PreparationEnds` say. Symmetry (of calls, UIDs, sessions, tabs and clicks) is used in runs without
liveness properties only.

## 5. Fairness

- Helper: weak fairness of each step of a handler or task that has been started (tokio's workers poll every
  task that is ready). Strong fairness of the steps that take the Mutex: tokio's Mutex is first in, first out, so
  that a waiting task gets it although others take it again and again. The download of an issuer's key is
  assumed to end, with a key or an error. No fairness of requests, panics, errors or restarts.
- Verifier: weak fairness of each step of a call that has been received. No fairness of pages, rotations or
  restarts.
- Wallet: weak fairness of each step of a preparation that has been started and of its poll, which a timer
  repeats; of the popup taking an answer that is there; of the worker being started by a message. No fairness of
  the user, of the helper or of stops.
- `AgeProof`, `Presentation`, `CredsCli`, `ClaimFlow` and `EmulatedField` state no fairness and no liveness. In a presentation, nothing
  makes the user, the browser or the network go on; commands end or are interrupted.

## 6. Proofs

TLAPS proves, for every value of the constants that meets their `ASSUME`s:

| Module | Theorems | Argument |
|---|---|---|
| `ClientHelperProofs` | `TypeCorrect`, `ReadyIsBackedCorrect`, `PreparingHasWorkerCorrect`, `ShowHoldsEntryCorrect`, `DeletedStaysGoneCorrect`, `SettledStaysUnknownCorrect`, `ReadyLostOnlyByDeleteCorrect`, `HelperImplementsCredStore` | one inductive invariant, below, and step simulation under it |
| `VerifierProofs` | `TypeCorrect`, `ResultIsEarnedCorrect`, `OneBuilderCorrect`, `IncompleteHasCauseCorrect`, `KeyNeverChangesCorrect`, `CompleteServesCorrect`, `VerifierImplementsSessionBook` | one inductive invariant, below, and step simulation |
| `AgeProofProofs` | `TypeCorrect`, `DateCorrect`, `NeverPanicsCorrect`, `CenturiesAddTwoDaysCorrect`, `AgeDaysAreElapsedCorrect`, `CutoffIsBirthdayCorrect`, `HonestProofVerifiesCorrect` | the tables of the code are the calendar's, the steps of both counts are the same, below |
| `WalletProofs` | `TypeCorrect`, `CardNotLostCorrect`, `SettledStaysGoneCorrect`, `PreparedWasReadyCorrect`, `PreparedHasDataCorrect`, `BackgroundIsCurrentCorrect` | six inductive invariants, one on top of the other, below |
| `PresentationProofs` | `TypeCorrect`, `ResultIsConsentedCorrect`, `AcceptedInTimeCorrect`, `RefusalHasCauseCorrect`, `OneProofAtATimeCorrect` | what a step does to a disclosure, and two inductive invariants, below |
| `CredsCliProofs` | `AcceptedIsTrueCorrect`, `AcceptedIsCurrentCorrect`, `ShowHidesTheRestCorrect`, `HonestVerifiesCorrect` | what `ShowProof` computes, for every configuration, and one inductive invariant of the folder, below |
| `ClaimFlowProofs` | `DecodeAlignedCorrect`, `ShownIsClaimCorrect`, `OutcomeIsExplainedCorrect` | the layout of a message, of what is decoded, and of what is searched; what becomes of a value; the outline of a token's text; below |
| `EmulatedFieldProofs` | `LimbsCountedCorrect`, `ValueKeptCorrect`, `MembershipIsExactCorrect`, `EqualityDecidesCorrect`, `RelationIsDecidedCorrect` | two inductive invariants of the elements; the laws of limbs, and of the carries that compare them; below |

*Helper.* `ReadyIsBacked` is not inductive: that the task of a UID finds its folder depends on what the handler
did before it. The invariant adds, for each UID: it belongs to one call, which has drawn it (`UidInv`); where
handler and task are, against the entry (`TaskInv`, `EntryInv`); which files are in the folder at each step if
no delete has begun (`FolderInv`); how far a delete is and what it has left (`DeleteInv`, `GoneInv`,
`SettledInv`); what a show read (`ShowInv`). The refinement adds who owns an entry (`OwnerInv`).

*Verifier.* `OneBuilder` rests on the order of the links: the first entry of `Listing` exists exactly if some
call has passed it, and `VerifyLink` fails where it exists (`LinkInv`, `BuildInv`). With one builder, only that
call writes the key (`PemInv`), so that what a call finds in a complete folder stays there (`ServedInv`). The
history variables that say what broke a folder appear in `CauseInv`. Results need the session that a call
read (`InputInv`, `PlaceInv`, `KeptInv`) and the page that drew it (`BookInv`).

*Wallet.* The types are not inductive by themselves: what a step saves depends on what a click knows about its UID and
on whose object it holds. `TypeInv` adds where each click is (`ClickInv`), that a UID is that of one click (`UidInv`),
that objects are of the card that was accepted even when a load has replaced the list (`ObjInv`), and what holds of
every copy of a card (`RecInv`). `CardNotLost` then needs `SaveInv`: before the old record is removed, the new one is
there. `SettledStaysGone` needs that no step that can still save anything is left for such a card (`SettledInv`), and
`PreparedWasReady` that the object of a card that was accepted once is polled under the id that it has
(`ReadyInv`). `PreparedHasData` is about records, but a save copies an object: `DataInv` says it of both, and `OwnInv`
whose object a click holds. `BackgroundIsCurrent` speaks of the rest only, and rests on what holds before it: the popup has its
answer before the first poll (`WaitInv`), an object with a click's UID is the one that the click uses
(`GivenInv`), what the worker was stopped with is not used again (`StopInv`), PREPARED comes from a click that was told "ready"
(`ToldInv`), an object that may still be saved is in the database or is saved by a poll to come (`StoredInv`), it is in
the list only until the load that follows (`ListedInv`), and what the background lacks is loaded by a step that is
under way (`CurrentInv`).

*Day stamps.* `MonthStartAgrees` and `OrdinalAgrees`: the code's count of a day is chrono's and twice the centuries
before its year, whence `CenturiesAddTwoDays`, and `AgeDaysAreElapsed` exactly if no turn of a century lies between. For
`HonestProofVerifies`, the dates of both machines are at most a day apart and a proof sees one midnight of the verifier, so
that at most two days begin between the dates of the two counts (`ShownInv`), and `BackCommutes`: a day
later, one counts back to the next day, except about the end of February. What the count adds then is the same at both ends
(`OrdinalStep`), except where a year begins a century.

*Presentation.* `JobMoves` says what any step does to a disclosure: it starts it, or keeps its card and its session and
its only proof, and only `/verify` accepts or refuses it. With it, `JobInv` is inductive: what a disclosure is for was
on display at the click, and its proof is of its card; results and the time of a proof follow. That a refusal has a
cause needs that every session on a page, on a card or in a disclosure has been issued (`IssuedInv`), and that a call
that has linked the folder finds a key there (`LinkedInv`). For
`OneProofAtATime`, a card that was not loaded early takes requests only when its PREPARED message is dealt with
(`CardInv`), and stays in use as long as the popup waits for its answer (`WaitInv`).

*Claim.* `DecodeAligned` needs little of the specification: payloads are text, and a prepared token stays as it was
prepared (`IInv`). The rest is about texts, for every `MaxCredLen` and `Block`. `MessageLayout`: the message has the
header's encoding, a period, the payload's, and room for two more characters, since the padding of SHA-256 takes at
least two. `AlignedLayout`: without the period and with `NumPaddingBytes` more characters, the header's encoding is
whole groups of four. `DecodedBytes` and `PaddedText`: decoded, it is the header with as many zero bytes as
`base_64_decoded_header_padding` adds, then the payload. `ShownIsClaim` follows a token through the stages (`FlowInv`): what
`strip_quotes` and the cutting of zero bytes take off is what quoting and packing put on (`StripQuoted`, `TrimmedPack`,
`RevealedText`); a domain cannot begin or end with a quote, since the circuit counts quotes as zeros
(`DomainUnquoted`, `RevealedDomain`); the circuit reads a number from the bytes that the prover took for digits, which
by `DecodedPrefix` are the same (`NumberRead`), so that the number it was given is one.

`OutcomeIsExplained` speaks of members, the code of places in a text; the proof reads the text as JSON. Its invariant (`OutcomeInv`, next to
`FlowInv` and `IInv`) says that the payload's text grew member by member (`Grows`), and that a token is at its stage because
`Prepares`, `Main` and `Opens` decided so: all that is left is about texts, in six steps.
1. One value. Escaping writes a text character by character (`EscapedSpelled`), so that a quoted name is found in
   escaped text only at its end or not at all (`ValueMentions`), and what looks spaced is what `LooksSpaced` says (`ValueSpaced`).
2. One member, then the text. `ObjectLaid` and `TokenLaid` put members, punctuation and padding behind each other and keep
   account of where each member starts and how many braces are open there. In that `Outline` no quoted name
   and no spaced colon lies across the border of two members (`OutlinePlaces`, `OutlineSpaced`).
3. The first place of the name is in the first member that mentions it, at depth `Depth` (`FirstStands`, `LevelWritten`).
4. The prover: `is_minified`, the name, the end of the value, its packing and the length of the token succeed or fail as
   `FailsEarly` says (`PreparesIs`).
5. The circuit: by `DecodeAligned` its bytes are those of the text (`DecodedAgrees`), so `MatchClaimName` accepts just the name before a
   value at depth 1 (`NameIsMatched`), and the checks of the value hold for digits, or up to the closing quote, and fail otherwise (`SoundPart`,
   `UnsoundFails`). Each form of disclosure is a lemma (`RevealsNumber`, `RevealsDomain`, `DigestFits`); together they are
   `FailsLate` (`MainDecides`).
6. The verifier: a digest opens if the found bytes are the JSON of the claim (`OpensDecides`).

For a refused token the theorem says, as the property does, that `FailsEarly` holds or that the name was first found in another
member than a string claim's own.

*Commands.* The first part is about `ShowProof`, for every configuration: sets that are listed in an order
(`OrderedEnumerates`, `EnumerationIsUnique`), what the list of public signals looks like (`LayoutOf`, `IOLayout`,
`IOInjective`), and where prover and verifier take a value from it: before the issuer's key (`RevealedPlaces`), after it
(`RevealedAfterKey`), a commitment (`CommittedPlaces`). `AcceptedShow` follows from what the verifier compares, `PublicInputsAgree`
and `HonestShow` from the layouts of both sides being one. The second part is the folder: `CliInv` says which files a
running command has still to write (`WritesKnown`), that all parameters of a bare or complete folder are of one
`zksetup` (`ParametersKnown`), and that a client state or a proof that can be read is one that the commands made
from its credential (`FilesKnown`).

*Emulated field.* The invariant `Inv` says of every element that it is `Sound`: its limbs are counted (`Sized`), and unless
it has failed, `Keeps`: it has a limb, its overflow leaves room, an element without overflow has at most `NumLimbs` limbs,
and it is congruent to the number it stands for. `ValueKept` needs the counted limbs, since only they tell that no limb
reaches the native prime (`CountedIsNotWrapped`); that operands are reduced in time needs the bound on overflow of both
(`SettledHasRoom`); and that two elements without overflow can be multiplied needs the bound on their limbs
(`ReducedHaveRoom`). Below that are laws of powers and sums; what limbs make up (`Weighed`, `RecomposeWeighs`), that splitting a
number into limbs loses nothing (`DecomposeIsInverse`), sums and products of limbs (`AddLimbsAdd`, `MulLimbsMultiply`); and
congruences. Folding replaces a power of two by a power of `C` (`ScaleIsPower`) chunk by chunk (`FoldsAreSound`); a quotient is
unique since the modulus is a prime (`QuotientIsUnique`). `MembershipIsExact` compares the limbs but the lowest with the largest
number that they make up (`WeighedIsBelow`, `LimbsTellMembership`).

`EqualityDecides` needs a second invariant, `LongInv`: an element has at least `NumLimbs` limbs, since for fewer the number of
limbs of the quotient (`QuotientLimbs`) is too small or negative, and `sub_padding` does not fit. From below: one step of the
comparison keeps the carry within its offset, and tells whether the sum so far is a multiple of the next power (`CarryStep`,
`GroupsDecide`); a group of counted limbs is as large as its bits and the overflow allow (`GroupsAreCounted`), and the groups make up
the number (`GroupsMakeUp`); so that limbs are found equal exactly if the numbers are (`LimbsDecide`). A difference does not
wrap, and its padding is a multiple of the modulus (`SubLimbsSubtract`, `DifferenceIsExact`); its quotient fits in the limbs that it
is given (`QuotientFits`), the product with the modulus has room for the carry (`ProductOfQuotient`), and so being a
multiple is decided (`IsMultipleDecides`). For `RelationIsDecided`, the overflow that is counted for the relation's sum is
compared with the limbs it can really have (`RelationIsWithin`, `RelationIsCounted`). The theorem is stated for parameters that
leave room for both sums (`RelationHasRoom`): those of the device proof, 16 limbs of 16 bits, leave more than 200 bits,
those of the run leave five. With less, one of the operands is reduced, and what that does to the counted difference is left to TLC.

*Recursion.* The library's theorems about induction and recursive functions take an operator as a parameter. Where a
proof needs one, it is said of a set (`LeastNumber`, `SetInduction`, from the well-foundedness of the natural numbers), and that
the function exists is proved of its graph (`StepsExist`, `IterationExists`, `UptoExists`, `MonthStartAgrees`), or from its last
value downwards (`RecomposeWeighs`).

TLC checked each of these invariants before it was proved (`OutcomeInv` with `ObjectText` for the text that grew). They assume only what the `ASSUME`s say: the sets of
calls, UIDs, cards and folder entries are disjoint from the special values used beside them, `Listing` lists every
entry once; ages are from 1 to 150, births and dates are dates after the year 151 (years to subtract an age from);
an issuer writes text without the zero byte and members as section 2.8 says (`NameAssumption`, `ValueAssumption`), and the message's length is a multiple of four;
a configuration of `CredsCli` names each claim once and none like an input that every circuit has, its specifications
reveal strings, and no file content is mistaken for a missing or a torn file; of the emulated field, that its modulus is
2^E - C, has inverses and takes all limbs, that a limb's product, its carries and one bit more fit in the native field
(`FieldAssumption`, `PrimeAssumption`; without the bit, the comparison that `reduce` makes itself could fail its assertion), and that what a circuit is given fits in the limbs (`InputAssumption`). For primes
said to be pseudo-Mersenne, `C` fits in a limb (`Init`), which the membership check relies on.

Only model-checked: the liveness properties, since TLAPS proves
nothing about fairness; and the violation of `show_order` (that of `age_century` is
`AgeDaysAreElapsedCorrect`, which says exactly when the count is wrong).

## 7. Where code and documents differ

- *Turn of the century* (`age_century`). `days_before_year` adds `y/100` where the calendar subtracts it. Counts
  that do not go back across 31 December of 1900, 2000 or 2100 are right, the others two days too high. Prover
  and verifier count alike, so that proofs still verify, unless the 1 January of the first year after such a turn, or
  of the year that is the age later, begins between their dates, by midnight or by time zone: a proof of 25 years
  made in the last minutes of 2025 is refused in 2026 (`HonestProofVerifies` names these days).
- *Order of revealed attributes* (`show_order`). `README.md:89` lets a specification reveal any subset of the attributes
  that the configuration allows. The values are sent in the order of the specification and consumed in the
  order of the circuit: with `given_name` added at the end of the list, which `README.md:92` suggests to try, the
  proof does not verify.

What the models, or reading the code for them, showed besides:

- A panic of the helper's task leaves its entry "preparing", though `client_helper/src/main.rs:235` says that any error
  removes it; `PreparingEnds` names this exception.
- `sample/README.md:63` says the verifier downloads an issuer's key the first time it sees a credential of the issuer.
  After a failed first download it never does (`IncompleteHasCause` names this cause).
- A second click on Accept, while the helper has not answered the first, changes the id of the object that the first
  one polls for: the record is PREPARED before its UID is ready, which `sample/README.md:116` excludes. A card
  accepted once is not affected (`PreparedWasReady`).
- `handleRemove` asserts that it finds the card (`clientHelper.ts:228`), whose record the popup has removed already. A
  background that has loaded since fails the assertion, and the helper keeps the credential.
- A proof that lacks what `verify_show` indexes or unwraps panics the call instead of being refused (`VerifyPanics`).
- A card that is deleted while its preparation is under way comes back with the next save of it, and
  the helper is not told of a delete of a PREPARING card (`clientHelper.ts:197`). `SettledStaysGone` speaks of cards deleted
  at rest for that reason. A card whose worker was stopped stays PREPARING, since nothing starts its poll again.
- `README.md:104` says a proof of age shows that the user is at least that old. The code (`lib.rs:420`, 617) shows that the
  day number of the birth date is at least the number of days in the age, without today's date.
- `prep_inputs.rs:313` takes a string of a digest for small enough by its length without quotes; the circuit hashes it
  with them, cut at `max_claim_byte_len`. A string at the limit, or a byte short of it, can be proved but not
  opened.
- `AsciiDigitsToField` (`match_claim.circom:54`) leaves out the 48 of the last digit, since it takes it for a zero byte: a
  number with as many digits as the configuration allows cannot be proved. Nor can a claim that is to be revealed
  and starts within a field's length (31 bytes) of the end of the largest text.
- `CalculatePadding` demands that at most 55 zero bytes pad a value of a digest, "the max number of zeroes we add"
  (`match_claim.circom:335`). A value of 56 to 63 bytes modulo 64, with its quotes, needs 56 to 63 of them: 0x80 and
  the length go to the next block. It cannot be proved, although the buffer has that block from a
  `max_claim_byte_len` of 56 on. With the 62 of `aud` in `circuit_setup/inputs/rs256-sd/config.json`, this is any
  value of 54 to 60 characters. `OutcomeIsExplained` has this among its reasons.
- The claim is taken to be where its quoted name stands first. A header member of that name, a string or the name of
  an inner member before the claim, or a brace in a string before it, leads elsewhere; so does a quote in the value.
  An inner member takes the claim's place after a closing brace in a string (`Depth`). A value
  that starts with a colon and a space makes a token count as not minified.
- A string that is shown by its digest is displayed as JSON writes it, with a backslash before each backslash or quote:
  `strip_quotes` (`lib.rs:359`) takes the quotes off, not the escapes. `ShownIsClaim` says so.
- The verifier compares a specification without its order, and a message without where it came from: one that lists the
  same attributes in another order, or has its message in the file instead of the command line, is accepted for the
  same proof. `AcceptedIsTrue` is stated up to that.
- Three clicks on Accept of one card may leave the background with another copy than the database: they
  share one object, and a late poll of the first saves what a load has replaced. `BackgroundIsCurrent` is stated for
  cards that were accepted at most twice.
- The user does not see why a proof was refused: the error page comes with status 200 at the URL of `/verify`, and the
  content script goes there by GET, where there is nothing. An unknown session at `/resource` asks for a
  template `error` that does not exist.
- A proof goes to the tab that is active when it is ready, whichever page asked for it; nothing binds a session ID
  to a site. An error message of the helper's `/show` is sent as if it were a proof.
- The timer of a PREPARED message makes a card that is making a proof take requests again (`OneProofAtATime` names
  the case). A failed assertion in `handleDisclose` leaves the button pending until the popup is closed.
- Openings of commitments are found by counting: a revealed `exp`, a revealed attribute that also has a range, or
  two ranges in another order than that of their names, shift the count, and the proof does not verify. A
  device-bound JWT has its device keys last, where the count expects them before the ranges. `HonestVerifies` is stated for
  specifications without these (`InOrder`).
- `sub_precondition` counts a bit too few when its first operand has at least two bits of overflow more than the
  second. In chains of subtractions, which the device proof does not have, limbs may grow beyond what `overflow` says.
- `reduce_and_apply_op` has no end if a product of reduced elements does not fit: its assertion speaks of two limbs,
  without the bits of the carries. `FieldAssumption` excludes such parameters.
- `reduce` asserts (`field_ops.rs:313`) that its operand leaves room for a subtraction. `mul` accepts a product whose limbs
  have no room left, and folds it: `fold_limbs` multiplies the upper limbs by a constant (line 839), `mul_const` has no room
  for the factor and calls `reduce` (720-724), whose assertion fails. In the run `emulated` this happens to an element that
  is multiplied by 7 and squared; its properties leave out what has failed. By reading, an addition or a subtraction
  has its operand reduced only when that assertion fails, too (`reduce_and_apply_op`). The circuit of the device
  proof is far from the limit: its limbs of 16 bits in a field of 254 are added and multiplied a few times.
- `alloc_is_zero` takes an element without overflow for reduced; one made from a native number need not be.

## 8. Not modelled

- Algebra of the proof system (`groth16rand`, `rangeproof`, `dlog`, `device`) and elliptic curves and hashes in
  ecdsa-pop: fields of 254 bits. Their completeness and soundness are assumed where a proof is compared
  (`ShowProof`, `Verifier`, `Presentation`).
- The forks of ark, Circom, Spartan and halo2curves code, and the copy of neptune. They are most of the lines of the
  repository, and vendored: a model of them would be a transliteration of algebra that TLC cannot evaluate.
- Of `EmulatedField`: what holds against a prover that assigns other values; `mux_tree`, `sgn0`, `alloc_is_zero`,
  `assert_equality_to_constant`; chains of subtractions (section 7).
- Of circuits and prover inputs: the circuits of an mDL and its tools, RSA, ECDSA and SHA-256, predicates, the timing
  gadget, claims other than strings and numbers, limbs of keys and signatures; characters of several bytes; what
  a prover could do that assigns other values than the circuit computes.
- The setup service, WebAssembly bindings, `thermometer`: no state of their own.
- Two commands of the command line tool at a time in one folder; downloads without an overall timeout: the model
  lets them end.

## 9. Plan

Done: `ClientHelper` with `CredStore`, `Verifier` with `SessionBook`, `Wallet` with `CredStore` as its helper,
`Presentation` with `SessionBook` as its verifier, `ShowProof` with `CredsCli`, `PrepInputs` and `ClaimCircuit` with
`ClaimFlow`, `AgeProof`, `EmulatedField`, and the proofs
of section 6. In order of importance, what is left:

1. `ClaimFlow` with two configured claims; the circuit of an mDL.
2. `Issuer`: login cookie and issuance.
