------------------------------- MODULE CredsCli -------------------------------
(***************************************************************************)
(* The command line tool of creds/src/main.rs over one parameter folder,   *)
(* with the library functions that it calls: zksetup, prove, show and      *)
(* verify meet only in the files of the folder's cache.  Each file is      *)
(* emptied before it is written, and a command may be interrupted between  *)
(* any two steps.                                                          *)
(***************************************************************************)
EXTENDS ShowProof, FiniteSets

CONSTANTS
    Missing, Torn,   \* a file that is not there, or not written to its end
    Configs,         \* the parameter sets
    Creds,           \* the credentials: values of the claims of all Configs
    Specs,           \* what the user may put in proof_spec.json
    Messages,        \* values of --presentation-message, NoMessage if absent
    Issuer,          \* the key in issuer.pub
    MaxGen,          \* bound: runs of zksetup
    MaxChanges,      \* bound: changes of the folder by its user
    MaxTime          \* bound: the clock

ASSUME CliAssumption == NoMessage \in Messages /\ MaxGen \in Nat

\* A key and a torn file are told apart.
ASSUME FilesAssumption == Missing \notin Nat /\ Torn \notin Nat

(* The circuit declares no signal twice: a configuration names each claim  *)
(* once, and none like the inputs that every circuit has.                  *)
ASSUME ConfigsAssumption == \A c \in Configs :
    /\ c.credtype \in {"jwt", "mdl"}
    /\ c.claims \in Seq(STRING) /\ IsInjective(c.claims)
    /\ Range(c.claims) \cap Range(DeviceKeys) = {}
    /\ c.credtype = "mdl" => "valid_until" \notin Range(c.claims)

ASSUME SpecsAssumption == \A s \in Specs :
    s.revealed \in Seq(STRING) /\ DOMAIN s.range \subseteq Range(Names)

VARIABLES
    config,      \* config.json, from which the circuit was generated
    cred,        \* token.jwt or mdl.cbor
    spec,        \* proof_spec.json, or Missing
    cache,       \* the files of the cache folder
    writes,      \* the files a running command has still to write
    gen,         \* zksetup runs so far: each draws its parameters afresh
    complete,    \* history: the last zksetup that wrote all of its files
    shown,       \* history: what the last show was asked, for which cred
    clock,
    changes,     \* how often the user has changed the folder
    verdict      \* what verify printed, Missing if something happened since

vars == <<config, cred, spec, cache, writes, gen, complete, shown, clock,
          changes, verdict>>

Parameters == {"range_pk", "range_vk", "groth16_vk", "groth16_pvk",
               "prover_params"}
CacheFiles == Parameters \cup {"client_state", "show_proof"}

Empty == [f \in CacheFiles |-> Missing]
Readable(f) == cache[f] \notin {Missing, Torn}
Idle == writes = <<>>

Init ==
    /\ config \in Configs /\ cred \in Creds
    /\ spec \in Specs \cup {Missing}
    /\ cache = Empty /\ writes = <<>>
    /\ gen = 0 /\ complete = 0 /\ clock = 0 /\ changes = 0
    /\ shown = Missing /\ verdict = Missing

-----------------------------------------------------------------------------
\* The user changes the folder between commands.
Change == Idle /\ changes < MaxChanges /\ changes' = changes + 1

\* run_setup.sh: everything in the folder is removed and made anew.
RunSetup ==
    /\ Change
    /\ config' \in Configs \ {config}
    /\ cred' \in Creds /\ spec' \in Specs
    /\ cache' = Empty
    /\ UNCHANGED <<writes, gen, complete, shown, clock>>
    /\ verdict' = Missing

\* The user edits proof_spec.json, or puts another credential there.
EditSpec == /\ Change
            /\ spec' \in (Specs \cup {Missing}) \ {spec}
            /\ UNCHANGED <<config, cred, cache, writes, gen, complete, shown,
                           clock>>
            /\ verdict' = Missing

NewCredential == /\ Change
                 /\ cred' \in Creds \ {cred}
                 /\ UNCHANGED <<config, spec, cache, writes, gen, complete,
                                shown, clock>>
                 /\ verdict' = Missing

Tick == /\ clock < MaxTime
        /\ clock' = clock + 1
        /\ UNCHANGED <<config, cred, spec, cache, writes, gen, complete, shown,
                       changes>>
        /\ verdict' = Missing

-----------------------------------------------------------------------------
\* write_to_file empties the file, then fills it.  A write brings along what
\* the history is to be once it is done.
Writing(f, c, s) == [file |-> f, content |-> c, shown |-> s]

Truncate ==
    /\ ~Idle
    /\ LET f == Head(writes).file
       IN  /\ cache[f] # Torn
           /\ cache' = [cache EXCEPT ![f] = Torn]
    /\ UNCHANGED <<config, cred, spec, writes, gen, complete, shown, clock,
                   changes>>
    /\ verdict' = Missing

Fill ==
    /\ ~Idle
    /\ cache[Head(writes).file] = Torn
    /\ cache' = [cache EXCEPT ![Head(writes).file] = Head(writes).content]
    /\ writes' = Tail(writes)
    /\ complete' = IF Head(writes).file = "prover_params" THEN gen
                                                          ELSE complete
    /\ shown' = Head(writes).shown
    /\ UNCHANGED <<config, cred, spec, gen, clock, changes>>
    /\ verdict' = Missing

Interrupt == /\ ~Idle
             /\ writes' = <<>>
             /\ UNCHANGED <<config, cred, spec, cache, gen, complete, shown,
                            clock, changes>>
             /\ verdict' = Missing

\* The parameter files in the order in which run_zksetup writes them.
SetupFiles ==
    <<"range_pk", "range_vk", "groth16_vk", "groth16_pvk", "prover_params">>

\* Fault: files that exist are kept.
FaultZksetup ==
    /\ Idle /\ gen < MaxGen
    /\ gen' = gen + 1
    /\ writes' = SelectSeq([i \in DOMAIN SetupFiles |->
                               Writing(SetupFiles[i], gen + 1, shown)],
                           LAMBDA w : w.file = "prover_params"
                                        \/ cache[w.file] = Missing)
    /\ UNCHANGED <<config, cred, spec, cache, complete, shown, clock, changes>>
    /\ verdict' = Missing

Zksetup ==
    /\ Idle /\ gen < MaxGen
    /\ gen' = gen + 1
    /\ writes' = [i \in DOMAIN SetupFiles |->
                     Writing(SetupFiles[i], gen + 1, shown)]
    /\ UNCHANGED <<config, cred, spec, cache, complete, shown, clock, changes>>
    /\ verdict' = Missing

\* run_prover and create_client_state.  The circuit checks the signature of
\* a JWT under issuer.pub; the inputs of an mDL bring their own key.  The
\* proof made with prover_params is asserted to verify under groth16_pvk.
ClientState == [gen |-> cache["prover_params"], config |-> config,
                inputs |-> Inputs(IOLocations(config), cred), aux |-> cred]

Prove ==
    /\ Idle
    /\ config.credtype = "jwt" => cred["issuer"] = Issuer
    /\ Readable("prover_params") /\ Readable("groth16_pvk")
    /\ cache["prover_params"] = cache["groth16_pvk"]
    /\ writes' = <<Writing("client_state", ClientState, shown)>>
    /\ UNCHANGED <<config, cred, spec, cache, gen, complete, shown, clock,
                   changes>>
    /\ verdict' = Missing

\* load_proof_spec; DEFAULT_PROOF_SPEC reveals the email.  A message given
\* twice, and none for a device signature, panic.
DefaultSpec == [revealed |-> <<"email">>, range |-> <<>>,
                message |-> NoMessage, device_bound |-> FALSE]

InFile(sp) == IF sp = Missing THEN DefaultSpec ELSE sp

SpecLoads(sp, m) ==
    /\ m = NoMessage \/ InFile(sp).message = NoMessage
    /\ InFile(sp).device_bound => {m, InFile(sp).message} # {NoMessage}

LoadProofSpec(sp, m) ==
    LET message == IF m # NoMessage THEN m ELSE InFile(sp).message
    IN  [InFile(sp) EXCEPT !.message = IF InFile(sp).device_bound
                                       THEN HashOf(message) ELSE message]

\* run_show
Show(m) ==
    /\ Idle
    /\ Readable("client_state") /\ Readable("range_pk")
    /\ SpecLoads(spec, m)
    /\ Shows(cache["client_state"], IOLocations(config),
             LoadProofSpec(spec, m), clock)
    /\ writes' = <<Writing("show_proof",
                          ShowProof(cache["client_state"],
                                    IOLocations(config), cache["range_pk"],
                                    LoadProofSpec(spec, m), clock),
                          [spec |-> spec, message |-> m, gen |-> gen,
                           cred |-> cache["client_state"].aux])>>
    /\ UNCHANGED <<config, cred, spec, cache, gen, complete, shown, clock,
                   changes>>
    /\ verdict' = Missing

\* run_verifier
VerifierParams ==
    [vk |-> cache["groth16_vk"], pvk |-> cache["groth16_pvk"],
     range_vk |-> cache["range_vk"], io |-> IOLocations(config),
     issuer |-> Issuer, config |-> config]

Verifies(m) ==
    /\ \A f \in {"show_proof", "groth16_pvk", "groth16_vk", "range_vk"} :
           Readable(f)
    /\ SpecLoads(spec, m)
    /\ Accepts(VerifierParams, cache["show_proof"], LoadProofSpec(spec, m),
               clock)

Output(m) ==
    Revealed(VerifierParams, cache["show_proof"], LoadProofSpec(spec, m))

Verify(m) ==
    /\ Idle
    /\ verdict' = IF Verifies(m) THEN Output(m) ELSE Torn
    /\ UNCHANGED <<config, cred, spec, cache, writes, gen, complete, shown,
                   clock, changes>>

Next ==
    \/ RunSetup \/ EditSpec \/ NewCredential \/ Tick
    \/ Truncate \/ Fill \/ Interrupt
    \/ Zksetup \/ Prove
    \/ \E m \in Messages : Show(m) \/ Verify(m)

Spec == Init /\ [][Next]_vars
-----------------------------------------------------------------------------
TypeOK ==
    /\ config \in Configs /\ cred \in Creds /\ spec \in Specs \cup {Missing}
    /\ gen \in 0 .. MaxGen /\ complete \in 0 .. gen /\ clock \in 0 .. MaxTime
    /\ DOMAIN cache = CacheFiles
    /\ \A f \in Parameters : cache[f] \in 1 .. gen \cup {Missing, Torn}
    /\ \A i \in DOMAIN writes : writes[i].file \in CacheFiles

(***************************************************************************)
(* What verify accepts is true of the credential that was shown: the       *)
(* attributes that it prints, the issuer, that it has not expired, the     *)
(* ages; and it is what show was asked for, with the same message, up to   *)
(* the order of the attributes.                                            *)
(***************************************************************************)
AcceptedIsTrue == \A m \in Messages : Idle /\ Verifies(m) =>
    LET s == LoadProofSpec(spec, m)
        asked == LoadProofSpec(shown.spec, shown.message)
        proof == cache["show_proof"]
    IN  /\ \A a \in Range(s.revealed) : Output(m)[a] = shown.cred[a]
        /\ shown.cred["issuer"] = Issuer
        /\ proof.cur_time <= shown.cred[ExpName(config)]
        /\ clock <= proof.cur_time + Validity
        /\ \A a \in DOMAIN s.range : shown.cred[a] >= Days(s.range[a])
        /\ Range(s.revealed) = Range(asked.revealed) /\ s.range = asked.range
        /\ s.message = asked.message /\ s.device_bound = asked.device_bound

(***************************************************************************)
(* When zksetup has run to its end, what was made with the parameters of   *)
(* an earlier run is not accepted any more, whatever was interrupted.      *)
(***************************************************************************)
AcceptedIsCurrent == \A m \in Messages :
    Idle /\ Verifies(m) /\ complete = gen =>
        cache["show_proof"].gen = gen /\ cache["show_proof"].range = gen

(***************************************************************************)
(* A show proof hides what its specification does not ask for: two         *)
(* credentials that agree on what is asked for look the same in it.        *)
(* (Commitments and hidden inputs are not visible; their places are.)      *)
(***************************************************************************)
Visible(c, io, s) ==
    LET cs == [gen |-> 1, config |-> config, inputs |-> Inputs(io, c),
               aux |-> c]
        proof == ShowProof(cs, io, 1, s, clock)
    IN  IF ~Shows(cs, io, s, clock) THEN <<>>
        ELSE <<proof.types, proof.context, proof.revealed_inputs,
               proof.revealed_preimages, proof.show_range_attr, proof.device,
               proof.cur_time>>

ShowHidesTheRest == \A m \in Messages :
    Idle /\ Readable("client_state") /\ SpecLoads(spec, m) =>
    LET s == LoadProofSpec(spec, m)
        seen == [c \in Creds |-> Visible(c, IOLocations(config), s)]
    IN  \A c1, c2 \in Creds :
            /\ \A a \in Range(s.revealed) : c1[a] = c2[a]
            /\ seen[c1] # <<>> /\ seen[c2] # <<>>
            => seen[c1] = seen[c2]

(***************************************************************************)
(* The order that the code relies on: revealed attributes by location, and *)
(* commitments to the expiry, the device keys and the ranges in this order.*)
(***************************************************************************)
CommittedSignals(s) ==
    <<Value(ExpName(s.config))>>
        \o (IF s.device_bound THEN <<Value(DeviceKeys[1]),
                                     Value(DeviceKeys[2])>> ELSE <<>>)
        \o [k \in DOMAIN s.ranges |-> Value(s.ranges[k])]

RevealedSignals(s) == [k \in DOMAIN s.revealed |-> Value(s.revealed[k])]

ByLocation(io, q) == \A i, j \in DOMAIN q :
    i < j => Location(io, q[i]) < Location(io, q[j])

InOrder(io, s) ==
    /\ ByLocation(io, CommittedSignals(s))
    /\ ByLocation(io, RevealedSignals(s))
    /\ Range(CommittedSignals(s)) \cap Range(RevealedSignals(s)) = {}

\* The last show was made by the book: with a client state and parameters of
\* one whole zksetup, for this specification, and is verified in time.
ShownByTheBook ==
    /\ Idle /\ Readable("show_proof")
    /\ complete = gen /\ shown.gen = gen
    /\ cache["show_proof"].gen = gen
    /\ shown.spec = spec /\ shown.cred["issuer"] = Issuer
    /\ clock <= cache["show_proof"].cur_time + Validity

(***************************************************************************)
(* A show made by the book verifies, when the order is the one above:      *)
(* whatever was interrupted before.                                        *)
(***************************************************************************)
HonestVerifies ==
    /\ ShownByTheBook
    /\ InOrder(IOLocations(config),
               InternalSpec(LoadProofSpec(spec, shown.message), config))
    => Verifies(shown.message)

(***************************************************************************)
(* README.md:89: a subset of the attributes that have reveal or            *)
(* reveal_digest may be revealed.  Violated: in another order than that of *)
(* the configuration they do not verify.                                   *)
(***************************************************************************)
SubsetVerifies ==
    /\ ShownByTheBook
    /\ IsInjective(InFile(spec).revealed)
    /\ \A a \in Range(InFile(spec).revealed) :
           KindOf(config, a) \in {"reveal", "digest"}
    => Verifies(shown.message)
=============================================================================
