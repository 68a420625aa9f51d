------------------------------ MODULE ShowProof ------------------------------
(***************************************************************************)
(* The show proof of creds/src/lib.rs and groth16rand.rs: which public     *)
(* inputs of the credential's Groth16 proof are revealed, committed or     *)
(* hidden, and how prover and verifier agree on their places.              *)
(*                                                                         *)
(* The algebra is symbolic.  A commitment is the place of the input it     *)
(* commits to, a key is the number of the zksetup that made it, and a      *)
(* proof verifies exactly if both sides mean the same inputs, context and  *)
(* keys: completeness and soundness of the proof system are assumed.       *)
(***************************************************************************)
EXTENDS Integers, Sequences, SequencesExt

CONSTANTS
    Names,      \* the claims' names in alphabetical order, "exp" among them
    Days(_),    \* days_to_be_age: the days in a number of years
    Validity    \* SHOW_PROOF_VALIDITY_SECONDS

ASSUME ShowAssumption == Names \in Seq(STRING) /\ Validity \in Nat

-----------------------------------------------------------------------------
\* The elements of P in 1 .. n, in increasing order.
Ordered(P, n) ==
    LET upto[k \in 0 .. n] == IF k = 0 THEN <<>>
                              ELSE IF k \in P THEN Append(upto[k - 1], k)
                              ELSE upto[k - 1]
    IN  upto[n]

\* What q has at the places P, in its order.
Select(q, P) == LET at == Ordered(P, Len(q)) IN [k \in DOMAIN at |-> q[at[k]]]

-----------------------------------------------------------------------------
(***************************************************************************)
(* The circuit.  A configuration has a credtype, a flag device_bound, the  *)
(* claims in the order of the file, and of each its kind: "reveal",        *)
(* "digest" (reveal_digest) or "hidden".  A signal is a pair of name and   *)
(* form.  The circuit's outputs come first, then its public inputs, each   *)
(* in the order in which the generated program declares them.              *)
(***************************************************************************)
DeviceKeys == <<"device_key_0", "device_key_1">>

Value(a) == <<a, "value">>
Digest(a) == <<a, "digest">>

\* check_config and parse_config add the device keys at the end.
WithDeviceKeys(c) == IF c.device_bound THEN c.claims \o DeviceKeys
                                       ELSE c.claims

KindOf(c, a) == IF a \in Range(DeviceKeys) THEN "reveal" ELSE c.kind[a]

\* The public claims among as, as signals: the value or digest of each.
Signals(c, as, kind, form) ==
    LET chosen == Select(as, {i \in DOMAIN as : KindOf(c, as[i]) = kind})
    IN  [i \in DOMAIN chosen |-> <<chosen[i], form>>]

JwtSignals(c) ==
    Signals(c, WithDeviceKeys(c), "digest", "digest")
        \o <<<<"modulus", "key">>>>
        \o Signals(c, WithDeviceKeys(c), "reveal", "value")

MdlSignals(c) ==
    Signals(c, c.claims, "digest", "digest")
        \o <<<<"pubkey_hash", "key">>, Value("valid_until"),
             Value("device_key_0"), Value("device_key_1")>>
        \o Signals(c, c.claims, "reveal", "value")

\* io_locations.sym: the signals, each at its location.
IOLocations(c) == IF c.credtype = "jwt" THEN JwtSignals(c) ELSE MdlSignals(c)

HasLocation(io, sig) == sig \in Range(io)
Location(io, sig) == CHOOSE i \in DOMAIN io : io[i] = sig

PublicKey == {<<"modulus", "key">>, <<"pubkey_hash", "key">>}

\* SHA-256, as some injective function whose values are no claim's.
HashOf(v) == -1 - v

\* The values of the public inputs for the claims of one credential.
Inputs(io, cred) == [i \in DOMAIN io |->
    CASE io[i][2] = "digest" -> HashOf(cred[io[i][1]])
      [] io[i][2] = "key" -> cred["issuer"]
      [] OTHER -> cred[io[i][1]]]

ExpName(c) == IF c.credtype = "jwt" THEN "exp" ELSE "valid_until"

-----------------------------------------------------------------------------
(***************************************************************************)
(* A specification lists the attributes to reveal, gives ages for some (a  *)
(* record from names to years), and may ask for a device signature.        *)
(***************************************************************************)
NoMessage == 0

SpecAccepted(spec, c) ==
    /\ \A a \in Range(spec.revealed) : a \in Range(WithDeviceKeys(c))
    /\ spec.device_bound => spec.message # NoMessage

\* range_over_year is a BTreeMap: its entries come in the order of names.
InternalSpec(spec, c) ==
    LET hashed == {i \in DOMAIN spec.revealed :
                      KindOf(c, spec.revealed[i]) = "digest"}
    IN  [revealed |-> Select(spec.revealed, DOMAIN spec.revealed \ hashed),
         hashed |-> Select(spec.revealed, hashed),
         ranges |-> Select(Names, {i \in DOMAIN Names :
                                      Names[i] \in DOMAIN spec.range}),
         age |-> spec.range,
         message |-> spec.message,
         device_bound |-> spec.device_bound,
         config |-> c]

Asked(s) == {Value(s.revealed[i]) : i \in DOMAIN s.revealed}
                \cup {Digest(s.hashed[i]) : i \in DOMAIN s.hashed}

\* Everything a specification names is a signal of the circuit.
HasSignals(io, s) ==
    /\ HasLocation(io, Value(ExpName(s.config)))
    /\ \A a \in Asked(s) : HasLocation(io, a)
    /\ \A i \in DOMAIN s.ranges : HasLocation(io, Value(s.ranges[i]))
    /\ s.device_bound => \A k \in 1 .. 2 :
                             HasLocation(io, Value(DeviceKeys[k]))

\* The type of each public input.  Device keys are set last, what is
\* revealed before them, the ranges and the date of expiry first.
IOTypes(io, s) == [i \in DOMAIN io |->
    IF s.device_bound /\ io[i] \in {Value(DeviceKeys[1]), Value(DeviceKeys[2])}
    THEN "Committed"
    ELSE IF io[i] \in Asked(s) \cup PublicKey THEN "Revealed"
    ELSE IF \/ io[i] = Value(ExpName(s.config))
            \/ \E k \in DOMAIN s.ranges : io[i] = Value(s.ranges[k])
    THEN "Committed"
    ELSE "Hidden"]

\* The places of one type, in the order in which both sides meet them.
Places(types, t) ==
    Ordered({i \in DOMAIN types : types[i] = t}, Len(types))

\* Fault: the device keys are forgotten.
FaultFirstRange(s) == 2

\* The index of the first commitment that is for a range.
FirstRange(s) == IF s.device_bound THEN 4 ELSE 2

-----------------------------------------------------------------------------
(***************************************************************************)
(* create_show_proof for the client state cs (keys, config and inputs of   *)
(* one prove), at time now.  The openings are taken by index.  An Err and  *)
(* a panic are one: there is no proof.                                     *)
(***************************************************************************)
Opened(cs, io, spec) ==
    Places(IOTypes(io, InternalSpec(spec, cs.config)), "Committed")

\* show_range asserts that what is left lies in the interval.
Shows(cs, io, spec, now) ==
    /\ SpecAccepted(spec, cs.config)
    /\ LET s == InternalSpec(spec, cs.config)
           open == Opened(cs, io, spec)
           first == FirstRange(s)
       IN  /\ HasSignals(io, s)
           /\ Len(open) >= 1 /\ cs.inputs[open[1]] >= now
           /\ s.device_bound => Len(open) >= 3
           /\ \A k \in DOMAIN s.ranges :
                  /\ first + k - 1 <= Len(open)
                  /\ cs.inputs[open[first + k - 1]]
                         >= Days(s.age[s.ranges[k]])

\* Fault: the whole of aux is sent along.
FaultPreimages(cs, s) == cs.aux

Preimages(cs, s) == [a \in Range(s.hashed) |-> cs.aux[a]]

ShowProof(cs, io, range_pk, spec, now) ==
    LET s == InternalSpec(spec, cs.config)
        open == Opened(cs, io, spec)
    IN  [gen |-> cs.gen, range |-> range_pk,
         types |-> IOTypes(io, s), context |-> s, inputs |-> cs.inputs,
         revealed_inputs |-> [i \in DOMAIN s.revealed |->
             cs.inputs[Location(io, Value(s.revealed[i]))]],
         revealed_preimages |-> Preimages(cs, s),
         show_range_attr |-> [k \in DOMAIN s.ranges |->
                                  open[FirstRange(s) + k - 1]],
         device |-> IF s.device_bound THEN <<open[2], open[3]>> ELSE <<>>,
         cur_time |-> now]

-----------------------------------------------------------------------------
(***************************************************************************)
(* verify_show with the parameters vp.  The values that the verifier knows *)
(* are one list, consumed in the order of places: digests that it computes *)
(* itself, sorted by place; the issuer's key; the revealed inputs.         *)
(***************************************************************************)
SortByLocation(as, io) ==
    Select(io, {k \in DOMAIN io : \E i \in DOMAIN as : io[k] = Digest(as[i])})

PublicInputs(vp, io, s, proof) ==
    LET hashed == SortByLocation(s.hashed, io)
    IN  [i \in DOMAIN hashed |->
               HashOf(proof.revealed_preimages[hashed[i][1]])]
            \o <<vp.issuer>> \o proof.revealed_inputs

\* Fault: the proof is not bound to its context.
FaultSameContext(s, proof) == TRUE

\* The serialized specification is the context of the proof of knowledge.
SameContext(s, proof) == s = proof.context

\* ShowGroth16.verify: places, context, keys and revealed values agree.
Groth16Verifies(vp, io, s, proof) ==
    LET types == IOTypes(io, s)
        places == Places(types, "Revealed")
        public == PublicInputs(vp, io, s, proof)
    IN  /\ types = proof.types
        /\ SameContext(s, proof)
        /\ vp.vk = proof.gen /\ vp.pvk = proof.gen
        /\ Len(places) <= Len(public)
        /\ \A k \in DOMAIN places : public[k] = proof.inputs[places[k]]

IsFresh(proof, now) ==
    LET delta == IF now > proof.cur_time THEN now - proof.cur_time ELSE 0
    IN  delta <= Validity

RangesVerify(vp, io, s, proof) ==
    LET committed == Places(IOTypes(io, s), "Committed")
    IN  /\ vp.range_vk = proof.range
        /\ committed[1] = Location(io, Value(ExpName(s.config)))
        /\ \A k \in DOMAIN proof.show_range_attr :
               proof.show_range_attr[k] = Location(io, Value(s.ranges[k]))

DeviceVerifies(io, s, proof) ==
    s.device_bound => proof.device = <<Location(io, Value(DeviceKeys[1])),
                                       Location(io, Value(DeviceKeys[2]))>>

Accepts(vp, proof, spec, now) ==
    /\ SpecAccepted(spec, vp.config)
    /\ LET s == InternalSpec(spec, vp.config)
       IN  /\ HasSignals(vp.io, s)
           /\ Range(s.hashed) \subseteq DOMAIN proof.revealed_preimages
           /\ Groth16Verifies(vp, vp.io, s, proof)
           /\ IsFresh(proof, now)
           /\ RangesVerify(vp, vp.io, s, proof)
           /\ DeviceVerifies(vp.io, s, proof)

\* What verify_show returns: the revealed attributes with their values.
Revealed(vp, proof, spec) ==
    LET s == InternalSpec(spec, vp.config)
        index(a) == CHOOSE i \in DOMAIN s.revealed : s.revealed[i] = a
    IN  [a \in Range(spec.revealed) |->
            IF a \in Range(s.hashed) THEN proof.revealed_preimages[a]
                                     ELSE proof.revealed_inputs[index(a)]]
=============================================================================
