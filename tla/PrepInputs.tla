----------------------------- MODULE PrepInputs ------------------------------
(***************************************************************************)
(* What creds/src/prep_inputs.rs computes from a token for the circuit and *)
(* for later presentations, for a configuration with one claim.  A         *)
(* configuration gives the name, the type and the form of the claim and    *)
(* max_claim_byte_len; the forms are "reveal", "domain" (reveal and        *)
(* reveal_domain_only), "digest" (reveal_digest) and "hidden".             *)
(***************************************************************************)
EXTENDS Jwt

CONSTANTS
    Block,       \* bytes in a block of SHA-256
    LenBytes,    \* bytes of the length at the end of the last block
    MaxCredLen   \* max_cred_len

ASSUME BlockAssumption ==
    /\ LenBytes \in Nat \ {0}
    /\ Block \in Nat /\ Block > LenBytes
    /\ MaxCredLen \in Nat /\ MaxCredLen % Block = 0 /\ MaxCredLen % 4 = 0

-----------------------------------------------------------------------------
\* The least multiple of a block that takes n bytes, 0x80 and the length.
PaddedLen(n) == Block * ((n + 1 + LenBytes + Block - 1) \div Block)

(* The bytes 0x80 and 0 are no base64 characters and decode to zero bits,  *)
(* the bytes of the length to any.                                         *)
sha256_padding(message) ==
    message \o [i \in 1..(PaddedLen(Len(message)) - Len(message)) |->
        IF Len(message) + i <= PaddedLen(Len(message)) - LenBytes
        THEN Zero ELSE Junk]

PrePadded(token) ==
    Base64(token.header) \o <<Period>> \o Base64(token.payload)

\* message: padded for SHA-256, then to the size of the circuit's input.
Message(token) ==
    LET padded == sha256_padding(PrePadded(token))
    IN  padded \o [i \in 1..(MaxCredLen - Len(padded)) |-> Zero]

period_idx(token) == Len(Base64(token.header))

base_64_decoded_header_padding(len) ==
    CASE len % 4 = 0 -> <<>>
      [] len % 4 = 2 -> <<Nul, Nul>>
      [] len % 4 = 3 -> <<Nul>>

HeaderAndPayload(token) ==
    token.header \o base_64_decoded_header_padding(period_idx(token))
                 \o token.payload

is_minified(msg) == Places(msg, <<Quote, ":", Space>>, 0) = {}

-----------------------------------------------------------------------------
(***************************************************************************)
(* Where the claim is: l is the place of its quoted name, r the place      *)
(* after its value.                                                        *)
(***************************************************************************)
NamePlaces(msg, config) == Places(msg, Quoted(config.name), 0)

ValueStart(msg, config) == Min(NamePlaces(msg, config)) + Len(config.name) + 2

ClosingQuotes(msg, config) ==
    Places(msg, <<Quote>>, ValueStart(msg, config) + 2)

FoundInterval(msg, config) ==
    /\ NamePlaces(msg, config) # {}
    /\ config.type = "string" => ClosingQuotes(msg, config) # {}

\* The place of the first character that is no digit, 0 if there is none.
NumberEnd(msg, config) ==
    LET ends == {i \in (ValueStart(msg, config) + 1)..(Len(msg) - 1) :
                    At(msg, i) \notin Digit}
    IN  IF ends = {} THEN 0 ELSE Min(ends)

find_value_interval(msg, config) ==
    [l |-> Min(NamePlaces(msg, config)),
     r |-> IF config.type = "string" THEN Min(ClosingQuotes(msg, config)) + 1
                                     ELSE NumberEnd(msg, config)]

-----------------------------------------------------------------------------
(***************************************************************************)
(* The value that the circuit is to reveal, packed into a field element:   *)
(* up to max_claim_byte_len bytes, the rest zero; or a number.             *)
(***************************************************************************)
Pack(text, n) == text \o [i \in 1..(n - Len(text)) |-> Nul]

get_domain(text) == SubSeq(text, Min(Places(text, <<"@">>, 0)) + 2, Len(text))

ToPack(v, config) == IF config.form = "domain" THEN get_domain(v.text)
                                               ELSE Quoted(v.text)

Packable(v, config) ==
    /\ v.kind = "string"
    /\ config.form = "domain" => Places(v.text, <<"@">>, 0) # {}
    /\ Len(ToPack(v, config)) <= config.max

(* Numbers are passed on as serde_json writes them.  Only digits are a     *)
(* number to the circuit; -1 is whatever it cannot read or never computes. *)
NumberInput(v) ==
    IF v.text # <<>> /\ Range(v.text) \subseteq Digit THEN Number(v.text)
                                                      ELSE -1

Revealed(config) == config.form \in {"reveal", "domain"}

Value(v, config) == IF config.type = "number" THEN NumberInput(v)
                    ELSE Pack(ToPack(v, config), config.max)

AuxFits(v, config) == v.kind = "string" /\ Len(v.text) <= config.max

-----------------------------------------------------------------------------
(***************************************************************************)
(* prepare_prover_inputs as a whole: when it succeeds, and what it         *)
(* returns.  The claims' members are those of the payload.                 *)
(***************************************************************************)
Prepares(token, config) ==
    LET msg == HeaderAndPayload(token)
        v == ClaimOf(token.claims, config.name)
    IN  /\ Len(sha256_padding(PrePadded(token))) <= MaxCredLen
        /\ is_minified(msg)
        /\ FoundInterval(msg, config)
        /\ Revealed(config) /\ config.type = "string" => Packable(v, config)
        /\ config.form = "digest" /\ config.type = "string"
               => AuxFits(v, config)

prepare_prover_inputs(token, config) ==
    LET v == ClaimOf(token.claims, config.name)
        at == find_value_interval(HeaderAndPayload(token), config)
    IN  [message    |-> Message(token),
         period_idx |-> period_idx(token),
         l          |-> at.l,
         r          |-> at.r,
         value      |-> IF Revealed(config) THEN <<Value(v, config)>>
                                            ELSE <<>>,
         aux        |-> IF config.form = "digest" THEN <<v>> ELSE <<>>]
=============================================================================
