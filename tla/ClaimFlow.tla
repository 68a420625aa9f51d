------------------------------ MODULE ClaimFlow ------------------------------
(***************************************************************************)
(* A claim on its way from the issuer's token to the verifier's answer:    *)
(* the token is issued claim by claim, prepared (prep_inputs.rs), proved   *)
(* (the circuit), shown and verified (lib.rs).  One configured claim is    *)
(* followed, in tokens of all shapes: with its name elsewhere, characters  *)
(* that JSON escapes, braces in strings and values at the limits of their  *)
(* lengths.                                                                *)
(***************************************************************************)
EXTENDS ClaimCircuit

CONSTANTS
    Config,     \* configurations of the claim
    Header,     \* headers of tokens, as sequences of members
    Member,     \* members that a payload may have
    Separator,  \* what an issuer writes between a name and its value
    MaxClaims   \* members of a payload (a bound)

(* What check_config asks of a configuration.                              *)
ASSUME ConfigAssumption ==
    \A c \in Config :
        /\ c.name \in Seq(STRING)
        /\ c.type \in {"string", "number"}
        /\ c.form \in {"reveal", "domain", "digest", "hidden"}
        /\ c.max \in Nat \ {0} /\ c.max % FieldLen = 0
        /\ c.form = "domain" => c.type = "string"
        /\ c.form \in {"reveal", "domain"} /\ c.type = "string"
               => c.max = FieldLen

(* What an issuer writes is text.                                          *)
ASSUME TextAssumption ==
    /\ \A h \in Header : ObjectText(h, <<":">>) \in Seq(STRING)
    /\ \A m \in Member, s \in Separator : MemberText(m, s) \in Seq(STRING)

(* It has no zero byte.  A name has no brace and none of the characters    *)
(* that JSON escapes, and does not begin with one that stands behind a     *)
(* closing quote; a number is written with digits, a sign, a point and an  *)
(* exponent.                                                               *)
Members == Member \cup UNION {Range(h) : h \in Header}

Structural == {Quote, Backslash, LBrace, RBrace, Nul}
Follower == {":", Comma, "]"}

IsName(text) ==
    /\ text \in Seq(STRING) /\ Range(text) \cap Structural = {}
    /\ text # <<>> => text[1] \notin Follower

ASSUME NameAssumption ==
    /\ \A c \in Config : IsName(c.name)
    /\ \A m \in Members : IsName(m.name)
    /\ Header \subseteq Seq(Members)
    /\ Separator \subseteq {<<":">>, <<":", Space>>}

ASSUME ValueAssumption ==
    \A m \in Members :
        /\ m.value.kind \in {"string", "number", "list", "object"}
        /\ m.value.text \in Seq(STRING) /\ Nul \notin Range(m.value.text)
        /\ m.value.kind = "number" =>
             /\ m.value.text # <<>>
             /\ Range(m.value.text)
                  \subseteq Digit \cup {"-", "+", ".", "e", "E"}
        /\ m.value.kind = "object" => IsName(m.value.text)

VARIABLES
    config,   \* config.json
    header,   \* the members of the token's header
    claims,   \* the members of its payload
    payload,  \* the payload's text so far
    sep,      \* the issuer's separator
    stage,    \* how far the token is
    inputs,   \* <<prover inputs and aux>>, when they are prepared
    public,   \* <<the claim's public signal>>, when there is a proof
    shown     \* <<what the verifier learns of the claim>>

issued == <<config, header, claims, payload, sep>>
vars == <<issued, stage, inputs, public, shown>>

Token == [header  |-> ObjectText(header, <<":">>),
          payload |-> Closed(payload),
          claims  |-> claims]

Claim == ClaimOf(claims, config.name)

-----------------------------------------------------------------------------
(* A member with the claim's name has the type that config.json says.      *)
Typed(m) == m.name = config.name => m.value.kind = config.type

Init ==
    /\ config \in Config
    /\ header \in Header /\ \A i \in DOMAIN header : Typed(header[i])
    /\ sep \in Separator
    /\ claims = <<>> /\ payload = Open /\ stage = "issuing"
    /\ inputs = <<>> /\ public = <<>> /\ shown = <<>>

\* The issuer puts one more member into the payload.
Issue(m) ==
    /\ stage = "issuing" /\ Len(claims) < MaxClaims
    /\ Typed(m)
    /\ \A i \in DOMAIN claims : claims[i].name # m.name
    /\ claims' = Append(claims, m)
    /\ payload' = WithMember(payload, m, sep)
    /\ UNCHANGED <<config, header, sep, stage, inputs, public, shown>>

PrepareSucceeds ==
    /\ stage = "issuing" /\ claims # <<>>
    /\ Prepares(Token, config)
    /\ inputs' = <<prepare_prover_inputs(Token, config)>>
    /\ stage' = "prepared"
    /\ UNCHANGED <<issued, public, shown>>

\* An Err, or a panic where the text ends right after the name.
PrepareFails ==
    /\ stage = "issuing" /\ claims # <<>>
    /\ ~Prepares(Token, config)
    /\ stage' = "refused"
    /\ UNCHANGED <<issued, inputs, public, shown>>

\* create_client_state, and create_show_proof for the claim.
ProveSucceeds ==
    /\ stage = "prepared"
    /\ Main(inputs[1], config)
    /\ public' = Output(inputs[1], config)
    /\ stage' = "proved"
    /\ UNCHANGED <<issued, inputs, shown>>

\* The witness cannot be computed or does not satisfy the circuit.
ProveFails ==
    /\ stage = "prepared"
    /\ ~Main(inputs[1], config)
    /\ stage' = "unprovable"
    /\ UNCHANGED <<issued, inputs, public, shown>>

-----------------------------------------------------------------------------
(***************************************************************************)
(* verify_show for the claim.  A digest is opened with the value that      *)
(* serde_json writes; a field element is read as a number or as bytes.     *)
(***************************************************************************)
strip_quotes(text) ==
    LET open == IF text # <<>> /\ Head(text) = Quote THEN Tail(text) ELSE text
    IN  IF open # <<>> /\ Last(open) = Quote THEN Front(open) ELSE open

\* Fault: the quotes are left on.
unpack_int_to_string(bytes) == Trimmed(bytes)

unpack_int_to_string_unquoted(bytes) == strip_quotes(Trimmed(bytes))

Preimage == ToJson(inputs[1].aux[1])

Opens == config.form = "digest" => public[1] = Preimage

Learned ==
    CASE config.form = "hidden" -> <<>>
      [] config.form = "digest" -> <<strip_quotes(Preimage)>>
      [] OTHER -> IF config.type = "number" THEN public
                  ELSE <<unpack_int_to_string_unquoted(public[1])>>

VerifyAccepts ==
    /\ stage = "proved" /\ Opens
    /\ shown' = Learned
    /\ stage' = "accepted"
    /\ UNCHANGED <<issued, inputs, public>>

VerifyRefuses ==
    /\ stage = "proved" /\ ~Opens
    /\ stage' = "rejected"
    /\ UNCHANGED <<issued, inputs, public, shown>>

Next ==
    \/ \E m \in Member : Issue(m)
    \/ PrepareSucceeds \/ PrepareFails
    \/ ProveSucceeds \/ ProveFails
    \/ VerifyAccepts \/ VerifyRefuses

Spec == Init /\ [][Next]_vars

-----------------------------------------------------------------------------
(***************************************************************************)
(* Properties.                                                             *)
(***************************************************************************)

AtPlaces(text) == {i \in DOMAIN text : text[i] = "@"}

\* What follows the first @; nothing if there is none.
Domain(text) == IF AtPlaces(text) = {} THEN <<>>
                ELSE SubSeq(text, Min(AtPlaces(text)) + 1, Len(text))

(* The circuit decodes a token into the text that the prover searched for  *)
(* its intervals, whatever the length of the header is modulo three.       *)
DecodeAligned ==
    stage = "prepared" =>
        IsPrefix(HeaderAndPayload(Token),
                 JWTB64Decode(inputs[1].message, inputs[1].period_idx))

(* What the verifier learns is the value of the issuer's claim, or its     *)
(* domain; of a hidden claim it learns nothing.  A string shown by its     *)
(* digest comes as JSON writes it, with backslashes twice.                 *)
ShownIsClaim ==
    stage = "accepted" =>
        shown = CASE config.form = "hidden" -> <<>>
                  [] config.form = "domain" -> <<Domain(Claim.text)>>
                  [] config.type = "number" /\ config.form = "reveal" ->
                        <<Number(Claim.text)>>
                  [] config.type = "string" /\ config.form = "digest" ->
                        <<Escaped(Claim.text)>>
                  [] OTHER -> <<Claim.text>>

-----------------------------------------------------------------------------
(***************************************************************************)
(* Which claims get through, said of the token's members and not of its    *)
(* bytes.  First is where the quoted name stands first: as the name of a   *)
(* member, or elsewhere in one.                                            *)
(***************************************************************************)
All == header \o claims

Mentions(m) ==
    \/ m.name = config.name
    \/ m.value.kind = "object" /\ m.value.text = config.name
    \/ /\ m.value.kind \in {"string", "list"}
       /\ \/ m.value.text = config.name
          \/ IsSuffix(<<Quote>> \o config.name, m.value.text)

Mentioning == {i \in DOMAIN All : Mentions(All[i])}

Mentioned == Mentioning # {}
First == All[Min(Mentioning)]

(* The name may stand as a value, or as the name of an inner member.       *)
IsValue == First.name # config.name /\ First.value.kind # "object"

FirstValue ==
    IF First.name # config.name /\ First.value.kind = "object"
    THEN Numeral(<<"0">>) ELSE First.value

Count(i, c) == LET text == ToJson(All[i].value)
               IN  Cardinality({j \in DOMAIN text : text[j] = c})

(* How many braces are open where the name is first: one for the object it *)
(* belongs to, one more for an inner object, and those in the strings      *)
(* before it.                                                              *)
Depth ==
    LET open[i \in 0..(Min(Mentioning) - 1)] ==
            IF i = 0 THEN 1
                     ELSE open[i - 1] + Count(i, LBrace) - Count(i, RBrace)
    IN  open[Min(Mentioning) - 1]
          + (IF First.name # config.name /\ First.value.kind = "object"
             THEN 1 ELSE 0)

(* What stands between the quotes that are found: the text with its        *)
(* escapes, up to the first quote in it.                                   *)
Seen(v) ==
    LET text == Escaped(v.text)
        quotes == {i \in DOMAIN text : text[i] = Quote}
    IN  IF quotes = {} THEN text ELSE SubSeq(text, 1, Min(quotes) - 1)

LooksSpaced(v) ==
    /\ v.kind \in {"string", "list"}
    /\ \/ IsPrefix(<<":", Space>>, v.text)
       \/ Places(v.text, <<Quote, ":", Space>>, 0) # {}

Plain(v) == v.kind = "number" /\ Range(v.text) \subseteq Digit

\* The place of the value that is found first.
ValuePlace == ValueStart(HeaderAndPayload(Token), config) + 1

(* The text that is found in the place of the value.  After an inner       *)
(* number, for a string, it goes on to the next quote.                     *)
Found ==
    LET bytes == HeaderAndPayload(Token)
    IN  CASE config.type = "number" -> FirstValue.text
          [] FirstValue.kind = "string" -> Quoted(Seen(FirstValue))
          [] OTHER -> SubSeq(bytes, ValuePlace + 1,
                             find_value_interval(bytes, config).r)

(* What the circuit makes of it: the number, with 48 too many if its       *)
(* digits fill the field; the bytes that it searches for the domain, of    *)
(* which it leaves out the last one.                                       *)
NumberFound ==
    IF Len(Found) < config.max THEN Number(Found)
                               ELSE Number(SubSeq(Found, 1, config.max)) + 48

Searched(n) == SubSeq(Found, 2, Min({n, Len(Found) - 1}))

-----------------------------------------------------------------------------
(***************************************************************************)
(* Reasons for each way to fail.                                           *)
(***************************************************************************)
FailsEarly ==
    \/ PaddedLen(Len(PrePadded(Token))) > MaxCredLen
    \/ sep # <<":">>
    \/ \E i \in DOMAIN All : LooksSpaced(All[i].value)
    \/ ~Mentioned
    \/ /\ config.type = "string" /\ config.form # "hidden"
       /\ Claim.kind # "string"
    \/ /\ config.form = "reveal" /\ config.type = "string"
       /\ Len(Claim.text) + 2 > config.max
    \/ /\ config.form = "domain"
       /\ \/ "@" \notin Range(Claim.text)
          \/ Len(Domain(Claim.text)) > config.max
    \/ /\ config.form = "digest" /\ config.type = "string"
       /\ Len(Claim.text) > config.max

FailsLate ==
    \/ IsValue \/ Depth # 1
    \/ config.type = "number" /\ ~Plain(FirstValue)
    \/ config.form # "hidden" /\ ValuePlace + FieldLen > JsonLen
    \/ /\ config.form = "reveal"
       /\ IF config.type = "number" THEN NumberFound # NumberInput(Claim)
                                    ELSE Found # Quoted(Claim.text)
    \/ /\ config.form = "domain"
       /\ \/ Domain(Searched(config.max - 1)) # Domain(Claim.text)
          \/ Cardinality(AtPlaces(Searched(config.max))) > 1
    \/ /\ config.form = "digest"
       /\ \/ PaddedLen(Len(Found)) > MaxPaddedLen(config.max)
          \/ Len(Found) % Block >= Block - LenBytes

DoesNotOpen ==
    /\ config.form = "digest"
    /\ Found # ToJson(Claim) \/ Len(Found) > config.max

(* A token is refused when it is prepared, cannot be proved, or is         *)
(* rejected by the verifier, for one of the reasons above and in this      *)
(* order; every other one is accepted.                                     *)
OutcomeIsExplained ==
    /\ stage = "refused" =>
          \/ FailsEarly
          \/ config.type = "string" /\ First.name # config.name
    /\ stage = "unprovable" => ~FailsEarly /\ FailsLate
    /\ stage = "rejected" => ~FailsEarly /\ ~FailsLate /\ DoesNotOpen
    /\ stage = "accepted" => ~FailsEarly /\ ~FailsLate /\ ~DoesNotOpen
=============================================================================
