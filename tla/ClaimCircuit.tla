---------------------------- MODULE ClaimCircuit -----------------------------
(***************************************************************************)
(* The circuit of a JWT with one claim in its configuration: the templates *)
(* in circuit_setup/circuits and the program that prepare_setup.py writes  *)
(* with them.  A template is an operator for its outputs and one for what  *)
(* its constraints and assertions demand; witnesses are those that the     *)
(* circuit computes itself.  The signature check is assumed to succeed,    *)
(* the hash of a message is the message.                                   *)
(***************************************************************************)
EXTENDS PrepInputs

CONSTANT FieldLen   \* MAX_FIELD_BYTE_LEN

ASSUME FieldLenAssumption == FieldLen \in Nat \ {0}

\* max_json_bytes
JsonLen == (MaxCredLen \div 4) * 3

-----------------------------------------------------------------------------
(***************************************************************************)
(* From the message to bytes: the period is taken out, the header's        *)
(* encoding is filled up to a multiple of four, all is decoded.            *)
(***************************************************************************)
\* Fault: a header that is one character short gets three.
NumPaddingBytesRaw(len) == len % 4

NumPaddingBytes(len) == IF len % 4 = 3 THEN 1 ELSE len % 4

RemoveValue(in, p) ==
    [i \in DOMAIN in |-> IF i = Len(in) THEN Zero
                         ELSE IF i - 1 >= p THEN in[i + 1] ELSE in[i]]

ConditionalInsert(in, p, c, cond) ==
    [i \in DOMAIN in |-> IF ~cond \/ i = 1 \/ i - 1 < p THEN in[i]
                         ELSE IF i - 1 = p THEN c ELSE in[i - 1]]

\* Two characters make a byte if one begins what the other one ends.
DecodedByte(c, d, offset) ==
    IF /\ c.off \in {offset, AnyOffset}
       /\ d.off \in {offset + 1, AnyOffset}
       /\ c.begins = d.ends
    THEN c.begins ELSE "?"

Base64Decode(in) ==
    [j \in 1..JsonLen |->
        LET first == 4 * ((j - 1) \div 3)
            offset == (j - 1) % 3
        IN  DecodedByte(in[first + offset + 1], in[first + offset + 2],
                        offset)]

Aligned(message, p) ==
    LET n == NumPaddingBytes(p)
        no_period == RemoveValue(message, p)
        one == ConditionalInsert(no_period, p, Zero, n # 0)
    IN  ConditionalInsert(one, p, Zero, n > 1)

JWTB64Decode(message, p) == Base64Decode(Aligned(message, p))

-----------------------------------------------------------------------------
(***************************************************************************)
(* The name: it stands at l with its quotes and a colon, in the outermost  *)
(* object.  Braces are counted wherever they stand.                        *)
(***************************************************************************)
object_nested_level(bytes, i) ==
    LET Count(c) == Cardinality({j \in 1..i : bytes[j] = c})
    IN  Count(LBrace) - Count(RBrace)

NameTemplate(config) == Quoted(config.name) \o <<":">>

\* Fault: a name in an inner object is as good.
MatchClaimNameAnywhere(bytes, l, r, config) ==
    /\ SubSeq(bytes, l + 1, l + Len(NameTemplate(config)))
         = NameTemplate(config)
    /\ l < r /\ r <= JsonLen

MatchClaimName(bytes, l, r, config) ==
    /\ SubSeq(bytes, l + 1, l + Len(NameTemplate(config)))
         = NameTemplate(config)
    /\ l < r /\ r <= JsonLen
    /\ object_nested_level(bytes, l + 1) = 1

-----------------------------------------------------------------------------
(***************************************************************************)
(* The value, from l up to r.                                              *)
(***************************************************************************)
IntervalIndicator(l, r) == l < r /\ r <= JsonLen

AssertEndNumber(bytes, r) ==
    \A j \in 1..(JsonLen - 1) : j = r => At(bytes, j) \in {Comma, RBrace}

ValidateClaimValue(bytes, l, r, type) ==
    /\ IntervalIndicator(l, r)
    /\ type = "number" =>
         /\ \A i \in l..(r - 1) : At(bytes, i) \notin {Comma, "]", RBrace}
         /\ AssertEndNumber(bytes, r)
    /\ type = "string" =>
         /\ \A i \in (l + 1)..(r - 2) : At(bytes, i) # Quote
         /\ At(bytes, r - 1) = Quote

(* RevealClaimValueBytes: max bytes from l on, zeros after r.  The powers  *)
(* in MatchSubstring need a field's length of bytes from l on.             *)
RevealedBytes(bytes, l, r, max) ==
    [i \in 1..max |-> IF l + i - 1 < r THEN At(bytes, l + i - 1) ELSE Nul]

RevealsBytes(bytes, l, r, type) ==
    /\ IntervalIndicator(l, r)
    /\ IntervalIndicator(l, l + FieldLen)
    /\ type = "number" => AssertEndNumber(bytes, r)

(* AsciiDigitsToField: zero bytes at the end do not count.  48 is taken    *)
(* from each digit's character but the last one's, which may be a digit    *)
(* only if there are as many as fit.                                       *)
AsciiDigitsToField(digits) ==
    LET ds == Trimmed(digits)
    IN  Number(ds) + (IF Len(ds) = Len(digits) THEN 48 ELSE 0)

RevealClaimValue(bytes, l, r, config) ==
    LET value == RevealedBytes(bytes, l, r, config.max)
    IN  IF config.type = "number" THEN AsciiDigitsToField(value) ELSE value

(* RevealDomainOnly: quotes count as zeros.  The sum runs over all bytes   *)
(* but the last one.                                                       *)
StripQuotes(text) ==
    [i \in DOMAIN text |-> IF text[i] = Quote THEN Nul ELSE text[i]]

AtSigns(text) == {i \in 2..Len(text) : text[i] = "@"}

OneAtSign(text) == Cardinality(AtSigns(text)) <= 1

RevealDomainOnly(text) ==
    LET at == IF AtSigns(text) = {} THEN Len(text) ELSE Min(AtSigns(text))
    IN  Pack(SubSeq(StripQuotes(text), at + 1, Len(text) - 1), Len(text))

(* HashRevealClaimValue: the length is that of the value, the bytes beyond *)
(* the largest length are zero.                                            *)
MaxPaddedLen(max) ==
    Block * ((8 * max + 1 + 8 * LenBytes) \div (8 * Block) + 1)

HashedBytes(bytes, l, r, max) ==
    [i \in 1..(r - l) |-> IF i <= max THEN At(bytes, l + i - 1) ELSE Nul]

(* CalculatePadding: the zero bytes between 0x80 and the length of a value *)
(* of n bytes.  It takes no more of them than one block can need, 55; a    *)
(* value that leaves no room for the length in its last block needs more.  *)
CalculatePadding(n) == PaddedLen(n) - (n + 1 + LenBytes)

MaxZeroBytes == Block - LenBytes - 1

\* Fault: the limit on the zero bytes is the one on a block.
PaddingFitsBlock(n, max) ==
    CalculatePadding(n) < Block /\ PaddedLen(n) <= MaxPaddedLen(max)

PaddingFits(n, max) ==
    CalculatePadding(n) <= MaxZeroBytes /\ PaddedLen(n) <= MaxPaddedLen(max)

-----------------------------------------------------------------------------
(***************************************************************************)
(* The program as a whole.  Main: its inputs satisfy all constraints.      *)
(* Output: the public signal of the claim.                                 *)
(***************************************************************************)
Main(inputs, config) ==
    LET bytes == JWTB64Decode(inputs.message, inputs.period_idx)
        l == inputs.l + Len(NameTemplate(config))
        r == inputs.r
    IN  /\ MatchClaimName(bytes, inputs.l, r, config)
        /\ config.form = "hidden" =>
             ValidateClaimValue(bytes, l, r, config.type)
        /\ config.form # "hidden" => RevealsBytes(bytes, l, r, config.type)
        /\ config.form = "reveal" =>
             inputs.value[1] = RevealClaimValue(bytes, l, r, config)
        /\ config.form = "domain" =>
             LET text == RevealedBytes(bytes, l, r, config.max)
             IN  /\ OneAtSign(text)
                 /\ inputs.value[1] = RevealDomainOnly(text)
        /\ config.form = "digest" => PaddingFits(r - l, config.max)

Output(inputs, config) ==
    LET bytes == JWTB64Decode(inputs.message, inputs.period_idx)
        l == inputs.l + Len(NameTemplate(config))
    IN  IF config.form = "digest"
        THEN <<HashedBytes(bytes, l, inputs.r, config.max)>>
        ELSE inputs.value
=============================================================================
