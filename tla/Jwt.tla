--------------------------------- MODULE Jwt ---------------------------------
(***************************************************************************)
(* A JSON web token as an issuer makes it and as the crates serde_json and *)
(* base64_url read it.  A text is a sequence of characters, each of one    *)
(* byte.  Places in a text are counted from 0, as in the code.             *)
(***************************************************************************)
EXTENDS Integers, Sequences, SequencesExt

Quote == "\""
Backslash == "\\"
Nul == "NUL"
Space == " "
Comma == ","
LBrace == "{"
RBrace == "}"

Digits == <<"0", "1", "2", "3", "4", "5", "6", "7", "8", "9">>
Digit == Range(Digits)
DigitValue == [d \in Digit |-> (CHOOSE i \in 1..10 : Digits[i] = d) - 1]
Number(text) ==
    LET upto[i \in 0..Len(text)] ==
            IF i = 0 THEN 0 ELSE 10 * upto[i - 1] + DigitValue[text[i]]
    IN  upto[Len(text)]

\* A text without the zero bytes that fill it up.
Trimmed(text) ==
    LET used == {i \in DOMAIN text : text[i] # Nul}
    IN  IF used = {} THEN <<>> ELSE SubSeq(text, 1, Max(used))

At(text, i) == text[i + 1]

\* The places from which on pattern occurs in text, none before from.
Places(text, pattern, from) ==
    {i \in from..(Len(text) - Len(pattern)) :
        SubSeq(text, i + 1, i + Len(pattern)) = pattern}

-----------------------------------------------------------------------------
(***************************************************************************)
(* JSON.  A value is a string, a number (its text as it stands), a list of *)
(* one string, an object of one member, or null where there is no value.   *)
(***************************************************************************)
String(text) == [kind |-> "string", text |-> text]
Numeral(text) == [kind |-> "number", text |-> text]
ListOf(text) == [kind |-> "list", text |-> text]
ObjectOf(key) == [kind |-> "object", text |-> key]
Null == [kind |-> "null", text |-> <<"n", "u", "l", "l">>]

Quoted(text) == <<Quote>> \o text \o <<Quote>>

\* The content of a string as JSON writes it.
Escaped(text) ==
    FlattenSeq([i \in DOMAIN text |->
        IF text[i] \in {Quote, Backslash} THEN <<Backslash, text[i]>>
                                          ELSE <<text[i]>>])

ToJson(v) ==
    CASE v.kind = "string" -> Quoted(Escaped(v.text))
      [] v.kind = "list"   -> <<"[">> \o Quoted(Escaped(v.text)) \o <<"]">>
      [] v.kind = "object" -> <<LBrace>> \o Quoted(v.text) \o <<":", "0", RBrace>>
      [] OTHER             -> v.text

(* The text of an object, member by member; sep is what follows a name.    *)
MemberText(m, sep) == Quoted(m.name) \o sep \o ToJson(m.value)

Open == <<LBrace>>

WithMember(text, m, sep) ==
    text \o (IF text = Open THEN <<>> ELSE <<Comma>>) \o MemberText(m, sep)

Closed(text) == text \o <<RBrace>>

ObjectText(members, sep) ==
    LET upto[i \in 0..Len(members)] ==
            IF i = 0 THEN Open
                     ELSE WithMember(upto[i - 1], members[i], sep)
    IN  Closed(upto[Len(members)])

\* claims[name]
ClaimOf(members, name) ==
    IF \E i \in DOMAIN members : members[i].name = name
    THEN LET i == CHOOSE i \in DOMAIN members : members[i].name = name
         IN  members[i].value
    ELSE Null

-----------------------------------------------------------------------------
(***************************************************************************)
(* base64url.  Three bytes make four characters.  The character at offset  *)
(* 0 to 3 of such a group ends the byte before (its last bits) and begins  *)
(* the next one.  Where there is no byte the bits are zero.                *)
(***************************************************************************)
Sextet(off, ends, begins) == [off |-> off, ends |-> ends, begins |-> begins]

EncodedLen(n) == (4 * n + 2) \div 3

Byte(text, i) == IF i \in 0..(Len(text) - 1) THEN At(text, i) ELSE Nul

Base64(text) ==
    [k \in 1..EncodedLen(Len(text)) |->
        LET off == (k - 1) % 4
            first == 3 * ((k - 1) \div 4)
        IN  Sextet(off, IF off = 0 THEN Nul ELSE Byte(text, first + off - 1),
                        IF off = 3 THEN Nul ELSE Byte(text, first + off))]

(* Other characters of an encoded message: the period, and what decodes to *)
(* zero bits at any offset or to bits without meaning.                     *)
AnyOffset == 4
Period == Sextet(AnyOffset, ".", ".")
Zero == Sextet(AnyOffset, Nul, Nul)
Junk == Sextet(AnyOffset, "?", "?")
=============================================================================
