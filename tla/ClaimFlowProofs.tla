--------------------------- MODULE ClaimFlowProofs ----------------------------
(* That the circuit decodes every prepared token into the text in which
   the prover searched for the claim, and that an accepted token shows the
   issuer's claim, for all texts and all sizes of the circuit.  The first
   proof follows the message: how it is laid out, what remains of it when
   the period is taken out and the header filled up, and to which bytes
   that decodes.  The second one follows the value: how it is quoted,
   packed and searched, what the circuit reads of it, and what is unpacked.
   The third one follows the text: which characters JSON puts where, so where
   a name can be found in it, and so what becomes of a token at each stage. *)
EXTENDS ClaimFlow, TLAPS, SequenceTheorems, NaturalsInduction,
        WellFoundedInduction, FiniteSetTheorems

-----------------------------------------------------------------------------
(* The encoding of a text. *)

(* What Base64 encodes to, by the length modulo three. *)
LEMMA Thirds ==
    ASSUME NEW n \in Nat
    PROVE  \E q \in Nat : \/ n = 3 * q /\ EncodedLen(n) = 4 * q
                          \/ n = 3 * q + 1 /\ EncodedLen(n) = 4 * q + 2
                          \/ n = 3 * q + 2 /\ EncodedLen(n) = 4 * q + 3
<1> DEFINE q == n \div 3
<1>1. q \in Nat /\ (n = 3 * q \/ n = 3 * q + 1 \/ n = 3 * q + 2)
  OBVIOUS
<1> HIDE DEF q
<1>2. CASE n = 3 * q
  <2>1. EncodedLen(n) = 4 * q
    BY <1>1, <1>2 DEF EncodedLen
  <2> QED BY <1>1, <1>2, <2>1
<1>3. CASE n = 3 * q + 1
  <2>1. EncodedLen(n) = 4 * q + 2
    BY <1>1, <1>3 DEF EncodedLen
  <2> QED BY <1>1, <1>3, <2>1
<1>4. CASE n = 3 * q + 2
  <2>1. EncodedLen(n) = 4 * q + 3
    BY <1>1, <1>4 DEF EncodedLen
  <2> QED BY <1>1, <1>4, <2>1
<1> QED BY <1>1, <1>2, <1>3, <1>4

(* The characters of texts and of decoded messages. *)
Bytes == STRING \cup {Nul, ".", "?", LBrace, RBrace, Comma}

Sextets == [off : 0..4, ends : Bytes, begins : Bytes]

(* The members of Bytes that the proofs name. *)
LEMMA BytesMembers ==
    /\ STRING \subseteq Bytes
    /\ Nul \in Bytes /\ "." \in Bytes /\ "?" \in Bytes
    /\ LBrace \in Bytes /\ RBrace \in Bytes /\ Comma \in Bytes
BY Zenon DEF Bytes

(* Records of these parts, and the characters outside base64, are
   characters of an encoded message. *)
LEMMA SextetMembers ==
    /\ \A o \in 0..4, c \in Bytes, d \in Bytes :
          [off |-> o, ends |-> c, begins |-> d] \in Sextets
    /\ Period \in Sextets /\ Zero \in Sextets /\ Junk \in Sextets
<1>1. \A o \in 0..4, c \in Bytes, d \in Bytes :
        [off |-> o, ends |-> c, begins |-> d] \in Sextets
  BY DEF Sextets
<1>2. 4 \in 0..4
  OBVIOUS
<1> QED
  BY <1>1, <1>2, BytesMembers, Zenon DEF Period, Zero, Junk, Sextet, AnyOffset

(* Each byte of a text, and the absent byte beyond its end, is one. *)
LEMMA ByteType ==
    ASSUME NEW text \in Seq(Bytes), NEW i \in Int
    PROVE  Byte(text, i) \in Bytes
<1>1. CASE i \in 0..(Len(text) - 1)
  <2>1. i + 1 \in 1..Len(text)
    BY <1>1
  <2> QED BY <1>1, <2>1 DEF Byte, At
<1>2. CASE i \notin 0..(Len(text) - 1)
  BY <1>2, BytesMembers DEF Byte
<1> QED BY <1>1, <1>2

(* The encoding of a text is a sequence of such characters, of the length
   that Base64 computes. *)
LEMMA EncodedType ==
    ASSUME NEW text \in Seq(Bytes)
    PROVE  /\ EncodedLen(Len(text)) \in Nat
           /\ Base64(text) \in Seq(Sextets)
           /\ Len(Base64(text)) = EncodedLen(Len(text))
<1> DEFINE n == EncodedLen(Len(text))
<1>1. n \in Nat
  BY Thirds
<1>2. ASSUME NEW k \in 1..n
      PROVE  Base64(text)[k] \in Sextets
  <2> DEFINE off == (k - 1) % 4
             first == 3 * ((k - 1) \div 4)
  <2>1. off \in 0..3 /\ first \in Nat
    BY <1>1
  <2>2. Base64(text)[k]
          = [off |-> off,
             ends |-> IF off = 0 THEN Nul ELSE Byte(text, first + off - 1),
             begins |-> IF off = 3 THEN Nul ELSE Byte(text, first + off)]
    BY <1>1 DEF Base64, Sextet, Byte, At
  <2> HIDE DEF off, first
  <2>3. /\ (IF off = 0 THEN Nul ELSE Byte(text, first + off - 1)) \in Bytes
        /\ (IF off = 3 THEN Nul ELSE Byte(text, first + off)) \in Bytes
    <3>1. first + off - 1 \in Int /\ first + off \in Int
      BY <2>1
    <3> QED BY <3>1, ByteType, BytesMembers
  <2>4. off \in 0..4
    BY <2>1
  <2> QED BY <2>2, <2>3, <2>4, SextetMembers
<1> HIDE DEF n
<1>3. Base64(text) = [k \in 1..n |-> Base64(text)[k]]
  BY DEF Base64, n
<1> QED BY <1>1, <1>2, <1>3 DEF n

(* What the r-th character of a group of four begins and ends. *)
LEMMA EncodedChar ==
    ASSUME NEW text \in Seq(Bytes), NEW q \in Nat, NEW r \in 0..3,
           4 * q + r + 1 <= EncodedLen(Len(text))
    PROVE  /\ r # 3 => Base64(text)[4 * q + r + 1].begins
                          = Byte(text, 3 * q + r)
           /\ r # 0 => Base64(text)[4 * q + r + 1].ends
                          = Byte(text, 3 * q + r - 1)
           /\ Base64(text)[4 * q + r + 1].off = r
<1> DEFINE k == 4 * q + r + 1
<1>1. k \in 1..EncodedLen(Len(text))
  BY EncodedType
<1>2. (k - 1) % 4 = r /\ (k - 1) \div 4 = q
  OBVIOUS
<1> HIDE DEF k
<1>3. Base64(text)[k]
        = [off |-> r,
           ends |-> IF r = 0 THEN Nul ELSE Byte(text, 3 * q + r - 1),
           begins |-> IF r = 3 THEN Nul ELSE Byte(text, 3 * q + r)]
  BY <1>1, <1>2 DEF Base64, Sextet, Byte, At
<1> QED BY <1>3 DEF k

(* Two neighbours in the encoding of a text decode to its byte. *)
LEMMA DecodedPair ==
    ASSUME NEW text \in Seq(Bytes), NEW q \in Nat, NEW r \in 0..2,
           3 * q + r < Len(text)
    PROVE  /\ 4 * q + r + 2 <= EncodedLen(Len(text))
           /\ DecodedByte(Base64(text)[4 * q + r + 1],
                          Base64(text)[4 * q + r + 2], r)
                = text[3 * q + r + 1]
<1>1. 4 * q + r + 2 <= EncodedLen(Len(text))
  BY Thirds
<1>2. /\ Base64(text)[4 * q + r + 1].begins = Byte(text, 3 * q + r)
      /\ Base64(text)[4 * q + r + 1].off = r
  <2>1. /\ r \in 0..3 /\ r # 3
        /\ 4 * q + r + 1 <= EncodedLen(Len(text))
    BY <1>1, EncodedType
  <2> QED BY <2>1, EncodedChar
<1>3. /\ Base64(text)[4 * q + (r + 1) + 1].ends
             = Byte(text, 3 * q + (r + 1) - 1)
      /\ Base64(text)[4 * q + (r + 1) + 1].off = r + 1
  <2>1. /\ r + 1 \in 0..3 /\ r + 1 # 0
        /\ 4 * q + (r + 1) + 1 <= EncodedLen(Len(text))
    BY <1>1, EncodedType
  <2> QED BY <2>1, EncodedChar
<1>4. Byte(text, 3 * q + r) = text[3 * q + r + 1]
  BY DEF Byte, At
<1> QED
  BY <1>1, <1>2, <1>3, <1>4 DEF DecodedByte
-----------------------------------------------------------------------------
(* The message. *)

(* The padding of SHA-256 leaves room for two characters after a message. *)
LEMMA PaddedLenFits ==
    ASSUME NEW n \in Nat
    PROVE  PaddedLen(n) \in Nat /\ PaddedLen(n) >= n + 2
<1>1. \A a \in Nat, b \in Nat \ {0} :
        LET c == b * ((a + b - 1) \div b) IN c \in Nat /\ c >= a
  OBVIOUS
<1>2. n + 1 + LenBytes \in Nat /\ Block \in Nat \ {0}
      /\ LenBytes \in Nat /\ LenBytes >= 1
  BY BlockAssumption
<1>3. LET c == Block * ((n + 1 + LenBytes + Block - 1) \div Block)
      IN  c \in Nat /\ c >= n + 1 + LenBytes
  BY <1>1, <1>2
<1>4. PaddedLen(n) \in Nat /\ PaddedLen(n) >= n + 1 + LenBytes
  BY <1>3 DEF PaddedLen
<1> QED BY <1>2, <1>4

(* What a concatenation has at each place. *)
LEMMA ConcatIndex ==
    ASSUME NEW S, NEW s \in Seq(S), NEW t \in Seq(S)
    PROVE  /\ s \o t \in Seq(S) /\ Len(s \o t) = Len(s) + Len(t)
           /\ \A i \in 1..Len(s) : (s \o t)[i] = s[i]
           /\ \A i \in 1..Len(t) : (s \o t)[Len(s) + i] = t[i]
OBVIOUS

(* A function on 1..n is a sequence. *)
LEMMA FunctionSeq ==
    ASSUME NEW S, NEW n \in Nat, NEW f, f = [i \in 1..n |-> f[i]],
           \A i \in 1..n : f[i] \in S
    PROVE  f \in Seq(S) /\ Len(f) = n
OBVIOUS

(* A prepared message has the encoding of the header, a period and that of
   the payload, and room after them. *)
LEMMA MessageLayout ==
    ASSUME NEW token,
           token.header \in Seq(Bytes), token.payload \in Seq(Bytes),
           Len(sha256_padding(PrePadded(token))) <= MaxCredLen
    PROVE  LET h == Base64(token.header)
               p == Base64(token.payload)
           IN  /\ Len(h) + Len(p) + 3 <= MaxCredLen
               /\ Len(Message(token)) = MaxCredLen
               /\ Message(token) \in Seq(Sextets)
               /\ \A i \in 1..Len(h) : Message(token)[i] = h[i]
               /\ \A i \in 1..Len(p) :
                     Message(token)[Len(h) + 1 + i] = p[i]
<1> DEFINE h == Base64(token.header)
           p == Base64(token.payload)
           m == PrePadded(token)
           n == PaddedLen(Len(m))
           fill == [i \in 1..(n - Len(m)) |->
                      IF Len(m) + i <= n - LenBytes THEN Zero ELSE Junk]
           padded == sha256_padding(m)
           rest == [i \in 1..(MaxCredLen - Len(padded)) |-> Zero]
<1>1. /\ h \in Seq(Sextets) /\ Len(h) \in Nat
      /\ p \in Seq(Sextets) /\ Len(p) \in Nat
  BY EncodedType
<1>2. Period \in Sextets /\ Zero \in Sextets /\ Junk \in Sextets
  BY SextetMembers
<1>3. m = (h \o <<Period>>) \o p
  BY DEF PrePadded
<1> HIDE DEF h, p
<1>4. /\ h \o <<Period>> \in Seq(Sextets)
      /\ Len(h \o <<Period>>) = Len(h) + 1
      /\ \A i \in 1..Len(h) : (h \o <<Period>>)[i] = h[i]
  BY <1>1, <1>2
<1> HIDE DEF m
<1>5. /\ m \in Seq(Sextets) /\ Len(m) = Len(h) + 1 + Len(p)
      /\ \A i \in 1..Len(h) : m[i] = h[i]
      /\ \A i \in 1..Len(p) : m[Len(h) + 1 + i] = p[i]
  <2>1. /\ m \in Seq(Sextets)
        /\ Len(m) = Len(h \o <<Period>>) + Len(p)
        /\ \A i \in 1..Len(h \o <<Period>>) : m[i] = (h \o <<Period>>)[i]
        /\ \A i \in 1..Len(p) : m[Len(h \o <<Period>>) + i] = p[i]
    BY <1>1, <1>3, <1>4, ConcatIndex
  <2> QED BY <1>1, <1>4, <2>1
<1>6. n \in Nat /\ n >= Len(m) + 2
  BY <1>1, <1>5, PaddedLenFits
<1>7. fill \in Seq(Sextets) /\ Len(fill) = n - Len(m)
  <2>1. n - Len(m) \in Nat
    BY <1>1, <1>5, <1>6
  <2>2. \A i \in 1..(n - Len(m)) : fill[i] \in Sextets
    BY <1>2
  <2> QED BY <2>1, <2>2, FunctionSeq
<1>8. padded = m \o fill
  BY DEF sha256_padding
<1> HIDE DEF n, fill, padded
<1>9. /\ padded \in Seq(Sextets) /\ Len(padded) = n
      /\ \A i \in 1..Len(m) : padded[i] = m[i]
  <2>1. m \in Seq(Sextets) /\ fill \in Seq(Sextets)
    BY <1>5, <1>7
  <2>2. /\ m \o fill \in Seq(Sextets) /\ Len(m \o fill) = Len(m) + Len(fill)
        /\ \A i \in 1..Len(m) : (m \o fill)[i] = m[i]
    BY <2>1, ConcatIndex
  <2> QED BY <1>1, <1>5, <1>6, <1>7, <1>8, <2>2
<1>10. MaxCredLen \in Nat /\ n <= MaxCredLen
  BY <1>9, BlockAssumption DEF padded, m
<1>11. rest \in Seq(Sextets) /\ Len(rest) = MaxCredLen - n
  <2>1. MaxCredLen - Len(padded) \in Nat
    BY <1>6, <1>9, <1>10
  <2>2. \A i \in 1..(MaxCredLen - Len(padded)) : rest[i] \in Sextets
    BY <1>2
  <2> QED BY <1>9, <2>1, <2>2, FunctionSeq
<1>12. Message(token) = padded \o rest
  BY DEF Message, padded, m
<1> HIDE DEF rest
<1>13. /\ Message(token) \in Seq(Sextets)
       /\ Len(Message(token)) = MaxCredLen
       /\ \A i \in 1..Len(m) : Message(token)[i] = m[i]
  <2>1. /\ padded \o rest \in Seq(Sextets)
        /\ Len(padded \o rest) = Len(padded) + Len(rest)
        /\ \A i \in 1..Len(padded) : (padded \o rest)[i] = padded[i]
    BY <1>9, <1>11, ConcatIndex
  <2> QED BY <1>1, <1>5, <1>6, <1>9, <1>10, <1>11, <1>12, <2>1
<1>14. Len(h) + Len(p) + 3 <= MaxCredLen
  BY <1>1, <1>5, <1>6, <1>10
<1>15. \A i \in 1..Len(p) : Len(h) + 1 + i \in 1..Len(m)
  BY <1>1, <1>5
<1>16. \A i \in 1..Len(h) : i \in 1..Len(m)
  BY <1>1, <1>5
<1> QED BY <1>5, <1>13, <1>14, <1>15, <1>16 DEF h, p

(* The circuit fills the encoding of a header up to q groups of four where
   the prover fills the header up to q groups of three. *)
LEMMA HeaderFill ==
    ASSUME NEW n \in Nat
    PROVE  LET hl == EncodedLen(n)
           IN  /\ hl \in Nat /\ NumPaddingBytes(hl) \in 0..2
               /\ NumPaddingBytes(hl) # 0 => hl >= 2
               /\ \E q \in Nat :
                     /\ hl + NumPaddingBytes(hl) = 4 * q
                     /\ n + Len(base_64_decoded_header_padding(hl)) = 3 * q
               /\ base_64_decoded_header_padding(hl) \in Seq(Bytes)
               /\ \A i \in 1..Len(base_64_decoded_header_padding(hl)) :
                     base_64_decoded_header_padding(hl)[i] = Nul
<1> DEFINE hl == EncodedLen(n)
           pad == base_64_decoded_header_padding(hl)
<1>1. PICK q \in Nat : \/ n = 3 * q /\ hl = 4 * q
                       \/ n = 3 * q + 1 /\ hl = 4 * q + 2
                       \/ n = 3 * q + 2 /\ hl = 4 * q + 3
  BY Thirds
<1>2. /\ <<>> \in Seq(Bytes) /\ <<Nul>> \in Seq(Bytes)
      /\ <<Nul, Nul>> \in Seq(Bytes)
  <2>1. Nul \in Bytes
    BY BytesMembers
  <2> QED BY <2>1
<1> HIDE DEF hl
<1>3. CASE n = 3 * q /\ hl = 4 * q
  <2>1. hl % 4 = 0
    BY <1>3
  <2>2. NumPaddingBytes(hl) = 0 /\ pad = <<>>
    BY <2>1 DEF NumPaddingBytes, base_64_decoded_header_padding
  <2>3. Len(pad) = 0
    BY <2>2
  <2>4. /\ hl + NumPaddingBytes(hl) = 4 * q
        /\ n + Len(pad) = 3 * q
    BY <1>3, <2>2, <2>3
  <2>5. \A i \in 1..Len(pad) : pad[i] = Nul
    BY <2>3
  <2>6. hl \in Nat /\ NumPaddingBytes(hl) \in 0..2
        /\ ~(NumPaddingBytes(hl) # 0)
    BY <1>3, <2>2
  <2>7. pad \in Seq(Bytes)
    BY <1>2, <2>2
  <2> HIDE DEF pad
  <2> QED BY <2>4, <2>5, <2>6, <2>7 DEF hl, pad
<1>4. CASE n = 3 * q + 1 /\ hl = 4 * q + 2
  <2>1. hl % 4 = 2
    BY <1>4
  <2>2. NumPaddingBytes(hl) = 2 /\ pad = <<Nul, Nul>>
    BY <2>1 DEF NumPaddingBytes, base_64_decoded_header_padding
  <2>3. Len(pad) = 2
    BY <2>2
  <2>4. /\ q + 1 \in Nat
        /\ hl + NumPaddingBytes(hl) = 4 * (q + 1)
        /\ n + Len(pad) = 3 * (q + 1)
    <3>1. q + 1 \in Nat /\ hl + 2 = 4 * (q + 1) /\ n + 2 = 3 * (q + 1)
      BY <1>4
    <3> QED BY <2>2, <2>3, <3>1
  <2>5. \A i \in 1..Len(pad) : pad[i] = Nul
    BY <2>2
  <2>6. hl \in Nat /\ hl >= 2 /\ NumPaddingBytes(hl) \in 0..2
    BY <1>4, <2>2
  <2> HIDE DEF pad
  <2> QED BY <1>2, <2>2, <2>4, <2>5, <2>6 DEF hl, pad
<1>5. CASE n = 3 * q + 2 /\ hl = 4 * q + 3
  <2>1. hl % 4 = 3
    BY <1>5
  <2>2. NumPaddingBytes(hl) = 1 /\ pad = <<Nul>>
    BY <2>1 DEF NumPaddingBytes, base_64_decoded_header_padding
  <2>3. Len(pad) = 1
    BY <2>2
  <2>4. /\ q + 1 \in Nat
        /\ hl + NumPaddingBytes(hl) = 4 * (q + 1)
        /\ n + Len(pad) = 3 * (q + 1)
    <3>1. q + 1 \in Nat /\ hl + 1 = 4 * (q + 1) /\ n + 1 = 3 * (q + 1)
      BY <1>5
    <3> QED BY <2>2, <2>3, <3>1
  <2>5. \A i \in 1..Len(pad) : pad[i] = Nul
    BY <2>2
  <2>6. hl \in Nat /\ hl >= 2 /\ NumPaddingBytes(hl) \in 0..2
    BY <1>5, <2>2
  <2> HIDE DEF pad
  <2> QED BY <1>2, <2>2, <2>4, <2>5, <2>6 DEF hl, pad
<1> QED BY <1>1, <1>3, <1>4, <1>5

(* Without the period and with its filling the message has the header's
   encoding, zeros, and the payload's encoding. *)
LEMMA AlignedLayout ==
    ASSUME NEW message \in Seq(Sextets), NEW p \in Nat, NEW len \in Nat,
           p + len + 3 <= Len(message),
           NumPaddingBytes(p) \in 0..2, NumPaddingBytes(p) # 0 => p >= 2
    PROVE  LET n == NumPaddingBytes(p)
           IN  /\ \A i \in 1..p : Aligned(message, p)[i] = message[i]
               /\ \A i \in (p + 1)..(p + n) : Aligned(message, p)[i] = Zero
               /\ \A i \in 1..len :
                     Aligned(message, p)[p + n + i] = message[p + 1 + i]
<1> DEFINE n == NumPaddingBytes(p)
           zero == RemoveValue(message, p)
           one == ConditionalInsert(zero, p, Zero, n # 0)
           two == ConditionalInsert(one, p, Zero, n > 1)
<1> USE DEF ConditionalInsert
<1>1. \A a, b \in Int : a < b => a # b
  OBVIOUS
<1>2. Len(message) \in Nat /\ DOMAIN message = 1..Len(message)
  OBVIOUS
<1>3. /\ DOMAIN zero = 1..Len(message)
      /\ \A i \in 1..p : zero[i] = message[i]
      /\ \A i \in 1..len : zero[p + i] = message[p + 1 + i]
  <2>1. DOMAIN zero = 1..Len(message)
    BY <1>2 DEF RemoveValue
  <2>2. ASSUME NEW j \in 1..Len(message), j < Len(message)
        PROVE  zero[j] = IF j - 1 >= p THEN message[j + 1] ELSE message[j]
    <3>1. j # Len(message)
      <4>1. j \in Int /\ Len(message) \in Int
        BY <1>2
      <4> QED BY <1>1, <2>2, <4>1
    <3> QED BY <1>2, <3>1 DEF RemoveValue
  <2> HIDE DEF zero
  <2>3. ASSUME NEW i \in 1..p PROVE zero[i] = message[i]
    <3>1. i \in 1..Len(message) /\ i < Len(message) /\ ~(i - 1 >= p)
      BY <1>2
    <3> QED BY <2>2, <3>1
  <2>4. ASSUME NEW i \in 1..len PROVE zero[p + i] = message[p + 1 + i]
    <3>1. /\ p + i \in 1..Len(message) /\ p + i < Len(message)
          /\ p + i - 1 >= p
      BY <1>2
    <3>2. p + i + 1 = p + 1 + i
      OBVIOUS
    <3>3. zero[p + i] = message[p + i + 1]
      BY <2>2, <3>1
    <3> QED BY <3>2, <3>3
  <2> QED BY <2>1, <2>3, <2>4
<1>4. Aligned(message, p) = two
  BY DEF Aligned
<1> HIDE DEF zero, n
<1>5. CASE n = 0
  <2>1. /\ DOMAIN one = 1..Len(message)
        /\ \A i \in 1..Len(message) : one[i] = zero[i]
    BY <1>3, <1>5
  <2> HIDE DEF one
  <2>2. \A i \in 1..Len(message) : two[i] = zero[i]
    BY <1>5, <2>1
  <2> HIDE DEF two
  <2>3. /\ \A i \in 1..p : i \in 1..Len(message)
        /\ \A i \in 1..len : p + i \in 1..Len(message) /\ p + n + i = p + i
        /\ (p + 1)..(p + n) = {}
    BY <1>2, <1>5
  <2>4. /\ \A i \in 1..p : two[i] = message[i]
        /\ \A i \in 1..len : two[p + n + i] = message[p + 1 + i]
    BY <1>3, <2>2, <2>3
  <2> QED BY <1>4, <2>3, <2>4 DEF n
<1>6. CASE n \in 1..2
  <2>1. p >= 2
    BY <1>6 DEF n
  <2>2. /\ DOMAIN one = 1..Len(message)
        /\ \A i \in 1..p : one[i] = message[i]
        /\ one[p + 1] = Zero
        /\ \A i \in 1..len : one[p + 1 + i] = message[p + 1 + i]
    <3>1. DOMAIN one = 1..Len(message)
      BY <1>3
    <3>2. ASSUME NEW i \in 1..p PROVE one[i] = message[i]
      <4>1. i \in 1..Len(message) /\ i - 1 < p
        BY <1>2
      <4> QED BY <1>3, <4>1
    <3>3. one[p + 1] = Zero
      <4>1. /\ p + 1 \in 1..Len(message) /\ p + 1 # 1 /\ p + 1 - 1 = p
            /\ ~(p + 1 - 1 < p) /\ n # 0
        BY <1>2, <1>6, <2>1
      <4> QED BY <1>3, <4>1
    <3>4. ASSUME NEW i \in 1..len PROVE one[p + 1 + i] = message[p + 1 + i]
      <4>1. /\ p + 1 + i \in 1..Len(message) /\ p + 1 + i # 1 /\ n # 0
            /\ ~(p + 1 + i - 1 < p) /\ p + 1 + i - 1 # p
            /\ p + 1 + i - 1 = p + i
        BY <1>2, <1>6, <2>1
      <4>2. one[p + 1 + i] = zero[p + 1 + i - 1]
        BY <1>3, <4>1
      <4> QED BY <1>3, <4>1, <4>2
    <3> QED BY <3>1, <3>2, <3>3, <3>4
  <2> HIDE DEF one
  <2>3. CASE n = 1
    <3>1. \A i \in 1..Len(message) : two[i] = one[i]
      BY <2>2, <2>3
    <3> HIDE DEF two
    <3>2. /\ \A i \in 1..p : i \in 1..Len(message)
          /\ \A i \in 1..len :
                p + 1 + i \in 1..Len(message) /\ p + n + i = p + 1 + i
          /\ p + 1 \in 1..Len(message)
          /\ \A i \in (p + 1)..(p + n) : i = p + 1
      BY <1>2, <2>3
    <3>3. /\ \A i \in 1..p : two[i] = message[i]
          /\ \A i \in (p + 1)..(p + n) : two[i] = Zero
          /\ \A i \in 1..len : two[p + n + i] = message[p + 1 + i]
      BY <2>2, <3>1, <3>2
    <3> QED BY <1>4, <3>3 DEF n
  <2>4. CASE n = 2
    <3>1. ASSUME NEW i \in 1..p PROVE two[i] = message[i]
      <4>1. i \in 1..Len(message) /\ i - 1 < p
        BY <1>2
      <4> QED BY <2>2, <4>1
    <3>2. ASSUME NEW i \in (p + 1)..(p + n) PROVE two[i] = Zero
      <4>1. i \in 1..Len(message) /\ i # 1 /\ ~(i - 1 < p)
            /\ (i - 1 = p \/ i - 1 = p + 1) /\ n > 1
        BY <1>2, <2>1, <2>4
      <4> QED BY <2>2, <4>1
    <3>3. ASSUME NEW i \in 1..len
          PROVE  two[p + n + i] = message[p + 1 + i]
      <4> DEFINE k == p + n + i
      <4>1. /\ k \in 1..Len(message) /\ k # 1 /\ n > 1
            /\ ~(k - 1 < p) /\ k - 1 # p /\ k - 1 = p + 1 + i
        BY <1>2, <2>1, <2>4
      <4> HIDE DEF k
      <4>2. two[k] = one[k - 1]
        BY <2>2, <4>1
      <4> HIDE DEF two
      <4> QED BY <2>2, <4>1, <4>2 DEF k
    <3> HIDE DEF two
    <3> QED BY <1>4, <3>1, <3>2, <3>3 DEF n
  <2> QED BY <1>6, <2>3, <2>4
<1>7. n = 0 \/ n \in 1..2
  BY DEF n
<1> QED
  BY <1>5, <1>6, <1>7
-----------------------------------------------------------------------------
(* The decoded bytes. *)

(* T has the encoding of text first, and zeros up to end. *)
Fills(text, T, end) ==
    /\ \A k \in 1..EncodedLen(Len(text)) : T[k] = Base64(text)[k]
    /\ \A k \in (EncodedLen(Len(text)) + 1)..end : T[k] = Zero

(* T has the encoding of text after end. *)
Follows(text, T, end) ==
    \A k \in 1..EncodedLen(Len(text)) : T[end + k] = Base64(text)[k]

AllNul(text) == \A i \in 1..Len(text) : text[i] = Nul

(* Whole groups, and where the byte at i is in them: at k and k + 1. *)
Groups(end, Q) == end = 4 * Q

Pairs(k, i, r) == \E a \in Nat : k = 4 * a + r + 1 /\ i = 3 * a + r

(* Two neighbours in a filled encoding decode to the byte of the text, or
   to zero where the text has ended. *)
LEMMA FilledPair ==
    ASSUME NEW text \in Seq(Bytes), NEW T, NEW end \in Nat,
           NEW r \in 0..2, NEW k \in Nat, NEW i \in Nat,
           Pairs(k, i, r), k < end, Fills(text, T, end)
    PROVE  DecodedByte(T[k], T[k + 1], r) = Byte(text, i)
<1> DEFINE n == Len(text)
           hl == EncodedLen(n)
           b == Byte(text, i)
<1>1. n \in Nat /\ hl \in Nat
  BY EncodedType
<1> USE DEF Fills
<1> PICK a \in Nat : k = 4 * a + r + 1 /\ i = 3 * a + r
  BY DEF Pairs
<1>2. Zero.off = AnyOffset /\ Zero.begins = Nul /\ Zero.ends = Nul
  BY DEF Zero, Sextet
<1>3. T[k].off \in {r, AnyOffset} /\ T[k].begins = b
  <2>1. CASE k <= hl
    <3>1. k \in 1..hl /\ r \in 0..3 /\ r # 3
      BY <1>1, <2>1
    <3>2. T[k] = Base64(text)[k]
      BY <3>1
    <3>3. /\ Base64(text)[4 * a + r + 1].begins = Byte(text, 3 * a + r)
          /\ Base64(text)[4 * a + r + 1].off = r
      BY <2>1, <3>1, EncodedChar
    <3> QED BY <3>2, <3>3
  <2>2. CASE k > hl
    <3>1. k \in (hl + 1)..end
      BY <1>1, <2>2
    <3>2. i >= n
      BY <1>1, <2>2, Thirds
    <3>3. b = Nul
      BY <1>1, <3>2 DEF Byte
    <3> QED BY <1>2, <3>1, <3>3
  <2> QED BY <1>1, <2>1, <2>2
<1>4. T[k + 1].off \in {r + 1, AnyOffset} /\ T[k + 1].ends = b
  <2>1. CASE k + 1 <= hl
    <3>1. /\ k + 1 \in 1..hl /\ r + 1 \in 0..3 /\ r + 1 # 0
          /\ 4 * a + (r + 1) + 1 <= hl
          /\ k + 1 = 4 * a + (r + 1) + 1 /\ 3 * a + (r + 1) - 1 = i
      BY <1>1, <2>1
    <3>2. T[k + 1] = Base64(text)[k + 1]
      BY <3>1
    <3>3. /\ Base64(text)[4 * a + (r + 1) + 1].ends
                = Byte(text, 3 * a + (r + 1) - 1)
          /\ Base64(text)[4 * a + (r + 1) + 1].off = r + 1
      BY <3>1, EncodedChar
    <3> QED BY <3>1, <3>2, <3>3
  <2>2. CASE k + 1 > hl
    <3>1. k + 1 \in (hl + 1)..end
      BY <1>1, <2>2
    <3>2. i >= n
      BY <1>1, <2>2, Thirds
    <3>3. b = Nul
      BY <1>1, <3>2 DEF Byte
    <3> QED BY <1>2, <3>1, <3>3
  <2> QED BY <1>1, <2>1, <2>2
<1> QED BY <1>3, <1>4 DEF DecodedByte

(* A sequence whose elements are those of t is a prefix of t. *)
LEMMA PrefixByIndex ==
    ASSUME NEW S, NEW s \in Seq(S), NEW n \in Nat,
           NEW t, t = [i \in 1..n |-> t[i]],
           Len(s) <= n, \A i \in 1..Len(s) : s[i] = t[i]
    PROVE  IsPrefix(s, t)
<1>1. Len(t) = n
  <2>1. \A i \in 1..n : t[i] \in {t[j] : j \in 1..n}
    OBVIOUS
  <2> QED BY <2>1, FunctionSeq
<1>2. SubSeq(s, 1, Len(s)) = [i \in 1..Len(s) |-> s[i]]
  OBVIOUS
<1>3. SubSeq(t, 1, Len(s)) = [i \in 1..Len(s) |-> t[i]]
  OBVIOUS
<1> QED BY <1>1, <1>2, <1>3 DEF IsPrefix

(* Every place is in one group of three. *)
LEMMA Offsets ==
    ASSUME NEW j \in Nat, j >= 1
    PROVE  \E a \in Nat, r \in 0..2 :
              /\ j = 3 * a + r + 1
              /\ (j - 1) \div 3 = a /\ (j - 1) % 3 = r
<1> DEFINE a == (j - 1) \div 3
           r == (j - 1) % 3
<1>1. a \in Nat /\ r \in 0..2 /\ j = 3 * a + r + 1
  OBVIOUS
<1> QED BY <1>1

(* The header decodes to its bytes and zeros, the payload after it to its
   bytes. *)
LEMMA DecodedBytes ==
    ASSUME NEW H \in Seq(Bytes), NEW P \in Seq(Bytes), NEW T,
           NEW Q \in Nat, NEW end \in Nat, Groups(end, Q),
           end + EncodedLen(Len(P)) <= MaxCredLen,
           Fills(H, T, end), Follows(P, T, end)
    PROVE  /\ Base64Decode(T) = [j \in 1..JsonLen |-> Base64Decode(T)[j]]
           /\ 3 * Q + Len(P) <= JsonLen
           /\ \A j \in 1..(3 * Q) : Base64Decode(T)[j] = Byte(H, j - 1)
           /\ \A j \in 1..Len(P) : Base64Decode(T)[3 * Q + j] = P[j]
<1> DEFINE pl == EncodedLen(Len(P))
           D == Base64Decode(T)
<1>1. Len(P) \in Nat /\ pl \in Nat
  BY EncodedType
<1>2. end = 4 * Q
  BY DEF Groups
<1>3. PICK m \in Nat : MaxCredLen = 4 * m /\ JsonLen = 3 * m
  <2>1. MaxCredLen \in Nat /\ MaxCredLen % 4 = 0
    BY BlockAssumption
  <2>2. MaxCredLen \div 4 \in Nat /\ MaxCredLen = 4 * (MaxCredLen \div 4)
    BY <2>1
  <2> QED BY <2>2 DEF JsonLen
<1>4. 3 * Q + Len(P) <= JsonLen
  <2>1. 3 * pl >= 4 * Len(P)
    <3>1. PICK q \in Nat : \/ Len(P) = 3 * q /\ pl = 4 * q
                           \/ Len(P) = 3 * q + 1 /\ pl = 4 * q + 2
                           \/ Len(P) = 3 * q + 2 /\ pl = 4 * q + 3
      BY <1>1, Thirds
    <3> HIDE DEF pl
    <3> QED BY <3>1
  <2>2. 4 * Q + pl <= 4 * m
    BY <1>2, <1>3
  <2> HIDE DEF pl
  <2> QED BY <1>1, <1>3, <2>1, <2>2
<1>5. /\ D = [j \in 1..JsonLen |-> D[j]]
      /\ \A j \in 1..JsonLen, a \in Nat, r \in 0..2 :
           (j - 1) \div 3 = a /\ (j - 1) % 3 = r =>
             D[j] = DecodedByte(T[4 * a + r + 1], T[4 * a + r + 2], r)
  <2>1. D = [j \in 1..JsonLen |-> D[j]]
    BY DEF Base64Decode
  <2>2. ASSUME NEW j \in 1..JsonLen, NEW a \in Nat, NEW r \in 0..2,
               (j - 1) \div 3 = a, (j - 1) % 3 = r
        PROVE  D[j] = DecodedByte(T[4 * a + r + 1], T[4 * a + r + 2], r)
    BY <2>2 DEF Base64Decode
  <2> QED BY <2>1, <2>2
<1> HIDE DEF D
<1>6. ASSUME NEW j \in 1..(3 * Q)
      PROVE  D[j] = Byte(H, j - 1)
  <2>1. j \in 1..JsonLen /\ j \in Nat /\ j >= 1
    BY <1>1, <1>4, <1>3
  <2>2. PICK a \in Nat, r \in 0..2 :
            /\ j = 3 * a + r + 1
            /\ (j - 1) \div 3 = a /\ (j - 1) % 3 = r
    BY <2>1, Offsets
  <2>3. D[j] = DecodedByte(T[4 * a + r + 1], T[4 * a + r + 2], r)
    BY <1>5, <2>1, <2>2
  <2> DEFINE k == 4 * a + r + 1
             i == j - 1
  <2>4. /\ k \in Nat /\ i \in Nat /\ k < end
        /\ k + 1 = 4 * a + r + 2
    BY <1>2, <2>2
  <2>5. Pairs(k, i, r)
    BY <2>2 DEF Pairs
  <2> HIDE DEF k, i
  <2>6. DecodedByte(T[k], T[k + 1], r) = Byte(H, i)
    BY <2>4, <2>5, FilledPair
  <2> QED BY <2>3, <2>4, <2>6 DEF k, i
<1>7. ASSUME NEW i \in 1..Len(P)
      PROVE  D[3 * Q + i] = P[i]
  <2>1. 3 * Q + i \in 1..JsonLen /\ i \in Nat /\ i >= 1
    BY <1>1, <1>4, <1>3
  <2>2. PICK a \in Nat, r \in 0..2 : i = 3 * a + r + 1
    BY <2>1, Offsets
  <2> DEFINE j == 3 * Q + i
             b == Q + a
             k == 4 * a + r + 1
  <2>3. /\ j \in 1..JsonLen /\ b \in Nat
        /\ (j - 1) \div 3 = b /\ (j - 1) % 3 = r
    BY <2>1, <2>2
  <2>4. D[j] = DecodedByte(T[4 * b + r + 1], T[4 * b + r + 2], r)
    <3> HIDE DEF j, b
    <3> QED BY <1>5, <2>3
  <2>5. /\ k + 1 <= pl
        /\ DecodedByte(Base64(P)[k], Base64(P)[k + 1], r) = P[i]
    <3>1. 3 * a + r < Len(P)
      BY <1>1, <2>2
    <3>2. /\ 4 * a + r + 2 <= pl
          /\ DecodedByte(Base64(P)[4 * a + r + 1],
                         Base64(P)[4 * a + r + 2], r) = P[3 * a + r + 1]
      BY <3>1, DecodedPair, Zenon
    <3>3. 4 * a + r + 2 = k + 1 /\ 3 * a + r + 1 = i
      BY <2>2
    <3> HIDE DEF pl
    <3> QED BY <3>2, <3>3
  <2>6. /\ k \in 1..pl /\ k + 1 \in 1..pl
        /\ 4 * b + r + 1 = end + k /\ 4 * b + r + 2 = end + (k + 1)
    BY <1>2, <1>1, <2>5
  <2>7. T[end + k] = Base64(P)[k] /\ T[end + (k + 1)] = Base64(P)[k + 1]
    <3> HIDE DEF k
    <3> QED BY <2>6 DEF Follows
  <2> HIDE DEF k, b
  <2> QED BY <2>4, <2>5, <2>6, <2>7
<1> QED BY <1>4, <1>5, <1>6, <1>7 DEF D

(* The text that the prover searches has the same bytes at these places. *)
LEMMA PaddedText ==
    ASSUME NEW H \in Seq(Bytes), NEW P \in Seq(Bytes),
           NEW pad \in Seq(Bytes), AllNul(pad)
    PROVE  LET text == H \o pad \o P
               n == Len(H) + Len(pad)
           IN  /\ text \in Seq(Bytes) /\ Len(text) = n + Len(P)
               /\ \A i \in 1..n : text[i] = Byte(H, i - 1)
               /\ \A i \in 1..Len(P) : text[n + i] = P[i]
<1> DEFINE h == H \o pad
           n == Len(H) + Len(pad)
<1>1. Len(H) \in Nat /\ Len(P) \in Nat /\ Len(pad) \in Nat
  OBVIOUS
<1>2. /\ h \in Seq(Bytes) /\ Len(h) = n
      /\ \A i \in 1..Len(H) : h[i] = H[i]
      /\ \A i \in 1..Len(pad) : h[Len(H) + i] = pad[i]
  BY ConcatIndex
<1> HIDE DEF h
<1>3. /\ h \o P \in Seq(Bytes) /\ Len(h \o P) = Len(h) + Len(P)
      /\ \A i \in 1..Len(h) : (h \o P)[i] = h[i]
      /\ \A i \in 1..Len(P) : (h \o P)[Len(h) + i] = P[i]
  <2>1. h \in Seq(Bytes) /\ P \in Seq(Bytes)
    BY <1>2
  <2> QED BY <2>1, ConcatIndex
<1>4. ASSUME NEW i \in 1..n
      PROVE  h[i] = Byte(H, i - 1)
  <2>1. CASE i <= Len(H)
    <3>1. i \in 1..Len(H) /\ i - 1 \in 0..(Len(H) - 1) /\ i - 1 + 1 = i
      BY <1>1, <2>1
    <3> QED BY <1>2, <3>1 DEF Byte, At
  <2>2. CASE i > Len(H)
    <3> DEFINE k == i - Len(H)
    <3>1. /\ k \in 1..Len(pad) /\ Len(H) + k = i
          /\ i - 1 \notin 0..(Len(H) - 1)
      BY <1>1, <2>2
    <3> HIDE DEF k
    <3>2. h[i] = Nul
      BY <1>2, <3>1 DEF AllNul
    <3>3. Byte(H, i - 1) = Nul
      BY <3>1 DEF Byte
    <3> QED BY <3>2, <3>3
  <2>3. i <= Len(H) \/ i > Len(H)
    BY <1>1
  <2> QED BY <2>1, <2>2, <2>3
<1> QED BY <1>2, <1>3, <1>4 DEF h

(* A token that fits is decoded into the text that the prover searches. *)
LEMMA DecodedPrefix ==
    ASSUME NEW token,
           token.header \in Seq(Bytes), token.payload \in Seq(Bytes),
           Len(sha256_padding(PrePadded(token))) <= MaxCredLen
    PROVE  IsPrefix(HeaderAndPayload(token),
                    JWTB64Decode(Message(token), period_idx(token)))
<1> DEFINE H == token.header
           P == token.payload
           hl == EncodedLen(Len(H))
           pl == EncodedLen(Len(P))
           n == NumPaddingBytes(hl)
           pad == base_64_decoded_header_padding(hl)
           msg == Message(token)
           T == Aligned(msg, hl)
           D == Base64Decode(T)
           text == H \o pad \o P
<1>1. Len(H) \in Nat /\ Len(P) \in Nat
  OBVIOUS
<1>2. /\ Len(Base64(H)) = hl /\ hl \in Nat
      /\ Len(Base64(P)) = pl /\ pl \in Nat
  BY EncodedType
<1>3. period_idx(token) = hl
  BY <1>2 DEF period_idx
<1>4. /\ n \in 0..2 /\ (n # 0 => hl >= 2)
      /\ \E q \in Nat : hl + n = 4 * q /\ Len(H) + Len(pad) = 3 * q
      /\ pad \in Seq(Bytes) /\ \A i \in 1..Len(pad) : pad[i] = Nul
  BY <1>1, HeaderFill
<1>5. PICK Q \in Nat : hl + n = 4 * Q /\ Len(H) + Len(pad) = 3 * Q
  BY <1>4
<1>6. /\ hl + pl + 3 <= MaxCredLen
      /\ Len(msg) = MaxCredLen /\ msg \in Seq(Sextets)
      /\ \A i \in 1..hl : msg[i] = Base64(H)[i]
      /\ \A i \in 1..pl : msg[hl + 1 + i] = Base64(P)[i]
  BY <1>2, MessageLayout
<1>7. /\ \A k \in 1..hl : T[k] = msg[k]
      /\ \A k \in (hl + 1)..(hl + n) : T[k] = Zero
      /\ \A k \in 1..pl : T[hl + n + k] = msg[hl + 1 + k]
  BY <1>2, <1>4, <1>6, AlignedLayout
<1>8. text = HeaderAndPayload(token)
  BY <1>3 DEF HeaderAndPayload
<1>9. D = JWTB64Decode(msg, period_idx(token))
  BY <1>3 DEF JWTB64Decode
<1> HIDE DEF n, pad, msg, T
<1> DEFINE end == 4 * Q
<1>10. end \in Nat /\ Groups(end, Q) /\ MaxCredLen \in Nat
  BY BlockAssumption DEF Groups
<1>11. end + pl <= MaxCredLen
  <2> HIDE DEF hl, pl
  <2>1. n \in 0..2 /\ hl + n = end
    BY <1>4, <1>5
  <2>2. hl + pl + 3 <= MaxCredLen
    BY <1>6
  <2> HIDE DEF end
  <2> QED BY <1>2, <1>10, <2>1, <2>2
<1>12. Fills(H, T, end) /\ Follows(P, T, end)
  <2> HIDE DEF hl, pl
  <2>1. /\ \A k \in 1..hl : T[k] = Base64(H)[k]
        /\ \A k \in (hl + 1)..end : T[k] = Zero
        /\ \A k \in 1..pl : T[end + k] = Base64(P)[k]
    BY <1>5, <1>6, <1>7
  <2> QED BY <2>1 DEF Fills, Follows, hl, pl
<1> HIDE DEF end
<1>13. /\ D = [j \in 1..JsonLen |-> D[j]]
       /\ 3 * Q + Len(P) <= JsonLen
       /\ \A j \in 1..(3 * Q) : D[j] = Byte(H, j - 1)
       /\ \A j \in 1..Len(P) : D[3 * Q + j] = P[j]
  BY <1>10, <1>11, <1>12, DecodedBytes
<1>14. /\ text \in Seq(Bytes) /\ Len(text) = 3 * Q + Len(P)
       /\ \A i \in 1..(3 * Q) : text[i] = Byte(H, i - 1)
       /\ \A i \in 1..Len(P) : text[3 * Q + i] = P[i]
  <2>1. /\ AllNul(pad) /\ pad \in Seq(Bytes)
        /\ H \in Seq(Bytes) /\ P \in Seq(Bytes)
    BY <1>4 DEF AllNul
  <2> HIDE DEF H, P, hl, pl, D
  <2>2. /\ text \in Seq(Bytes)
        /\ Len(text) = Len(H) + Len(pad) + Len(P)
        /\ \A i \in 1..(Len(H) + Len(pad)) : text[i] = Byte(H, i - 1)
        /\ \A i \in 1..Len(P) : text[Len(H) + Len(pad) + i] = P[i]
    BY <2>1, PaddedText
  <2> HIDE DEF text
  <2> QED BY <1>5, <2>2
<1> HIDE DEF D, text, H, P
<1>15. ASSUME NEW i \in 1..Len(text)
       PROVE  text[i] = D[i]
  <2>1. CASE i <= 3 * Q
    <3>1. i \in 1..(3 * Q)
      BY <2>1
    <3> QED BY <1>13, <1>14, <3>1
  <2>2. CASE i > 3 * Q
    <3> DEFINE k == i - 3 * Q
    <3>1. k \in 1..Len(P) /\ 3 * Q + k = i
      BY <1>1, <1>14, <2>2
    <3> HIDE DEF k
    <3>2. text[3 * Q + k] = P[k] /\ D[3 * Q + k] = P[k]
      BY <1>13, <1>14, <3>1
    <3> QED BY <3>1, <3>2
  <2> QED BY <2>1, <2>2
<1>16. JsonLen \in Nat /\ Len(text) <= JsonLen
  BY <1>10, <1>13, <1>14 DEF JsonLen
<1>17. IsPrefix(text, D)
  BY <1>13, <1>14, <1>15, <1>16, PrefixByIndex
<1> QED
  BY <1>8, <1>9, <1>17 DEF msg
-----------------------------------------------------------------------------
(* The specification.  The payload stays text, and a prepared token stays
   as it was prepared. *)
IInv ==
    /\ header \in Header /\ sep \in Separator /\ payload \in Seq(Bytes)
    /\ stage = "prepared" =>
         /\ Prepares(Token, config)
         /\ inputs = <<prepare_prover_inputs(Token, config)>>

(* Texts of the issuer are sequences of such bytes. *)
LEMMA TextSeq == Seq(STRING) \subseteq Seq(Bytes)
<1>1. STRING \subseteq Bytes
  BY BytesMembers
<1>2. ASSUME NEW S, NEW U, S \subseteq U PROVE Seq(S) \subseteq Seq(U)
  BY <1>2
<1> QED BY <1>1, <1>2

(* So is what stands between the members. *)
LEMMA PunctuationSeq ==
    /\ <<>> \in Seq(Bytes) /\ Open \in Seq(Bytes)
    /\ <<Comma>> \in Seq(Bytes) /\ <<RBrace>> \in Seq(Bytes)
<1>1. LBrace \in Bytes /\ Comma \in Bytes /\ RBrace \in Bytes
  BY BytesMembers
<1>2. ASSUME NEW S PROVE <<>> \in Seq(S) /\ \A c \in S : <<c>> \in Seq(S)
  OBVIOUS
<1> QED BY <1>1, <1>2, Zenon DEF Open

(* The inductive invariant. *)
LEMMA IInvInvariant == Spec => []IInv
<1>1. Init => IInv
  BY PunctuationSeq DEF Init, IInv
<1>2. IInv /\ [Next]_vars => IInv'
  <2> SUFFICES ASSUME IInv, [Next]_vars PROVE IInv'
    OBVIOUS
  <2> USE DEF IInv
  <2>1. ASSUME NEW m \in Member, Issue(m) PROVE IInv'
    <3>1. MemberText(m, sep) \in Seq(Bytes)
      BY TextAssumption, TextSeq
    <3>2. WithMember(payload, m, sep) \in Seq(Bytes)
      <4>1. (IF payload = Open THEN <<>> ELSE <<Comma>>) \in Seq(Bytes)
        <5>1. <<>> \in Seq(Bytes) /\ <<Comma>> \in Seq(Bytes)
          BY PunctuationSeq
        <5> QED BY <5>1, Zenon
      <4>2. \A s, t, u \in Seq(Bytes) : s \o t \o u \in Seq(Bytes)
        OBVIOUS
      <4>3. payload \in Seq(Bytes)
        OBVIOUS
      <4> QED BY <3>1, <4>1, <4>2, <4>3, Zenon DEF WithMember
    <3> QED BY <2>1, <3>2 DEF Issue
  <2>2. CASE PrepareSucceeds
    BY <2>2 DEF PrepareSucceeds, issued, Token
  <2>3. CASE PrepareFails
    BY <2>3 DEF PrepareFails, issued, Token
  <2>4. CASE ProveSucceeds
    BY <2>4 DEF ProveSucceeds, issued, Token
  <2>5. CASE ProveFails
    BY <2>5 DEF ProveFails, issued, Token
  <2>6. CASE VerifyAccepts
    BY <2>6 DEF VerifyAccepts, issued, Token
  <2>7. CASE VerifyRefuses
    BY <2>7 DEF VerifyRefuses, issued, Token
  <2>8. CASE UNCHANGED vars
    BY <2>8 DEF vars, issued, Token
  <2> QED BY <2>1, <2>2, <2>3, <2>4, <2>5, <2>6, <2>7, <2>8 DEF Next
<1> QED BY <1>1, <1>2, PTL DEF Spec

(* The texts of a token are sequences of bytes. *)
LEMMA TokenText ==
    ASSUME IInv
    PROVE  Token.header \in Seq(Bytes) /\ Token.payload \in Seq(Bytes)
<1>1. Token.header = ObjectText(header, <<":">>)
      /\ Token.payload = payload \o <<RBrace>>
  BY DEF Token, Closed
<1>2. ObjectText(header, <<":">>) \in Seq(Bytes)
  BY TextAssumption, TextSeq DEF IInv
<1>3. payload \o <<RBrace>> \in Seq(Bytes)
  BY PunctuationSeq, ConcatIndex DEF IInv
<1> QED BY <1>1, <1>2, <1>3

(* In every state of every behaviour a prepared token is decoded into the
   text that prepare_prover_inputs searched: JWTB64Decode agrees with
   HeaderAndPayload, for headers of any length and any MaxCredLen. *)
THEOREM DecodeAlignedCorrect == Spec => []DecodeAligned
<1>1. IInv => DecodeAligned
  <2> SUFFICES ASSUME IInv, stage = "prepared"
               PROVE  IsPrefix(HeaderAndPayload(Token),
                          JWTB64Decode(inputs[1].message,
                                       inputs[1].period_idx))
    BY DEF DecodeAligned
  <2>1. /\ Token.header \in Seq(Bytes)
        /\ Token.payload \in Seq(Bytes)
    BY TokenText
  <2>2. Len(sha256_padding(PrePadded(Token))) <= MaxCredLen
    BY DEF IInv, Prepares
  <2>3. /\ inputs[1].message = Message(Token)
        /\ inputs[1].period_idx = period_idx(Token)
    BY DEF IInv, prepare_prover_inputs
  <2> QED BY <2>1, <2>2, <2>3, DecodedPrefix
<1> QED BY <1>1, IInvInvariant, PTL

-----------------------------------------------------------------------------
(* Induction, said of sets instead of operators.  What the model computes
   with a recursive function has values of the type that its steps keep. *)

(* Of the numbers in a set that is not empty one is the least. *)
LEMMA LeastNumber ==
    ASSUME NEW T \in SUBSET Nat, T # {}
    PROVE  \E n \in T : \A m \in T : n <= m
<1> DEFINE R == OpToRel(<, Nat)
<1>1. IsWellFoundedOn(R, Nat)
  BY NatLessThanWellFounded
<1>2. \A x, y \in Nat : x < y => <<x, y>> \in R
  BY DEF OpToRel
<1> HIDE DEF R
<1>3. \E x \in T : \A y \in T : ~(<<y, x>> \in R)
  BY <1>1, WFMin
<1>4. PICK n \in T : \A y \in T : ~(<<y, n>> \in R)
  BY <1>3
<1>5. ASSUME NEW m \in T PROVE n <= m
  <2>1. m \in Nat /\ n \in Nat
    OBVIOUS
  <2>2. ~(m < n)
    BY <1>2, <1>4, <2>1
  <2> QED BY <2>1, <2>2
<1> QED BY <1>5

(* Every set with 0, and with each number the next, has them all. *)
LEMMA SetInduction ==
    ASSUME NEW S, 0 \in S, \A n \in Nat : n \in S => n + 1 \in S
    PROVE  Nat \subseteq S
<1> SUFFICES ASSUME ~(Nat \subseteq S) PROVE FALSE
  OBVIOUS
<1> DEFINE T == {n \in Nat : n \notin S}
<1>1. T \in SUBSET Nat /\ T # {}
  OBVIOUS
<1>2. PICK n \in T : \A m \in T : n <= m
  BY <1>1, LeastNumber
<1>3. n # 0 /\ n \in Nat
  OBVIOUS
<1>4. n - 1 \in Nat /\ ~(n <= n - 1) /\ n - 1 + 1 = n
  BY <1>3
<1>5. n - 1 \in S
  BY <1>2, <1>4
<1> QED BY <1>4, <1>5

(* A function that is defined from one number to the next exists, and its
   values are where the steps lead. *)
LeadsTo(f, S, a, n, step) ==
    /\ f \in [0..n -> S] /\ f[0] = a
    /\ \A i \in 1..n : f[i] = step[i][f[i - 1]]

(* There are such functions, for steps of any kind. *)
LEMMA StepsExist ==
    ASSUME NEW S, NEW a, NEW n, NEW step,
           a \in S, n \in Nat, step \in [1..n -> [S -> S]]
    PROVE  \E f : LeadsTo(f, S, a, n, step)
<1> DEFINE Good(m, f) ==
             /\ f \in [0..m -> S] /\ f[0] = a
             /\ \A i \in 1..m : f[i] = step[i][f[i - 1]]
           T == {m \in Nat : m <= n => \E f : Good(m, f)}
<1>1. 0 \in T
  <2>1. Good(0, [i \in 0..0 |-> a])
    OBVIOUS
  <2> QED BY <2>1
<1>2. ASSUME NEW m \in Nat, m \in T PROVE m + 1 \in T
  <2> SUFFICES ASSUME m + 1 <= n PROVE \E f : Good(m + 1, f)
    OBVIOUS
  <2>1. PICK f : Good(m, f)
    BY <1>2
  <2> DEFINE next == step[m + 1][f[m]]
             g == [i \in 0..(m + 1) |-> IF i = m + 1 THEN next ELSE f[i]]
  <2>2. next \in S
    <3>1. step[m + 1] \in [S -> S] /\ f[m] \in S
      BY <2>1
    <3> QED BY <3>1
  <2>3. g \in [0..(m + 1) -> S] /\ g[0] = a
    BY <2>1, <2>2
  <2>4. ASSUME NEW i \in 1..(m + 1) PROVE g[i] = step[i][g[i - 1]]
    <3>1. g[i - 1] = f[i - 1]
      OBVIOUS
    <3>2. CASE i = m + 1
      <4>1. g[i] = next /\ i - 1 = m
        BY <3>2
      <4> QED BY <3>1, <3>2, <4>1
    <3>3. CASE i # m + 1
      <4>1. g[i] = f[i] /\ i \in 1..m
        BY <3>3
      <4> QED BY <2>1, <3>1, <4>1
    <3> QED BY <3>2, <3>3
  <2> QED BY <2>3, <2>4
<1> HIDE DEF T
<1>3. n \in T
  BY <1>1, <1>2, SetInduction
<1> QED BY <1>3 DEF T, LeadsTo

(* The digits have the values of the numbers they stand for. *)
LEMMA DigitValues ==
    /\ \A d \in Digit : DigitValue[d] \in 0..9
    /\ Nul \notin Digit
<1>1. DOMAIN Digits = 1..10
  BY DEF Digits
<1>2. ASSUME NEW d \in Digit PROVE DigitValue[d] \in 0..9
  <2>1. \E i \in 1..10 : Digits[i] = d
    BY <1>1 DEF Digit, Range
  <2>2. (CHOOSE i \in 1..10 : Digits[i] = d) \in 1..10
    BY <2>1
  <2>3. DigitValue[d] = (CHOOSE i \in 1..10 : Digits[i] = d) - 1
    BY DEF DigitValue
  <2> QED BY <2>2, <2>3
<1>3. Nul \notin Digit
  <2>1. ASSUME NEW i \in 1..10 PROVE Digits[i] # Nul
    BY DEF Digits, Nul
  <2> QED BY <1>1, <2>1 DEF Digit, Range
<1> QED BY <1>2, <1>3

(* The characters that have a use of their own in JSON. *)
Marks == Structural \cup {":", Comma}

(* The characters of a number have no other use in an object. *)
LEMMA NumberChars ==
    \A c \in Digit \cup {"-", "+", ".", "e", "E"} :
        c \notin Marks /\ c # Space
<1>1. DOMAIN Digits = 1..10
  BY DEF Digits
<1>2. ASSUME NEW i \in 1..10
      PROVE  Digits[i] \notin Marks /\ Digits[i] # Space
  <2>1. Digits[i] \in {"0", "1", "2", "3", "4", "5", "6", "7", "8", "9"}
    BY DEF Digits
  <2>2. \A c \in {"0", "1", "2", "3", "4", "5", "6", "7", "8", "9"} :
           c \notin Marks /\ c # Space
    BY DEF Marks, Structural, Quote, Backslash, Nul, Space, Comma,
       LBrace, RBrace
  <2> QED BY <2>1, <2>2
<1>3. \A c \in Digit : c \notin Marks /\ c # Space
  BY <1>1, <1>2 DEF Digit, Range
<1>4. \A c \in {"-", "+", ".", "e", "E"} : c \notin Marks /\ c # Space
  BY DEF Marks, Structural, Quote, Backslash, Nul, Space, Comma,
       LBrace, RBrace
<1> QED BY <1>3, <1>4

(* Digits make a natural number. *)
LEMMA NumberIsNat ==
    ASSUME NEW ds \in Seq(Digit)
    PROVE  Number(ds) \in Nat
<1> DEFINE n == Len(ds)
           Body(f) == [i \in 0..n |->
                         IF i = 0 THEN 0
                         ELSE 10 * f[i - 1] + DigitValue[ds[i]]]
           upto == CHOOSE f : f = Body(f)
           step == [i \in 1..n |-> [x \in Nat |-> 10 * x + DigitValue[ds[i]]]]
<1>1. Number(ds) = upto[n]
  BY DEF Number
<1>2. n \in Nat /\ \A i \in 1..n : DigitValue[ds[i]] \in Nat
  BY DigitValues
<1>3. step \in [1..n -> [Nat -> Nat]]
  BY <1>2
<1>4. \A i \in 1..n, x \in Nat : step[i][x] = 10 * x + DigitValue[ds[i]]
  OBVIOUS
<1> HIDE DEF step
<1>5. PICK f : LeadsTo(f, Nat, 0, n, step)
  BY <1>2, <1>3, StepsExist
<1>6. f = Body(f)
  <2>1. ASSUME NEW i \in 0..n PROVE f[i] = Body(f)[i]
    <3>1. CASE i = 0
      BY <1>5, <3>1 DEF LeadsTo
    <3>2. CASE i # 0
      <4>1. i \in 1..n /\ i - 1 \in 0..n
        BY <1>2, <3>2
      <4>2. f[i] = 10 * f[i - 1] + DigitValue[ds[i]]
        BY <1>4, <1>5, <4>1 DEF LeadsTo
      <4> QED BY <3>2, <4>2
    <3> QED BY <3>1, <3>2
  <2>2. Body(f) = [i \in 0..n |-> Body(f)[i]]
    OBVIOUS
  <2> HIDE DEF Body
  <2> QED BY <1>5, <2>1, <2>2 DEF LeadsTo
<1>7. upto = Body(upto)
  <2> HIDE DEF Body
  <2> QED BY <1>6
<1> HIDE DEF upto
<1>8. \A i \in 0..n : upto[i] = IF i = 0 THEN 0
                                ELSE 10 * upto[i - 1] + DigitValue[ds[i]]
  BY <1>7
<1> HIDE DEF n
<1> DEFINE T == {i \in Nat : i <= n => upto[i] \in Nat}
<1>9. 0 \in T
  <2>1. 0 \in 0..n
    BY <1>2
  <2>2. upto[0] = 0
    BY <1>8, <2>1
  <2> QED BY <2>2
<1>10. ASSUME NEW i \in Nat, i \in T PROVE i + 1 \in T
  <2> SUFFICES ASSUME i + 1 <= n PROVE upto[i + 1] \in Nat
    OBVIOUS
  <2>1. upto[i] \in Nat
    BY <1>2, <1>10
  <2>2. upto[i + 1] = 10 * upto[i] + DigitValue[ds[i + 1]]
    <3>1. i + 1 \in 0..n /\ i + 1 # 0 /\ (i + 1) - 1 = i
      BY <1>2
    <3>2. upto[i + 1] = 10 * upto[(i + 1) - 1] + DigitValue[ds[i + 1]]
      BY <1>8, <3>1
    <3> QED BY <3>1, <3>2
  <2>3. DigitValue[ds[i + 1]] \in Nat
    BY <1>2
  <2> QED BY <2>1, <2>2, <2>3
<1> HIDE DEF T
<1>11. n \in T
  BY <1>2, <1>9, <1>10, SetInduction
<1> QED BY <1>1, <1>2, <1>11 DEF T

(* What JSON writes of a text is text. *)
LEMMA EscapedIsSeq ==
    ASSUME NEW S, Quote \in S, Backslash \in S, NEW t \in Seq(S)
    PROVE  Escaped(t) \in Seq(S)
<1> DEFINE n == Len(t)
           part == [i \in DOMAIN t |->
                      IF t[i] \in {Quote, Backslash} THEN <<Backslash, t[i]>>
                                                     ELSE <<t[i]>>]
           Body(f) == [i \in 1..Len(part) |->
                         IF i = 1 THEN part[i] ELSE f[i - 1] \o part[i]]
           flatten == CHOOSE f : f = Body(f)
           step == [i \in 1..n |-> [x \in Seq(S) |-> x \o part[i]]]
<1>1. n \in Nat /\ DOMAIN t = 1..n
  OBVIOUS
<1>2. \A i \in 1..n : part[i] \in Seq(S)
  <2>1. ASSUME NEW i \in 1..n PROVE part[i] \in Seq(S)
    <3>1. t[i] \in S
      BY <1>1
    <3>2. <<Backslash, t[i]>> \in Seq(S) /\ <<t[i]>> \in Seq(S)
      BY <3>1
    <3> QED BY <1>1, <3>2
  <2> QED BY <2>1
<1>3. part \in Seq(Seq(S)) /\ Len(part) = n
  <2>1. part = [i \in 1..n |-> part[i]]
    BY <1>1
  <2> HIDE DEF part, n
  <2> QED BY <1>1, <1>2, <2>1, FunctionSeq
<1>4. Escaped(t) = IF n = 0 THEN part ELSE flatten[n]
  <2>1. Escaped(t) = FlattenSeq(part)
    BY DEF Escaped
  <2>2. FlattenSeq(part) = IF Len(part) = 0 THEN part ELSE flatten[Len(part)]
    <3> HIDE DEF part
    <3> QED BY DEF FlattenSeq
  <2> QED BY <1>3, <2>1, <2>2
<1> HIDE DEF part
<1>5. CASE n = 0
  <2>1. part = <<>>
    BY <1>3, <1>5
  <2> QED BY <1>4, <1>5, <2>1
<1>6. CASE n # 0
  <2>1. step \in [1..n -> [Seq(S) -> Seq(S)]]
    BY <1>1, <1>2
  <2>2. \A i \in 1..n, x \in Seq(S) : step[i][x] = x \o part[i]
    OBVIOUS
  <2> HIDE DEF step, n
  <2>3. <<>> \in Seq(S)
    OBVIOUS
  <2>a. PICK f : LeadsTo(f, Seq(S), <<>>, n, step)
    BY <1>1, <2>1, <2>3, StepsExist
  <2>4. /\ f \in [0..n -> Seq(S)] /\ f[0] = <<>>
        /\ \A i \in 1..n : f[i] = step[i][f[i - 1]]
    BY <2>a DEF LeadsTo
  <2> DEFINE g == [i \in 1..n |-> f[i]]
  <2>5. ASSUME NEW i \in 1..n
        PROVE  g[i] = IF i = 1 THEN part[i] ELSE g[i - 1] \o part[i]
    <3>1. f[i] = f[i - 1] \o part[i]
      <4>1. i \in 1..n /\ i - 1 \in 0..n
        BY <1>1
      <4>2. f[i - 1] \in Seq(S)
        BY <2>4, <4>1
      <4>3. f[i] = step[i][f[i - 1]]
        BY <2>4, <4>1
      <4> QED BY <2>2, <4>2, <4>3
    <3>2. CASE i = 1
      <4>1. f[i - 1] = <<>>
        BY <2>4, <3>2
      <4>2. <<>> \o part[i] = part[i]
        BY <1>2
      <4> QED BY <3>1, <3>2, <4>1, <4>2
    <3>3. CASE i # 1
      <4>1. g[i - 1] = f[i - 1]
        BY <1>1, <3>3
      <4> QED BY <3>1, <3>3, <4>1
    <3> QED BY <3>2, <3>3
  <2>6. g = Body(g)
    <3> HIDE DEF g
    <3>1. g = [i \in 1..n |-> g[i]]
      BY DEF g
    <3> QED BY <1>3, <2>5, <3>1
  <2>7. flatten = Body(flatten)
    <3> HIDE DEF Body
    <3> QED BY <2>6
  <2> HIDE DEF flatten
  <2>8. \A i \in 1..n : flatten[i] = IF i = 1 THEN part[i]
                                     ELSE flatten[i - 1] \o part[i]
    BY <1>3, <2>7
  <2> DEFINE T == {i \in Nat : i + 1 <= n => flatten[i + 1] \in Seq(S)}
  <2>9. 0 \in T
    <3>1. 1 \in 1..n
      BY <1>1, <1>6
    <3>2. flatten[1] = part[1]
      BY <2>8, <3>1
    <3>3. part[1] \in Seq(S)
      BY <1>2, <3>1
    <3> HIDE DEF part
    <3> QED BY <3>2, <3>3
  <2>10. ASSUME NEW i \in Nat, i \in T PROVE i + 1 \in T
    <3> SUFFICES ASSUME i + 1 + 1 <= n PROVE flatten[i + 1 + 1] \in Seq(S)
      OBVIOUS
    <3>1. flatten[i + 1] \in Seq(S)
      BY <1>1, <2>10
    <3>2. i + 1 + 1 \in 1..n /\ i + 1 + 1 # 1 /\ (i + 1 + 1) - 1 = i + 1
      BY <1>1
    <3>3. flatten[i + 1 + 1] = flatten[i + 1] \o part[i + 1 + 1]
      <4>1. flatten[i + 1 + 1] = flatten[(i + 1 + 1) - 1] \o part[i + 1 + 1]
        BY <2>8, <3>2
      <4> QED BY <3>2, <4>1
    <3>4. part[i + 1 + 1] \in Seq(S)
      BY <1>2, <3>2
    <3> HIDE DEF part
    <3> QED BY <3>1, <3>3, <3>4
  <2> HIDE DEF T
  <2>11. n - 1 \in T
    <3>1. n - 1 \in Nat
      BY <1>1, <1>6
    <3> QED BY <2>9, <2>10, <3>1, SetInduction
  <2>12. flatten[n] \in Seq(S)
    <3>1. n - 1 + 1 = n
      BY <1>1
    <3> QED BY <1>1, <2>11, <3>1 DEF T
  <2> QED BY <1>4, <1>6, <2>12
<1> QED BY <1>5, <1>6

-----------------------------------------------------------------------------
(* What the verifier takes off a value is what the prover put on it. *)

(* Texts with quotes and backslashes. *)
Chars == Bytes \cup {Quote, Backslash}

(* The texts that an issuer writes consist of them. *)
LEMMA CharsSeq ==
    /\ Quote \in Chars /\ Backslash \in Chars /\ Nul \in Chars
    /\ Seq(STRING) \subseteq Seq(Chars)
<1>1. Bytes \subseteq Chars /\ Quote \in Chars /\ Backslash \in Chars
  BY DEF Chars
<1>2. Nul \in Chars
  BY <1>1, BytesMembers
<1>3. STRING \subseteq Chars
  BY <1>1, BytesMembers
<1>4. ASSUME NEW S, NEW U, S \subseteq U PROVE Seq(S) \subseteq Seq(U)
  BY <1>4
<1> QED BY <1>1, <1>2, <1>3, <1>4

(* Two sequences with the same length and elements are the same. *)
LEMMA SameSeq ==
    ASSUME NEW S, NEW s \in Seq(S), NEW t \in Seq(S), Len(s) = Len(t),
           \A i \in 1..Len(s) : s[i] = t[i]
    PROVE  s = t
OBVIOUS

(* A quoted text has the text between its quotes. *)
LEMMA QuotedParts ==
    ASSUME NEW S, Quote \in S, NEW t \in Seq(S)
    PROVE  /\ Quoted(t) \in Seq(S) /\ Len(Quoted(t)) = Len(t) + 2
           /\ Quoted(t)[1] = Quote /\ Quoted(t)[Len(t) + 2] = Quote
           /\ \A i \in 1..Len(t) : Quoted(t)[i + 1] = t[i]
<1> DEFINE q == <<Quote>>
           u == q \o t
<1>1. q \in Seq(S) /\ Len(q) = 1 /\ q[1] = Quote
  OBVIOUS
<1> HIDE DEF q
<1>2. /\ u \in Seq(S) /\ Len(u) = 1 + Len(t)
      /\ u[1] = Quote
      /\ \A i \in 1..Len(t) : u[i + 1] = t[i]
  <2>1. /\ u \in Seq(S) /\ Len(u) = 1 + Len(t)
        /\ \A i \in 1..1 : u[i] = q[i]
        /\ \A i \in 1..Len(t) : u[1 + i] = t[i]
    BY <1>1, ConcatIndex
  <2>2. \A i \in 1..Len(t) : 1 + i = i + 1
    OBVIOUS
  <2> HIDE DEF u
  <2> QED BY <1>1, <2>1, <2>2
<1> HIDE DEF u
<1>3. /\ u \o q \in Seq(S) /\ Len(u \o q) = Len(t) + 2
      /\ (u \o q)[1] = Quote /\ (u \o q)[Len(t) + 2] = Quote
      /\ \A i \in 1..Len(t) : (u \o q)[i + 1] = t[i]
  <2> DEFINE v == u \o q
  <2>0. u \in Seq(S) /\ q \in Seq(S)
    BY <1>1, <1>2
  <2>1. /\ v \in Seq(S) /\ Len(v) = Len(u) + 1
        /\ \A i \in 1..Len(u) : v[i] = u[i]
        /\ \A i \in 1..1 : v[Len(u) + i] = q[i]
    <3>1. /\ v \in Seq(S) /\ Len(v) = Len(u) + Len(q)
          /\ \A i \in 1..Len(u) : v[i] = u[i]
          /\ \A i \in 1..Len(q) : v[Len(u) + i] = q[i]
      BY ONLY <2>0, ConcatIndex
    <3> HIDE DEF v
    <3> QED BY <1>1, <3>1
  <2> HIDE DEF v
  <2>2. Len(t) \in Nat
    OBVIOUS
  <2>3. v[Len(u) + 1] = q[1] /\ Len(u) + 1 = Len(t) + 2
    BY <1>2, <2>1, <2>2
  <2>4. v[1] = u[1] /\ \A i \in 1..Len(t) : v[i + 1] = u[i + 1]
    BY <1>2, <2>1, <2>2
  <2>5. v \in Seq(S) /\ Len(v) = Len(t) + 2 /\ v[1] = Quote
        /\ v[Len(t) + 2] = Quote /\ \A i \in 1..Len(t) : v[i + 1] = t[i]
    BY <1>1, <1>2, <2>1, <2>2, <2>3, <2>4
  <2> QED BY <2>5 DEF v
<1>4. Quoted(t) = u \o q
  BY DEF Quoted, u, q
<1> QED BY <1>3, <1>4

(* The quotes that are put on a text are those that are taken off. *)
LEMMA StripQuoted ==
    ASSUME NEW S, Quote \in S, NEW t \in Seq(S)
    PROVE  strip_quotes(Quoted(t)) = t
<1> DEFINE q == Quoted(t)
           open == Tail(q)
<1>1. /\ q \in Seq(S) /\ Len(q) = Len(t) + 2 /\ Len(t) \in Nat
      /\ q[1] = Quote /\ q[Len(t) + 2] = Quote
      /\ \A i \in 1..Len(t) : q[i + 1] = t[i]
  BY QuotedParts
<1> HIDE DEF q
<1>2. q # <<>> /\ Head(q) = Quote
  BY <1>1
<1>3. /\ open \in Seq(S) /\ Len(open) = Len(q) - 1
      /\ \A i \in 1..Len(open) : open[i] = q[i + 1]
  BY <1>1, <1>2, HeadTailProperties
<1> HIDE DEF open
<1>4. Len(open) = Len(t) + 1 /\ open # <<>>
  BY <1>1, <1>3
<1>5. Last(open) = Quote
  BY <1>1, <1>3, <1>4 DEF Last
<1>6. Front(open) = t
  <2>1. Front(open) = SubSeq(open, 1, Len(t))
    BY <1>1, <1>4 DEF Front
  <2>2. /\ SubSeq(open, 1, Len(t)) \in Seq(S)
        /\ Len(SubSeq(open, 1, Len(t))) = Len(t)
        /\ \A i \in 1..Len(t) : SubSeq(open, 1, Len(t))[i] = open[i]
    BY <1>1, <1>3, <1>4
  <2> QED BY <1>1, <1>3, <1>4, <2>1, <2>2, SameSeq
<1>7. strip_quotes(q) = Front(open)
  BY <1>2, <1>4, <1>5 DEF strip_quotes, open
<1> QED BY <1>6, <1>7 DEF q

(* A text without quotes stays as it is. *)
LEMMA StripPlain ==
    ASSUME NEW S, NEW t \in Seq(S), Quote \notin Range(t)
    PROVE  strip_quotes(t) = t
<1>1. CASE t = <<>>
  BY <1>1 DEF strip_quotes
<1>2. CASE t # <<>>
  <2>1. Len(t) \in Nat /\ Len(t) >= 1 /\ DOMAIN t = 1..Len(t)
    BY <1>2
  <2>2. \A i \in DOMAIN t : t[i] # Quote
    BY DEF Range
  <2>3. Head(t) = t[1]
    BY <1>2
  <2>4. Head(t) # Quote /\ Last(t) # Quote
    BY <2>1, <2>2, <2>3 DEF Last
  <2> QED BY <1>2, <2>4 DEF strip_quotes
<1> QED BY <1>1, <1>2

(* And the zero bytes that fill a text up are those that are cut off. *)
LEMMA TrimmedUpTo ==
    ASSUME NEW S, NEW t \in Seq(S), NEW m \in 0..Len(t),
           \A i \in 1..m : t[i] # Nul,
           \A i \in (m + 1)..Len(t) : t[i] = Nul
    PROVE  Trimmed(t) = SubSeq(t, 1, m)
<1> DEFINE used == {i \in DOMAIN t : t[i] # Nul}
<1>1. used = 1..m
  <2>1. DOMAIN t = 1..Len(t) /\ Len(t) \in Nat
    OBVIOUS
  <2> QED BY <2>1
<1>2. Trimmed(t) = IF used = {} THEN <<>> ELSE SubSeq(t, 1, Max(used))
  BY DEF Trimmed
<1> HIDE DEF used
<1>3. m \in Nat
  OBVIOUS
<1>4. CASE m = 0
  <2>1. used = {}
    BY <1>1, <1>4
  <2>2. SubSeq(t, 1, m) = <<>>
    BY <1>4
  <2> QED BY <1>2, <2>1, <2>2
<1>5. CASE m # 0
  <2>1. m \in used /\ \A i \in used : m >= i
    BY <1>1, <1>3, <1>5
  <2>2. \A x \in used : (\A y \in used : x >= y) => x = m
    BY <1>1, <1>3, <2>1
  <2>3. Max(used) = m
    BY <2>1, <2>2 DEF Max
  <2> QED BY <1>2, <2>1, <2>3
<1> QED BY <1>4, <1>5

(* So what a text was filled up with is cut off. *)
LEMMA TrimmedPack ==
    ASSUME NEW S, Nul \in S, NEW t \in Seq(S), NEW n \in Nat, Len(t) <= n,
           \A i \in 1..Len(t) : t[i] # Nul
    PROVE  Trimmed(Pack(t, n)) = t
<1> DEFINE fill == [i \in 1..(n - Len(t)) |-> Nul]
           p == t \o fill
<1>1. Pack(t, n) = p
  BY DEF Pack
<1>2. Len(t) \in Nat /\ n - Len(t) \in Nat
  OBVIOUS
<1>3. /\ fill \in Seq(S) /\ Len(fill) = n - Len(t)
      /\ \A i \in 1..(n - Len(t)) : fill[i] = Nul
  BY <1>2
<1> HIDE DEF fill
<1>4. /\ p \in Seq(S) /\ Len(p) = n
      /\ \A i \in 1..Len(t) : p[i] = t[i]
      /\ \A i \in 1..(n - Len(t)) : p[Len(t) + i] = Nul
  BY <1>2, <1>3
<1> HIDE DEF p
<1>5. ASSUME NEW i \in (Len(t) + 1)..n PROVE p[i] = Nul
  <2> DEFINE k == i - Len(t)
  <2>1. k \in 1..(n - Len(t)) /\ Len(t) + k = i
    BY <1>2
  <2> HIDE DEF k
  <2> QED BY <1>4, <2>1
<1>6. Trimmed(p) = SubSeq(p, 1, Len(t))
  <2>1. Len(t) \in 0..Len(p)
    BY <1>2, <1>4
  <2>2. \A i \in 1..Len(t) : p[i] # Nul
    BY <1>4
  <2>3. \A i \in (Len(t) + 1)..Len(p) : p[i] = Nul
    BY <1>4, <1>5
  <2> QED BY <1>4, <2>1, <2>2, <2>3, TrimmedUpTo
<1>7. SubSeq(p, 1, Len(t)) = t
  <2>1. /\ SubSeq(p, 1, Len(t)) \in Seq(S)
        /\ Len(SubSeq(p, 1, Len(t))) = Len(t)
        /\ \A i \in 1..Len(t) : SubSeq(p, 1, Len(t))[i] = p[i]
    BY <1>2, <1>4
  <2> QED BY <1>4, <2>1, SameSeq
<1> QED BY <1>1, <1>6, <1>7

(* get_domain finds what follows the first @. *)
LEMMA DomainIsDomain ==
    ASSUME NEW S, NEW t \in Seq(S), Places(t, <<"@">>, 0) # {}
    PROVE  /\ get_domain(t) = Domain(t)
           /\ \E k \in 1..Len(t) : Domain(t) = SubSeq(t, k + 1, Len(t))
<1> DEFINE places == Places(t, <<"@">>, 0)
           at == AtPlaces(t)
<1>1. Len(t) \in Nat /\ DOMAIN t = 1..Len(t)
  OBVIOUS
<1>2. \A i \in 0..(Len(t) - 1) : SubSeq(t, i + 1, i + 1) = <<t[i + 1]>>
  <2> SUFFICES ASSUME NEW i \in 0..(Len(t) - 1)
               PROVE  SubSeq(t, i + 1, i + 1) = <<t[i + 1]>>
    OBVIOUS
  <2>1. i + 1 \in 1..Len(t) /\ t[i + 1] \in S
    BY <1>1
  <2>2. /\ SubSeq(t, i + 1, i + 1) \in Seq(S)
        /\ Len(SubSeq(t, i + 1, i + 1)) = 1
        /\ SubSeq(t, i + 1, i + 1)[1] = t[i + 1]
    BY <1>1, <2>1
  <2>3. <<t[i + 1]>> \in Seq(S) /\ Len(<<t[i + 1]>>) = 1
        /\ <<t[i + 1]>>[1] = t[i + 1]
    BY <2>1
  <2> DEFINE s == SubSeq(t, i + 1, i + 1)
             c == <<t[i + 1]>>
  <2>4. /\ s \in Seq(S) /\ c \in Seq(S) /\ Len(s) = Len(c)
        /\ \A k \in 1..Len(s) : s[k] = c[k]
    <3>1. s \in Seq(S) /\ Len(s) = 1 /\ s[1] = t[i + 1]
      BY <2>2
    <3>2. c \in Seq(S) /\ Len(c) = 1 /\ c[1] = t[i + 1]
      BY <2>3
    <3> HIDE DEF s, c
    <3> QED BY <3>1, <3>2
  <2> HIDE DEF s, c
  <2>5. s = c
    BY <2>4, SameSeq
  <2> QED BY <2>5 DEF s, c
<1>3. places = {i \in 0..(Len(t) - 1) : t[i + 1] = "@"}
  <2>1. Len(<<"@">>) = 1
    OBVIOUS
  <2>2. \A i \in 0..(Len(t) - 1) :
          <<t[i + 1]>> = <<"@">> <=> t[i + 1] = "@"
    OBVIOUS
  <2> QED BY <1>2, <2>1, <2>2 DEF Places
<1>4. at = {i \in 1..Len(t) : t[i] = "@"}
  BY <1>1 DEF AtPlaces
<1>5. \A i \in Int : i \in places <=> i + 1 \in at
  BY <1>1, <1>3, <1>4
<1>6. at \in SUBSET Nat /\ at # {} /\ places \in SUBSET Nat
  BY <1>3, <1>4, <1>5
<1> HIDE DEF places, at
<1>7. PICK k \in at : \A i \in at : k <= i
  BY <1>6, LeastNumber
<1>8. k \in 1..Len(t)
  BY <1>4, <1>7
<1>9. Min(at) = k
  <2>1. \A x \in at : (\A y \in at : x =< y) => x = k
    BY <1>6, <1>7
  <2> QED BY <1>7, <2>1 DEF Min
<1>10. Min(places) = k - 1
  <2>1. k - 1 \in places
    BY <1>5, <1>7, <1>8
  <2>2. \A i \in places : k - 1 =< i
    BY <1>5, <1>6, <1>7, <1>8
  <2>3. \A x \in places : (\A y \in places : x =< y) => x = k - 1
    BY <1>6, <1>8, <2>1, <2>2
  <2> QED BY <2>1, <2>2, <2>3 DEF Min
<1>11. get_domain(t) = SubSeq(t, k - 1 + 2, Len(t))
  BY <1>10 DEF get_domain, places
<1>12. Domain(t) = SubSeq(t, k + 1, Len(t))
  BY <1>6, <1>9 DEF Domain, at
<1>13. k - 1 + 2 = k + 1
  BY <1>8
<1> QED BY <1>8, <1>11, <1>12, <1>13

-----------------------------------------------------------------------------
(* What the circuit reads and the verifier is shown. *)

(* What a number's value must be for the circuit to read it: digits up to
   the place that the prover gives, among the bytes of the text. *)
LEMMA DigitsRead ==
    ASSUME NEW bytes, NEW l \in Nat, NEW r \in Nat, NEW max \in Nat \ {0},
           l < r, \A i \in l..(r - 1) : At(bytes, i) \in Digit
    PROVE  AsciiDigitsToField(RevealedBytes(bytes, l, r, max)) \in Nat
<1> DEFINE t == RevealedBytes(bytes, l, r, max)
           m == IF max <= r - l THEN max ELSE r - l
           S == Digit \cup {Nul}
<1>1. m \in Nat /\ m <= max /\ m <= r - l /\ (m = max \/ m = r - l)
  OBVIOUS
<1> HIDE DEF m
<1>2. t = [i \in 1..max |-> t[i]]
  BY DEF RevealedBytes
<1>3. ASSUME NEW i \in 1..max
      PROVE  /\ i <= m => t[i] \in Digit
             /\ i > m => t[i] = Nul
  <2>1. t[i] = IF l + i - 1 < r THEN At(bytes, l + i - 1) ELSE Nul
    BY DEF RevealedBytes
  <2>2. l + i - 1 \in Nat /\ l + i - 1 >= l
    OBVIOUS
  <2>3. i <= m => l + i - 1 < r /\ l + i - 1 \in l..(r - 1)
    BY <1>1, <2>2
  <2>4. i > m => ~(l + i - 1 < r)
    BY <1>1, <2>2
  <2> HIDE DEF t
  <2> QED BY <2>1, <2>3, <2>4
<1> HIDE DEF t
<1>4. t \in Seq(S) /\ Len(t) = max
  <2>1. \A i \in 1..max : t[i] \in S
    BY <1>1, <1>3
  <2> HIDE DEF S
  <2> QED BY <1>2, <2>1, FunctionSeq
<1>5. Trimmed(t) = SubSeq(t, 1, m)
  <2>1. m \in 0..Len(t)
    BY <1>1, <1>4
  <2>2. \A i \in 1..m : t[i] # Nul
    BY <1>1, <1>3, DigitValues
  <2>3. \A i \in (m + 1)..Len(t) : t[i] = Nul
    BY <1>1, <1>3, <1>4
  <2> HIDE DEF S
  <2> QED BY <1>4, <2>1, <2>2, <2>3, TrimmedUpTo
<1>6. SubSeq(t, 1, m) \in Seq(Digit)
  <2> DEFINE s == SubSeq(t, 1, m)
  <2> HIDE DEF S
  <2>1. /\ s \in Seq(S) /\ Len(s) = m
        /\ \A i \in 1..m : s[i] = t[i]
    BY <1>1, <1>4
  <2>2. \A i \in 1..m : s[i] \in Digit
    BY <1>1, <1>3, <2>1
  <2>3. s = [i \in 1..m |-> s[i]]
    <3> HIDE DEF s
    <3> QED BY <2>1
  <2> HIDE DEF s
  <2>4. s \in Seq(Digit)
    BY <1>1, <2>2, <2>3, FunctionSeq
  <2> QED BY <2>4 DEF s
<1>7. Number(Trimmed(t)) \in Nat
  BY <1>5, <1>6, NumberIsNat
<1>8. AsciiDigitsToField(t) \in Nat
  BY <1>7 DEF AsciiDigitsToField
<1> QED BY <1>8 DEF t

(* No domain that the circuit reveals has a quote. *)
LEMMA DomainUnquoted ==
    ASSUME NEW n \in Nat \ {0}, NEW text, text = [i \in 1..n |-> text[i]]
    PROVE  /\ Len(RevealDomainOnly(text)) = n
           /\ \A i \in 1..n : RevealDomainOnly(text)[i] # Quote
<1> DEFINE X == {text[i] : i \in 1..n}
           Y == (X \ {Quote}) \cup {Nul}
           plain == StripQuotes(text)
           at == IF AtSigns(text) = {} THEN Len(text) ELSE Min(AtSigns(text))
           dom == SubSeq(plain, at + 1, Len(text) - 1)
           fill == [i \in 1..(Len(text) - Len(dom)) |-> Nul]
<1>1. Len(text) = n /\ DOMAIN text = 1..n
  <2>1. \A i \in 1..n : text[i] \in X
    OBVIOUS
  <2> HIDE DEF X
  <2> QED BY <2>1, FunctionSeq
<1>2. Nul # Quote /\ Quote \notin Y /\ Nul \in Y
  <2>1. Nul # Quote
    BY DEF Nul, Quote
  <2> QED BY <2>1
<1>3. plain \in Seq(Y) /\ Len(plain) = n
  <2>1. plain = [i \in 1..n |-> plain[i]]
    BY <1>1 DEF StripQuotes
  <2>2. \A i \in 1..n : plain[i] \in Y
    <3>1. ASSUME NEW i \in 1..n PROVE plain[i] \in Y
      <4>1. plain[i] = IF text[i] = Quote THEN Nul ELSE text[i]
        BY <1>1 DEF StripQuotes
      <4>2. text[i] \in X
        OBVIOUS
      <4> QED BY <4>1, <4>2
    <3> QED BY <3>1
  <2> HIDE DEF plain, Y
  <2> QED BY <2>1, <2>2, FunctionSeq
<1>4. at \in Nat
  <2>1. CASE AtSigns(text) = {}
    BY <1>1, <2>1
  <2>2. CASE AtSigns(text) # {}
    <3>1. AtSigns(text) \in SUBSET Nat
      BY <1>1 DEF AtSigns
    <3>2. PICK k \in AtSigns(text) : \A i \in AtSigns(text) : k <= i
      BY <2>2, <3>1, LeastNumber
    <3>3. Min(AtSigns(text)) \in AtSigns(text)
      BY <3>2 DEF Min
    <3> QED BY <2>2, <3>1, <3>3
  <2> QED BY <2>1, <2>2
<1>5. RevealDomainOnly(text) = dom \o fill
  BY DEF RevealDomainOnly, Pack
<1> HIDE DEF X, Y, plain, at
<1>6. dom \in Seq(Y) /\ Len(dom) \in Nat /\ Len(dom) <= n
  BY <1>1, <1>3, <1>4
<1> HIDE DEF dom
<1>7. fill \in Seq(Y) /\ Len(fill) = n - Len(dom)
  <2>1. n - Len(dom) \in Nat
    BY <1>6
  <2>2. \A i \in 1..(n - Len(dom)) : fill[i] \in Y
    BY <1>1, <1>2
  <2>3. fill = [i \in 1..(n - Len(dom)) |-> fill[i]]
    BY <1>1
  <2> HIDE DEF fill
  <2> QED BY <2>1, <2>2, <2>3, FunctionSeq
<1> HIDE DEF fill
<1>8. dom \o fill \in Seq(Y) /\ Len(dom \o fill) = n
  BY <1>6, <1>7
<1> DEFINE d == dom \o fill
<1>9. d \in Seq(Y) /\ Len(d) = n
  BY <1>8
<1> HIDE DEF d
<1>10. \A i \in 1..n : d[i] \in Y
  BY <1>9
<1> QED BY <1>2, <1>5, <1>9, <1>10 DEF d

(* The digits that the prover finds are those that the circuit reads. *)
LEMMA NumberRead ==
    ASSUME NEW token, NEW c \in Config,
           c.type = "number", c.form = "reveal",
           token.header \in Seq(Bytes), token.payload \in Seq(Bytes),
           Prepares(token, c), Main(prepare_prover_inputs(token, c), c)
    PROVE  LET in == prepare_prover_inputs(token, c)
               l == in.l + Len(NameTemplate(c))
           IN  AsciiDigitsToField(RevealedBytes(
                   JWTB64Decode(in.message, in.period_idx), l, in.r, c.max))
                 \in Nat
<1> DEFINE msg == HeaderAndPayload(token)
           bytes == JWTB64Decode(Message(token), period_idx(token))
           first == Min(NamePlaces(msg, c))
           start == ValueStart(msg, c)
           end == NumberEnd(msg, c)
           in == prepare_prover_inputs(token, c)
           l == in.l + Len(NameTemplate(c))
<1>1. /\ in.message = Message(token) /\ in.period_idx = period_idx(token)
      /\ in.l = first /\ in.r = end
  BY DEF prepare_prover_inputs, find_value_interval
<1>a. msg \in Seq(Bytes)
  <2>1. base_64_decoded_header_padding(period_idx(token)) \in Seq(Bytes)
    <3>1. period_idx(token) = EncodedLen(Len(token.header))
      BY EncodedType DEF period_idx
    <3>2. Len(token.header) \in Nat
      OBVIOUS
    <3> QED BY <3>1, <3>2, HeaderFill
  <2>2. \A s, t, u \in Seq(Bytes) : s \o t \o u \in Seq(Bytes)
    OBVIOUS
  <2> QED BY <2>1, <2>2, Zenon DEF HeaderAndPayload
<1>b. Quoted(c.name) \in Seq(Chars) /\ Len(c.name) \in Nat
      /\ Len(Quoted(c.name)) = Len(c.name) + 2
  <2>1. c.name \in Seq(STRING) /\ c.name \in Seq(Chars)
    BY ConfigAssumption, CharsSeq
  <2> QED BY <2>1, CharsSeq, QuotedParts
<1>2. first \in Nat
  <2>1. NamePlaces(msg, c) # {} /\ NamePlaces(msg, c) \in SUBSET Nat
    <3>1. NamePlaces(msg, c) # {}
      BY DEF Prepares, FoundInterval
    <3>2. Len(msg) - Len(Quoted(c.name)) \in Int
      BY <1>a, <1>b
    <3> HIDE DEF msg
    <3>3. NamePlaces(msg, c) \in SUBSET Nat
      BY <3>2 DEF NamePlaces, Places
    <3> QED BY <3>1, <3>3
  <2>2. PICK k \in NamePlaces(msg, c) : \A i \in NamePlaces(msg, c) : k <= i
    BY <2>1, LeastNumber
  <2>3. first \in NamePlaces(msg, c)
    BY <2>2 DEF Min
  <2> QED BY <2>1, <2>3
<1>3. l = start + 1 /\ start \in Nat
  <2>3. Len(NameTemplate(c)) = Len(c.name) + 2 + 1
    <3> DEFINE q == Quoted(c.name)
               U == Chars \cup {":"}
    <3>1. q \in Seq(U) /\ <<":">> \in Seq(U) /\ Len(<<":">>) = 1
      BY <1>b
    <3>2. NameTemplate(c) = q \o <<":">>
      BY DEF NameTemplate
    <3>3. Len(q) = Len(c.name) + 2
      BY <1>b
    <3> HIDE DEF q, U
    <3>4. Len(q \o <<":">>) = Len(q) + Len(<<":">>)
      BY <3>1
    <3> QED BY <3>1, <3>2, <3>3, <3>4
  <2>4. start = first + Len(c.name) + 2
    BY DEF ValueStart
  <2>5. in.l = first
    BY <1>1
  <2> HIDE DEF first, start, in
  <2> QED BY <1>2, <1>b, <2>3, <2>4, <2>5
<1>4. l < end
  <2>1. c.form # "hidden"
    OBVIOUS
  <2>2. RevealsBytes(JWTB64Decode(in.message, in.period_idx), l, in.r, c.type)
    BY <2>1 DEF Main
  <2>3. l < in.r
    BY <2>2 DEF RevealsBytes, IntervalIndicator
  <2> QED BY <1>1, <2>3
<1>5. IsPrefix(msg, bytes)
  BY DecodedPrefix DEF Prepares
<1>6. bytes = [j \in 1..JsonLen |-> bytes[j]]
  BY DEF JWTB64Decode, Base64Decode
<1>7. AsciiDigitsToField(RevealedBytes(bytes, l, end, c.max)) \in Nat
  <2> DEFINE ends == {i \in (start + 1)..(Len(msg) - 1) :
                         At(msg, i) \notin Digit}
  <2>1. end = IF ends = {} THEN 0 ELSE Min(ends)
    BY DEF NumberEnd
  <2>2. Len(msg) \in Nat /\ Len(msg) <= Len(bytes)
        /\ \A i \in 1..Len(msg) : bytes[i] = msg[i]
    <3> DEFINE X == {bytes[j] : j \in 1..JsonLen}
    <3> HIDE DEF msg, bytes
    <3>1. bytes \in Seq(X) /\ Len(bytes) = JsonLen
      <4>1. JsonLen \in Nat
        BY BlockAssumption DEF JsonLen
      <4>2. \A i \in 1..JsonLen : bytes[i] \in X
        OBVIOUS
      <4> HIDE DEF X
      <4> QED BY <1>6, <4>1, <4>2, FunctionSeq
    <3> HIDE DEF X
    <3>2. /\ Len(msg) <= Len(bytes)
          /\ SubSeq(msg, 1, Len(msg)) = SubSeq(bytes, 1, Len(msg))
      BY <1>5 DEF IsPrefix
    <3>3. Len(msg) \in Nat
          /\ \A i \in 1..Len(msg) : SubSeq(msg, 1, Len(msg))[i] = msg[i]
      BY <1>a
    <3>4. \A i \in 1..Len(msg) : SubSeq(bytes, 1, Len(msg))[i] = bytes[i]
      BY <3>1, <3>2, <3>3
    <3> QED BY <3>2, <3>3, <3>4
  <2> HIDE DEF msg, bytes, start, end, in
  <2>3. l \in Nat
    BY <1>3
  <2>4. ends # {} /\ ends \in SUBSET Nat
    <3>1. ends \in SUBSET Nat
      BY <1>3, <2>2
    <3> HIDE DEF l, ends
    <3> QED BY <1>4, <2>1, <2>3, <3>1
  <2>5. PICK k \in ends : \A i \in ends : k <= i
    BY <2>4, LeastNumber
  <2>6. end = k
    <3>1. \A x \in ends : (\A y \in ends : x =< y) => x = k
      BY <2>4, <2>5
    <3> HIDE DEF ends
    <3> QED BY <2>1, <2>4, <2>5, <3>1 DEF Min
  <2>7. k \in Nat /\ k <= Len(msg) - 1
    BY <1>3, <2>2
  <2>8. ASSUME NEW i \in l..(k - 1) PROVE At(bytes, i) \in Digit
    <3>1. i \in (start + 1)..(Len(msg) - 1) /\ ~(k <= i)
      BY <1>3, <2>2, <2>3, <2>7
    <3>2. At(msg, i) \in Digit
      BY <2>5, <3>1
    <3>3. i + 1 \in 1..Len(msg)
      BY <1>3, <2>2, <3>1
    <3>4. bytes[i + 1] = msg[i + 1]
      BY <2>2, <3>3
    <3> QED BY <3>2, <3>4 DEF At
  <2>9. c.max \in Nat \ {0}
    BY ConfigAssumption
  <2>10. l < k
    BY <1>4, <2>6
  <2> HIDE DEF l, ends
  <2>11. AsciiDigitsToField(RevealedBytes(bytes, l, k, c.max)) \in Nat
    BY <2>3, <2>7, <2>8, <2>9, <2>10, DigitsRead
  <2> QED BY <2>6, <2>11
<1> HIDE DEF bytes, end, in
<1>9. bytes = JWTB64Decode(in.message, in.period_idx) /\ in.r = end
  BY <1>1 DEF bytes
<1> HIDE DEF l
<1>10. AsciiDigitsToField(RevealedBytes(
           JWTB64Decode(in.message, in.period_idx), l, in.r, c.max)) \in Nat
  BY <1>7, <1>9
<1> QED BY <1>10 DEF in, l

(* What a token in a stage has come through: it was prepared, its inputs
   satisfy the circuit, the proof has its output, and it is shown what
   verify_show unpacks of it. *)
FlowInv ==
    /\ config \in Config
    /\ claims \in Seq({m \in Member : Typed(m)})
    /\ stage \in {"prepared", "proved", "accepted"} =>
         /\ Prepares(Token, config)
         /\ inputs = <<prepare_prover_inputs(Token, config)>>
    /\ stage \in {"proved", "accepted"} =>
         /\ Main(inputs[1], config)
         /\ public = Output(inputs[1], config)
    /\ stage = "accepted" => Opens /\ shown = Learned

(* That is inductive: no step changes what an earlier one has left. *)
LEMMA FlowInvInvariant == Spec => []FlowInv
<1>1. Init => FlowInv
  BY DEF Init, FlowInv
<1>2. FlowInv /\ [Next]_vars => FlowInv'
  <2> SUFFICES ASSUME FlowInv, [Next]_vars PROVE FlowInv'
    OBVIOUS
  <2>1. ASSUME NEW m \in Member, Issue(m) PROVE FlowInv'
    <3>1. /\ stage = "issuing" /\ Typed(m) /\ claims' = Append(claims, m)
          /\ config' = config /\ stage' = stage
      BY <2>1 DEF Issue
    <3>2. {k \in Member : Typed(k)}' = {k \in Member : Typed(k)}
      BY <3>1 DEF Typed
    <3> DEFINE S == {k \in Member : Typed(k)}
    <3>3. claims \in Seq(S) /\ m \in S
      BY <3>1 DEF FlowInv
    <3> HIDE DEF S
    <3>4. claims' \in Seq(S)
      BY <3>1, <3>3
    <3>5. claims' \in Seq({k \in Member : Typed(k)}')
      BY <3>2, <3>4 DEF S
    <3> QED BY <3>1, <3>5 DEF FlowInv
  <2>2. CASE ~(\E m \in Member : Issue(m))
    <3>1. UNCHANGED issued
      BY <2>2 DEF Next, PrepareSucceeds, PrepareFails, ProveSucceeds,
                  ProveFails, VerifyAccepts, VerifyRefuses, vars
    <3>2. /\ config' = config /\ claims' = claims /\ Token' = Token
          /\ {k \in Member : Typed(k)}' = {k \in Member : Typed(k)}
      BY <3>1 DEF issued, Token, Typed
    <3>3. config' \in Config /\ (claims \in Seq({m \in Member : Typed(m)}))'
      BY <3>2 DEF FlowInv
    <3>4. CASE PrepareSucceeds
      BY <3>2, <3>3, <3>4 DEF FlowInv, PrepareSucceeds
    <3>5. CASE PrepareFails
      BY <3>2, <3>3, <3>5 DEF FlowInv, PrepareFails
    <3>6. CASE ProveSucceeds
      BY <3>2, <3>3, <3>6 DEF FlowInv, ProveSucceeds
    <3>7. CASE ProveFails
      BY <3>2, <3>3, <3>7 DEF FlowInv, ProveFails
    <3>8. CASE VerifyAccepts
      <4>1. /\ inputs' = inputs /\ public' = public /\ config' = config
            /\ Opens /\ shown' = Learned /\ stage = "proved"
            /\ stage' = "accepted"
        BY <3>2, <3>8 DEF VerifyAccepts
      <4>2. Opens' /\ Learned' = Learned
        BY <4>1 DEF Opens, Learned, Preimage
      <4> QED BY <3>2, <3>3, <4>1, <4>2 DEF FlowInv
    <3>9. CASE VerifyRefuses
      BY <3>2, <3>3, <3>9 DEF FlowInv, VerifyRefuses
    <3>10. CASE UNCHANGED vars
      <4>1. /\ inputs' = inputs /\ public' = public /\ config' = config
            /\ shown' = shown /\ stage' = stage
        BY <3>2, <3>10 DEF vars
      <4>2. Opens' = Opens /\ Learned' = Learned
        BY <4>1 DEF Opens, Learned, Preimage
      <4> QED BY <3>2, <3>3, <4>1, <4>2 DEF FlowInv
    <3> QED BY <2>2, <3>4, <3>5, <3>6, <3>7, <3>8, <3>9, <3>10 DEF Next
  <2> QED BY <2>1, <2>2
<1> QED BY <1>1, <1>2, PTL DEF Spec

(* The claim is absent, or the value of a member of the claim's type. *)
LEMMA ClaimKnown ==
    ASSUME FlowInv
    PROVE  \/ Claim = Null
           \/ \E m \in Member : Claim = m.value /\ m.value.kind = config.type
<1> DEFINE at == {i \in DOMAIN claims : claims[i].name = config.name}
<1>1. Claim = IF \E i \in DOMAIN claims : claims[i].name = config.name
              THEN claims[CHOOSE i \in DOMAIN claims :
                              claims[i].name = config.name].value
              ELSE Null
  BY DEF Claim, ClaimOf
<1>2. CASE \E i \in DOMAIN claims : claims[i].name = config.name
  <2> DEFINE k == CHOOSE i \in DOMAIN claims : claims[i].name = config.name
  <2>1. k \in DOMAIN claims /\ claims[k].name = config.name
    BY <1>2
  <2>2. Claim = claims[k].value
    BY <1>1, <1>2
  <2> HIDE DEF k
  <2>3. claims[k] \in {m \in Member : Typed(m)}
    BY <2>1 DEF FlowInv
  <2>4. claims[k] \in Member /\ claims[k].value.kind = config.type
    BY <2>1, <2>3 DEF Typed
  <2> QED BY <2>2, <2>4
<1> QED BY <1>1, <1>2

(* The text of a claim has no zero byte, and that of a number no quotes
   that strip_quotes could take off. *)
LEMMA ClaimText ==
    ASSUME FlowInv
    PROVE  /\ Claim.kind = "string" =>
                 /\ Claim.text \in Seq(Chars)
                 /\ \A i \in 1..Len(Claim.text) : Claim.text[i] # Nul
           /\ config.type = "number" =>
                 /\ Claim.kind \in {"null", "number"}
                 /\ strip_quotes(Claim.text) = Claim.text
<1>1. CASE Claim = Null
  <2>1. Claim.kind = "null" /\ Claim.text = <<"n", "u", "l", "l">>
    BY <1>1 DEF Null
  <2> DEFINE n == <<"n", "u", "l", "l">>
  <2>2. Head(n) = "n" /\ n # <<>> /\ Last(n) = "l"
    BY DEF Last
  <2>3. "n" # Quote /\ "l" # Quote
    BY DEF Quote
  <2>4. strip_quotes(n) = n
    <3> HIDE DEF n
    <3> QED BY <2>2, <2>3 DEF strip_quotes
  <2> QED BY <2>1, <2>4
<1>2. ASSUME NEW m \in Member, Claim = m.value, m.value.kind = config.type
      PROVE  /\ Claim.kind = "string" =>
                   /\ Claim.text \in Seq(Chars)
                   /\ \A i \in 1..Len(Claim.text) : Claim.text[i] # Nul
             /\ config.type = "number" =>
                   /\ Claim.kind \in {"null", "number"}
                   /\ strip_quotes(Claim.text) = Claim.text
  <2> DEFINE t == m.value.text
  <2>1. /\ t \in Seq(STRING) /\ Nul \notin Range(t)
        /\ m.value.kind = "number" => Quote \notin Range(t)
    <3>1. m \in Members
      BY DEF Members
    <3>2. Quote \in Marks
      BY DEF Structural, Marks
    <3> QED BY <3>1, <3>2, ValueAssumption, NumberChars
  <2>2. Claim.text = t /\ Claim.kind = m.value.kind
    BY <1>2
  <2> HIDE DEF t
  <2>3. t \in Seq(Chars)
    BY <2>1, CharsSeq
  <2>4. \A i \in 1..Len(t) : t[i] # Nul
    BY <2>1 DEF Range
  <2>5. m.value.kind = "number" => strip_quotes(t) = t
    BY <2>1, StripPlain
  <2> QED BY <1>2, <2>2, <2>3, <2>4, <2>5
<1> QED BY <1>1, <1>2, ClaimKnown

(* Quotes are put on and taken off. *)
LEMMA RevealedText ==
    ASSUME NEW t \in Seq(Chars), NEW n \in Nat, Len(Quoted(t)) <= n,
           \A i \in 1..Len(t) : t[i] # Nul
    PROVE  unpack_int_to_string_unquoted(Pack(Quoted(t), n)) = t
<1> DEFINE q == Quoted(t)
<1>1. /\ q \in Seq(Chars) /\ Len(q) = Len(t) + 2
      /\ q[1] = Quote /\ q[Len(t) + 2] = Quote
      /\ \A i \in 1..Len(t) : q[i + 1] = t[i]
  BY CharsSeq, QuotedParts
<1>2. Quote # Nul
  BY DEF Quote, Nul
<1>3. strip_quotes(q) = t
  BY CharsSeq, StripQuoted
<1> HIDE DEF q
<1>4. ASSUME NEW i \in 1..Len(q) PROVE q[i] # Nul
  <2>1. CASE i = 1 \/ i = Len(t) + 2
    BY <1>1, <1>2, <2>1
  <2>2. CASE i # 1 /\ i # Len(t) + 2
    <3> DEFINE k == i - 1
    <3>1. k \in 1..Len(t) /\ k + 1 = i
      BY <1>1, <2>2
    <3> HIDE DEF k
    <3> QED BY <1>1, <3>1
  <2> QED BY <2>1, <2>2
<1>5. Trimmed(Pack(q, n)) = q
  BY <1>1, <1>4, CharsSeq, TrimmedPack DEF q
<1> QED BY <1>3, <1>5 DEF unpack_int_to_string_unquoted, q

(* A domain that the circuit accepts is shown as it is. *)
LEMMA RevealedDomain ==
    ASSUME NEW t \in Seq(Chars), NEW n \in Nat \ {0},
           \A i \in 1..Len(t) : t[i] # Nul,
           Places(t, <<"@">>, 0) # {}, Len(get_domain(t)) <= n,
           NEW text, text = [i \in 1..n |-> text[i]],
           Pack(get_domain(t), n) = RevealDomainOnly(text)
    PROVE  unpack_int_to_string_unquoted(Pack(get_domain(t), n)) = Domain(t)
<1> DEFINE d == get_domain(t)
           p == Pack(d, n)
<1>1. d = Domain(t)
  BY DomainIsDomain
<1>2. PICK k \in 1..Len(t) : d = SubSeq(t, k + 1, Len(t))
  BY <1>1, DomainIsDomain
<1>3. /\ d \in Seq(Chars)
      /\ \A i \in 1..Len(d) : d[i] # Nul
  <2> DEFINE s == SubSeq(t, k + 1, Len(t))
  <2>1. Len(t) \in Nat /\ k \in Nat
    OBVIOUS
  <2>2. s \in Seq(Chars) /\ Len(s) = Len(t) - k
        /\ \A i \in 1..Len(s) : s[i] = t[k + i] /\ k + i \in 1..Len(t)
    <3>1. s \in Seq(Chars) /\ Len(s) = Len(t) - k
      <4>1. CASE k = Len(t)
        <5>1. s = <<>>
          BY <2>1, <4>1
        <5> HIDE DEF s
        <5> QED BY <2>1, <4>1, <5>1
      <4>2. CASE k # Len(t)
        <5>1. k + 1 \in 1..Len(t)
          BY <2>1, <4>2
        <5>2. s \in Seq(Chars) /\ Len(s) = Len(t) - (k + 1) + 1
          BY <2>1, <5>1
        <5> HIDE DEF s
        <5> QED BY <2>1, <5>2
      <4> QED BY <4>1, <4>2
    <3>2. \A i \in 1..(Len(t) - k) : s[i] = t[k + i]
      BY <2>1
    <3>3. \A i \in 1..(Len(t) - k) : k + i \in 1..Len(t)
      BY <2>1
    <3> HIDE DEF s
    <3> QED BY <3>1, <3>2, <3>3
  <2> HIDE DEF s
  <2>3. \A i \in 1..Len(s) : s[i] # Nul
    BY <2>2
  <2>4. d = s
    BY <1>2 DEF s
  <2> HIDE DEF d
  <2> QED BY <2>2, <2>3, <2>4
<1>4. Len(d) <= n
  OBVIOUS
<1>5. \A i \in 1..n : p[i] # Quote
  BY DomainUnquoted
<1> HIDE DEF d
<1>6. Trimmed(p) = d
  BY <1>3, <1>4, CharsSeq, TrimmedPack
<1>7. \A i \in 1..Len(d) : p[i] = d[i]
  <2> DEFINE fill == [i \in 1..(n - Len(d)) |-> Nul]
  <2>1. fill \in Seq(Chars)
    <3>1. n - Len(d) \in Nat
      BY <1>3, <1>4
    <3>2. \A i \in 1..(n - Len(d)) : fill[i] \in Chars
      BY CharsSeq
    <3> QED BY <3>1, <3>2, FunctionSeq
  <2>2. p = d \o fill
    BY DEF Pack
  <2> HIDE DEF fill, p
  <2> QED BY <1>3, <2>1, <2>2, ConcatIndex
<1> HIDE DEF p
<1>8. Quote \notin Range(d)
  <2>1. \A i \in 1..Len(d) : d[i] # Quote
    <3>1. Len(d) \in Nat
      BY <1>3
    <3>2. \A i \in 1..Len(d) : i \in 1..n
      BY <1>4, <3>1
    <3> QED BY <1>5, <1>7, <3>2
  <2>2. DOMAIN d = 1..Len(d)
    BY <1>3
  <2> QED BY <2>1, <2>2 DEF Range
<1>9. strip_quotes(d) = d
  BY <1>3, <1>8, StripPlain
<1> QED BY <1>1, <1>6, <1>9 DEF unpack_int_to_string_unquoted, p, d

(* In every state of every behaviour the verifier that accepts learns the
   value of the issuer's claim, its domain, or nothing: what
   prepare_prover_inputs found in the bytes, packed and searched, what the
   circuit read of them and what verify_show unpacks is one value, for
   texts of any length and any sizes of the circuit and its fields. *)
THEOREM ShownIsClaimCorrect == Spec => []ShownIsClaim
<1>1. IInv /\ FlowInv => ShownIsClaim
  <2> SUFFICES ASSUME IInv, FlowInv, stage = "accepted"
               PROVE  shown =
                    CASE config.form = "hidden" -> <<>>
                      [] config.form = "domain" -> <<Domain(Claim.text)>>
                      [] config.type = "number" /\ config.form = "reveal" ->
                            <<Number(Claim.text)>>
                      [] config.type = "string" /\ config.form = "digest" ->
                            <<Escaped(Claim.text)>>
                      [] OTHER -> <<Claim.text>>
    BY DEF ShownIsClaim
  <2> DEFINE in == prepare_prover_inputs(Token, config)
  <2>1. /\ config \in Config /\ Prepares(Token, config)
        /\ inputs[1] = in /\ Main(in, config)
        /\ public = Output(in, config) /\ Opens /\ shown = Learned
    BY DEF FlowInv
  <2>2. /\ config.type \in {"string", "number"}
        /\ config.form \in {"reveal", "domain", "digest", "hidden"}
        /\ config.max \in Nat \ {0}
        /\ config.form = "domain" => config.type = "string"
    BY <2>1, ConfigAssumption
  <2>3. Claim = ClaimOf(Token.claims, config.name)
    BY DEF Claim, Token
  <2>4. CASE config.form = "hidden"
    BY <2>1, <2>4 DEF Learned
  <2>5. CASE config.form = "digest"
    <3>1. in.aux = <<Claim>>
      BY <2>3, <2>5 DEF prepare_prover_inputs
    <3>2. Preimage = ToJson(Claim)
      BY <2>1, <3>1 DEF Preimage
    <3>3. shown = <<strip_quotes(ToJson(Claim))>>
      BY <2>1, <2>5, <3>2 DEF Learned
    <3>4. CASE config.type = "string"
      <4>1. Claim.kind = "string"
        BY <2>1, <2>3, <2>5, <3>4 DEF Prepares, AuxFits
      <4>2. ToJson(Claim) = Quoted(Escaped(Claim.text))
        BY <4>1 DEF ToJson
      <4>3. Claim.text \in Seq(Chars)
        BY <4>1, ClaimText
      <4>4. Escaped(Claim.text) \in Seq(Chars)
        BY <4>3, CharsSeq, EscapedIsSeq
      <4>5. strip_quotes(ToJson(Claim)) = Escaped(Claim.text)
        BY <4>2, <4>4, CharsSeq, StripQuoted
      <4> QED BY <2>5, <3>3, <3>4, <4>5
    <3>5. CASE config.type = "number"
      <4>1. Claim.kind \in {"null", "number"}
            /\ strip_quotes(Claim.text) = Claim.text
        BY <3>5, ClaimText
      <4>2. ToJson(Claim) = Claim.text
        BY <4>1 DEF ToJson
      <4> QED BY <2>5, <3>3, <3>5, <4>1, <4>2
    <3> QED BY <2>2, <3>4, <3>5
  <2>6. CASE config.form \in {"reveal", "domain"} /\ config.type = "string"
    <3>1. in.value = <<Pack(ToPack(Claim, config), config.max)>>
      BY <2>3, <2>6 DEF prepare_prover_inputs, Revealed, Value
    <3>2. Packable(Claim, config)
      BY <2>1, <2>3, <2>6 DEF Prepares, Revealed
    <3>3. public = in.value
      BY <2>1, <2>6 DEF Output
    <3>4. shown = <<unpack_int_to_string_unquoted(
                        Pack(ToPack(Claim, config), config.max))>>
      BY <2>1, <2>6, <3>1, <3>3 DEF Learned
    <3>5. /\ Claim.kind = "string" /\ Claim.text \in Seq(Chars)
          /\ \A i \in 1..Len(Claim.text) : Claim.text[i] # Nul
          /\ Len(ToPack(Claim, config)) <= config.max
      BY <3>2, ClaimText DEF Packable
    <3>6. CASE config.form = "reveal"
      <4>1. ToPack(Claim, config) = Quoted(Claim.text)
        BY <3>6 DEF ToPack
      <4>2. unpack_int_to_string_unquoted(
                Pack(Quoted(Claim.text), config.max)) = Claim.text
        BY <2>2, <3>5, <4>1, RevealedText
      <4> QED BY <2>6, <3>4, <3>6, <4>1, <4>2
    <3>7. CASE config.form = "domain"
      <4>1. ToPack(Claim, config) = get_domain(Claim.text)
        BY <3>7 DEF ToPack
      <4>2. Places(Claim.text, <<"@">>, 0) # {}
        BY <3>2, <3>7 DEF Packable
      <4> DEFINE text == RevealedBytes(
                             JWTB64Decode(in.message, in.period_idx),
                             in.l + Len(NameTemplate(config)), in.r,
                             config.max)
      <4>3. in.value[1] = RevealDomainOnly(text)
        BY <2>1, <3>7 DEF Main
      <4>4. text = [i \in 1..config.max |-> text[i]]
        BY DEF RevealedBytes
      <4>5. Pack(get_domain(Claim.text), config.max) = RevealDomainOnly(text)
        BY <3>1, <4>1, <4>3
      <4> HIDE DEF text
      <4>6. unpack_int_to_string_unquoted(
                Pack(get_domain(Claim.text), config.max))
              = Domain(Claim.text)
        BY <2>2, <3>5, <4>1, <4>2, <4>4, <4>5, RevealedDomain
      <4> QED BY <3>4, <3>7, <4>1, <4>6
    <3> QED BY <2>6, <3>6, <3>7
  <2>7. CASE config.form = "reveal" /\ config.type = "number"
    <3>1. in.value = <<NumberInput(Claim)>>
      BY <2>3, <2>7 DEF prepare_prover_inputs, Revealed, Value
    <3>2. shown = <<NumberInput(Claim)>>
      BY <2>1, <2>7, <3>1 DEF Learned, Output
    <3> DEFINE n == AsciiDigitsToField(RevealedBytes(
                        JWTB64Decode(in.message, in.period_idx),
                        in.l + Len(NameTemplate(config)), in.r, config.max))
    <3>3. in.value[1] = n
      BY <2>1, <2>7 DEF Main, RevealClaimValue
    <3>4. Token.header \in Seq(Bytes) /\ Token.payload \in Seq(Bytes)
      BY TokenText
    <3>5. n \in Nat
      BY <2>1, <2>7, <3>4, NumberRead
    <3> HIDE DEF n
    <3>6. NumberInput(Claim) = n
      BY <3>1, <3>3
    <3>7. NumberInput(Claim) = Number(Claim.text)
      BY <3>5, <3>6 DEF NumberInput
    <3> QED BY <2>7, <3>2, <3>7
  <2> QED BY <2>2, <2>4, <2>5, <2>6, <2>7
<1> QED BY <1>1, IInvInvariant, FlowInvInvariant, PTL

-----------------------------------------------------------------------------
(* Where a text stands in another one. *)

(* All characters of a token; those between its members. *)
Glyph == Chars \cup {":", Space, "[", "]", "0"}

Glue == {LBrace, RBrace, Comma, Nul}

(* They are what they look like. *)
LEMMA Glyphs ==
    /\ Chars \subseteq Glyph /\ Glue \subseteq Glyph /\ STRING \subseteq Glyph
    /\ Quote \in Glyph /\ Backslash \in Glyph /\ Nul \in Glyph
    /\ ":" \in Glyph /\ Space \in Glyph /\ "[" \in Glyph /\ "]" \in Glyph
    /\ "0" \in Glyph /\ LBrace \in Glyph /\ RBrace \in Glyph /\ Comma \in Glyph
<1>1. Chars \subseteq Glyph
  BY DEF Glyph
<1>2. Bytes \subseteq Glyph
  BY <1>1 DEF Chars
<1>3. ":" \in Glyph /\ Space \in Glyph /\ "[" \in Glyph /\ "]" \in Glyph
      /\ "0" \in Glyph
  BY DEF Glyph
<1> QED BY <1>1, <1>2, <1>3, BytesMembers, CharsSeq DEF Glue

(* The characters that quote, escape and separate are different ones. *)
LEMMA GlyphsDiffer ==
    /\ Quote # Backslash /\ Quote # ":" /\ Quote # Space /\ Quote # "["
    /\ Quote # "]" /\ Quote # "0" /\ Quote # "@" /\ Quote # Nul
    /\ Backslash # ":" /\ Backslash # Space
    /\ ":" # Space /\ ":" # "]" /\ ":" # "[" /\ ":" # LBrace /\ "0" # ":"
    /\ Quote \notin Glue /\ ":" \notin Glue /\ Space \notin Glue
    /\ "@" \notin Glue /\ "0" # "@" /\ "0" \notin Glue
    /\ "]" # Space /\ "0" # Space /\ "[" # Space /\ "]" # "@"
BY DEF Quote, Backslash, Nul, Space, Comma, LBrace, RBrace, Glue

Occurs(t, pat, q) ==
    /\ q \in Nat /\ q + Len(pat) <= Len(t)
    /\ \A k \in 1..Len(pat) : t[q + k] = pat[k]

(* A part of a sequence. *)
LEMMA PartIndex ==
    ASSUME NEW S, NEW t \in Seq(S), NEW a \in Nat, NEW n \in Nat,
           a + n <= Len(t)
    PROVE  /\ SubSeq(t, a + 1, a + n) \in Seq(S)
           /\ Len(SubSeq(t, a + 1, a + n)) = n
           /\ \A k \in 1..n : SubSeq(t, a + 1, a + n)[k] = t[a + k]
<1>1. Len(t) \in Nat
  OBVIOUS
<1>2. CASE n = 0
  <2>1. SubSeq(t, a + 1, a + n) = <<>>
    BY <1>1, <1>2
  <2> QED BY <1>2, <2>1
<1>3. CASE n # 0
  <2>1. a + 1 \in 1..Len(t) /\ a + n \in 1..Len(t)
    BY <1>1, <1>3
  <2>2. SubSeq(t, a + 1, a + n) \in Seq(S)
        /\ Len(SubSeq(t, a + 1, a + n)) = n
    BY <1>1, <2>1
  <2>3. \A k \in 1..n : SubSeq(t, a + 1, a + n)[k] = t[a + k]
    BY <1>1, <2>1
  <2> QED BY <2>2, <2>3
<1> QED BY <1>2, <1>3

(* The places of a text are where it occurs. *)
LEMMA PlaceIsOccurrence ==
    ASSUME NEW S, NEW t \in Seq(S), NEW pat \in Seq(S), NEW from \in Nat,
           NEW q
    PROVE  q \in Places(t, pat, from) <=> q >= from /\ Occurs(t, pat, q)
<1> DEFINE m == Len(pat)
<1>1. m \in Nat /\ Len(t) \in Nat
  OBVIOUS
<1> HIDE DEF m
<1>2. q \in from..(Len(t) - m) <=> q \in Nat /\ q >= from /\ q + m <= Len(t)
  BY <1>1
<1>3. ASSUME q \in Nat, q + m <= Len(t)
      PROVE  SubSeq(t, q + 1, q + m) = pat
               <=> \A k \in 1..m : t[q + k] = pat[k]
  <2> DEFINE s == SubSeq(t, q + 1, q + m)
  <2>1. s \in Seq(S) /\ Len(s) = m /\ \A k \in 1..m : s[k] = t[q + k]
    BY <1>1, <1>3, PartIndex
  <2>2. pat \in Seq(S) /\ Len(pat) = m
    BY DEF m
  <2> HIDE DEF s
  <2>3. s = pat => \A k \in 1..m : t[q + k] = pat[k]
    BY <2>1
  <2>4. ASSUME \A k \in 1..m : t[q + k] = pat[k] PROVE s = pat
    BY <2>1, <2>2, <2>4, SameSeq
  <2> QED BY <2>3, <2>4 DEF s
<1> QED BY <1>2, <1>3 DEF Places, Occurs, m

(* What occurs in a part of a text occurs in the text. *)
LEMMA OccursTrans ==
    ASSUME NEW t, NEW u, NEW v, NEW p, NEW q,
           Len(t) \in Nat, Len(u) \in Nat, Len(v) \in Nat,
           Occurs(t, u, p), Occurs(u, v, q)
    PROVE  Occurs(t, v, p + q)
<1>1. p \in Nat /\ q \in Nat /\ p + Len(u) <= Len(t)
      /\ q + Len(v) <= Len(u)
  BY DEF Occurs
<1>2. p + q \in Nat /\ p + q + Len(v) <= Len(t)
  BY <1>1
<1>3. ASSUME NEW k \in 1..Len(v) PROVE t[p + q + k] = v[k]
  <2>1. q + k \in 1..Len(u) /\ p + (q + k) = p + q + k
    BY <1>1
  <2>2. t[p + (q + k)] = u[q + k] /\ u[q + k] = v[k]
    BY <2>1 DEF Occurs
  <2> QED BY <2>1, <2>2
<1> QED BY <1>2, <1>3 DEF Occurs

(* In two texts one after the other both occur. *)
Added(a, b, c) == a \in Nat /\ b \in Nat /\ c \in Nat /\ a = b + c

(* Where the parts of a text stand that is put together of two. *)
LEMMA Joined ==
    ASSUME NEW S, NEW s \in Seq(S), NEW t \in Seq(S)
    PROVE  /\ s \o t \in Seq(S) /\ Added(Len(s \o t), Len(s), Len(t))
           /\ Occurs(s \o t, s, 0) /\ Occurs(s \o t, t, Len(s))
<1>1. /\ s \o t \in Seq(S) /\ Len(s \o t) = Len(s) + Len(t)
      /\ \A k \in 1..Len(s) : (s \o t)[k] = s[k]
      /\ \A k \in 1..Len(t) : (s \o t)[Len(s) + k] = t[k]
  BY ConcatIndex
<1>2. Len(s) \in Nat /\ Len(t) \in Nat
  OBVIOUS
<1>3. Occurs(s \o t, s, 0) /\ Occurs(s \o t, t, Len(s))
  BY <1>1, <1>2 DEF Occurs
<1>4. Added(Len(s \o t), Len(s), Len(t))
  BY <1>1, <1>2 DEF Added
<1> QED BY <1>1, <1>3, <1>4

(* In particular a quoted text. *)
QuotedAt(t, name, q) ==
    /\ q \in Nat /\ q + Len(name) + 2 <= Len(t)
    /\ t[q + 1] = Quote /\ t[q + Len(name) + 2] = Quote
    /\ \A k \in 1..Len(name) : t[q + 1 + k] = name[k]

(* A quoted name occurs where its quotes and its characters stand. *)
LEMMA QuotedOccurs ==
    ASSUME NEW S, Quote \in S, NEW name \in Seq(S), NEW t, Len(t) \in Nat,
           NEW q
    PROVE  Occurs(t, Quoted(name), q) <=> QuotedAt(t, name, q)
<1> DEFINE p == Quoted(name)
           m == Len(name)
<1>1. /\ Len(p) = m + 2 /\ p[1] = Quote /\ p[m + 2] = Quote
      /\ \A k \in 1..m : p[k + 1] = name[k]
  BY QuotedParts
<1>2. m \in Nat
  OBVIOUS
<1> HIDE DEF p, m
<1> SUFFICES ASSUME q \in Nat PROVE Occurs(t, p, q) <=> QuotedAt(t, name, q)
  BY DEF Occurs, QuotedAt, p
<1>3. q + (m + 2) = q + m + 2 /\ q + m + 2 = q + (m + 2)
  BY <1>2
<1>4. ASSUME Occurs(t, p, q) PROVE QuotedAt(t, name, q)
  <2>1. q + (m + 2) <= Len(t) /\ \A k \in 1..(m + 2) : t[q + k] = p[k]
    BY <1>1, <1>4 DEF Occurs
  <2>2. 1 \in 1..(m + 2) /\ m + 2 \in 1..(m + 2)
    BY <1>2
  <2>3. t[q + 1] = Quote /\ t[q + m + 2] = Quote
    BY <1>1, <1>3, <2>1, <2>2
  <2>4. ASSUME NEW k \in 1..m PROVE t[q + 1 + k] = name[k]
    <3>1. k + 1 \in 1..(m + 2) /\ q + (k + 1) = q + 1 + k
      BY <1>2
    <3>2. t[q + (k + 1)] = p[k + 1]
      BY <2>1, <3>1
    <3> QED BY <1>1, <3>1, <3>2
  <2> QED BY <1>3, <2>1, <2>3, <2>4 DEF QuotedAt, m
<1>5. ASSUME QuotedAt(t, name, q) PROVE Occurs(t, p, q)
  <2>1. /\ q + m + 2 <= Len(t) /\ t[q + 1] = Quote /\ t[q + m + 2] = Quote
        /\ \A k \in 1..m : t[q + 1 + k] = name[k]
    BY <1>5 DEF QuotedAt, m
  <2>2. ASSUME NEW k \in 1..(m + 2) PROVE t[q + k] = p[k]
    <3>1. CASE k = 1
      BY <1>1, <2>1, <3>1
    <3>2. CASE k = m + 2
      BY <1>1, <1>3, <2>1, <3>2
    <3>3. CASE k # 1 /\ k # m + 2
      <4> DEFINE i == k - 1
      <4>1. i \in 1..m /\ i + 1 = k /\ q + 1 + i = q + k
        BY <1>2, <3>3
      <4> HIDE DEF i
      <4> QED BY <1>1, <2>1, <4>1
    <3> QED BY <3>1, <3>2, <3>3
  <2> QED BY <1>1, <1>3, <2>1, <2>2 DEF Occurs
<1> QED BY <1>4, <1>5 DEF p

-----------------------------------------------------------------------------
(* A text that is put together piece by piece. *)
Chain(g, piece, n, S) ==
    /\ n \in Nat /\ g \in [0..n -> Seq(S)] /\ piece \in [1..n -> Seq(S)]
    /\ \A i \in 1..n : g[i] = g[i - 1] \o piece[i]

(* Each piece adds its characters. *)
LEMMA ChainStep ==
    ASSUME NEW g, NEW piece, NEW n, NEW S, Chain(g, piece, n, S),
           NEW i \in 1..n
    PROVE  /\ i - 1 \in 0..n /\ g[i] \in Seq(S) /\ g[i - 1] \in Seq(S)
           /\ piece[i] \in Seq(S)
           /\ Added(Len(g[i]), Len(g[i - 1]), Len(piece[i]))
           /\ Occurs(g[i], g[i - 1], 0)
           /\ Occurs(g[i], piece[i], Len(g[i - 1]))
<1>1. n \in Nat /\ i \in 0..n /\ i - 1 \in 0..n
  BY DEF Chain
<1>2. g[i] \in Seq(S) /\ g[i - 1] \in Seq(S) /\ piece[i] \in Seq(S)
  BY <1>1 DEF Chain
<1>3. g[i] = g[i - 1] \o piece[i]
  BY DEF Chain
<1> DEFINE s == g[i - 1]
           t == piece[i]
<1>4. s \in Seq(S) /\ t \in Seq(S)
  BY <1>2
<1> HIDE DEF s, t
<1>5. /\ Added(Len(s \o t), Len(s), Len(t))
      /\ Occurs(s \o t, s, 0) /\ Occurs(s \o t, t, Len(s))
  BY <1>4, Joined
<1> QED BY <1>1, <1>2, <1>3, <1>5 DEF s, t

(* What has been put together stays. *)
LEMMA ChainPrefix ==
    ASSUME NEW g, NEW piece, NEW n, NEW S, Chain(g, piece, n, S),
           NEW i \in 0..n, NEW j \in 0..n, i <= j
    PROVE  /\ Len(g[i]) \in Nat /\ Len(g[j]) \in Nat
           /\ Len(g[i]) <= Len(g[j])
           /\ Occurs(g[j], g[i], 0)
<1> DEFINE T == {d \in Nat : i + d <= n => Occurs(g[i + d], g[i], 0)}
<1>0. n \in Nat /\ \A a \in 0..n : Len(g[a]) \in Nat
  BY DEF Chain
<1>1. 0 \in T
  <2>1. Occurs(g[i], g[i], 0)
    BY <1>0 DEF Occurs
  <2>2. i + 0 = i
    BY <1>0
  <2> QED BY <2>1, <2>2
<1>2. ASSUME NEW d \in Nat, d \in T PROVE d + 1 \in T
  <2> SUFFICES ASSUME i + (d + 1) <= n PROVE Occurs(g[i + (d + 1)], g[i], 0)
    OBVIOUS
  <2> DEFINE a == i + (d + 1)
  <2>1. a \in 1..n /\ a - 1 = i + d /\ i + d <= n /\ a \in 0..n
        /\ a - 1 \in 0..n
    BY <1>0
  <2>2. Occurs(g[a - 1], g[i], 0)
    BY <1>2, <2>1
  <2> HIDE DEF a
  <2>3. Occurs(g[a], g[a - 1], 0)
    BY <2>1, ChainStep
  <2>4. Occurs(g[a], g[i], 0 + 0)
    BY <1>0, <2>1, <2>2, <2>3, OccursTrans
  <2> QED BY <2>4 DEF a
<1> DEFINE d == j - i
<1>3. d \in Nat /\ i + d = j /\ j <= n
  BY <1>0
<1> HIDE DEF d, T
<1>4. d \in T
  BY <1>1, <1>2, <1>3, SetInduction
<1>5. Occurs(g[j], g[i], 0)
  BY <1>3, <1>4 DEF T
<1> QED BY <1>0, <1>5 DEF Occurs

(* Each character that was added is one of a piece. *)
LEMMA ChainPosition ==
    ASSUME NEW g, NEW piece, NEW n, NEW S, Chain(g, piece, n, S),
           NEW k \in Nat, k > Len(g[0]), k <= Len(g[n])
    PROVE  \E i \in 1..n : Len(g[i - 1]) < k /\ k <= Len(g[i])
<1>0. n \in Nat /\ \A a \in 0..n : Len(g[a]) \in Nat
  BY DEF Chain
<1> DEFINE T == {i \in Nat : i <= n /\ k <= Len(g[i])}
<1>1. T \in SUBSET Nat /\ T # {}
  BY <1>0
<1>2. PICK i \in T : \A m \in T : i <= m
  BY <1>1, LeastNumber
<1>3. i \in Nat /\ i <= n /\ k <= Len(g[i])
  OBVIOUS
<1>4. i # 0
  <2>1. Len(g[0]) \in Nat
    BY <1>0
  <2> QED BY <1>3, <2>1
<1>5. i \in 1..n /\ i - 1 \in Nat /\ i - 1 <= n /\ ~(i <= i - 1)
  BY <1>0, <1>3, <1>4
<1>6. i - 1 \notin T
  BY <1>2, <1>5
<1>7. ~(k <= Len(g[i - 1]))
  BY <1>5, <1>6
<1>8. Len(g[i - 1]) \in Nat
  BY <1>0, <1>5
<1> QED BY <1>3, <1>5, <1>7, <1>8

(* JSON writes a text character by character. *)
EscapedPiece(c) == IF c \in {Quote, Backslash} THEN <<Backslash, c>>
                                               ELSE <<c>>

(* Escaping goes through the text character by character. *)
LEMMA EscapedSteps ==
    ASSUME NEW S, Quote \in S, Backslash \in S, NEW t \in Seq(S)
    PROVE  \E g, piece :
              /\ Chain(g, piece, Len(t), S)
              /\ g[0] = <<>> /\ g[Len(t)] = Escaped(t)
              /\ \A i \in 1..Len(t) : piece[i] = EscapedPiece(t[i])
<1> DEFINE n == Len(t)
           part == [i \in DOMAIN t |->
                      IF t[i] \in {Quote, Backslash} THEN <<Backslash, t[i]>>
                                                     ELSE <<t[i]>>]
           Body(f) == [i \in 1..Len(part) |->
                         IF i = 1 THEN part[i] ELSE f[i - 1] \o part[i]]
           flatten == CHOOSE f : f = Body(f)
           step == [i \in 1..n |-> [x \in Seq(S) |-> x \o part[i]]]
<1>1. n \in Nat /\ DOMAIN t = 1..n
  OBVIOUS
<1>2. \A i \in 1..n : part[i] \in Seq(S)
  <2>1. ASSUME NEW i \in 1..n PROVE part[i] \in Seq(S)
    <3>1. t[i] \in S
      BY <1>1
    <3>2. <<Backslash, t[i]>> \in Seq(S) /\ <<t[i]>> \in Seq(S)
      BY <3>1
    <3> QED BY <1>1, <3>2
  <2> QED BY <2>1
<1>3. part \in Seq(Seq(S)) /\ Len(part) = n
  <2>1. part = [i \in 1..n |-> part[i]]
    BY <1>1
  <2> HIDE DEF part, n
  <2> QED BY <1>1, <1>2, <2>1, FunctionSeq
<1>4. Escaped(t) = IF n = 0 THEN part ELSE flatten[n]
  <2>1. Escaped(t) = FlattenSeq(part)
    BY DEF Escaped
  <2>2. FlattenSeq(part) = IF Len(part) = 0 THEN part ELSE flatten[Len(part)]
    <3> HIDE DEF part
    <3> QED BY DEF FlattenSeq
  <2> QED BY <1>3, <2>1, <2>2
<1> HIDE DEF part
<1>a. \A i \in 1..n : part[i] = EscapedPiece(t[i])
  BY <1>1 DEF part, EscapedPiece
<1>b. part \in [1..n -> Seq(S)]
  BY <1>3
<1> HIDE DEF n
<1>c. <<>> \in Seq(S)
  OBVIOUS
<1>5. CASE n = 0
  <2>1. part = <<>>
    BY <1>3, <1>5
  <2> DEFINE h == [i \in 0..0 |-> <<>>]
  <2>2. h \in [0..n -> Seq(S)] /\ h[0] = <<>>
    BY <1>5, <1>c
  <2>3. Chain(h, part, n, S)
    <3> HIDE DEF h
    <3> QED BY <1>1, <1>5, <1>b, <2>2 DEF Chain
  <2>4. h[n] = Escaped(t)
    BY <1>4, <1>5, <2>1
  <2> HIDE DEF h
  <2> QED BY <1>a, <2>2, <2>3, <2>4 DEF n
<1>6. CASE n # 0
  <2>1. step \in [1..n -> [Seq(S) -> Seq(S)]]
    BY <1>1, <1>2
  <2>2. \A i \in 1..n, x \in Seq(S) : step[i][x] = x \o part[i]
    OBVIOUS
  <2> HIDE DEF step
  <2>3. <<>> \in Seq(S)
    OBVIOUS
  <2>a. PICK f : LeadsTo(f, Seq(S), <<>>, n, step)
    BY <1>1, <2>1, <2>3, StepsExist
  <2>4. /\ f \in [0..n -> Seq(S)] /\ f[0] = <<>>
        /\ \A i \in 1..n : f[i] = step[i][f[i - 1]]
    BY <2>a DEF LeadsTo
  <2> DEFINE g == [i \in 1..n |-> f[i]]
  <2>5. ASSUME NEW i \in 1..n
        PROVE  g[i] = IF i = 1 THEN part[i] ELSE g[i - 1] \o part[i]
    <3>1. f[i] = f[i - 1] \o part[i]
      <4>1. i \in 1..n /\ i - 1 \in 0..n
        BY <1>1
      <4>2. f[i - 1] \in Seq(S)
        BY <2>4, <4>1
      <4>3. f[i] = step[i][f[i - 1]]
        BY <2>4, <4>1
      <4> QED BY <2>2, <4>2, <4>3
    <3>2. CASE i = 1
      <4>1. f[i - 1] = <<>>
        BY <2>4, <3>2
      <4>2. <<>> \o part[i] = part[i]
        BY <1>2
      <4> QED BY <3>1, <3>2, <4>1, <4>2
    <3>3. CASE i # 1
      <4>1. g[i - 1] = f[i - 1]
        BY <1>1, <3>3
      <4> QED BY <3>1, <3>3, <4>1
    <3> QED BY <3>2, <3>3
  <2>6. g = Body(g)
    <3> HIDE DEF g
    <3>1. g = [i \in 1..n |-> g[i]]
      BY DEF g
    <3> QED BY <1>3, <2>5, <3>1
  <2>7. flatten = Body(flatten)
    <3> HIDE DEF Body
    <3> QED BY <2>6
  <2> HIDE DEF flatten
  <2>8. \A i \in 1..n : flatten[i] = IF i = 1 THEN part[i]
                                     ELSE flatten[i - 1] \o part[i]
    BY <1>3, <2>7
  <2> DEFINE T == {i \in Nat : i + 1 <= n => flatten[i + 1] \in Seq(S)}
  <2>9. 0 \in T
    <3>1. 1 \in 1..n
      BY <1>1, <1>6
    <3>2. flatten[1] = part[1]
      BY <2>8, <3>1
    <3>3. part[1] \in Seq(S)
      BY <1>2, <3>1
    <3> HIDE DEF part
    <3> QED BY <3>2, <3>3
  <2>10. ASSUME NEW i \in Nat, i \in T PROVE i + 1 \in T
    <3> SUFFICES ASSUME i + 1 + 1 <= n PROVE flatten[i + 1 + 1] \in Seq(S)
      OBVIOUS
    <3>1. flatten[i + 1] \in Seq(S)
      BY <1>1, <2>10
    <3>2. i + 1 + 1 \in 1..n /\ i + 1 + 1 # 1 /\ (i + 1 + 1) - 1 = i + 1
      BY <1>1
    <3>3. flatten[i + 1 + 1] = flatten[i + 1] \o part[i + 1 + 1]
      <4>1. flatten[i + 1 + 1] = flatten[(i + 1 + 1) - 1] \o part[i + 1 + 1]
        BY <2>8, <3>2
      <4> QED BY <3>2, <4>1
    <3>4. part[i + 1 + 1] \in Seq(S)
      BY <1>2, <3>2
    <3> HIDE DEF part
    <3> QED BY <3>1, <3>3, <3>4
  <2> HIDE DEF T
  <2>11. Nat \subseteq T
    BY <2>9, <2>10, SetInduction
  <2>12. ASSUME NEW i \in 1..n PROVE flatten[i] \in Seq(S)
    <3>1. i - 1 \in Nat /\ i - 1 + 1 = i /\ i <= n
      BY <1>1
    <3>2. i - 1 \in T
      BY <2>11, <3>1
    <3> QED BY <3>1, <3>2 DEF T
  <2> DEFINE h == [i \in 0..n |-> IF i = 0 THEN <<>> ELSE flatten[i]]
  <2>13. h \in [0..n -> Seq(S)] /\ h[0] = <<>> /\ h[n] = flatten[n]
    BY <1>1, <1>6, <1>c, <2>12
  <2>14. ASSUME NEW i \in 1..n PROVE h[i] = h[i - 1] \o part[i]
    <3>1. i \in 0..n /\ i - 1 \in 0..n /\ i # 0
      BY <1>1
    <3>2. h[i] = flatten[i]
      BY <3>1
    <3>3. CASE i = 1
      <4>1. h[i - 1] = <<>>
        BY <3>1, <3>3
      <4>2. <<>> \o part[i] = part[i]
        BY <1>2
      <4>3. flatten[i] = part[i]
        BY <2>8, <3>3
      <4> QED BY <3>2, <4>1, <4>2, <4>3
    <3>4. CASE i # 1
      <4>1. h[i - 1] = flatten[i - 1]
        BY <1>1, <3>1, <3>4
      <4>2. flatten[i] = flatten[i - 1] \o part[i]
        BY <2>8, <3>4
      <4> QED BY <3>2, <4>1, <4>2
    <3> QED BY <3>3, <3>4
  <2> HIDE DEF h
  <2>15. Chain(h, part, n, S)
    BY <1>1, <1>b, <2>13, <2>14 DEF Chain
  <2>16. h[n] = Escaped(t)
    BY <1>4, <1>6, <2>13
  <2> QED BY <1>a, <2>13, <2>15, <2>16 DEF n
<1> QED BY <1>1, <1>5, <1>6

(* A prefix is what occurs first, a suffix what occurs last. *)
LEMMA PrefixOccurs ==
    ASSUME NEW S, NEW s \in Seq(S), NEW t \in Seq(S)
    PROVE  IsPrefix(s, t) <=> Occurs(t, s, 0)
<1>1. Len(s) \in Nat /\ Len(t) \in Nat
  OBVIOUS
<1>2. ASSUME Len(s) <= Len(t)
      PROVE  SubSeq(s, 1, Len(s)) = SubSeq(t, 1, Len(s))
               <=> \A k \in 1..Len(s) : t[0 + k] = s[k]
  <2> DEFINE n == Len(s)
             u == SubSeq(s, 0 + 1, 0 + n)
             v == SubSeq(t, 0 + 1, 0 + n)
  <2>1. n \in Nat /\ 0 + n <= Len(s) /\ 0 + n <= Len(t) /\ 0 \in Nat
    BY <1>1, <1>2
  <2>2. u \in Seq(S) /\ Len(u) = n /\ \A k \in 1..n : u[k] = s[0 + k]
    BY <2>1, PartIndex
  <2>3. v \in Seq(S) /\ Len(v) = n /\ \A k \in 1..n : v[k] = t[0 + k]
    BY <2>1, PartIndex
  <2>4. u = SubSeq(s, 1, Len(s)) /\ v = SubSeq(t, 1, Len(s))
    BY <1>1
  <2> HIDE DEF u, v, n
  <2>5. \A k \in 1..n : 0 + k = k
    BY <2>1
  <2>6. (\A k \in 1..n : t[0 + k] = s[k]) => u = v
    BY <2>2, <2>3, <2>5, SameSeq
  <2>7. u = v => \A k \in 1..n : t[0 + k] = s[k]
    BY <2>2, <2>3, <2>5
  <2> QED BY <2>4, <2>6, <2>7 DEF n
<1>3. 0 + Len(s) = Len(s) /\ 0 \in Nat
  BY <1>1
<1> QED BY <1>2, <1>3 DEF IsPrefix, Occurs

(* A suffix is what occurs last. *)
LEMMA SuffixOccurs ==
    ASSUME NEW S, NEW s \in Seq(S), NEW t \in Seq(S)
    PROVE  IsSuffix(s, t) <=> Occurs(t, s, Len(t) - Len(s))
<1> DEFINE u == Reverse(s)
           v == Reverse(t)
           m == Len(s)
           n == Len(t)
<1>1. m \in Nat /\ n \in Nat
  OBVIOUS
<1>a. ASSUME NEW w \in Seq(S)
      PROVE  /\ Reverse(w) \in Seq(S) /\ Len(Reverse(w)) = Len(w)
             /\ \A i \in 1..Len(w) : Reverse(w)[i] = w[(Len(w) - i) + 1]
  <2>1. Len(w) \in Nat
    OBVIOUS
  <2>2. \A i \in 1..Len(w) : (Len(w) - i) + 1 \in 1..Len(w)
    BY <2>1
  <2>3. \A i \in 1..Len(w) : Reverse(w)[i] = w[(Len(w) - i) + 1]
    BY DEF Reverse
  <2>4. \A i \in 1..Len(w) : Reverse(w)[i] \in S
    BY <2>2, <2>3
  <2>5. Reverse(w) = [i \in 1..Len(w) |-> Reverse(w)[i]]
    BY DEF Reverse
  <2> QED BY <2>1, <2>3, <2>4, <2>5, FunctionSeq
<1>2. /\ u \in Seq(S) /\ Len(u) = m
      /\ \A i \in 1..m : u[i] = s[(m - i) + 1]
  BY <1>a
<1>3. /\ v \in Seq(S) /\ Len(v) = n
      /\ \A i \in 1..n : v[i] = t[(n - i) + 1]
  BY <1>a
<1>4. IsSuffix(s, t) <=> Occurs(v, u, 0)
  <2>1. IsPrefix(u, v) <=> Occurs(v, u, 0)
    <3> HIDE DEF u, v
    <3> QED BY <1>2, <1>3, PrefixOccurs
  <2> QED BY <2>1 DEF IsSuffix
<1> HIDE DEF u, v, m, n
<1>5. ASSUME Occurs(v, u, 0) PROVE Occurs(t, s, n - m)
  <2>1. m <= n /\ n - m \in Nat /\ n - m + m <= n
    BY <1>1, <1>2, <1>3, <1>5 DEF Occurs
  <2>2. ASSUME NEW k \in 1..m PROVE t[n - m + k] = s[k]
    <3> DEFINE i == (m - k) + 1
    <3>1. i \in 1..m /\ i \in 1..n /\ (m - i) + 1 = k /\ 0 + i = i
          /\ (n - i) + 1 = n - m + k
      BY <1>1, <2>1
    <3> HIDE DEF i
    <3>2. v[0 + i] = u[i]
      BY <1>2, <1>5, <3>1 DEF Occurs
    <3> QED BY <1>2, <1>3, <3>1, <3>2
  <2> QED BY <2>1, <2>2 DEF Occurs, m, n
<1>6. ASSUME Occurs(t, s, n - m) PROVE Occurs(v, u, 0)
  <2>1. m <= n /\ 0 + m <= n
    BY <1>1, <1>6 DEF Occurs
  <2>2. ASSUME NEW i \in 1..m PROVE v[0 + i] = u[i]
    <3> DEFINE k == (m - i) + 1
    <3>1. k \in 1..m /\ i \in 1..n /\ 0 + i = i /\ (n - i) + 1 = n - m + k
      BY <1>1, <2>1
    <3> HIDE DEF k
    <3>2. t[n - m + k] = s[k]
      BY <1>6, <3>1 DEF Occurs, m
    <3> QED BY <1>2, <1>3, <3>1, <3>2 DEF k
  <2> QED BY <1>2, <1>3, <2>1, <2>2 DEF Occurs
<1> QED BY <1>4, <1>5, <1>6 DEF m, n

-----------------------------------------------------------------------------
(* Where the characters of a text are in what JSON writes of it. *)
Escapes == {Quote, Backslash}

Spelled(t, e, pos) ==
    /\ pos \in [0..Len(t) -> 0..Len(e)]
    /\ pos[0] = 0 /\ pos[Len(t)] = Len(e)
    /\ \A i \in 1..Len(t) :
          /\ pos[i] = pos[i - 1] + (IF t[i] \in Escapes THEN 2 ELSE 1)
          /\ e[pos[i]] = t[i]
          /\ t[i] \in Escapes => e[pos[i - 1] + 1] = Backslash
    /\ \A j \in 1..Len(e) :
          \E i \in 1..Len(t) : pos[i - 1] < j /\ j <= pos[i]

(* Where a character of the text stands in the escaped one. *)
LEMMA SpelledPlace ==
    ASSUME NEW t, NEW e, NEW pos, Spelled(t, e, pos), Len(t) \in Nat,
           Len(e) \in Nat, NEW i, i \in 0..Len(t)
    PROVE  pos[i] \in Nat /\ pos[i] <= Len(e)
<1>1. pos \in [0..Len(t) -> 0..Len(e)]
  BY ONLY Spelled(t, e, pos) DEF Spelled
<1>2. pos[i] \in 0..Len(e)
  BY ONLY <1>1, i \in 0..Len(t)
<1> QED BY ONLY <1>2, Len(e) \in Nat

(* What one character of the text becomes in the escaped one. *)
LEMMA SpelledChar ==
    ASSUME NEW t, NEW e, NEW pos, Spelled(t, e, pos), Len(t) \in Nat,
           Len(e) \in Nat, NEW i, i \in 1..Len(t)
    PROVE  /\ pos[i] = pos[i - 1] + (IF t[i] \in Escapes THEN 2 ELSE 1)
           /\ e[pos[i]] = t[i]
           /\ t[i] \in Escapes => e[pos[i - 1] + 1] = Backslash
           /\ pos[i - 1] \in Nat /\ pos[i] \in Nat
<1>1. i - 1 \in 0..Len(t) /\ i \in 0..Len(t)
  BY ONLY Len(t) \in Nat, i \in 1..Len(t)
<1>2. pos[i - 1] \in Nat /\ pos[i] \in Nat
  BY <1>1, SpelledPlace
<1>3. \A h \in 1..Len(t) :
          /\ pos[h] = pos[h - 1] + (IF t[h] \in Escapes THEN 2 ELSE 1)
          /\ e[pos[h]] = t[h]
          /\ t[h] \in Escapes => e[pos[h - 1] + 1] = Backslash
  BY ONLY Spelled(t, e, pos) DEF Spelled
<1> QED BY ONLY <1>2, <1>3, i \in 1..Len(t)

(* An escaped text is spelled character by character. *)
LEMMA EscapedSpelled ==
    ASSUME NEW S, Quote \in S, Backslash \in S, NEW t \in Seq(S)
    PROVE  \E pos : Spelled(t, Escaped(t), pos)
<1> DEFINE n == Len(t)
<1>1. PICK g, piece :
         /\ Chain(g, piece, n, S)
         /\ g[0] = <<>> /\ g[n] = Escaped(t)
         /\ \A i \in 1..n : piece[i] = EscapedPiece(t[i])
  BY EscapedSteps
<1> HIDE DEF n
<1>2. n \in Nat /\ \A i \in 0..n : Len(g[i]) \in Nat /\ g[i] \in Seq(S)
  BY <1>1 DEF Chain
<1> DEFINE e == g[n]
           pos == [i \in 0..n |-> Len(g[i])]
<1>3. ASSUME NEW i \in 0..n
      PROVE  Len(g[i]) <= Len(e) /\ Occurs(e, g[i], 0)
  <2>1. n \in 0..n /\ i <= n
    BY <1>2
  <2> QED BY <1>1, <2>1, ChainPrefix
<1>4. pos \in [0..n -> 0..Len(e)]
  <2>1. \A i \in 0..n : Len(g[i]) \in 0..Len(e)
    BY <1>2, <1>3
  <2> HIDE DEF e
  <2> QED BY <2>1
<1>5. pos[0] = 0 /\ pos[n] = Len(e)
  BY <1>1, <1>2
<1>6. ASSUME NEW i \in 1..n
      PROVE  /\ pos[i] = pos[i - 1] + (IF t[i] \in Escapes THEN 2 ELSE 1)
             /\ e[pos[i]] = t[i]
             /\ t[i] \in Escapes => e[pos[i - 1] + 1] = Backslash
  <2> DEFINE a == Len(g[i - 1])
             p == piece[i]
  <2>1. /\ i - 1 \in 0..n /\ p \in Seq(S)
        /\ Len(g[i]) = a + Len(p) /\ Occurs(g[i], p, a)
    <3>1. /\ i - 1 \in 0..n /\ piece[i] \in Seq(S)
          /\ Len(g[i]) = Len(g[i - 1]) + Len(piece[i])
          /\ Occurs(g[i], piece[i], Len(g[i - 1]))
      <4> HIDE DEF pos, e, a, p
      <4>1. Added(Len(g[i]), Len(g[i - 1]), Len(piece[i]))
        BY <1>1, ChainStep
      <4>2. /\ i - 1 \in 0..n /\ piece[i] \in Seq(S)
            /\ Occurs(g[i], piece[i], Len(g[i - 1]))
        BY <1>1, ChainStep
      <4> QED BY <4>1, <4>2 DEF Added
    <3> QED BY <3>1
  <2>2. i \in 0..n /\ a \in Nat /\ Len(g[i]) \in Nat /\ Len(e) \in Nat
        /\ Len(p) \in Nat
    <3>1. i \in 0..n /\ n \in 0..n
      BY <1>2
    <3>2. a \in Nat /\ Len(g[i]) \in Nat /\ Len(e) \in Nat
      BY <1>2, <2>1, <3>1
    <3>3. Len(p) \in Nat
      BY <2>1
    <3> QED BY <3>1, <3>2, <3>3
  <2>3. Occurs(e, p, a)
    <3>1. Occurs(e, g[i], 0)
      BY <1>3, <2>2
    <3> HIDE DEF e, p, a
    <3>2. Occurs(e, p, 0 + a)
      BY <2>1, <2>2, <3>1, OccursTrans
    <3> QED BY <2>2, <3>2
  <2>4. pos[i] = Len(g[i]) /\ pos[i - 1] = a
    BY <2>1, <2>2
  <2>5. p = EscapedPiece(t[i])
    BY <1>1
  <2> HIDE DEF e, p, a, pos
  <2>6. CASE t[i] \in Escapes
    <3>1. p = <<Backslash, t[i]>>
      BY <2>5, <2>6 DEF EscapedPiece, Escapes
    <3>2. Len(p) = 2 /\ p[1] = Backslash /\ p[2] = t[i]
      BY <3>1
    <3>3. e[a + 1] = p[1] /\ e[a + 2] = p[2]
      BY <2>3, <3>2 DEF Occurs
    <3> QED BY <2>1, <2>4, <2>6, <3>2, <3>3
  <2>7. CASE t[i] \notin Escapes
    <3>1. p = <<t[i]>>
      BY <2>5, <2>7 DEF EscapedPiece, Escapes
    <3>2. Len(p) = 1 /\ p[1] = t[i]
      BY <3>1
    <3>3. e[a + 1] = p[1]
      BY <2>3, <3>2 DEF Occurs
    <3> QED BY <2>1, <2>4, <2>7, <3>2, <3>3
  <2> QED BY <2>6, <2>7
<1>7. ASSUME NEW j \in 1..Len(e)
      PROVE  \E i \in 1..n : pos[i - 1] < j /\ j <= pos[i]
  <2>1. j \in Nat /\ j > Len(g[0]) /\ j <= Len(g[n])
    BY <1>1, <1>2
  <2>2. PICK i \in 1..n : Len(g[i - 1]) < j /\ j <= Len(g[i])
    BY <1>1, <2>1, ChainPosition
  <2>3. i \in 0..n /\ i - 1 \in 0..n
    BY <1>2
  <2> QED BY <2>2, <2>3
<1> HIDE DEF e, pos
<1>8. Spelled(t, e, pos)
  BY <1>4, <1>5, <1>6, <1>7 DEF Spelled, n
<1>9. e = Escaped(t)
  BY <1>1 DEF e
<1> QED BY <1>8, <1>9

(* A quote in it stands for one in the text. *)
LEMMA SpelledQuote ==
    ASSUME NEW t, NEW e, NEW pos, Spelled(t, e, pos), Len(t) \in Nat,
           Len(e) \in Nat, NEW j \in 1..Len(e), e[j] = Quote
    PROVE  /\ j >= 2 /\ e[j - 1] = Backslash
           /\ \E i \in 1..Len(t) : pos[i] = j /\ t[i] = Quote
<1>1. PICK i \in 1..Len(t) : pos[i - 1] < j /\ j <= pos[i]
  BY DEF Spelled
<1>2. i \in 0..Len(t) /\ i - 1 \in 0..Len(t)
  OBVIOUS
<1>3. /\ pos[i] \in Nat /\ pos[i - 1] \in Nat
      /\ pos[i] = pos[i - 1] + (IF t[i] \in Escapes THEN 2 ELSE 1)
      /\ e[pos[i]] = t[i]
      /\ t[i] \in Escapes => e[pos[i - 1] + 1] = Backslash
  BY SpelledChar
<1>4. CASE t[i] \notin Escapes
  <2>1. j = pos[i]
    BY <1>1, <1>3, <1>4
  <2> QED BY <1>3, <1>4, <2>1 DEF Escapes
<1>5. CASE t[i] \in Escapes
  <2>1. j = pos[i - 1] + 1 \/ j = pos[i]
    BY <1>1, <1>3, <1>5
  <2>2. j # pos[i - 1] + 1
    BY <1>3, <1>5, GlyphsDiffer
  <2>3. j = pos[i] /\ j - 1 = pos[i - 1] + 1 /\ j >= 2
    BY <1>3, <1>5, <2>1, <2>2
  <2> QED BY <1>3, <1>5, <2>3
<1> QED BY <1>4, <1>5

(* Characters that are not escaped stand side by side in both, in what
   JSON writes from j on if they are in the text from i on. *)
SameRun(t, i, e, j, k) == \A d \in 1..k : e[j + d] = t[i + d]

(* Characters that need no escape are written next to each other. *)
LEMMA WrittenRun ==
    ASSUME NEW t, NEW e, NEW pos, Spelled(t, e, pos), Len(t) \in Nat,
           Len(e) \in Nat, NEW i \in 0..Len(t), NEW k \in Nat,
           i + k <= Len(t), \A d \in 1..k : t[i + d] \notin Escapes
    PROVE  Added(pos[i + k], pos[i], k) /\ SameRun(t, i, e, pos[i], k)
<1> DEFINE T == {d \in Nat : d <= k => pos[i + d] = pos[i] + d
                                       /\ (d # 0 => e[pos[i] + d] = t[i + d])}
<1>0. i \in Nat /\ pos[i] \in Nat
  BY SpelledPlace
<1>1. 0 \in T
  BY <1>0
<1>2. ASSUME NEW d \in Nat, d \in T PROVE d + 1 \in T
  <2> SUFFICES ASSUME d + 1 <= k
               PROVE  /\ pos[i + (d + 1)] = pos[i] + (d + 1)
                      /\ e[pos[i] + (d + 1)] = t[i + (d + 1)]
    OBVIOUS
  <2> DEFINE a == i + (d + 1)
  <2>1. a \in 1..Len(t) /\ a - 1 = i + d /\ d <= k /\ d + 1 \in 1..k
    BY <1>0
  <2>2. pos[a - 1] = pos[i] + d
    BY <1>2, <2>1
  <2>3. t[a] \notin Escapes
    BY <2>1
  <2> HIDE DEF a
  <2>4. pos[a] = pos[a - 1] + 1 /\ e[pos[a]] = t[a]
    <3>1. a \in 1..Len(t)
      BY <2>1
    <3>2. /\ pos[a] = pos[a - 1] + (IF t[a] \in Escapes THEN 2 ELSE 1)
          /\ e[pos[a]] = t[a]
      BY <3>1, SpelledChar
    <3> QED BY ONLY <2>3, <3>2
  <2>5. pos[a] = pos[i] + (d + 1)
    BY <1>0, <2>2, <2>4
  <2> QED BY <2>4, <2>5 DEF a
<1> HIDE DEF T
<1>3. Nat \subseteq T
  BY <1>1, <1>2, SetInduction
<1>4. pos[i + k] = pos[i] + k
  BY <1>3 DEF T
<1>5. ASSUME NEW d \in 1..k PROVE e[pos[i] + d] = t[i + d]
  <2>1. d \in Nat /\ d <= k /\ d # 0 /\ d \in T
    BY <1>3
  <2> QED BY <2>1 DEF T
<1> QED BY <1>0, <1>4, <1>5 DEF SameRun, Added

(* Escaped characters without a backslash are the text's own. *)
LEMMA ReadRun ==
    ASSUME NEW t, NEW e, NEW pos, Spelled(t, e, pos), Len(t) \in Nat,
           Len(e) \in Nat, NEW i \in 0..Len(t), NEW k \in Nat,
           pos[i] + k <= Len(e),
           \A d \in 1..k : e[pos[i] + d] # Backslash
    PROVE  /\ i + k <= Len(t) /\ Added(pos[i + k], pos[i], k)
           /\ SameRun(t, i, e, pos[i], k)
<1> DEFINE T == {d \in Nat : d <= k => i + d <= Len(t)
                                       /\ pos[i + d] = pos[i] + d
                                       /\ (d # 0 => e[pos[i] + d] = t[i + d])}
<1>0. i \in Nat /\ pos[i] \in Nat /\ i <= Len(t)
  BY SpelledPlace
<1>1. 0 \in T
  BY <1>0
<1>2. ASSUME NEW d \in Nat, d \in T PROVE d + 1 \in T
  <2> SUFFICES ASSUME d + 1 <= k
               PROVE  /\ i + (d + 1) <= Len(t)
                      /\ pos[i + (d + 1)] = pos[i] + (d + 1)
                      /\ e[pos[i] + (d + 1)] = t[i + (d + 1)]
    OBVIOUS
  <2> DEFINE a == i + (d + 1)
  <2>1. d <= k /\ d + 1 \in 1..k /\ a - 1 = i + d
    BY <1>0
  <2>2. a - 1 <= Len(t) /\ pos[a - 1] = pos[i] + d
    BY <1>2, <2>1
  <2>3. a - 1 # Len(t)
    <3>1. SUFFICES ASSUME a - 1 = Len(t) PROVE FALSE
      OBVIOUS
    <3>2. pos[i] + d = Len(e)
      BY <2>2, <3>1 DEF Spelled
    <3>3. pos[i] + k <= Len(e) /\ d + 1 <= k
      OBVIOUS
    <3> HIDE DEF a, T
    <3> QED BY <1>0, <3>2, <3>3
  <2>4. a \in 1..Len(t)
    <3>1. a \in Nat /\ a >= 1
      BY <1>0
    <3> HIDE DEF a, T
    <3> QED BY <2>2, <2>3, <3>1
  <2>5. e[pos[i] + (d + 1)] # Backslash
    BY <2>1
  <2>6. pos[a - 1] + 1 = pos[i] + (d + 1)
    <3> HIDE DEF a, T
    <3>1. pos[i] \in Nat /\ d \in Nat /\ pos[a - 1] = pos[i] + d
      BY <1>0, <2>2
    <3> QED BY ONLY <3>1
  <2> HIDE DEF a
  <2>7. t[a] \notin Escapes
    BY <2>4, <2>5, <2>6 DEF Spelled
  <2>8. pos[a] = pos[a - 1] + 1 /\ e[pos[a]] = t[a]
    BY <2>4, <2>7 DEF Spelled
  <2>9. pos[a] = pos[i] + (d + 1) /\ a <= Len(t)
    BY <2>4, <2>6, <2>8
  <2> QED BY <2>8, <2>9 DEF a
<1> HIDE DEF T
<1>3. Nat \subseteq T
  BY <1>1, <1>2, SetInduction
<1>4. i + k <= Len(t) /\ pos[i + k] = pos[i] + k
  BY <1>3 DEF T
<1>5. ASSUME NEW d \in 1..k PROVE e[pos[i] + d] = t[i + d]
  <2>1. d \in Nat /\ d <= k /\ d # 0 /\ d \in T
    BY <1>3
  <2> QED BY <2>1 DEF T
<1> QED BY <1>0, <1>4, <1>5 DEF SameRun, Added

-----------------------------------------------------------------------------
(* What is found in a string. *)
Named(name) ==
    /\ name \in Seq(Glyph)
    /\ \A k \in 1..Len(name) : name[k] \notin Structural
    /\ Len(name) > 0 => name[1] \notin Follower

(* All of the text has been read where all that JSON writes is. *)
LEMMA ReadToTheEnd ==
    ASSUME NEW t, NEW e, NEW pos, Spelled(t, e, pos), Len(t) \in Nat,
           Len(e) \in Nat, NEW i \in 0..Len(t), pos[i] = Len(e)
    PROVE  i = Len(t)
<1> SUFFICES ASSUME i # Len(t) PROVE FALSE
  OBVIOUS
<1>1. i + 1 \in 1..Len(t) /\ i + 1 \in 0..Len(t) /\ (i + 1) - 1 = i
  OBVIOUS
<1>2. pos[i + 1] \in 0..Len(e)
  BY <1>1 DEF Spelled
<1> DEFINE a == i + 1
<1>3. pos[a] = pos[a - 1] + (IF t[a] \in Escapes THEN 2 ELSE 1)
  <2> HIDE DEF a
  <2>1. a \in 1..Len(t)
    BY <1>1 DEF a
  <2> QED BY <2>1 DEF Spelled
<1>4. pos[a - 1] = Len(e)
  BY <1>1
<1> HIDE DEF a
<1>5. pos[a] > Len(e)
  BY <1>3, <1>4
<1> QED BY <1>2, <1>5 DEF a

(* A quoted name occurs in a string at its end only: if it is the string,
   or if the string ends with a quote and the name. *)
LEMMA StringMentions ==
    ASSUME NEW t \in Seq(Glyph), NEW name, Named(name)
    PROVE  LET j == Quoted(Escaped(t))
           IN  /\ \A q : QuotedAt(j, name, q) => q + Len(name) + 2 = Len(j)
               /\ (\E q : QuotedAt(j, name, q))
                    <=> \/ t = name
                        \/ IsSuffix(<<Quote>> \o name, t)
<1> DEFINE e == Escaped(t)
           j == Quoted(e)
           m == Len(name)
           n == Len(t)
           N == Len(e)
           s == <<Quote>> \o name
<1>1. PICK pos : Spelled(t, e, pos)
  BY Glyphs, EscapedSpelled
<1>2. e \in Seq(Glyph)
  BY Glyphs, EscapedIsSeq
<1>3. m \in Nat /\ n \in Nat /\ N \in Nat /\ name \in Seq(Glyph)
  BY <1>2 DEF Named
<1>4. /\ j \in Seq(Glyph) /\ Len(j) = N + 2
      /\ j[1] = Quote /\ j[N + 2] = Quote
      /\ \A i \in 1..N : j[i + 1] = e[i]
  <2> HIDE DEF e
  <2> QED BY <1>2, Glyphs, QuotedParts
<1>5. /\ s \in Seq(Glyph) /\ Len(s) = m + 1 /\ s[1] = Quote
      /\ \A k \in 1..m : s[1 + k] = name[k]
  <2> DEFINE q == <<Quote>>
  <2>1. Quote \in Glyph
    BY Glyphs
  <2>2. q \in Seq(Glyph) /\ Len(q) = 1 /\ q[1] = Quote
    BY <2>1
  <2>3. s = q \o name
    BY DEF q
  <2> HIDE DEF q, s, m
  <2>4. /\ s \in Seq(Glyph) /\ Added(Len(s), Len(q), Len(name))
        /\ Occurs(s, q, 0) /\ Occurs(s, name, Len(q))
    BY <1>3, <2>2, <2>3, Joined
  <2>5. Len(s) = m + 1
    BY <1>3, <2>2, <2>4 DEF Added, m
  <2>6. s[1] = Quote
    BY <2>2, <2>4 DEF Occurs
  <2>7. \A k \in 1..m : s[1 + k] = name[k]
    BY <2>2, <2>4 DEF Occurs, m
  <2> QED BY <2>4, <2>5, <2>6, <2>7
<1>6. IsSuffix(s, t) <=> Occurs(t, s, n - (m + 1))
  <2>1. IsSuffix(s, t) <=> Occurs(t, s, Len(t) - Len(s))
    <3> HIDE DEF s
    <3> QED BY <1>5, SuffixOccurs
  <2> QED BY <1>5, <2>1
<1>7. \A k \in 1..m : name[k] # Quote /\ name[k] # Backslash
                      /\ name[k] \notin Escapes
  BY DEF Named, Structural, Escapes
<1>8. /\ pos \in [0..n -> 0..N] /\ pos[0] = 0 /\ pos[n] = N
  BY <1>1 DEF Spelled
<1> HIDE DEF e, j, m, n, N, s
<1>9. ASSUME NEW q, QuotedAt(j, name, q)
      PROVE  /\ q \in Nat /\ q + m = N /\ j[q + 1] = Quote
             /\ \A k \in 1..m : j[q + 1 + k] = name[k]
  <2>1. /\ q \in Nat /\ q + m + 2 <= N + 2
        /\ j[q + 1] = Quote /\ j[q + m + 2] = Quote
        /\ \A k \in 1..m : j[q + 1 + k] = name[k]
    BY <1>4, <1>9 DEF QuotedAt, m
  <2>2. q + m # N => FALSE
    <3> SUFFICES ASSUME q + m # N PROVE FALSE
      OBVIOUS
    <3> DEFINE i == q + m + 1
    <3>1. i \in 1..N /\ i + 1 = q + m + 2
      BY <1>3, <2>1
    <3> HIDE DEF i
    <3>2. e[i] = Quote
      BY <1>4, <2>1, <3>1
    <3>3. i >= 2 /\ e[i - 1] = Backslash
      BY <1>1, <1>3, <3>1, <3>2, SpelledQuote DEF n, N
    <3>4. i - 1 \in 1..N /\ (i - 1) + 1 = i
      BY <1>3, <3>1, <3>3
    <3>5. j[i] = Backslash
      BY <1>4, <3>3, <3>4
    <3>6. CASE m = 0
      <4>1. i = q + 1
        BY <1>3, <2>1, <3>6 DEF i
      <4> QED BY <2>1, <3>5, <4>1, GlyphsDiffer
    <3>7. CASE m # 0
      <4>1. m \in 1..m /\ q + 1 + m = i
        BY <1>3, <2>1, <3>7 DEF i
      <4> QED BY <1>7, <2>1, <3>5, <4>1
    <3> QED BY <3>6, <3>7
  <2> QED BY <2>1, <2>2
<1>10. ASSUME NEW q, QuotedAt(j, name, q) PROVE t = name \/ IsSuffix(s, t)
  <2>1. /\ q \in Nat /\ q + m = N /\ j[q + 1] = Quote
        /\ \A k \in 1..m : j[q + 1 + k] = name[k]
    BY <1>9, <1>10
  <2>2. ASSUME NEW d \in 1..m PROVE e[q + d] = name[d]
    <3>1. q + d \in 1..N /\ (q + d) + 1 = q + 1 + d
      <4>1. m \in Nat /\ N \in Nat /\ q \in Nat /\ q + m = N /\ d \in 1..m
        BY <1>3, <2>1
      <4> HIDE DEF m, N
      <4> QED BY ONLY <4>1
    <3> QED BY <1>4, <2>1, <3>1
  <2>3. ASSUME NEW i \in 0..n, pos[i] = q
        PROVE  i + m = n /\ \A d \in 1..m : t[i + d] = name[d]
    <3>1. \A d \in 1..m : e[pos[i] + d] # Backslash
      BY <1>7, <2>2, <2>3
    <3>2. pos[i] + m <= N
      BY <1>3, <2>1, <2>3
    <3>3. /\ i + m <= n /\ Added(pos[i + m], pos[i], m)
          /\ SameRun(t, i, e, pos[i], m)
      BY <1>1, <1>3, <3>1, <3>2, ReadRun DEF n, N
    <3>4. i + m \in 0..n /\ pos[i + m] = N
      BY <1>3, <2>1, <2>3, <3>3 DEF Added
    <3>5. i + m = n
      BY <1>1, <1>3, <3>4, ReadToTheEnd DEF n, N
    <3> QED BY <2>2, <2>3, <3>3, <3>5 DEF SameRun
  <2>4. CASE q = 0
    <3>1. 0 \in 0..n /\ pos[0] = q
      BY <1>3, <1>8, <2>4
    <3>2. 0 + m = n /\ \A d \in 1..m : t[0 + d] = name[d]
      BY <2>3, <3>1
    <3>3. \A d \in 1..m : 0 + d = d
      BY <1>3
    <3>4. Len(t) = Len(name) /\ \A d \in 1..Len(t) : t[d] = name[d]
      BY <1>3, <3>2, <3>3 DEF n, m
    <3> QED BY <1>3, <3>4, SameSeq
  <2>5. CASE q # 0
    <3>1. q \in 1..N
      BY <1>3, <2>1, <2>5
    <3>2. e[q] = Quote
      BY <1>4, <2>1, <3>1
    <3>a. \E i \in 1..Len(t) : pos[i] = q /\ t[i] = Quote
      <4>1. Len(t) \in Nat /\ Len(e) \in Nat /\ q \in 1..Len(e)
        BY <1>3, <3>1 DEF n, N
      <4> QED BY ONLY <1>1, <3>2, <4>1, SpelledQuote
    <3>3. PICK i \in 1..n : pos[i] = q /\ t[i] = Quote
      BY <3>a DEF n
    <3>4. i + m = n /\ \A d \in 1..m : t[i + d] = name[d]
      BY <2>3, <3>3
    <3>5. n - (m + 1) = i - 1 /\ i - 1 \in Nat /\ i - 1 + (m + 1) <= n
      BY <1>3, <3>4
    <3>6. ASSUME NEW k \in 1..(m + 1) PROVE t[i - 1 + k] = s[k]
      <4>1. CASE k = 1
        <5>1. i - 1 + k = i
          BY <4>1
        <5> QED BY <1>5, <3>3, <4>1, <5>1
      <4>2. CASE k # 1
        <5> DEFINE d == k - 1
        <5>1. d \in 1..m /\ i - 1 + k = i + d /\ 1 + d = k
          BY <1>3, <4>2
        <5> HIDE DEF d
        <5> QED BY <1>5, <3>4, <5>1
      <4> QED BY <4>1, <4>2
    <3>7. Occurs(t, s, n - (m + 1))
      BY <1>5, <3>5, <3>6 DEF Occurs, n
    <3> QED BY <1>6, <3>7
  <2> QED BY <2>4, <2>5
<1> DEFINE Begins(i) == i # 0 => t[i] = Quote
<1>11. ASSUME NEW i \in 0..n, i + m = n,
              \A d \in 1..m : t[i + d] = name[d],
              Begins(i)
       PROVE  QuotedAt(j, name, pos[i])
  <2>1. \A d \in 1..m : t[i + d] \notin Escapes
    BY <1>7, <1>11
  <2>2. Added(pos[i + m], pos[i], m) /\ SameRun(t, i, e, pos[i], m)
    <3>1. i + m <= n
      BY <1>3, <1>11
    <3> QED BY <1>1, <1>3, <2>1, <3>1, WrittenRun DEF n, N
  <2>3. pos[i] \in Nat /\ pos[i] + m = N
    BY <1>8, <1>11, <2>2 DEF Added
  <2>4. j[pos[i] + 1] = Quote
    <3>1. CASE i = 0
      <4>1. pos[i] + 1 = 1
        BY <1>8, <3>1
      <4> QED BY <1>4, <4>1
    <3>2. CASE i # 0
      <4>1. i \in 1..n
        BY <1>3, <3>2
      <4>2. e[pos[i]] = Quote /\ pos[i] # 0
        <5>1. e[pos[i]] = t[i]
          BY <1>1, <4>1 DEF Spelled, n
        <5>2. pos[i] = pos[i - 1] + (IF t[i] \in Escapes THEN 2 ELSE 1)
          BY <1>1, <4>1 DEF Spelled, n
        <5>3. pos[i - 1] \in Nat
          BY <1>3, <1>8, <4>1
        <5>4. pos[i] # 0
          BY <5>2, <5>3
        <5> QED BY <1>11, <3>2, <5>1, <5>4
      <4>3. pos[i] \in 1..N
        BY <1>3, <2>3, <4>2
      <4> QED BY <1>4, <4>2, <4>3
    <3> QED BY <3>1, <3>2
  <2> DEFINE q == pos[i]
  <2>5. ASSUME NEW k \in 1..m PROVE j[q + 1 + k] = name[k]
    <3>1. e[q + k] = t[i + k]
      BY <2>2 DEF SameRun
    <3> HIDE DEF q
    <3>2. q + k \in 1..N /\ (q + k) + 1 = q + 1 + k
      BY <1>3, <2>3 DEF q
    <3> QED BY <1>4, <1>11, <3>1, <3>2
  <2>6. q + m + 2 = N + 2
    BY <1>3, <2>3
  <2> HIDE DEF q
  <2>7. /\ q \in Nat /\ q + m + 2 <= N + 2 /\ j[q + 1] = Quote
        /\ j[q + m + 2] = Quote
    BY <1>3, <1>4, <2>3, <2>4, <2>6 DEF q
  <2>8. QuotedAt(j, name, q)
    BY <1>4, <2>5, <2>7 DEF QuotedAt, m
  <2> QED BY <2>8 DEF q
<1> HIDE DEF Begins
<1>12. ASSUME t = name PROVE \E q : QuotedAt(j, name, q)
  <2>1. n = m
    BY <1>12 DEF n, m
  <2> DEFINE i == n - m
  <2>2. i \in 0..n /\ i = 0
    BY <1>3, <2>1
  <2>3. i + m = n
    BY <1>3, <2>1, <2>2
  <2> HIDE DEF i
  <2>4. ASSUME NEW d \in 1..m PROVE t[i + d] = name[d]
    <3>1. i + d = d
      BY <2>2
    <3> QED BY <1>12, <3>1
  <2>5. Begins(i)
    BY <2>2 DEF Begins
  <2>6. QuotedAt(j, name, pos[i])
    BY <1>11, <2>2, <2>3, <2>4, <2>5
  <2> QED BY <2>6
<1>13. ASSUME IsSuffix(s, t) PROVE \E q : QuotedAt(j, name, q)
  <2> DEFINE i == n - m
  <2>1. /\ n - (m + 1) \in Nat
        /\ \A k \in 1..(m + 1) : t[n - (m + 1) + k] = s[k]
    BY <1>5, <1>6, <1>13 DEF Occurs
  <2>2. i \in 0..n /\ i # 0 /\ i + m = n
    BY <1>3, <2>1
  <2>3. t[i] = Quote
    <3>1. 1 \in 1..(m + 1) /\ n - (m + 1) + 1 = i
      BY <1>3
    <3>2. t[n - (m + 1) + 1] = s[1]
      BY <2>1, <3>1
    <3> QED BY <1>5, <3>1, <3>2
  <2>4. ASSUME NEW d \in 1..m PROVE t[i + d] = name[d]
    <3>1. 1 + d \in 1..(m + 1) /\ n - (m + 1) + (1 + d) = i + d
      BY <1>3
    <3>2. t[n - (m + 1) + (1 + d)] = s[1 + d]
      BY <2>1, <3>1
    <3> QED BY <1>5, <3>1, <3>2
  <2> HIDE DEF i
  <2>5. Begins(i)
    BY <2>2, <2>3 DEF Begins
  <2>6. QuotedAt(j, name, pos[i])
    BY <1>11, <2>2, <2>4, <2>5
  <2> QED BY <2>6
<1>14. \A q : QuotedAt(j, name, q) => q + Len(name) + 2 = Len(j)
  <2> SUFFICES ASSUME NEW q, QuotedAt(j, name, q)
               PROVE  q + m + 2 = Len(j)
    BY DEF m
  <2>1. q \in Nat /\ q + m = N
    BY <1>9
  <2> QED BY <1>3, <1>4, <2>1
<1>15. (\E q : QuotedAt(j, name, q)) <=> (t = name \/ IsSuffix(s, t))
  BY <1>10, <1>12, <1>13
<1> QED BY <1>14, <1>15 DEF j, e, s

(* What is_minified searches. *)
Spaced == <<Quote, ":", Space>>

SpacedAt(t, q) ==
    /\ q \in Nat /\ q + 3 <= Len(t)
    /\ t[q + 1] = Quote /\ t[q + 2] = ":" /\ t[q + 3] = Space

(* Where the text stands by which is_minified knows spaced JSON. *)
LEMMA SpacedOccurs ==
    ASSUME NEW t, Len(t) \in Nat, NEW q
    PROVE  Occurs(t, Spaced, q) <=> SpacedAt(t, q)
<1> DEFINE p == Spaced
<1>1. /\ Len(p) = 3 /\ p[1] = Quote /\ p[2] = ":" /\ p[3] = Space
  BY DEF Spaced
<1> HIDE DEF p
<1>2. 1..3 = {1, 2, 3}
  OBVIOUS
<1>3. Occurs(t, p, q) <=> SpacedAt(t, q)
  BY <1>1, <1>2 DEF Occurs, SpacedAt
<1> QED BY <1>3 DEF p

(* The text that is_minified looks for is text. *)
LEMMA SpacedSeq == Spaced \in Seq(Glyph)
<1>1. Quote \in Glyph /\ ":" \in Glyph /\ Space \in Glyph
  BY Glyphs
<1> QED BY <1>1 DEF Spaced

(* It occurs in a string if the text has it or begins like what follows a
   quote there. *)
LEMMA StringSpaced ==
    ASSUME NEW t \in Seq(Glyph)
    PROVE  LET j == Quoted(Escaped(t))
           IN  (\E q : SpacedAt(j, q))
                 <=> \/ IsPrefix(<<":", Space>>, t)
                     \/ Places(t, Spaced, 0) # {}
<1> DEFINE e == Escaped(t)
           j == Quoted(e)
           n == Len(t)
           N == Len(e)
           s == <<":", Space>>
<1>1. PICK pos : Spelled(t, e, pos)
  BY Glyphs, EscapedSpelled
<1>2. e \in Seq(Glyph)
  BY Glyphs, EscapedIsSeq
<1>3. n \in Nat /\ N \in Nat
  BY <1>2
<1>4. /\ j \in Seq(Glyph) /\ Len(j) = N + 2
      /\ j[1] = Quote /\ j[N + 2] = Quote
      /\ \A i \in 1..N : j[i + 1] = e[i]
  <2> HIDE DEF e
  <2> QED BY <1>2, Glyphs, QuotedParts
<1>5. IsPrefix(s, t) <=> n >= 2 /\ t[1] = ":" /\ t[2] = Space
  <2>1. ":" \in Glyph /\ Space \in Glyph
    BY Glyphs
  <2>2. s \in Seq(Glyph) /\ Len(s) = 2 /\ s[1] = ":" /\ s[2] = Space
    BY <2>1
  <2> HIDE DEF s
  <2>3. IsPrefix(s, t) <=> Occurs(t, s, 0)
    BY <2>2, PrefixOccurs
  <2>4. 1..2 = {1, 2} /\ 0 + 1 = 1 /\ 0 + 2 = 2 /\ 0 \in Nat
    OBVIOUS
  <2>5. Occurs(t, s, 0) <=> n >= 2 /\ t[1] = ":" /\ t[2] = Space
    BY <1>3, <2>2, <2>4 DEF Occurs
  <2> QED BY <2>3, <2>5
<1>6. ASSUME NEW p
      PROVE  p \in Places(t, Spaced, 0) <=> SpacedAt(t, p)
  <2>1. p \in Places(t, Spaced, 0) <=> p >= 0 /\ Occurs(t, Spaced, p)
    BY SpacedSeq, PlaceIsOccurrence
  <2>2. Occurs(t, Spaced, p) <=> SpacedAt(t, p)
    BY SpacedOccurs
  <2>3. SpacedAt(t, p) => p >= 0
    BY DEF SpacedAt
  <2> QED BY <2>1, <2>2, <2>3
<1>7. /\ pos \in [0..n -> 0..N] /\ pos[0] = 0 /\ pos[n] = N
  BY <1>1 DEF Spelled
<1>8. /\ ":" \notin Escapes /\ Space \notin Escapes
      /\ ":" # Backslash /\ Space # Backslash /\ Space # Quote /\ ":" # Quote
  BY GlyphsDiffer DEF Escapes
<1> HIDE DEF e, j, n, N, s
<1>9. ASSUME NEW i \in 0..n, pos[i] + 2 <= N,
             e[pos[i] + 1] = ":", e[pos[i] + 2] = Space
      PROVE  i + 2 <= n /\ t[i + 1] = ":" /\ t[i + 2] = Space
  <2>1. \A d \in 1..2 : e[pos[i] + d] # Backslash
    <3>1. 1..2 = {1, 2}
      OBVIOUS
    <3> QED BY <1>8, <1>9, <3>1
  <2>2. i + 2 <= n /\ SameRun(t, i, e, pos[i], 2)
    BY <1>1, <1>3, <1>9, <2>1, ReadRun DEF n, N
  <2> QED BY <1>9, <2>2 DEF SameRun
<1>10. ASSUME NEW i \in 0..n, i + 2 <= n, t[i + 1] = ":", t[i + 2] = Space
       PROVE  pos[i] + 2 <= N /\ e[pos[i] + 1] = ":" /\ e[pos[i] + 2] = Space
  <2>1. \A d \in 1..2 : t[i + d] \notin Escapes
    <3>1. 1..2 = {1, 2}
      OBVIOUS
    <3> QED BY <1>8, <1>10, <3>1
  <2>2. Added(pos[i + 2], pos[i], 2) /\ SameRun(t, i, e, pos[i], 2)
    BY <1>1, <1>3, <1>10, <2>1, WrittenRun DEF n, N
  <2>3. i + 2 \in 0..n
    BY <1>3, <1>10
  <2>4. pos[i + 2] <= N
    BY <1>3, <1>7, <2>3
  <2>5. pos[i] + 2 <= N
    BY <2>2, <2>4 DEF Added
  <2> QED BY <1>10, <2>2, <2>5 DEF SameRun
<1>11. ASSUME NEW q, SpacedAt(j, q)
       PROVE  IsPrefix(s, t) \/ Places(t, Spaced, 0) # {}
  <2>1. /\ q \in Nat /\ q + 3 <= N + 2 /\ j[q + 1] = Quote
        /\ j[q + 2] = ":" /\ j[q + 3] = Space
    BY <1>4, <1>11 DEF SpacedAt
  <2>2. q + 3 # N + 2
    BY <1>4, <1>8, <2>1
  <2>3. q + 1 \in 1..N /\ q + 2 \in 1..N
        /\ (q + 1) + 1 = q + 2 /\ (q + 2) + 1 = q + 3
    BY <1>3, <2>1, <2>2
  <2>4. e[q + 1] = ":" /\ e[q + 2] = Space /\ q + 2 <= N
    BY <1>4, <2>1, <2>3
  <2>5. CASE q = 0
    <3>1. 0 \in 0..n /\ pos[0] = q
      BY <1>3, <1>7, <2>5
    <3>2. 0 + 2 <= n /\ t[0 + 1] = ":" /\ t[0 + 2] = Space
      BY <1>9, <2>4, <3>1
    <3> QED BY <1>3, <1>5, <3>2
  <2>6. CASE q # 0
    <3>1. q \in 1..N
      BY <1>3, <2>1, <2>3, <2>6
    <3>2. e[q] = Quote
      BY <1>4, <2>1, <3>1
    <3>3. PICK i \in 1..n : pos[i] = q /\ t[i] = Quote
      <4>1. Len(t) \in Nat /\ Len(e) \in Nat /\ q \in 1..Len(e)
        BY <1>3, <3>1 DEF n, N
      <4>2. \E i \in 1..Len(t) : pos[i] = q /\ t[i] = Quote
        BY ONLY <1>1, <3>2, <4>1, SpelledQuote
      <4> QED BY <4>2 DEF n
    <3>4. i \in 0..n
      OBVIOUS
    <3>5. i + 2 <= n /\ t[i + 1] = ":" /\ t[i + 2] = Space
      BY <1>9, <2>4, <3>3, <3>4
    <3> DEFINE p == i - 1
    <3>6. p \in Nat /\ p + 1 = i /\ p + 2 = i + 1 /\ p + 3 = i + 2
      BY <1>3
    <3> HIDE DEF p
    <3>7. SpacedAt(t, p)
      BY <3>3, <3>5, <3>6 DEF SpacedAt, n
    <3> QED BY <1>6, <3>7
  <2> QED BY <2>5, <2>6
<1>12. ASSUME IsPrefix(s, t) PROVE SpacedAt(j, 0)
  <2>1. 0 \in 0..n /\ 0 + 2 <= n /\ t[0 + 1] = ":" /\ t[0 + 2] = Space
    BY <1>3, <1>5, <1>12
  <2>2. /\ pos[0] + 2 <= N
        /\ e[pos[0] + 1] = ":" /\ e[pos[0] + 2] = Space
    BY <1>10, <2>1
  <2>3. 2 <= N /\ e[1] = ":" /\ e[2] = Space
    BY <1>3, <1>7, <2>2
  <2>4. j[1 + 1] = e[1] /\ j[2 + 1] = e[2]
    BY <1>3, <1>4, <2>3
  <2> QED BY <1>3, <1>4, <2>3, <2>4 DEF SpacedAt
<1>13. ASSUME NEW p, SpacedAt(t, p) PROVE \E q : SpacedAt(j, q)
  <2> DEFINE i == p + 1
  <2>1. /\ p \in Nat /\ i \in 1..n /\ i \in 0..n /\ i + 2 <= n
        /\ t[i] = Quote /\ t[i + 1] = ":" /\ t[i + 2] = Space
    <3>1. p \in Nat /\ p + 3 <= n /\ t[p + 1] = Quote /\ t[p + 2] = ":"
          /\ t[p + 3] = Space
      BY <1>13 DEF SpacedAt, n
    <3>2. i + 1 = p + 2 /\ i + 2 = p + 3
      BY <3>1
    <3> QED BY <1>3, <3>1, <3>2
  <2> HIDE DEF i
  <2>2. pos[i] + 2 <= N /\ e[pos[i] + 1] = ":" /\ e[pos[i] + 2] = Space
    BY <1>10, <2>1
  <2> DEFINE q == pos[i]
  <2>3. e[q] = Quote /\ q = pos[i - 1] + (IF t[i] \in Escapes THEN 2 ELSE 1)
    BY <1>1, <2>1 DEF Spelled, n
  <2>4. pos[i - 1] \in Nat /\ q \in Nat
    BY <1>3, <1>7, <2>1
  <2> HIDE DEF q
  <2>5. q \in 1..N /\ q + 1 \in 1..N /\ q + 2 \in 1..N
        /\ (q + 1) + 1 = q + 2 /\ (q + 2) + 1 = q + 3 /\ q + 3 <= N + 2
    <3>1. /\ q \in Nat /\ N \in Nat /\ pos[i - 1] \in Nat /\ q + 2 <= N
          /\ q = pos[i - 1] + 2 \/ q = pos[i - 1] + 1
      BY <1>3, <2>2, <2>3, <2>4 DEF q
    <3> HIDE DEF N
    <3> QED BY ONLY <3>1
  <2>6. j[q + 1] = Quote /\ j[q + 2] = ":" /\ j[q + 3] = Space
    BY <1>4, <2>2, <2>3, <2>5 DEF q
  <2>7. SpacedAt(j, q)
    BY <1>4, <2>4, <2>5, <2>6 DEF SpacedAt
  <2> QED BY <2>7
<1>14. (\E q : SpacedAt(j, q))
         <=> IsPrefix(s, t) \/ Places(t, Spaced, 0) # {}
  BY <1>6, <1>11, <1>12, <1>13
<1> QED BY <1>14 DEF j, e, s

(* Where a quoted name stands in a part of a text. *)
LEMMA QuotedWithin ==
    ASSUME NEW t, NEW u, NEW name, Len(t) \in Nat, Len(u) \in Nat,
           Len(name) \in Nat, NEW a, Occurs(t, u, a),
           NEW p \in Nat, p + Len(name) + 2 <= Len(u)
    PROVE  QuotedAt(t, name, a + p) <=> QuotedAt(u, name, p)
<1> DEFINE L == Len(name)
<1>1. /\ a \in Nat /\ a + Len(u) <= Len(t)
      /\ \A k \in 1..Len(u) : t[a + k] = u[k]
  BY DEF Occurs
<1>2. L \in Nat
  OBVIOUS
<1> HIDE DEF L
<1>3. /\ a + p \in Nat /\ (a + p) + L + 2 <= Len(t)
      /\ p + L + 2 <= Len(u)
  BY <1>1, <1>2 DEF L
<1>4. t[(a + p) + 1] = u[p + 1]
  <2>1. p + 1 \in 1..Len(u) /\ a + (p + 1) = (a + p) + 1
    BY <1>1, <1>2, <1>3
  <2> QED BY <1>1, <2>1
<1>5. t[(a + p) + L + 2] = u[p + L + 2]
  <2>1. p + L + 2 \in 1..Len(u) /\ a + (p + L + 2) = (a + p) + L + 2
    BY <1>1, <1>2, <1>3
  <2> QED BY <1>1, <2>1
<1>6. ASSUME NEW k \in 1..L
      PROVE  t[(a + p) + 1 + k] = u[p + 1 + k]
  <2>1. p + 1 + k \in 1..Len(u) /\ a + (p + 1 + k) = (a + p) + 1 + k
    BY <1>1, <1>2, <1>3
  <2> QED BY <1>1, <2>1
<1> QED BY <1>3, <1>4, <1>5, <1>6 DEF QuotedAt, L

(* And what is_minified searches. *)
LEMMA SpacedWithin ==
    ASSUME NEW t, NEW u, Len(t) \in Nat, Len(u) \in Nat,
           NEW a, Occurs(t, u, a), NEW p \in Nat, p + 3 <= Len(u)
    PROVE  SpacedAt(t, a + p) <=> SpacedAt(u, p)
<1>1. /\ a \in Nat /\ a + Len(u) <= Len(t)
      /\ \A k \in 1..Len(u) : t[a + k] = u[k]
  BY DEF Occurs
<1>2. /\ p + 1 \in 1..Len(u) /\ p + 2 \in 1..Len(u) /\ p + 3 \in 1..Len(u)
      /\ a + (p + 1) = (a + p) + 1 /\ a + (p + 2) = (a + p) + 2
      /\ a + (p + 3) = (a + p) + 3
      /\ a + p \in Nat /\ (a + p) + 3 <= Len(t)
  BY <1>1
<1> QED BY <1>1, <1>2 DEF SpacedAt

(* Between its quotes a name has none of the structural characters. *)
LEMMA QuotedSpan ==
    ASSUME NEW t, NEW name, Named(name), NEW q, QuotedAt(t, name, q),
           NEW z \in Nat, q < z, z <= q + Len(name) + 2
    PROVE  \/ z = q + 1 \/ z = q + Len(name) + 2
           \/ t[z] \notin Structural
<1> DEFINE L == Len(name)
           k == z - q - 1
<1>1. /\ L \in Nat /\ q \in Nat
      /\ \A i \in 1..L : t[q + 1 + i] = name[i] /\ name[i] \notin Structural
  BY DEF Named, QuotedAt
<1> HIDE DEF L
<1> SUFFICES ASSUME z # q + 1, z # q + L + 2
             PROVE  t[z] \notin Structural
  BY DEF L
<1>2. z <= q + L + 2
  BY DEF L
<1>3. k \in 1..L /\ q + 1 + k = z
  <2>1. L \in Nat /\ q \in Nat /\ z \in Nat /\ q < z /\ z <= q + L + 2
        /\ z # q + 1 /\ z # q + L + 2
    BY <1>1, <1>2
  <2> QED BY ONLY <2>1
<1> HIDE DEF k
<1> QED BY <1>1, <1>3

(* What no name holds. *)
LEMMA StructuralChars ==
    /\ Quote \in Structural /\ Backslash \in Structural
    /\ LBrace \in Structural /\ RBrace \in Structural
    /\ Nul \in Structural
    /\ Quote \in Marks /\ Comma \in Marks /\ RBrace \in Marks
    /\ ":" \in Follower /\ Comma \in Follower /\ "]" \in Follower
BY DEF Structural, Marks, Follower

(* The first character of a quoted name is none that may follow a quote. *)
LEMMA QuotedFirst ==
    ASSUME NEW t, NEW name, Named(name), NEW q, QuotedAt(t, name, q),
           NEW p, p = q + 2
    PROVE  t[p] = Quote \/ t[p] \notin Follower \cup {RBrace}
<1> DEFINE L == Len(name)
<1>1. /\ L \in Nat /\ q \in Nat /\ t[q + L + 2] = Quote
      /\ \A i \in 1..L : t[q + 1 + i] = name[i] /\ name[i] \notin Structural
      /\ L > 0 => name[1] \notin Follower
  BY DEF Named, QuotedAt
<1> HIDE DEF L
<1>2. CASE L = 0
  <2>1. q + L + 2 = p
    BY <1>1, <1>2
  <2> QED BY <1>1, <2>1
<1>3. CASE L > 0
  <2>1. 1 \in 1..L /\ q + 1 + 1 = p
    BY <1>1, <1>3
  <2> QED BY <1>1, <1>3, <2>1, StructuralChars
<1> QED BY <1>1, <1>2, <1>3

(* A quoted name that begins in a quoted key is the key. *)
LEMMA KeyPlace ==
    ASSUME NEW t, NEW key, Named(key), NEW a, QuotedAt(t, key, a),
           t[a + Len(key) + 3] = ":",
           NEW name, Named(name), NEW q, QuotedAt(t, name, q),
           a <= q, q <= a + Len(key) + 1
    PROVE  q = a /\ name = key
<1> DEFINE L == Len(name)
           K == Len(key)
<1>1. /\ L \in Nat /\ K \in Nat /\ q \in Nat /\ a \in Nat
      /\ key \in Seq(Glyph) /\ name \in Seq(Glyph)
  BY DEF Named, QuotedAt
<1>2. /\ t[q + 1] = Quote /\ t[q + L + 2] = Quote
      /\ \A i \in 1..L : t[q + 1 + i] = name[i]
  BY DEF QuotedAt
<1>3. /\ t[a + 1] = Quote /\ t[a + K + 2] = Quote
      /\ \A i \in 1..K : t[a + 1 + i] = key[i]
  BY DEF QuotedAt
<1>4. ASSUME NEW z \in Nat, a < z, z <= a + K + 2, t[z] = Quote
      PROVE  z = a + 1 \/ z = a + K + 2
  BY <1>4, QuotedSpan, StructuralChars
<1>5. ASSUME NEW z \in Nat, q < z, z <= q + L + 2, t[z] = Quote
      PROVE  z = q + 1 \/ z = q + L + 2
  BY <1>5, QuotedSpan, StructuralChars
<1>6. t[q + 2] # ":"
  BY QuotedFirst, GlyphsDiffer, StructuralChars
<1>7. t[a + K + 3] = ":" /\ a <= q /\ q <= a + K + 1
  OBVIOUS
<1> HIDE DEF L, K
<1>8. q + 1 = a + 1 \/ q + 1 = a + K + 2
  <2>1. q + 1 \in Nat /\ a < q + 1 /\ q + 1 <= a + K + 2
    BY <1>1, <1>7
  <2> QED BY <1>2, <1>4, <2>1
<1>9. q + 1 # a + K + 2
  <2>1. ASSUME q + 1 = a + K + 2 PROVE FALSE
    <3>1. a + K + 3 = q + 2
      BY <1>1, <2>1
    <3> QED BY <1>6, <1>7, <3>1
  <2> QED BY <2>1
<1>10. q = a
  BY <1>1, <1>8, <1>9
<1>11. L = K
  <2>1. CASE L < K
    <3>1. q + L + 2 \in Nat /\ a < q + L + 2 /\ q + L + 2 <= a + K + 2
          /\ q + L + 2 # a + 1 /\ q + L + 2 # a + K + 2
      BY <1>1, <1>10, <2>1
    <3> QED BY <1>2, <1>4, <3>1
  <2>2. CASE K < L
    <3>1. a + K + 2 \in Nat /\ q < a + K + 2 /\ a + K + 2 <= q + L + 2
          /\ a + K + 2 # q + 1 /\ a + K + 2 # q + L + 2
      BY <1>1, <1>10, <2>2
    <3> QED BY <1>3, <1>5, <3>1
  <2> QED BY <1>1, <2>1, <2>2
<1>12. \A i \in 1..L : name[i] = key[i]
  BY <1>2, <1>3, <1>10, <1>11
<1>13. name = key
  BY <1>1, <1>11, <1>12, SameSeq DEF L, K
<1> QED BY <1>10, <1>13

(* At a key, a spaced colon can only stand right behind the name. *)
LEMMA KeySpaced ==
    ASSUME NEW t, NEW key, Named(key), NEW a, QuotedAt(t, key, a),
           t[a + Len(key) + 3] = ":", NEW q, SpacedAt(t, q),
           a <= q, q <= a + Len(key) + 1
    PROVE  q = a + Len(key) + 1
<1> DEFINE K == Len(key)
<1>1. K \in Nat /\ q \in Nat /\ a \in Nat
  BY DEF Named, QuotedAt, SpacedAt
<1>2. t[q + 1] = Quote /\ t[q + 2] = ":"
  BY DEF SpacedAt
<1>3. t[a + K + 2] = Quote
  BY DEF QuotedAt
<1>4. ASSUME NEW z \in Nat, a < z, z <= a + K + 2
      PROVE  z = a + 1 \/ z = a + K + 2 \/ t[z] \notin Structural
  BY <1>4, QuotedSpan
<1>5. a <= q /\ q <= a + K + 1
  OBVIOUS
<1> HIDE DEF K
<1> SUFFICES ASSUME q # a + K + 1 PROVE FALSE
  BY DEF K
<1>6. /\ q + 1 \in Nat /\ a < q + 1 /\ q + 1 <= a + K + 2
      /\ q + 1 # a + K + 2
  BY <1>1, <1>5
<1>7. q + 1 = a + 1
  BY <1>2, <1>4, <1>6, StructuralChars
<1>8. q + 2 = a + 2
  BY <1>1, <1>7
<1> QED BY <1>2, <1>8, QuotedFirst, GlyphsDiffer, StructuralChars

(* A text in three parts. *)
Parts(t, x, y, z) ==
    /\ Len(x) \in Nat /\ Len(y) \in Nat /\ Len(z) \in Nat
    /\ Len(t) = Len(x) + Len(y) + Len(z)
    /\ Occurs(t, x, 0) /\ Occurs(t, y, Len(x))
    /\ Occurs(t, z, Len(x) + Len(y))

(* Where the parts of a text stand that is put together of three. *)
LEMMA Between ==
    ASSUME NEW S, NEW x \in Seq(S), NEW y \in Seq(S), NEW z \in Seq(S)
    PROVE  x \o y \o z \in Seq(S) /\ Parts(x \o y \o z, x, y, z)
<1> DEFINE u == x \o y
           t == u \o z
<1>1. /\ u \in Seq(S) /\ Added(Len(u), Len(x), Len(y))
      /\ Occurs(u, x, 0) /\ Occurs(u, y, Len(x))
  BY Joined
<1> HIDE DEF u
<1>2. /\ t \in Seq(S) /\ Added(Len(t), Len(u), Len(z))
      /\ Occurs(t, u, 0) /\ Occurs(t, z, Len(u))
  BY <1>1, Joined
<1> HIDE DEF t
<1>3. Len(t) \in Nat /\ Len(u) \in Nat /\ Len(x) \in Nat /\ Len(y) \in Nat
  BY <1>1, <1>2 DEF Added
<1>4. Occurs(t, x, 0 + 0) /\ Occurs(t, y, 0 + Len(x))
  BY <1>1, <1>2, <1>3, OccursTrans
<1>5. /\ Len(u) = Len(x) + Len(y) /\ Len(z) \in Nat
      /\ Len(t) = Len(x) + Len(y) + Len(z)
      /\ 0 + 0 = 0 /\ 0 + Len(x) = Len(x)
  BY <1>1, <1>2 DEF Added
<1>6. Occurs(t, x, 0) /\ Occurs(t, y, Len(x))
      /\ Occurs(t, z, Len(x) + Len(y))
  BY <1>2, <1>4, <1>5
<1>7. t \in Seq(S) /\ Parts(t, x, y, z)
  BY <1>2, <1>3, <1>5, <1>6 DEF Parts
<1> QED BY <1>7 DEF t, u

-----------------------------------------------------------------------------
(* A value as JSON writes it. *)
GoodValue(v) ==
    /\ v.kind \in {"string", "number", "list", "object"}
    /\ v.text \in Seq(Glyph)
    /\ v.kind = "number" =>
         /\ Len(v.text) > 0
         /\ \A k \in 1..Len(v.text) :
               v.text[k] \notin Marks /\ v.text[k] # Space
    /\ v.kind = "object" => Named(v.text)

Brackets(j, w) ==
    /\ w \in Seq(Glyph) /\ j \in Seq(Glyph) /\ Len(j) = Len(w) + 2
    /\ Occurs(j, w, 1) /\ j[1] = "[" /\ j[Len(j)] = "]"

Braces(j, w) ==
    /\ w \in Seq(Glyph) /\ j \in Seq(Glyph) /\ Len(j) = Len(w) + 4
    /\ Occurs(j, w, 1) /\ j[1] = LBrace /\ j[Len(w) + 2] = ":"
    /\ j[Len(w) + 3] = "0" /\ j[Len(w) + 4] = RBrace

(* A string is written with quotes around it. *)
LEMMA StringText ==
    ASSUME NEW t \in Seq(Glyph)
    PROVE  LET w == Quoted(Escaped(t))
           IN  /\ w \in Seq(Glyph) /\ Len(w) >= 2
               /\ w[1] = Quote /\ w[Len(w)] = Quote
<1> DEFINE e == Escaped(t)
           w == Quoted(e)
<1>1. e \in Seq(Glyph)
  BY Glyphs, EscapedIsSeq
<1> HIDE DEF e
<1>2. /\ w \in Seq(Glyph) /\ Len(w) = Len(e) + 2
      /\ w[1] = Quote /\ w[Len(e) + 2] = Quote
  BY <1>1, Glyphs, QuotedParts
<1>3. Len(e) \in Nat
  BY <1>1
<1> HIDE DEF w
<1>4. w \in Seq(Glyph) /\ Len(w) >= 2 /\ w[1] = Quote /\ w[Len(w)] = Quote
  BY <1>2, <1>3
<1> QED BY <1>4 DEF w, e

(* A list is written with brackets around its text. *)
LEMMA ListText ==
    ASSUME NEW w \in Seq(Glyph)
    PROVE  Brackets(<<"[">> \o w \o <<"]">>, w)
<1> DEFINE x == <<"[">>
           z == <<"]">>
           j == x \o w \o z
<1>1. "[" \in Glyph /\ "]" \in Glyph
  BY Glyphs
<1>2. /\ x \in Seq(Glyph) /\ z \in Seq(Glyph) /\ Len(x) = 1 /\ Len(z) = 1
      /\ x[1] = "[" /\ z[1] = "]"
  BY <1>1
<1> HIDE DEF x, z
<1>3. j \in Seq(Glyph) /\ Parts(j, x, w, z)
  BY <1>2, Between
<1> HIDE DEF j
<1>4. /\ Len(w) \in Nat /\ Len(j) = Len(w) + 2
      /\ Occurs(j, x, 0) /\ Occurs(j, w, 1) /\ Occurs(j, z, 1 + Len(w))
  BY <1>2, <1>3 DEF Parts
<1>5. j[0 + 1] = x[1] /\ j[(1 + Len(w)) + 1] = z[1]
  <2>1. 1 \in 1..Len(x) /\ 1 \in 1..Len(z)
    BY <1>2
  <2> QED BY <1>4, <2>1 DEF Occurs
<1>6. 0 + 1 = 1 /\ (1 + Len(w)) + 1 = Len(j)
  BY <1>4
<1>7. Brackets(j, w)
  BY <1>2, <1>3, <1>4, <1>5, <1>6 DEF Brackets
<1> QED BY <1>7 DEF j, x, z

(* An inner object is written with braces around its member. *)
LEMMA ObjectValueText ==
    ASSUME NEW w \in Seq(Glyph)
    PROVE  Braces(<<LBrace>> \o w \o <<":", "0", RBrace>>, w)
<1> DEFINE x == <<LBrace>>
           z == <<":", "0", RBrace>>
           j == x \o w \o z
<1>1. LBrace \in Glyph /\ RBrace \in Glyph /\ ":" \in Glyph /\ "0" \in Glyph
  BY Glyphs
<1>2. /\ x \in Seq(Glyph) /\ z \in Seq(Glyph) /\ Len(x) = 1 /\ Len(z) = 3
      /\ x[1] = LBrace /\ z[1] = ":" /\ z[2] = "0" /\ z[3] = RBrace
  BY <1>1
<1> HIDE DEF x, z
<1>3. j \in Seq(Glyph) /\ Parts(j, x, w, z)
  BY <1>2, Between
<1> HIDE DEF j
<1>4. /\ Len(w) \in Nat /\ Len(j) = Len(w) + 4
      /\ Occurs(j, x, 0) /\ Occurs(j, w, 1) /\ Occurs(j, z, 1 + Len(w))
  BY <1>2, <1>3 DEF Parts
<1>5. /\ j[0 + 1] = x[1] /\ j[(1 + Len(w)) + 1] = z[1]
      /\ j[(1 + Len(w)) + 2] = z[2] /\ j[(1 + Len(w)) + 3] = z[3]
  <2>1. 1 \in 1..Len(x) /\ 1 \in 1..Len(z) /\ 2 \in 1..Len(z)
        /\ 3 \in 1..Len(z)
    BY <1>2
  <2> QED BY <1>4, <2>1 DEF Occurs
<1>6. /\ 0 + 1 = 1 /\ (1 + Len(w)) + 1 = Len(w) + 2
      /\ (1 + Len(w)) + 2 = Len(w) + 3 /\ (1 + Len(w)) + 3 = Len(w) + 4
  BY <1>4
<1>7. Braces(j, w)
  BY <1>2, <1>3, <1>4, <1>5, <1>6 DEF Braces
<1> QED BY <1>7 DEF j, x, z

(* All of it. *)
LEMMA ValueText ==
    ASSUME NEW v, GoodValue(v)
    PROVE  ToJson(v) \in Seq(Glyph) /\ Len(ToJson(v)) > 0
<1>1. v.text \in Seq(Glyph)
  BY DEF GoodValue
<1> DEFINE w == Quoted(Escaped(v.text))
           u == Quoted(v.text)
<1>2. w \in Seq(Glyph) /\ Len(w) >= 2
  BY <1>1, StringText
<1>3. u \in Seq(Glyph)
  BY <1>1, Glyphs, QuotedParts
<1>4. CASE v.kind = "string"
  <2>1. ToJson(v) = w
    BY <1>4 DEF ToJson
  <2> HIDE DEF w
  <2> QED BY <1>2, <2>1
<1>5. CASE v.kind = "list"
  <2>1. ToJson(v) = <<"[">> \o w \o <<"]">>
    BY <1>5 DEF ToJson
  <2> HIDE DEF w
  <2>2. Brackets(ToJson(v), w)
    BY <1>2, <2>1, ListText
  <2> QED BY <1>2, <2>2 DEF Brackets
<1>6. CASE v.kind = "object"
  <2>1. ToJson(v) = <<LBrace>> \o u \o <<":", "0", RBrace>>
    BY <1>6 DEF ToJson
  <2> HIDE DEF u
  <2>2. Braces(ToJson(v), u)
    BY <1>3, <2>1, ObjectValueText
  <2>3. Len(u) \in Nat
    BY <1>3
  <2> QED BY <2>2, <2>3 DEF Braces
<1>7. CASE v.kind = "number"
  <2>1. ToJson(v) = v.text
    BY <1>7 DEF ToJson
  <2> QED BY <1>1, <1>7, <2>1 DEF GoodValue
<1> QED BY <1>4, <1>5, <1>6, <1>7 DEF GoodValue

(* A quoted name in a list stands in its string, in an object it is the
   key. *)
LEMMA BracketsQuoted ==
    ASSUME NEW j, NEW w, Brackets(j, w), NEW name, Named(name), NEW q
    PROVE  QuotedAt(j, name, q)
             <=> q - 1 \in Nat /\ q \in Nat /\ QuotedAt(w, name, q - 1)
<1> DEFINE L == Len(name)
           p == q - 1
<1>1. /\ Len(w) \in Nat /\ Len(j) = Len(w) + 2 /\ Len(j) \in Nat
      /\ L \in Nat /\ Occurs(j, w, 1)
      /\ j[1] = "[" /\ j[Len(j)] = "]"
  BY DEF Brackets, Named
<1>2. ASSUME NEW i \in Nat, i + L + 2 <= Len(w)
      PROVE  QuotedAt(j, name, 1 + i) <=> QuotedAt(w, name, i)
  BY <1>1, <1>2, QuotedWithin DEF L
<1>3. "[" # Quote /\ "]" # Quote
  BY GlyphsDiffer
<1>4. ASSUME QuotedAt(j, name, q)
      PROVE  p \in Nat /\ q \in Nat /\ QuotedAt(w, name, p)
  <2>1. /\ q \in Nat /\ q + L + 2 <= Len(j)
        /\ j[q + 1] = Quote /\ j[q + L + 2] = Quote
    BY <1>4 DEF QuotedAt
  <2> HIDE DEF L
  <2>2. q # 0
    <3>1. q = 0 => q + 1 = 1
      OBVIOUS
    <3> QED BY <1>1, <1>3, <2>1, <3>1
  <2>3. q + L + 2 # Len(j)
    BY <1>1, <1>3, <2>1
  <2>4. p \in Nat /\ 1 + p = q /\ p + L + 2 <= Len(w)
    BY <1>1, <2>1, <2>2, <2>3
  <2> HIDE DEF p
  <2>5. QuotedAt(w, name, p)
    BY <1>2, <1>4, <2>4
  <2> QED BY <2>1, <2>4, <2>5
<1>5. ASSUME p \in Nat, q \in Nat, QuotedAt(w, name, p)
      PROVE  QuotedAt(j, name, q)
  <2>1. p + L + 2 <= Len(w)
    BY <1>5 DEF QuotedAt
  <2>2. 1 + p = q
    BY <1>5
  <2> HIDE DEF p, L
  <2> QED BY <1>2, <1>5, <2>1, <2>2
<1> QED BY <1>4, <1>5

(* The one quoted name of an inner object is its key. *)
LEMMA BracesQuoted ==
    ASSUME NEW j, NEW key, Named(key), Braces(j, Quoted(key)),
           NEW name, Named(name), NEW q
    PROVE  QuotedAt(j, name, q) <=> q = 1 /\ name = key
<1> DEFINE w == Quoted(key)
           K == Len(key)
           L == Len(name)
<1>1. /\ key \in Seq(Glyph) /\ name \in Seq(Glyph) /\ Quote \in Glyph
      /\ L \in Nat /\ K \in Nat
  BY Glyphs DEF Named
<1>2. Len(w) = K + 2
  BY <1>1, QuotedParts
<1> HIDE DEF w
<1>3. /\ Len(j) = K + 6 /\ Len(j) \in Nat
      /\ Occurs(j, w, 1) /\ j[1] = LBrace /\ j[K + 4] = ":"
      /\ j[K + 5] = "0" /\ j[K + 6] = RBrace
  <2>1. /\ Len(j) = Len(w) + 4
        /\ Occurs(j, w, 1) /\ j[1] = LBrace /\ j[Len(w) + 2] = ":"
        /\ j[Len(w) + 3] = "0" /\ j[Len(w) + 4] = RBrace
    BY DEF Braces, w
  <2>2. Len(w) + 2 = K + 4 /\ Len(w) + 3 = K + 5 /\ Len(w) + 4 = K + 6
        /\ K + 6 \in Nat
    BY <1>1, <1>2
  <2> QED BY <2>1, <2>2
<1>4. QuotedAt(j, key, 1)
  <2>1. Occurs(j, Quoted(key), 1)
    BY <1>3 DEF w
  <2> QED BY <1>1, <1>3, <2>1, QuotedOccurs
<1>5. LBrace # Quote /\ "0" # Quote /\ RBrace # Quote /\ ":" # Quote
  BY GlyphsDiffer DEF Glue
<1>6. ASSUME QuotedAt(j, name, q) PROVE q = 1 /\ name = key
  <2>1. /\ q \in Nat /\ q + L + 2 <= K + 6
        /\ j[q + 1] = Quote /\ j[q + L + 2] = Quote
    BY <1>3, <1>6 DEF QuotedAt
  <2> HIDE DEF K, L
  <2>2. q # 0
    <3>1. q = 0 => q + 1 = 1
      OBVIOUS
    <3> QED BY <1>3, <1>5, <2>1, <3>1
  <2>3. q + 1 # K + 4 /\ q + 1 # K + 5
    BY <1>3, <1>5, <2>1
  <2>4. 1 <= q /\ q <= 1 + K + 1 /\ 1 + K + 3 = K + 4
    BY <1>1, <2>1, <2>2, <2>3
  <2>5. j[1 + K + 3] = ":"
    BY <1>3, <2>4
  <2> QED BY <1>4, <1>6, <2>4, <2>5, KeyPlace DEF K
<1> QED BY <1>4, <1>6

(* A list looks spaced where its text does. *)
LEMMA BracketsSpaced ==
    ASSUME NEW j, NEW w, Brackets(j, w), NEW q
    PROVE  SpacedAt(j, q) <=> q - 1 \in Nat /\ q \in Nat /\ SpacedAt(w, q - 1)
<1> DEFINE p == q - 1
<1>1. /\ Len(w) \in Nat /\ Len(j) = Len(w) + 2 /\ Len(j) \in Nat
      /\ Occurs(j, w, 1)
      /\ j[1] = "[" /\ j[Len(j)] = "]"
  BY DEF Brackets
<1>2. ASSUME NEW i \in Nat, i + 3 <= Len(w)
      PROVE  SpacedAt(j, 1 + i) <=> SpacedAt(w, i)
  BY <1>1, <1>2, SpacedWithin
<1>3. "[" # Quote /\ "]" # Space
  BY GlyphsDiffer
<1>4. ASSUME SpacedAt(j, q)
      PROVE  p \in Nat /\ q \in Nat /\ SpacedAt(w, p)
  <2>1. q \in Nat /\ q + 3 <= Len(j) /\ j[q + 1] = Quote /\ j[q + 3] = Space
    BY <1>4 DEF SpacedAt
  <2>2. q # 0
    <3>1. q = 0 => q + 1 = 1
      OBVIOUS
    <3> QED BY <1>1, <1>3, <2>1, <3>1
  <2>3. q + 3 # Len(j)
    BY <1>1, <1>3, <2>1
  <2>4. p \in Nat /\ 1 + p = q /\ p + 3 <= Len(w)
    BY <1>1, <2>1, <2>2, <2>3
  <2> HIDE DEF p
  <2>5. SpacedAt(w, p)
    BY <1>2, <1>4, <2>4
  <2> QED BY <2>1, <2>4, <2>5
<1>5. ASSUME p \in Nat, q \in Nat, SpacedAt(w, p)
      PROVE  SpacedAt(j, q)
  <2>1. p + 3 <= Len(w)
    BY <1>5 DEF SpacedAt
  <2>2. 1 + p = q
    BY <1>5
  <2> HIDE DEF p
  <2> QED BY <1>2, <1>5, <2>1, <2>2
<1> QED BY <1>4, <1>5

(* An inner object never looks spaced: it is written without spaces. *)
LEMMA BracesSpaced ==
    ASSUME NEW j, NEW key, Named(key), Braces(j, Quoted(key)), NEW q
    PROVE  ~SpacedAt(j, q)
<1> DEFINE w == Quoted(key)
           K == Len(key)
<1>1. key \in Seq(Glyph) /\ Quote \in Glyph /\ K \in Nat
  BY Glyphs DEF Named
<1>2. Len(w) = K + 2
  BY <1>1, QuotedParts
<1> HIDE DEF w
<1>3. /\ Len(j) = K + 6 /\ Len(j) \in Nat
      /\ Occurs(j, w, 1) /\ j[1] = LBrace /\ j[K + 4] = ":"
      /\ j[K + 5] = "0" /\ j[K + 6] = RBrace
  <2>1. /\ Len(j) = Len(w) + 4
        /\ Occurs(j, w, 1) /\ j[1] = LBrace /\ j[Len(w) + 2] = ":"
        /\ j[Len(w) + 3] = "0" /\ j[Len(w) + 4] = RBrace
    BY DEF Braces, w
  <2>2. Len(w) + 2 = K + 4 /\ Len(w) + 3 = K + 5 /\ Len(w) + 4 = K + 6
        /\ K + 6 \in Nat
    BY <1>1, <1>2
  <2> QED BY <2>1, <2>2
<1>4. QuotedAt(j, key, 1)
  <2>1. Occurs(j, Quoted(key), 1)
    BY <1>3 DEF w
  <2> QED BY <1>1, <1>3, <2>1, QuotedOccurs
<1>5. LBrace # Quote /\ RBrace # Space /\ "0" # Space
  BY GlyphsDiffer DEF Glue
<1> SUFFICES ASSUME SpacedAt(j, q) PROVE FALSE
  OBVIOUS
<1>6. /\ q \in Nat /\ q + 3 <= K + 6
      /\ j[q + 1] = Quote /\ j[q + 3] = Space
  BY <1>3 DEF SpacedAt
<1> HIDE DEF K
<1>7. q # 0
  <2>1. q = 0 => q + 1 = 1
    OBVIOUS
  <2> QED BY <1>3, <1>5, <1>6, <2>1
<1>8. (1 <= q /\ q <= 1 + K + 1) \/ q + 3 = K + 6
  BY <1>1, <1>6, <1>7
<1>9. q + 3 # K + 6 /\ q + 3 # K + 5
  BY <1>3, <1>5, <1>6
<1>10. 1 + K + 3 = K + 4
  BY <1>1
<1>11. q = 1 + K + 1
  <2>1. j[1 + K + 3] = ":"
    BY <1>3, <1>10
  <2> QED BY <1>4, <1>8, <1>9, <2>1, KeySpaced DEF K
<1> QED BY <1>1, <1>9, <1>11

(* Whether a value mentions a name, and where its text does: at its end,
   but for a bracket, or as the key of an object. *)
InValue(v, name) ==
    \/ v.kind = "object" /\ v.text = name
    \/ /\ v.kind \in {"string", "list"}
       /\ \/ v.text = name
          \/ IsSuffix(<<Quote>> \o name, v.text)

EndsAt(j, e) == e = Len(j) \/ (e + 1 = Len(j) /\ j[e + 1] = "]")

(* A name is found in the JSON of a value exactly when InValue says so,
   and where: as the key of an inner object, or at the end of a text. *)
LEMMA ValueMentions ==
    ASSUME NEW v, GoodValue(v), NEW name, Named(name)
    PROVE  /\ (\E q : QuotedAt(ToJson(v), name, q)) <=> InValue(v, name)
           /\ \A q : QuotedAt(ToJson(v), name, q) =>
                 \/ v.kind = "object" /\ q = 1
                 \/ /\ v.kind \in {"string", "list"}
                    /\ EndsAt(ToJson(v), q + Len(name) + 2)
<1> DEFINE t == v.text
           w == Quoted(Escaped(t))
           L == Len(name)
           Inside == t = name \/ IsSuffix(<<Quote>> \o name, t)
<1>1. t \in Seq(Glyph) /\ L \in Nat
  BY DEF GoodValue, Named
<1>2. /\ \A q : QuotedAt(w, name, q) => q + L + 2 = Len(w)
      /\ (\E q : QuotedAt(w, name, q)) <=> Inside
  BY <1>1, StringMentions
<1>3. w \in Seq(Glyph)
  BY <1>1, StringText
<1>4. CASE v.kind = "string"
  <2>1. ToJson(v) = w
    BY <1>4 DEF ToJson
  <2>2. InValue(v, name) <=> Inside
    BY <1>4 DEF InValue
  <2> HIDE DEF w, Inside, L, t
  <2>3. \A q : QuotedAt(w, name, q) => EndsAt(w, q + L + 2)
    BY <1>2 DEF EndsAt
  <2> QED BY <1>2, <1>4, <2>1, <2>2, <2>3 DEF L
<1>5. CASE v.kind = "list"
  <2> DEFINE j == ToJson(v)
  <2>1. j = <<"[">> \o w \o <<"]">>
    BY <1>5 DEF ToJson
  <2>2. InValue(v, name) <=> Inside
    BY <1>5 DEF InValue
  <2> HIDE DEF w, j
  <2>3. Brackets(j, w)
    BY <1>3, <2>1, ListText
  <2>4. \A q : QuotedAt(j, name, q)
                 <=> q - 1 \in Nat /\ q \in Nat /\ QuotedAt(w, name, q - 1)
    BY <2>3, BracketsQuoted
  <2>5. /\ Len(j) = Len(w) + 2 /\ j[Len(j)] = "]" /\ Len(w) \in Nat
    BY <1>3, <2>3 DEF Brackets
  <2> HIDE DEF L, Inside, t
  <2>6. ASSUME NEW q, QuotedAt(j, name, q) PROVE EndsAt(j, q + L + 2)
    <3>1. q \in Nat /\ QuotedAt(w, name, q - 1)
      BY <2>4, <2>6
    <3>2. (q - 1) + L + 2 = Len(w)
      BY <1>2, <3>1
    <3>3. (q + L + 2) + 1 = Len(j)
      BY <1>1, <2>5, <3>1, <3>2
    <3> QED BY <2>5, <3>3 DEF EndsAt
  <2>7. ASSUME NEW p, QuotedAt(w, name, p) PROVE QuotedAt(j, name, p + 1)
    <3>1. p \in Nat
      BY <2>7 DEF QuotedAt
    <3>2. p + 1 \in Nat /\ (p + 1) - 1 = p
      BY <3>1
    <3>3. (p + 1) - 1 \in Nat /\ QuotedAt(w, name, (p + 1) - 1)
      BY <2>7, <3>1, <3>2
    <3> QED BY <2>4, <3>2, <3>3
  <2>8. (\E q : QuotedAt(j, name, q)) <=> Inside
    BY <1>2, <2>4, <2>7
  <2>9. \A q : QuotedAt(j, name, q) => EndsAt(j, q + Len(name) + 2)
    BY <2>6 DEF L
  <2> QED BY <1>5, <2>2, <2>8, <2>9 DEF j
<1>6. CASE v.kind = "object"
  <2> DEFINE j == ToJson(v)
             u == Quoted(t)
  <2>1. j = <<LBrace>> \o u \o <<":", "0", RBrace>>
    BY <1>6 DEF ToJson
  <2>2. InValue(v, name) <=> t = name
    BY <1>6 DEF InValue
  <2>3. Named(t) /\ u \in Seq(Glyph)
    BY <1>1, <1>6, Glyphs, QuotedParts DEF GoodValue
  <2> HIDE DEF u, j, t, w, Inside
  <2>4. Braces(j, u)
    BY <2>1, <2>3, ObjectValueText
  <2>5. \A q : QuotedAt(j, name, q) <=> q = 1 /\ name = t
    BY <2>3, <2>4, BracesQuoted DEF u
  <2> QED BY <1>6, <2>2, <2>5 DEF j
<1>7. CASE v.kind = "number"
  <2>1. ToJson(v) = t
    BY <1>7 DEF ToJson
  <2>2. ~InValue(v, name)
    BY <1>7 DEF InValue
  <2>3. \A k \in 1..Len(t) : t[k] # Quote
    BY <1>7, StructuralChars DEF GoodValue
  <2>4. ASSUME NEW q, QuotedAt(t, name, q) PROVE FALSE
    <3>1. q \in Nat /\ q + L + 2 <= Len(t) /\ t[q + 1] = Quote
      BY <2>4 DEF QuotedAt
    <3> HIDE DEF L, w, t, Inside
    <3>2. q + 1 \in 1..Len(t)
      <4>1. Len(t) \in Nat
        BY <1>1
      <4> QED BY <1>1, <3>1, <4>1
    <3> QED BY <2>3, <3>1, <3>2
  <2> QED BY <2>1, <2>2, <2>4
<1> QED BY <1>4, <1>5, <1>6, <1>7 DEF GoodValue

(* The JSON of a value looks spaced exactly when LooksSpaced says so. *)
LEMMA ValueSpaced ==
    ASSUME NEW v, GoodValue(v)
    PROVE  (\E q : SpacedAt(ToJson(v), q)) <=> LooksSpaced(v)
<1> DEFINE t == v.text
           w == Quoted(Escaped(t))
           Inside == \/ IsPrefix(<<":", Space>>, t)
                     \/ Places(t, Spaced, 0) # {}
<1>1. t \in Seq(Glyph)
  BY DEF GoodValue
<1>2. (\E q : SpacedAt(w, q)) <=> Inside
  BY <1>1, StringSpaced
<1>3. w \in Seq(Glyph)
  BY <1>1, StringText
<1>4. LooksSpaced(v) <=> v.kind \in {"string", "list"} /\ Inside
  BY DEF LooksSpaced, Spaced
<1> HIDE DEF Inside
<1>5. CASE v.kind = "string"
  <2>1. ToJson(v) = w
    BY <1>5 DEF ToJson
  <2> HIDE DEF w
  <2> QED BY <1>2, <1>4, <1>5, <2>1
<1>6. CASE v.kind = "list"
  <2> DEFINE j == ToJson(v)
  <2>1. j = <<"[">> \o w \o <<"]">>
    BY <1>6 DEF ToJson
  <2> HIDE DEF w, j
  <2>2. Brackets(j, w)
    BY <1>3, <2>1, ListText
  <2>3. \A q : SpacedAt(j, q)
                 <=> q - 1 \in Nat /\ q \in Nat /\ SpacedAt(w, q - 1)
    BY <2>2, BracketsSpaced
  <2>4. ASSUME NEW p, SpacedAt(w, p) PROVE SpacedAt(j, p + 1)
    <3>1. p \in Nat
      BY <2>4 DEF SpacedAt
    <3>2. p + 1 \in Nat /\ (p + 1) - 1 = p
      BY <3>1
    <3>3. (p + 1) - 1 \in Nat /\ SpacedAt(w, (p + 1) - 1)
      BY <2>4, <3>1, <3>2
    <3> QED BY <2>3, <3>2, <3>3
  <2>5. (\E q : SpacedAt(j, q)) <=> Inside
    BY <1>2, <2>3, <2>4
  <2> QED BY <1>4, <1>6, <2>5 DEF j
<1>7. CASE v.kind = "object"
  <2> DEFINE j == ToJson(v)
             u == Quoted(t)
  <2>1. j = <<LBrace>> \o u \o <<":", "0", RBrace>>
    BY <1>7 DEF ToJson
  <2>2. Named(t) /\ u \in Seq(Glyph)
    BY <1>1, <1>7, Glyphs, QuotedParts DEF GoodValue
  <2> HIDE DEF u, j, t, w
  <2>3. Braces(j, u)
    BY <2>1, <2>2, ObjectValueText
  <2>4. \A q : ~SpacedAt(j, q)
    BY <2>2, <2>3, BracesSpaced DEF u
  <2> QED BY <1>4, <1>7, <2>4 DEF j
<1>8. CASE v.kind = "number"
  <2>1. ToJson(v) = t
    BY <1>8 DEF ToJson
  <2>2. \A k \in 1..Len(t) : t[k] # Quote
    BY <1>8, StructuralChars DEF GoodValue
  <2>3. ASSUME NEW q, SpacedAt(t, q) PROVE FALSE
    <3>1. q \in Nat /\ q + 3 <= Len(t) /\ t[q + 1] = Quote
      BY <2>3 DEF SpacedAt
    <3> HIDE DEF w, t
    <3>2. q + 1 \in 1..Len(t)
      <4>1. Len(t) \in Nat
        BY <1>1
      <4> QED BY <3>1, <4>1
    <3> QED BY <2>2, <3>1, <3>2
  <2> QED BY <1>4, <1>8, <2>1, <2>3
<1> QED BY <1>5, <1>6, <1>7, <1>8 DEF GoodValue

-----------------------------------------------------------------------------
(* A member: its name, a separator and its value. *)
GoodMember(m) == Named(m.name) /\ GoodValue(m.value)

Tight == <<":">>
Loose == <<":", Space>>
Separators == {Tight, Loose}

ValueAt(m, s) == Len(m.name) + 2 + Len(s)

Written(t, m, s) ==
    /\ t \in Seq(Glyph)
    /\ Len(m.name) \in Nat /\ Len(ToJson(m.value)) \in Nat \ {0}
    /\ Len(s) \in 1..2 /\ (s = Tight <=> Len(s) = 1)
    /\ Len(t) = Len(m.name) + 2 + Len(s) + Len(ToJson(m.value))
    /\ QuotedAt(t, m.name, 0) /\ t[Len(m.name) + 3] = ":"
    /\ s # Tight => t[Len(m.name) + 4] = Space
    /\ Occurs(t, ToJson(m.value), ValueAt(m, s))

(* The separators of an issuer. *)
LEMMA Separates ==
    ASSUME NEW s \in Separators
    PROVE  /\ s \in Seq(Glyph)
           /\ Len(s) \in 1..2 /\ (s = Tight <=> Len(s) = 1)
           /\ s[1] = ":" /\ (s # Tight => s[2] = Space)
<1>1. ":" \in Glyph /\ Space \in Glyph
  BY Glyphs
<1>2. Tight \in Seq(Glyph) /\ Len(Tight) = 1 /\ Tight[1] = ":"
  BY <1>1 DEF Tight
<1>3. Loose \in Seq(Glyph) /\ Len(Loose) = 2 /\ Loose[1] = ":"
      /\ Loose[2] = Space
  BY <1>1 DEF Loose
<1>4. s = Tight \/ s = Loose
  BY DEF Separators
<1>5. Tight # Loose
  <2>1. ASSUME Tight = Loose PROVE FALSE
    <3>1. Len(Tight) = Len(Loose)
      BY <2>1
    <3>2. 1 = 2
      BY <1>2, <1>3, <3>1
    <3> QED BY <3>2
  <2> QED BY <2>1
<1>6. CASE s = Tight
  BY <1>2, <1>6
<1>7. CASE s = Loose
  <2>1. s # Tight /\ Len(s) = 2 /\ Len(s) # 1
    BY <1>3, <1>5, <1>7
  <2> QED BY <1>3, <1>7, <2>1
<1> QED BY <1>4, <1>6, <1>7

(* How the text of a member is put together. *)
LEMMA MemberWritten ==
    ASSUME NEW m, GoodMember(m), NEW s \in Separators
    PROVE  Written(MemberText(m, s), m, s)
<1> DEFINE t == MemberText(m, s)
           k == Quoted(m.name)
           j == ToJson(m.value)
           K == Len(m.name)
<1>1. /\ m.name \in Seq(Glyph) /\ K \in Nat
      /\ j \in Seq(Glyph) /\ Len(j) > 0
  BY ValueText DEF GoodMember, Named
<1>2. k \in Seq(Glyph) /\ Len(k) = K + 2
  BY <1>1, Glyphs, QuotedParts
<1>3. /\ s \in Seq(Glyph)
      /\ Len(s) \in 1..2 /\ (s = Tight <=> Len(s) = 1)
      /\ s[1] = ":" /\ (s # Tight => s[2] = Space)
  BY Separates
<1>4. t = k \o s \o j
  BY DEF MemberText
<1> HIDE DEF k, j, t
<1>5. t \in Seq(Glyph) /\ Parts(t, k, s, j)
  BY <1>1, <1>2, <1>3, <1>4, Between
<1>6. /\ Occurs(t, k, 0) /\ Occurs(t, s, Len(k))
      /\ Occurs(t, j, Len(k) + Len(s))
      /\ Len(t) = Len(k) + Len(s) + Len(j) /\ Len(j) \in Nat
  BY <1>5 DEF Parts
<1>7. QuotedAt(t, m.name, 0)
  <2>1. Len(t) \in Nat
    BY <1>5
  <2>2. Occurs(t, Quoted(m.name), 0)
    BY <1>6 DEF k
  <2> QED BY <1>1, <2>1, <2>2, Glyphs, QuotedOccurs
<1> HIDE DEF K
<1>8. t[(K + 2) + 1] = ":"
  <2>1. 1 \in 1..Len(s)
    BY <1>3
  <2> QED BY <1>2, <1>3, <1>6, <2>1 DEF Occurs
<1>9. ASSUME s # Tight PROVE t[(K + 2) + 2] = Space
  <2>1. 2 \in 1..Len(s)
    BY <1>3, <1>9
  <2> QED BY <1>2, <1>3, <1>6, <1>9, <2>1 DEF Occurs
<1>10. (K + 2) + 1 = K + 3 /\ (K + 2) + 2 = K + 4
  BY <1>1 DEF K
<1>11. t[K + 3] = ":" /\ (s # Tight => t[K + 4] = Space)
  BY <1>8, <1>9, <1>10
<1>12. Len(j) \in Nat \ {0}
  BY <1>1, <1>6
<1>13. /\ Len(t) = K + 2 + Len(s) + Len(j)
       /\ Occurs(t, j, K + 2 + Len(s))
  BY <1>2, <1>6
<1> QED BY <1>1, <1>3, <1>5, <1>7, <1>11, <1>12, <1>13
        DEF Written, ValueAt, K, j, t

(* The quoted name stands in a member as its name or in its value. *)
LEMMA MemberMentions ==
    ASSUME NEW m, GoodMember(m), NEW s \in Separators,
           NEW t, Written(t, m, s), NEW name, Named(name), NEW q
    PROVE  QuotedAt(t, name, q) <=>
             \/ q = 0 /\ m.name = name
             \/ /\ q \in Nat /\ q - ValueAt(m, s) \in Nat
                /\ QuotedAt(ToJson(m.value), name, q - ValueAt(m, s))
<1> DEFINE j == ToJson(m.value)
           K == Len(m.name)
           L == Len(name)
           V == ValueAt(m, s)
           p == q - V
<1>a. /\ t \in Seq(Glyph) /\ K \in Nat /\ Len(j) \in Nat \ {0}
      /\ Len(s) \in 1..2 /\ (s = Tight <=> Len(s) = 1)
      /\ Len(t) = K + 2 + Len(s) + Len(j)
      /\ QuotedAt(t, m.name, 0) /\ t[K + 3] = ":"
      /\ s # Tight => t[K + 4] = Space
      /\ Occurs(t, j, V)
  BY DEF Written
<1>b. V = K + 2 + Len(s)
  BY DEF ValueAt
<1>c. Len(t) \in Nat
  <2>1. t \in Seq(Glyph)
    BY <1>a
  <2> QED BY ONLY <2>1
<1> HIDE DEF j, K, V
<1>d. V \in Nat /\ Len(t) = V + Len(j)
  BY <1>a, <1>b, <1>c
<1>1. /\ t \in Seq(Glyph) /\ Len(t) \in Nat
      /\ K \in Nat /\ Len(j) \in Nat /\ L \in Nat
      /\ Len(s) \in 1..2 /\ V = K + 2 + Len(s) /\ V \in Nat
      /\ Len(t) = V + Len(j)
      /\ QuotedAt(t, m.name, 0) /\ t[K + 3] = ":"
      /\ Occurs(t, j, V)
  BY <1>a, <1>b, <1>c, <1>d DEF Named
<1>2. Len(s) # 1 => t[K + 4] = Space
  BY <1>a
<1>3. Named(m.name)
  BY DEF GoodMember
<1>4. ASSUME QuotedAt(t, name, q)
      PROVE  \/ q = 0 /\ m.name = name
             \/ q \in Nat /\ p \in Nat /\ QuotedAt(j, name, p)
  <2>1. q \in Nat /\ q + L + 2 <= Len(t) /\ t[q + 1] = Quote
    BY <1>4 DEF QuotedAt
  <2> HIDE DEF j, K, L, V
  <2>2. CASE q <= K + 1
    <3>1. 0 <= q /\ q <= 0 + K + 1 /\ 0 + K + 3 = K + 3
      BY <1>1, <2>1, <2>2
    <3>2. t[0 + K + 3] = ":"
      BY <1>1, <3>1
    <3>3. q = 0 /\ name = m.name
      BY <1>1, <1>3, <1>4, <3>1, <3>2, KeyPlace DEF K
    <3> QED BY <3>3
  <2>3. CASE q > K + 1 /\ q < V
    <3> DEFINE n == Len(s)
    <3>1. q + 1 = K + 3 \/ (q + 1 = K + 4 /\ n # 1)
      <4>1. /\ q \in Nat /\ K \in Nat /\ n \in 1..2 /\ V = K + 2 + n
            /\ q > K + 1 /\ q < V
        BY <1>1, <2>1, <2>3
      <4> HIDE DEF n
      <4> QED BY ONLY <4>1
    <3>2. ":" # Quote /\ Space # Quote
      BY GlyphsDiffer
    <3> QED BY <1>1, <1>2, <2>1, <3>1, <3>2
  <2>4. CASE q >= V
    <3>1. p \in Nat /\ V + p = q /\ p + L + 2 <= Len(j)
      BY <1>1, <2>1, <2>4
    <3> HIDE DEF p
    <3>2. QuotedAt(t, name, V + p) <=> QuotedAt(j, name, p)
      BY <1>1, <3>1, QuotedWithin DEF L
    <3> QED BY <1>4, <2>1, <3>1, <3>2
  <2> QED BY <1>1, <2>1, <2>2, <2>3, <2>4
<1>5. ASSUME q \in Nat, p \in Nat, QuotedAt(j, name, p)
      PROVE  QuotedAt(t, name, q)
  <2>1. p + L + 2 <= Len(j)
    BY <1>5 DEF QuotedAt
  <2> HIDE DEF j, L, V
  <2>2. V + p = q
    <3>1. V \in Nat /\ q \in Nat
      BY <1>1, <1>5
    <3> QED BY ONLY <3>1
  <2> HIDE DEF p
  <2>3. QuotedAt(t, name, V + p) <=> QuotedAt(j, name, p)
    BY <1>1, <1>5, <2>1, QuotedWithin DEF L
  <2> QED BY <1>5, <2>2, <2>3
<1>6. (q = 0 /\ m.name = name) => QuotedAt(t, name, q)
  BY <1>1
<1> QED BY <1>4, <1>5, <1>6 DEF j, V

(* No value begins with a space. *)
LEMMA ValueHead ==
    ASSUME NEW v, GoodValue(v)
    PROVE  ToJson(v)[1] # Space
<1> DEFINE w == Quoted(Escaped(v.text))
           u == Quoted(v.text)
<1>1. v.text \in Seq(Glyph)
  BY DEF GoodValue
<1>2. w \in Seq(Glyph) /\ w[1] = Quote /\ u \in Seq(Glyph)
  BY <1>1, StringText, Glyphs, QuotedParts
<1>3. Quote # Space /\ "[" # Space /\ LBrace # Space
  BY GlyphsDiffer DEF Glue
<1>4. CASE v.kind = "string"
  BY <1>2, <1>3, <1>4 DEF ToJson
<1>5. CASE v.kind = "list"
  <2>1. ToJson(v) = <<"[">> \o w \o <<"]">>
    BY <1>5 DEF ToJson
  <2> HIDE DEF w
  <2>2. Brackets(ToJson(v), w)
    BY <1>2, <2>1, ListText
  <2> QED BY <1>3, <2>2 DEF Brackets
<1>6. CASE v.kind = "object"
  <2>1. ToJson(v) = <<LBrace>> \o u \o <<":", "0", RBrace>>
    BY <1>6 DEF ToJson
  <2> HIDE DEF u
  <2>2. Braces(ToJson(v), u)
    BY <1>2, <2>1, ObjectValueText
  <2> QED BY <1>3, <2>2 DEF Braces
<1>7. CASE v.kind = "number"
  <2>1. ToJson(v) = v.text
    BY <1>7 DEF ToJson
  <2>2. 1 \in 1..Len(v.text)
    BY <1>1, <1>7 DEF GoodValue
  <2> QED BY <1>7, <2>1, <2>2 DEF GoodValue
<1> QED BY <1>4, <1>5, <1>6, <1>7 DEF GoodValue

(* A member looks spaced when its separator is, or its value looks so. *)
LEMMA MemberSpaced ==
    ASSUME NEW m, GoodMember(m), NEW s \in Separators,
           NEW t, Written(t, m, s)
    PROVE  (\E q : SpacedAt(t, q)) <=> s # Tight \/ LooksSpaced(m.value)
<1> DEFINE j == ToJson(m.value)
           K == Len(m.name)
           V == ValueAt(m, s)
<1>a. /\ t \in Seq(Glyph) /\ K \in Nat /\ Len(j) \in Nat \ {0}
      /\ Len(s) \in 1..2 /\ (s = Tight <=> Len(s) = 1)
      /\ Len(t) = K + 2 + Len(s) + Len(j)
      /\ QuotedAt(t, m.name, 0) /\ t[K + 3] = ":"
      /\ s # Tight => t[K + 4] = Space
      /\ Occurs(t, j, V)
  BY DEF Written
<1>b. V = K + 2 + Len(s)
  BY DEF ValueAt
<1>c. Len(t) \in Nat
  <2>1. t \in Seq(Glyph)
    BY <1>a
  <2> QED BY ONLY <2>1
<1> HIDE DEF j, K, V
<1>d. V \in Nat /\ Len(t) = V + Len(j)
  BY <1>a, <1>b, <1>c
<1>1. /\ t \in Seq(Glyph) /\ Len(t) \in Nat
      /\ K \in Nat /\ Len(j) \in Nat \ {0}
      /\ Len(s) \in 1..2 /\ V = K + 2 + Len(s) /\ V \in Nat
      /\ Len(t) = V + Len(j)
      /\ QuotedAt(t, m.name, 0) /\ t[K + 3] = ":"
      /\ Occurs(t, j, V)
  BY <1>a, <1>b, <1>c, <1>d
<1>2. s # Tight => t[K + 4] = Space /\ Len(s) = 2
  BY <1>a
<1>3. s = Tight => Len(s) = 1
  BY <1>a
<1>4. Named(m.name) /\ j[1] # Space
  BY ValueHead DEF GoodMember, j
<1>5. (\E q : SpacedAt(j, q)) <=> LooksSpaced(m.value)
  BY ValueSpaced DEF GoodMember, j
<1>6. ASSUME NEW p, SpacedAt(j, p) PROVE SpacedAt(t, V + p)
  <2>1. p \in Nat /\ p + 3 <= Len(j)
    BY <1>6 DEF SpacedAt
  <2>2. SpacedAt(t, V + p) <=> SpacedAt(j, p)
    BY <1>1, <2>1, SpacedWithin
  <2> QED BY <1>6, <2>2
<1>7. ASSUME s # Tight PROVE SpacedAt(t, K + 1)
  <2>1. t[0 + K + 2] = Quote
    BY <1>1 DEF QuotedAt, K
  <2> HIDE DEF K
  <2>2. K + 1 \in Nat /\ (K + 1) + 3 <= Len(t) /\ 0 + K + 2 = (K + 1) + 1
        /\ (K + 1) + 2 = K + 3 /\ (K + 1) + 3 = K + 4
    <3>1. /\ K \in Nat /\ Len(j) \in Nat \ {0} /\ V = K + 2 + Len(s)
          /\ Len(t) = V + Len(j) /\ Len(s) = 2
      BY <1>1, <1>2, <1>7
    <3> QED BY ONLY <3>1
  <2> QED BY <1>1, <1>2, <1>7, <2>1, <2>2 DEF SpacedAt
<1>8. ASSUME NEW q, SpacedAt(t, q), s = Tight PROVE \E p : SpacedAt(j, p)
  <2>1. q \in Nat /\ q + 3 <= Len(t) /\ t[q + 1] = Quote
        /\ t[q + 3] = Space
    BY <1>8 DEF SpacedAt
  <2>2. Len(s) = 1
    BY <1>3, <1>8
  <2>3. t[V + 1] = j[1]
    <3>1. 1 \in 1..Len(j)
      BY <1>1
    <3> QED BY <1>1, <3>1 DEF Occurs
  <2> HIDE DEF K
  <2>4. CASE q <= K + 1
    <3>1. 0 <= q /\ q <= 0 + K + 1 /\ 0 + K + 3 = K + 3 /\ 0 + K + 1 = K + 1
      BY <1>1, <2>1, <2>4
    <3>2. t[0 + K + 3] = ":"
      BY <1>1, <3>1
    <3>3. q = 0 + K + 1
      BY <1>1, <1>4, <1>8, <3>1, <3>2, KeySpaced DEF K
    <3>4. q + 3 = V + 1
      BY <1>1, <2>2, <3>1, <3>3
    <3> QED BY <1>4, <2>1, <2>3, <3>4
  <2>5. CASE q = K + 2
    <3>1. q + 1 = K + 3
      BY <1>1, <2>5
    <3> QED BY <1>1, <2>1, <3>1, GlyphsDiffer
  <2>6. CASE q > K + 2
    <3> DEFINE p == q - V
    <3>1. p \in Nat /\ V + p = q /\ p + 3 <= Len(j)
      BY <1>1, <2>1, <2>2, <2>6
    <3> HIDE DEF p
    <3>2. SpacedAt(t, V + p) <=> SpacedAt(j, p)
      BY <1>1, <3>1, SpacedWithin
    <3> QED BY <1>8, <3>1, <3>2
  <2> QED BY <1>1, <2>1, <2>4, <2>5, <2>6
<1> QED BY <1>5, <1>6, <1>7, <1>8

-----------------------------------------------------------------------------
(* How many braces are open. *)
UpTo(t, c, p) == {j \in 1..p : t[j] = c}

(* A character stands at finitely many places. *)
LEMMA UpToFinite ==
    ASSUME NEW t, NEW c, NEW p \in Nat
    PROVE  IsFiniteSet(UpTo(t, c, p)) /\ Cardinality(UpTo(t, c, p)) \in Nat
<1>1. IsFiniteSet(1..p)
  BY FS_Interval
<1>2. UpTo(t, c, p) \in SUBSET (1..p)
  BY DEF UpTo
<1> QED BY <1>1, <1>2, FS_Subset, FS_CardinalityType

(* Up to a place in an inner text, a character stands as often as before
   that text and in it. *)
LEMMA UpToOccurs ==
    ASSUME NEW t, NEW u, Len(t) \in Nat, Len(u) \in Nat,
           NEW a, Occurs(t, u, a), NEW k \in 0..Len(u), NEW c
    PROVE  Added(Cardinality(UpTo(t, c, a + k)),
                 Cardinality(UpTo(t, c, a)), Cardinality(UpTo(u, c, k)))
<1> DEFINE A == UpTo(t, c, a)
           B == UpTo(u, c, k)
           D == {j \in (a + 1)..(a + k) : t[j] = c}
           f == [j \in B |-> a + j]
<1>1. /\ a \in Nat /\ k \in Nat /\ k <= Len(u) /\ a + k \in Nat
      /\ \A i \in 1..Len(u) : t[a + i] = u[i]
  BY DEF Occurs
<1>2. UpTo(t, c, a + k) = A \cup D
  <2>1. 1..(a + k) = (1..a) \cup ((a + 1)..(a + k))
    BY <1>1
  <2> QED BY <2>1 DEF UpTo
<1>3. A \cap D = {}
  BY <1>1 DEF UpTo
<1>4. IsFiniteSet(A) /\ IsFiniteSet(B) /\ IsFiniteSet(UpTo(t, c, a + k))
      /\ Cardinality(A) \in Nat /\ Cardinality(B) \in Nat
  BY <1>1, UpToFinite
<1>5. ASSUME NEW j \in B PROVE j \in Nat /\ a + j \in D
  <2>1. j \in 1..k /\ u[j] = c
    BY DEF UpTo
  <2>2. j \in 1..Len(u) /\ j \in Nat /\ a + j \in (a + 1)..(a + k)
    BY <1>1, <2>1
  <2> QED BY <1>1, <2>1, <2>2
<1>6. ASSUME NEW d \in D PROVE \E j \in B : d = a + j
  <2> DEFINE j == d - a
  <2>1. j \in 1..k /\ d = a + j /\ t[d] = c
    BY <1>1
  <2>2. j \in 1..Len(u)
    BY <1>1, <2>1
  <2> HIDE DEF j
  <2>3. u[j] = c
    BY <1>1, <2>1, <2>2
  <2> QED BY <2>1, <2>3 DEF UpTo
<1> HIDE DEF A, B, D
<1>7. f \in Bijection(B, D)
  <2>1. f \in [B -> D]
    BY <1>5
  <2>2. \A x \in B, y \in B : f[x] = f[y] => x = y
    <3>1. ASSUME NEW x \in B, NEW y \in B, a + x = a + y PROVE x = y
      <4>1. x \in Nat /\ y \in Nat
        BY <1>5
      <4> QED BY <1>1, <3>1, <4>1
    <3> QED BY <3>1
  <2>3. \A d \in D : \E x \in B : f[x] = d
    BY <1>6
  <2> HIDE DEF f
  <2> QED BY <2>1, <2>2, <2>3
        DEF Bijection, Injection, Surjection, IsInjective
<1>8. ExistsBijection(B, D)
  BY <1>7 DEF ExistsBijection
<1>9. IsFiniteSet(D) /\ Cardinality(D) = Cardinality(B)
  BY <1>4, <1>8, FS_Bijection
<1>10. Cardinality(A \cup D) = Cardinality(A) + Cardinality(D) - 0
  BY <1>3, <1>4, <1>9, FS_Union, FS_EmptySet
<1>11. Cardinality(A \cup D) = Cardinality(A) + Cardinality(B)
       /\ Cardinality(A \cup D) \in Nat
  BY <1>4, <1>9, <1>10
<1> QED BY <1>2, <1>4, <1>11 DEF Added, A, B

Level(t, p) == object_nested_level(t, p)

Sum(a, b, c) == a \in Int /\ b \in Int /\ c \in Int /\ a = b + c

(* The level of a place counts the braces before it. *)
LEMMA LevelIs ==
    ASSUME NEW t, NEW p \in Nat
    PROVE  /\ Level(t, p) = Cardinality(UpTo(t, LBrace, p))
                              - Cardinality(UpTo(t, RBrace, p))
           /\ Level(t, p) \in Int
<1>1. Level(t, p) = Cardinality(UpTo(t, LBrace, p))
                      - Cardinality(UpTo(t, RBrace, p))
  BY DEF Level, object_nested_level, UpTo
<1>2. /\ Cardinality(UpTo(t, LBrace, p)) \in Nat
      /\ Cardinality(UpTo(t, RBrace, p)) \in Nat
  BY UpToFinite
<1> QED BY <1>1, <1>2

(* Levels add up where one text stands in another. *)
LEMMA LevelOccurs ==
    ASSUME NEW t, NEW u, Len(t) \in Nat, Len(u) \in Nat,
           NEW a, Occurs(t, u, a), NEW k \in 0..Len(u)
    PROVE  Sum(Level(t, a + k), Level(t, a), Level(u, k))
<1>1. a \in Nat /\ k \in Nat /\ a + k \in Nat
  BY DEF Occurs
<1>2. Added(Cardinality(UpTo(t, LBrace, a + k)),
            Cardinality(UpTo(t, LBrace, a)), Cardinality(UpTo(u, LBrace, k)))
  BY UpToOccurs
<1>3. Added(Cardinality(UpTo(t, RBrace, a + k)),
            Cardinality(UpTo(t, RBrace, a)), Cardinality(UpTo(u, RBrace, k)))
  BY UpToOccurs
<1>4. /\ Level(t, a + k) = Cardinality(UpTo(t, LBrace, a + k))
                             - Cardinality(UpTo(t, RBrace, a + k))
      /\ Level(t, a) = Cardinality(UpTo(t, LBrace, a))
                         - Cardinality(UpTo(t, RBrace, a))
      /\ Level(u, k) = Cardinality(UpTo(u, LBrace, k))
                         - Cardinality(UpTo(u, RBrace, k))
  BY <1>1, LevelIs
<1> DEFINE L1 == Cardinality(UpTo(t, LBrace, a + k))
           L2 == Cardinality(UpTo(t, LBrace, a))
           L3 == Cardinality(UpTo(u, LBrace, k))
           R1 == Cardinality(UpTo(t, RBrace, a + k))
           R2 == Cardinality(UpTo(t, RBrace, a))
           R3 == Cardinality(UpTo(u, RBrace, k))
<1>5. /\ L1 \in Nat /\ L2 \in Nat /\ L3 \in Nat /\ L1 = L2 + L3
      /\ R1 \in Nat /\ R2 \in Nat /\ R3 \in Nat /\ R1 = R2 + R3
  BY ONLY <1>2, <1>3 DEF Added
<1>6. Level(t, a + k) = L1 - R1 /\ Level(t, a) = L2 - R2
      /\ Level(u, k) = L3 - R3
  BY ONLY <1>4
<1> HIDE DEF L1, L2, L3, R1, R2, R3
<1>7. /\ L1 - R1 = (L2 - R2) + (L3 - R3)
      /\ L1 - R1 \in Int /\ L2 - R2 \in Int /\ L3 - R3 \in Int
  BY ONLY <1>5
<1> QED BY ONLY <1>6, <1>7 DEF Sum

(* A text without braces opens none. *)
LEMMA LevelNone ==
    ASSUME NEW t, NEW p \in Nat,
           \A k \in 1..p : t[k] # LBrace /\ t[k] # RBrace
    PROVE  Level(t, p) = 0
<1>1. UpTo(t, LBrace, p) = {} /\ UpTo(t, RBrace, p) = {}
  BY DEF UpTo
<1> QED BY <1>1, LevelIs, FS_EmptySet

(* The level behind a first brace. *)
LEMMA LevelOfBrace ==
    ASSUME NEW t, t[1] = LBrace \/ t[1] = RBrace
    PROVE  Level(t, 1) = (IF t[1] = LBrace THEN 1 ELSE -1)
<1>1. LBrace # RBrace
  BY DEF LBrace, RBrace
<1>2. 1..1 = {1}
  OBVIOUS
<1>3. Cardinality({1}) = 1
  <2>1. {1} = {} \cup {1} /\ 1 \notin {}
    OBVIOUS
  <2>2. Cardinality({} \cup {1}) = 0 + 1
    BY ONLY <2>1, FS_EmptySet, FS_AddElement
  <2> QED BY <2>1, <2>2
<1>4. CASE t[1] = LBrace
  <2>1. UpTo(t, LBrace, 1) = {1} /\ UpTo(t, RBrace, 1) = {}
    BY <1>1, <1>2, <1>4 DEF UpTo
  <2>2. /\ Cardinality(UpTo(t, LBrace, 1)) = 1
        /\ Cardinality(UpTo(t, RBrace, 1)) = 0
    BY <1>3, <2>1, FS_EmptySet
  <2>3. 1 \in Nat
    OBVIOUS
  <2>4. Level(t, 1) = 1 - 0
    BY ONLY <2>2, <2>3, LevelIs
  <2> QED BY <1>4, <2>4
<1>5. CASE t[1] = RBrace
  <2>1. UpTo(t, RBrace, 1) = {1} /\ UpTo(t, LBrace, 1) = {}
    BY <1>1, <1>2, <1>5 DEF UpTo
  <2>2. /\ Cardinality(UpTo(t, RBrace, 1)) = 1
        /\ Cardinality(UpTo(t, LBrace, 1)) = 0
    BY <1>3, <2>1, FS_EmptySet
  <2>3. 1 \in Nat
    OBVIOUS
  <2>4. Level(t, 1) = 0 - 1
    BY ONLY <2>2, <2>3, LevelIs
  <2> QED BY <1>1, <1>5, <2>4
<1> QED BY <1>4, <1>5

-----------------------------------------------------------------------------
(* How a text is laid out: members, and glue between them. *)
MemberEnd(mt, start, i) == start[i] + Len(mt[i])

Stands(t, mt, start, i) ==
    /\ start[i] \in Nat /\ Len(mt[i]) \in Nat \ {0}
    /\ MemberEnd(mt, start, i) \in Nat /\ MemberEnd(mt, start, i) <= Len(t)
    /\ Occurs(t, mt[i], start[i])

StandsBefore(mt, start, i, j) == MemberEnd(mt, start, i) < start[j]

Inside(mt, start, i, p) == start[i] < p /\ p <= MemberEnd(mt, start, i)

Delimited(t, mt, start, i) ==
    MemberEnd(mt, start, i) < Len(t) =>
        t[MemberEnd(mt, start, i) + 1] \in {Comma, RBrace}

Clear(t, mt, n, start) == \A i \in 1..n : MemberEnd(mt, start, i) < Len(t)

Laid(t, mt, n, start, opens, d) ==
    /\ n \in Nat /\ t \in Seq(Glyph) /\ Len(t) \in Nat
    /\ \A i \in 1..n :
          /\ Stands(t, mt, start, i) /\ Delimited(t, mt, start, i)
          /\ Level(t, start[i]) = opens[i - 1]
    /\ \A i \in 1..n, j \in 1..n : i < j => StandsBefore(mt, start, i, j)
    /\ \A p \in 1..Len(t) :
          t[p] \in Glue \/ \E i \in 1..n : Inside(mt, start, i, p)
    /\ Sum(Level(t, Len(t)), opens[n], d)

(* A member stays where it is when the text grows. *)
LEMMA StillStands ==
    ASSUME NEW t, NEW u, Len(t) \in Nat, Len(u) \in Nat, Occurs(u, t, 0),
           NEW mt, NEW start, NEW i, Stands(t, mt, start, i)
    PROVE  Stands(u, mt, start, i) /\ Level(u, start[i]) = Level(t, start[i])
<1>1. /\ start[i] \in Nat /\ Len(mt[i]) \in Nat \ {0}
      /\ MemberEnd(mt, start, i) \in Nat /\ MemberEnd(mt, start, i) <= Len(t)
      /\ Occurs(t, mt[i], start[i])
  BY DEF Stands
<1>2. Len(t) <= Len(u)
  BY DEF Occurs
<1>3. Occurs(u, mt[i], 0 + start[i])
  BY <1>1, OccursTrans
<1>4. 0 + start[i] = start[i] /\ start[i] \in 0..Len(t)
      /\ MemberEnd(mt, start, i) <= Len(u)
  BY <1>1, <1>2 DEF MemberEnd
<1>5. Sum(Level(u, 0 + start[i]), Level(u, 0), Level(t, start[i]))
  BY <1>4, LevelOccurs
<1>6. Level(u, 0) = 0
  BY LevelNone
<1>7. Level(u, start[i]) = Level(t, start[i])
  BY <1>4, <1>5, <1>6 DEF Sum
<1> QED BY <1>1, <1>3, <1>4, <1>7 DEF Stands

(* A laid out text stays so when punctuation is put behind it. *)
LEMMA GrowGlue ==
    ASSUME NEW t, NEW mt, NEW n, NEW start, NEW opens, NEW d,
           Laid(t, mt, n, start, opens, d),
           NEW g \in Seq(Glyph), \A k \in 1..Len(g) : g[k] \in Glue,
           \/ Clear(t, mt, n, start)
           \/ Len(g) > 0 /\ g[1] \in {Comma, RBrace},
           NEW e, Sum(e, d, Level(g, Len(g)))
    PROVE  /\ Laid(t \o g, mt, n, start, opens, e)
           /\ Clear(t, mt, n, start) \/ Len(g) > 0
                => Clear(t \o g, mt, n, start)
<1> DEFINE u == t \o g
<1>1. n \in Nat /\ t \in Seq(Glyph) /\ Len(t) \in Nat /\ Len(g) \in Nat
  BY DEF Laid
<1>2. u \in Seq(Glyph) /\ Added(Len(u), Len(t), Len(g))
      /\ Occurs(u, t, 0) /\ Occurs(u, g, Len(t))
  BY <1>1, Joined
<1> HIDE DEF u
<1>3. Len(u) = Len(t) + Len(g) /\ Len(u) \in Nat
  BY <1>2 DEF Added
<1>4. \A i \in 1..Len(t) : u[i] = t[i]
  <2>1. ASSUME NEW i \in 1..Len(t) PROVE u[i] = t[i]
    <3>1. u[0 + i] = t[i]
      BY <1>2 DEF Occurs
    <3> QED BY <1>1, <3>1
  <2> QED BY <2>1
<1>5. \A i \in 1..Len(g) : u[Len(t) + i] = g[i]
  BY <1>2 DEF Occurs
<1>6. ASSUME NEW i \in 1..n
      PROVE  /\ Stands(u, mt, start, i) /\ Delimited(u, mt, start, i)
             /\ Level(u, start[i]) = opens[i - 1]
  <2>1. /\ Stands(t, mt, start, i) /\ Delimited(t, mt, start, i)
        /\ Level(t, start[i]) = opens[i - 1]
    BY DEF Laid
  <2>2. Stands(u, mt, start, i) /\ Level(u, start[i]) = Level(t, start[i])
    BY <1>1, <1>2, <1>3, <2>1, StillStands
  <2> DEFINE z == MemberEnd(mt, start, i)
  <2>3. z \in Nat /\ z <= Len(t)
    BY <2>1 DEF Stands
  <2>4. z < Len(t) => t[z + 1] \in {Comma, RBrace}
    BY <2>1 DEF Delimited
  <2>5. Clear(t, mt, n, start) => z < Len(t)
    BY DEF Clear
  <2> HIDE DEF z
  <2>6. z < Len(u) => u[z + 1] \in {Comma, RBrace}
    <3>1. CASE z < Len(t)
      <4>1. z + 1 \in 1..Len(t)
        BY <1>1, <2>3, <3>1
      <4> QED BY <1>4, <2>4, <3>1, <4>1
    <3>2. CASE ~(z < Len(t))
      <4>1. z = Len(t) /\ Len(g) > 0 /\ g[1] \in {Comma, RBrace}
        BY <1>1, <2>3, <2>5, <3>2
      <4>2. 1 \in 1..Len(g)
        BY <1>1, <4>1
      <4> QED BY <1>5, <4>1, <4>2
    <3> QED BY <3>1, <3>2
  <2>7. Delimited(u, mt, start, i)
    BY <2>6 DEF Delimited, z
  <2> QED BY <2>1, <2>2, <2>7
<1>7. \A i \in 1..n, j \in 1..n : i < j => StandsBefore(mt, start, i, j)
  BY DEF Laid
<1>8. ASSUME NEW p \in 1..Len(u)
      PROVE  u[p] \in Glue \/ \E i \in 1..n : Inside(mt, start, i, p)
  <2>1. CASE p <= Len(t)
    <3>1. p \in 1..Len(t)
      BY <1>1, <2>1
    <3>2. t[p] \in Glue \/ \E i \in 1..n : Inside(mt, start, i, p)
      BY <3>1 DEF Laid
    <3> QED BY <1>4, <3>1, <3>2
  <2>2. CASE p > Len(t)
    <3> DEFINE k == p - Len(t)
    <3>1. k \in 1..Len(g) /\ Len(t) + k = p
      BY <1>1, <1>3, <2>2
    <3> HIDE DEF k
    <3> QED BY <1>5, <3>1
  <2> QED BY <1>1, <2>1, <2>2
<1>9. Sum(Level(u, Len(u)), opens[n], e)
  <2>1. Len(g) \in 0..Len(g)
    BY <1>1
  <2>2. Sum(Level(u, Len(t) + Len(g)), Level(u, Len(t)), Level(g, Len(g)))
    BY <1>1, <1>2, <1>3, <2>1, LevelOccurs
  <2>3. Len(t) \in 0..Len(t)
    BY <1>1
  <2>4. Sum(Level(u, 0 + Len(t)), Level(u, 0), Level(t, Len(t)))
    BY <1>1, <1>2, <1>3, <2>3, LevelOccurs
  <2>5. Level(u, 0) = 0
    BY LevelNone
  <2>6. 0 + Len(t) = Len(t)
    BY <1>1
  <2>7. Sum(Level(t, Len(t)), opens[n], d)
    BY DEF Laid
  <2> QED BY <1>3, <2>2, <2>4, <2>5, <2>6, <2>7 DEF Sum
<1>10. Laid(u, mt, n, start, opens, e)
  BY <1>1, <1>2, <1>3, <1>6, <1>7, <1>8, <1>9 DEF Laid
<1>11. ASSUME Clear(t, mt, n, start) \/ Len(g) > 0
       PROVE  Clear(u, mt, n, start)
  <2>1. ASSUME NEW i \in 1..n PROVE MemberEnd(mt, start, i) < Len(u)
    <3>1. Stands(t, mt, start, i)
      BY DEF Laid
    <3> DEFINE z == MemberEnd(mt, start, i)
    <3>2. z \in Nat /\ z <= Len(t) /\ (z < Len(t) \/ Len(g) > 0)
      BY <1>11, <3>1 DEF Stands, Clear
    <3> HIDE DEF z
    <3>3. z < Len(u)
      BY <1>1, <1>3, <3>2
    <3> QED BY <3>3 DEF z
  <2> QED BY <2>1 DEF Clear
<1> QED BY <1>10, <1>11 DEF u

(* A laid out text stays so when the next member is put behind it. *)
LEMMA GrowMember ==
    ASSUME NEW t, NEW mt, NEW n, NEW start, NEW opens,
           Laid(t, mt, n, start, opens, 0), Clear(t, mt, n, start),
           mt[n + 1] \in Seq(Glyph), Len(mt[n + 1]) > 0,
           Sum(opens[n + 1], opens[n], Level(mt[n + 1], Len(mt[n + 1])))
    PROVE  \E s : Laid(t \o mt[n + 1], mt, n + 1, s, opens, 0)
<1> DEFINE g == mt[n + 1]
           u == t \o g
           s == [i \in 1..(n + 1) |-> IF i = n + 1 THEN Len(t) ELSE start[i]]
<1>1. /\ n \in Nat /\ t \in Seq(Glyph) /\ Len(t) \in Nat
      /\ g \in Seq(Glyph) /\ Len(g) \in Nat /\ Len(g) > 0
  BY DEF Laid
<1>0. g = mt[n + 1]
  OBVIOUS
<1> HIDE DEF g
<1>2. u \in Seq(Glyph) /\ Added(Len(u), Len(t), Len(g))
      /\ Occurs(u, t, 0) /\ Occurs(u, g, Len(t))
  BY <1>1, Joined
<1> HIDE DEF u
<1>3. Len(u) = Len(t) + Len(g) /\ Len(u) \in Nat
  BY <1>2 DEF Added
<1>4. \A i \in 1..Len(t) : u[i] = t[i]
  <2>1. ASSUME NEW i \in 1..Len(t) PROVE u[i] = t[i]
    <3>1. u[0 + i] = t[i]
      BY <1>2 DEF Occurs
    <3> QED BY <1>1, <3>1
  <2> QED BY <2>1
<1>5. ASSUME NEW i \in 1..n
      PROVE  /\ i \in 1..(n + 1) /\ s[i] = start[i] /\ i # n + 1
             /\ MemberEnd(mt, s, i) = MemberEnd(mt, start, i)
  <2>1. i \in 1..(n + 1) /\ i # n + 1
    BY <1>1
  <2>2. s[i] = start[i]
    BY <2>1
  <2> HIDE DEF s
  <2> QED BY <2>1, <2>2 DEF MemberEnd
<1>6. /\ n + 1 \in 1..(n + 1) /\ s[n + 1] = Len(t)
      /\ MemberEnd(mt, s, n + 1) = Len(t) + Len(g)
  <2>1. n + 1 \in 1..(n + 1) /\ s[n + 1] = Len(t)
    BY <1>1
  <2> HIDE DEF s
  <2> QED BY <1>0, <2>1 DEF MemberEnd
<1> HIDE DEF s
<1>7. ASSUME NEW i \in 1..n
      PROVE  /\ Stands(u, mt, s, i) /\ Delimited(u, mt, s, i)
             /\ Level(u, s[i]) = opens[i - 1]
  <2>1. /\ Stands(t, mt, start, i) /\ Delimited(t, mt, start, i)
        /\ Level(t, start[i]) = opens[i - 1]
    BY DEF Laid
  <2>2. Stands(u, mt, start, i) /\ Level(u, start[i]) = Level(t, start[i])
    <3>1. Len(t) \in Nat /\ Len(u) \in Nat /\ Occurs(u, t, 0)
      BY <1>1, <1>2, <1>3
    <3> QED BY ONLY <2>1, <3>1, StillStands
  <2> DEFINE z == MemberEnd(mt, start, i)
  <2>3. z \in Nat /\ z < Len(t)
    BY <2>1 DEF Stands, Clear
  <2>4. t[z + 1] \in {Comma, RBrace}
    BY <2>1, <2>3 DEF Delimited
  <2> HIDE DEF z
  <2>5. u[z + 1] \in {Comma, RBrace}
    <3>1. z + 1 \in 1..Len(t)
      BY <1>1, <2>3
    <3> QED BY <1>4, <2>4, <3>1
  <2>6. Delimited(u, mt, s, i)
    BY <1>5, <2>5 DEF Delimited, z
  <2>7. Stands(u, mt, s, i)
    BY <1>5, <2>2 DEF Stands
  <2> QED BY <1>5, <2>1, <2>2, <2>6, <2>7
<1>8. /\ Stands(u, mt, s, n + 1) /\ Delimited(u, mt, s, n + 1)
      /\ Level(u, s[n + 1]) = opens[(n + 1) - 1]
  <2>1. Stands(u, mt, s, n + 1)
    <3>1. Len(t) + Len(g) \in Nat /\ Len(t) + Len(g) <= Len(u)
      BY <1>1, <1>3
    <3>2. Len(g) \in Nat \ {0}
      BY <1>1
    <3> QED BY <1>0, <1>1, <1>2, <1>6, <3>1, <3>2 DEF Stands
  <2>2. Delimited(u, mt, s, n + 1)
    <3>1. ~(Len(t) + Len(g) < Len(u))
      BY <1>1, <1>3
    <3> QED BY <1>6, <3>1 DEF Delimited
  <2>3. Len(t) \in 0..Len(t) /\ 0 + Len(t) = Len(t) /\ (n + 1) - 1 = n
    BY <1>1
  <2>4. Sum(Level(u, 0 + Len(t)), Level(u, 0), Level(t, Len(t)))
    BY <1>1, <1>2, <1>3, <2>3, LevelOccurs
  <2>5. Level(u, 0) = 0
    BY LevelNone
  <2>6. Sum(Level(t, Len(t)), opens[n], 0)
    BY DEF Laid
  <2>7. Level(u, Len(t)) = opens[n]
    BY <2>3, <2>4, <2>5, <2>6 DEF Sum
  <2> QED BY <1>6, <2>1, <2>2, <2>3, <2>7
<1>9. ASSUME NEW i \in 1..(n + 1), i # n + 1 PROVE i \in 1..n
  BY <1>1, <1>9
<1>10. ASSUME NEW i \in 1..(n + 1), NEW j \in 1..(n + 1), i < j
       PROVE  StandsBefore(mt, s, i, j)
  <2>1. i # n + 1
    BY <1>1, <1>10
  <2>2. i \in 1..n
    BY <1>9, <2>1
  <2>3. CASE j = n + 1
    <3>1. MemberEnd(mt, start, i) < Len(t)
      BY <2>2 DEF Clear
    <3> QED BY <1>5, <1>6, <2>2, <2>3, <3>1 DEF StandsBefore
  <2>4. CASE j # n + 1
    <3>1. j \in 1..n
      BY <1>9, <2>4
    <3>2. StandsBefore(mt, start, i, j)
      BY <1>10, <2>2, <3>1 DEF Laid
    <3> QED BY <1>5, <2>2, <3>1, <3>2 DEF StandsBefore
  <2> QED BY <2>3, <2>4
<1>11. ASSUME NEW p \in 1..Len(u)
       PROVE  u[p] \in Glue \/ \E i \in 1..(n + 1) : Inside(mt, s, i, p)
  <2>1. CASE p <= Len(t)
    <3>1. p \in 1..Len(t)
      BY <1>1, <2>1
    <3>2. t[p] \in Glue \/ \E i \in 1..n : Inside(mt, start, i, p)
      BY <3>1 DEF Laid
    <3>3. ASSUME NEW i \in 1..n, Inside(mt, start, i, p)
          PROVE  i \in 1..(n + 1) /\ Inside(mt, s, i, p)
      BY <1>5, <3>3 DEF Inside
    <3> QED BY <1>4, <3>1, <3>2, <3>3
  <2>2. CASE p > Len(t)
    <3>1. Len(t) < p /\ p <= Len(t) + Len(g)
      BY <1>1, <1>3, <2>2
    <3> QED BY <1>6, <3>1 DEF Inside
  <2> QED BY <1>1, <2>1, <2>2
<1>12. Sum(Level(u, Len(u)), opens[n + 1], 0)
  <2>1. Len(g) \in 0..Len(g)
    BY <1>1
  <2>2. Sum(Level(u, Len(t) + Len(g)), Level(u, Len(t)), Level(g, Len(g)))
    BY <1>1, <1>2, <1>3, <2>1, LevelOccurs
  <2>3. Level(u, Len(t)) = opens[n]
    <3>1. (n + 1) - 1 = n
      BY <1>1
    <3> QED BY <1>6, <1>8, <3>1
  <2>4. Sum(opens[n + 1], opens[n], Level(g, Len(g)))
    BY <1>0
  <2> QED BY <1>3, <2>2, <2>3, <2>4 DEF Sum
<1>13. \A i \in 1..(n + 1) :
          /\ Stands(u, mt, s, i) /\ Delimited(u, mt, s, i)
          /\ Level(u, s[i]) = opens[i - 1]
  BY <1>7, <1>8, <1>9
<1>14. n + 1 \in Nat
  BY <1>1
<1>15. Laid(u, mt, n + 1, s, opens, 0)
  BY <1>2, <1>3, <1>10, <1>11, <1>12, <1>13, <1>14 DEF Laid
<1> QED BY <1>0, <1>15 DEF u

(* The text of an object grows member by member. *)
Grows(f, ms, s) ==
    /\ f \in [0..Len(ms) -> Seq(Glyph)] /\ f[0] = Open
    /\ \A i \in 1..Len(ms) : f[i] = WithMember(f[i - 1], ms[i], s)

GoodMembers(ms) ==
    /\ Len(ms) \in Nat /\ ms = [i \in 1..Len(ms) |-> ms[i]]
    /\ \A i \in 1..Len(ms) : GoodMember(ms[i])

(* The texts between and around members. *)
LEMMA Punctuation ==
    /\ <<>> \in Seq(Glyph) /\ Len(<<>>) = 0
    /\ Open \in Seq(Glyph) /\ Len(Open) = 1 /\ Open[1] = LBrace
    /\ <<Comma>> \in Seq(Glyph) /\ Len(<<Comma>>) = 1
    /\ <<Comma>>[1] = Comma
    /\ <<RBrace>> \in Seq(Glyph) /\ Len(<<RBrace>>) = 1
    /\ <<RBrace>>[1] = RBrace
<1>1. LBrace \in Glyph /\ RBrace \in Glyph /\ Comma \in Glyph
  BY Glyphs
<1> QED BY <1>1 DEF Open

(* One more member: behind the brace, or behind a comma. *)
LEMMA WithMemberText ==
    ASSUME NEW t \in Seq(Glyph), NEW m, GoodMember(m), NEW s \in Separators
    PROVE  /\ WithMember(t, m, s) \in Seq(Glyph)
           /\ t = Open => WithMember(t, m, s) = t \o MemberText(m, s)
           /\ t # Open => WithMember(t, m, s)
                            = (t \o <<Comma>>) \o MemberText(m, s)
           /\ MemberText(m, s) \in Seq(Glyph)
           /\ Len(MemberText(m, s)) > 0
           /\ Len(WithMember(t, m, s)) > Len(t)
<1> DEFINE x == MemberText(m, s)
           c == IF t = Open THEN <<>> ELSE <<Comma>>
           w == WithMember(t, m, s)
<1>1. Written(x, m, s)
  BY MemberWritten
<1>2. /\ Len(m.name) \in Nat /\ Len(s) \in 1..2
      /\ Len(ToJson(m.value)) \in Nat \ {0}
      /\ Len(x) = Len(m.name) + 2 + Len(s) + Len(ToJson(m.value))
      /\ x \in Seq(Glyph)
  BY <1>1 DEF Written
<1>3. Len(x) > 0
  <2> DEFINE a == Len(m.name)
             b == Len(s)
             e == Len(ToJson(m.value))
  <2>1. a \in Nat /\ b \in 1..2 /\ e \in Nat \ {0} /\ Len(x) = a + 2 + b + e
    BY <1>2
  <2> HIDE DEF a, b, e
  <2> QED BY ONLY <2>1
<1>4. c \in Seq(Glyph)
  BY Punctuation
<1>5. w = (t \o c) \o x
  BY DEF WithMember
<1>6. t = Open => w = t \o x
  <2>1. t \o <<>> = t
    OBVIOUS
  <2>2. t = Open => c = <<>>
    OBVIOUS
  <2> HIDE DEF c, x, w
  <2> QED BY <1>5, <2>1, <2>2
<1>7. t # Open => w = (t \o <<Comma>>) \o x
  <2>1. t # Open => c = <<Comma>>
    OBVIOUS
  <2> HIDE DEF c, x, w
  <2> QED BY <1>5, <2>1
<1> HIDE DEF c, x, w
<1>8. t \o c \in Seq(Glyph) /\ Added(Len(t \o c), Len(t), Len(c))
  BY <1>4, Joined
<1>9. w \in Seq(Glyph) /\ Added(Len(w), Len(t \o c), Len(x))
  BY <1>2, <1>5, <1>8, Joined
<1>10. Len(w) > Len(t)
  BY <1>3, <1>8, <1>9 DEF Added
<1> QED BY <1>2, <1>3, <1>6, <1>7, <1>9, <1>10 DEF w, x

(* An object is written member by member. *)
LEMMA ObjectGrows ==
    ASSUME NEW ms, GoodMembers(ms), NEW s \in Separators
    PROVE  \E f : Grows(f, ms, s) /\ ObjectText(ms, s) = Closed(f[Len(ms)])
<1> DEFINE n == Len(ms)
           Body(f) == [i \in 0..n |->
                         IF i = 0 THEN Open
                         ELSE WithMember(f[i - 1], ms[i], s)]
           upto == CHOOSE f : f = Body(f)
           step == [i \in 1..n |->
                      [x \in Seq(Glyph) |-> WithMember(x, ms[i], s)]]
<1>1. ObjectText(ms, s) = Closed(upto[n])
  BY DEF ObjectText
<1>2. n \in Nat /\ Open \in Seq(Glyph)
  BY Punctuation DEF GoodMembers
<1>3. \A i \in 1..n, x \in Seq(Glyph) : WithMember(x, ms[i], s) \in Seq(Glyph)
  BY WithMemberText DEF GoodMembers
<1>4. step \in [1..n -> [Seq(Glyph) -> Seq(Glyph)]]
  BY <1>3
<1>5. \A i \in 1..n, x \in Seq(Glyph) : step[i][x] = WithMember(x, ms[i], s)
  OBVIOUS
<1> HIDE DEF step
<1>6. PICK f : LeadsTo(f, Seq(Glyph), Open, n, step)
  BY <1>2, <1>4, StepsExist
<1>7. /\ f \in [0..n -> Seq(Glyph)] /\ f[0] = Open
      /\ \A i \in 1..n : f[i] = step[i][f[i - 1]]
  BY <1>6 DEF LeadsTo
<1>8. \A i \in 0..n : i # 0 => i \in 1..n /\ i - 1 \in 0..n
  BY <1>2
<1>9. f = Body(f)
  <2>1. ASSUME NEW i \in 0..n PROVE f[i] = Body(f)[i]
    <3>1. CASE i = 0
      BY <1>7, <3>1
    <3>2. CASE i # 0
      <4>1. i \in 1..n /\ i - 1 \in 0..n
        BY <1>8, <3>2
      <4>2. f[i] = WithMember(f[i - 1], ms[i], s)
        BY <1>5, <1>7, <4>1
      <4> QED BY <3>2, <4>2
    <3> QED BY <3>1, <3>2
  <2>2. Body(f) = [i \in 0..n |-> Body(f)[i]]
    OBVIOUS
  <2> HIDE DEF Body
  <2> QED BY <1>7, <2>1, <2>2
<1>10. upto = Body(upto)
  <2> HIDE DEF Body
  <2> QED BY <1>9
<1> HIDE DEF upto
<1>11. \A i \in 0..n : upto[i] = IF i = 0 THEN Open
                                 ELSE WithMember(upto[i - 1], ms[i], s)
  BY <1>10
<1>12. upto = [i \in 0..n |-> upto[i]]
  BY <1>10
<1> HIDE DEF n, Body
<1> DEFINE T == {i \in Nat : i <= n => upto[i] \in Seq(Glyph)}
<1>13. 0 \in T
  <2>1. 0 \in 0..n
    BY <1>2
  <2>2. upto[0] = Open
    BY <1>11, <2>1
  <2> QED BY <1>2, <2>2
<1>14. ASSUME NEW i \in Nat, i \in T PROVE i + 1 \in T
  <2> SUFFICES ASSUME i + 1 <= n PROVE upto[i + 1] \in Seq(Glyph)
    OBVIOUS
  <2>1. upto[i] \in Seq(Glyph)
    BY <1>2, <1>14
  <2>2. i + 1 \in 0..n /\ i + 1 \in 1..n /\ i + 1 # 0 /\ (i + 1) - 1 = i
    BY <1>2
  <2>3. upto[i + 1] = WithMember(upto[(i + 1) - 1], ms[i + 1], s)
    BY <1>11, <2>2
  <2> QED BY <1>3, <2>1, <2>2, <2>3
<1> HIDE DEF T
<1>15. Nat \subseteq T
  BY <1>13, <1>14, SetInduction
<1>16. \A i \in 0..n : upto[i] \in Seq(Glyph)
  BY <1>2, <1>15 DEF T
<1>17. Grows(upto, ms, s)
  <2>1. upto \in [0..n -> Seq(Glyph)]
    BY <1>12, <1>16
  <2>2. upto[0] = Open
    <3>1. 0 \in 0..n
      BY <1>2
    <3> QED BY <1>11, <3>1
  <2>3. \A i \in 1..n : upto[i] = WithMember(upto[i - 1], ms[i], s)
    <3>1. \A i \in 1..n : i \in 0..n /\ i # 0
      BY <1>2
    <3> QED BY <1>11, <3>1
  <2> QED BY <2>1, <2>2, <2>3 DEF Grows, n
<1> QED BY <1>1, <1>17 DEF n

(* A member is written after it. *)
LEMMA GrowsOn ==
    ASSUME NEW f, NEW ms, GoodMembers(ms), NEW s \in Separators,
           Grows(f, ms, s), NEW m, GoodMember(m)
    PROVE  /\ GoodMembers(Append(ms, m))
           /\ \E h : /\ Grows(h, Append(ms, m), s)
                     /\ h[Len(ms) + 1] = WithMember(f[Len(ms)], m, s)
<1> DEFINE n == Len(ms)
           a == Append(ms, m)
           h == [i \in 0..(n + 1) |-> IF i = n + 1
                                      THEN WithMember(f[n], m, s) ELSE f[i]]
<1>1. n \in Nat /\ ms = [i \in 1..n |-> ms[i]]
      /\ \A i \in 1..n : GoodMember(ms[i])
  BY DEF GoodMembers
<1>2. ms \in Seq({ms[i] : i \in 1..n} \cup {m})
  <2> HIDE DEF n
  <2>1. \A i \in 1..n : ms[i] \in {ms[j] : j \in 1..n} \cup {m}
    OBVIOUS
  <2> QED BY <1>1, <2>1, FunctionSeq
<1>3. /\ a = [i \in 1..(n + 1) |-> a[i]] /\ Len(a) = n + 1
      /\ a[n + 1] = m /\ \A i \in 1..n : a[i] = ms[i]
  <2> DEFINE S == {ms[i] : i \in 1..n} \cup {m}
  <2>1. ms \in Seq(S) /\ m \in S
    BY <1>2
  <2> HIDE DEF S
  <2>2. a \in Seq(S) /\ Len(a) = n + 1
    BY <2>1
  <2>3. a[n + 1] = m
    BY <2>1
  <2>4. \A i \in 1..n : a[i] = ms[i]
    BY <2>1
  <2> HIDE DEF a, n
  <2>5. a = [i \in 1..(n + 1) |-> a[i]]
    BY <2>2
  <2> QED BY <2>2, <2>3, <2>4, <2>5
<1>4. f \in [0..n -> Seq(Glyph)] /\ f[0] = Open
      /\ \A i \in 1..n : f[i] = WithMember(f[i - 1], ms[i], s)
  BY DEF Grows
<1> HIDE DEF n, a
<1>5. a[n + 1] = m /\ \A i \in 1..n : a[i] = ms[i]
  BY <1>3
<1>6. \A i \in 1..(n + 1) : i # n + 1 => i \in 1..n
  BY <1>1
<1>7. GoodMembers(a)
  <2>1. a = [i \in 1..(n + 1) |-> a[i]] /\ n + 1 \in Nat
    BY <1>1, <1>3
  <2>2. \A i \in 1..(n + 1) : GoodMember(a[i])
    BY <1>1, <1>5, <1>6
  <2> QED BY <1>3, <2>1, <2>2 DEF GoodMembers
<1>8. f[n] \in Seq(Glyph)
  BY <1>1, <1>4
<1>9. WithMember(f[n], m, s) \in Seq(Glyph)
  BY <1>8, WithMemberText
<1>10. h \in [0..(n + 1) -> Seq(Glyph)]
  <2>1. \A i \in 0..(n + 1) : i # n + 1 => i \in 0..n
    BY <1>1
  <2> QED BY <1>4, <1>9, <2>1
<1>11. /\ h[n + 1] = WithMember(f[n], m, s)
       /\ \A i \in 0..n : h[i] = f[i]
  <2>1. n + 1 \in 0..(n + 1) /\ \A i \in 0..n : i \in 0..(n + 1) /\ i # n + 1
    BY <1>1
  <2> QED BY <2>1
<1> HIDE DEF h
<1>12. h[0] = Open
  <2>1. 0 \in 0..n
    BY ONLY <1>1
  <2> QED BY ONLY <1>4, <1>11, <2>1
<1>13. ASSUME NEW i \in 1..(n + 1)
       PROVE  h[i] = WithMember(h[i - 1], a[i], s)
  <2>1. CASE i = n + 1
    <3>1. i - 1 = n /\ n \in 0..n
      BY <1>1, <2>1
    <3> QED BY <1>5, <1>11, <2>1, <3>1
  <2>2. CASE i # n + 1
    <3>1. i \in 1..n
      BY <1>6, <2>2
    <3>2. i \in 0..n /\ i - 1 \in 0..n
      BY <1>1, <3>1
    <3> QED BY <1>4, <1>5, <1>11, <3>1, <3>2
  <2> QED BY <2>1, <2>2
<1>14. Grows(h, a, s)
  BY <1>3, <1>10, <1>12, <1>13 DEF Grows
<1> QED BY <1>7, <1>11, <1>14 DEF a, n

Rising(opens, mt, n) ==
    /\ n \in Nat /\ opens[0] = 1
    /\ \A i \in 1..n :
          Sum(opens[i], opens[i - 1], Level(mt[i], Len(mt[i])))

(* What punctuation adds to the level. *)
LEMMA LevelOfGlue ==
    /\ Level(Open, Len(Open)) = 1
    /\ Level(<<RBrace>>, Len(<<RBrace>>)) = -1
    /\ Level(<<Comma>>, Len(<<Comma>>)) = 0
<1>1. Level(Open, Len(Open)) = 1
  BY Punctuation, LevelOfBrace
<1>2. RBrace # LBrace /\ Comma # LBrace /\ Comma # RBrace
  BY DEF RBrace, LBrace, Comma
<1>3. Level(<<RBrace>>, Len(<<RBrace>>)) = -1
  <2> DEFINE g == <<RBrace>>
  <2>1. Len(g) = 1 /\ g[1] = RBrace
    BY Punctuation
  <2> HIDE DEF g
  <2>2. Level(g, 1) = -1
    BY <1>2, <2>1, LevelOfBrace
  <2>3. Level(g, Len(g)) = -1
    BY <2>1, <2>2
  <2> QED BY <2>3 DEF g
<1>4. Level(<<Comma>>, Len(<<Comma>>)) = 0
  <2> DEFINE g == <<Comma>>
  <2>1. Len(g) = 1 /\ g[1] = Comma
    BY Punctuation
  <2> HIDE DEF g
  <2>2. \A k \in 1..1 : g[k] # LBrace /\ g[k] # RBrace
    BY <1>2, <2>1
  <2>3. 1 \in Nat
    OBVIOUS
  <2>4. Level(g, 1) = 0
    BY <2>2, <2>3, LevelNone
  <2>5. Level(g, Len(g)) = 0
    BY <2>1, <2>4
  <2> QED BY <2>5 DEF g
<1> QED BY <1>1, <1>3, <1>4

(* The opening brace alone is laid out. *)
LEMMA OpenLaid ==
    ASSUME NEW mt, NEW start, NEW opens, opens[0] = 1
    PROVE  Laid(Open, mt, 0, start, opens, 0) /\ Clear(Open, mt, 0, start)
<1>1. Open \in Seq(Glyph) /\ Len(Open) = 1 /\ Open[1] = LBrace
  BY Punctuation
<1>2. Sum(Level(Open, Len(Open)), opens[0], 0)
  BY LevelOfGlue DEF Sum
<1>3. \A p \in 1..Len(Open) : Open[p] \in Glue
  BY <1>1 DEF Glue
<1>4. 1..0 = {}
  OBVIOUS
<1> QED BY <1>1, <1>2, <1>3, <1>4 DEF Laid, Clear

(* An object whose members are written one by one is laid out. *)
LEMMA ObjectLaid ==
    ASSUME NEW ms, GoodMembers(ms), NEW s \in Separators,
           NEW f, Grows(f, ms, s), NEW p \in Seq(Glyph),
           NEW mt, NEW n \in Nat, NEW start, NEW opens,
           Laid(p \o Open, mt, n, start, opens, 0),
           Clear(p \o Open, mt, n, start),
           Rising(opens, mt, n + Len(ms)),
           \A i \in 1..Len(ms) : mt[n + i] = MemberText(ms[i], s)
    PROVE  \E st : Laid(p \o f[Len(ms)], mt, n + Len(ms), st, opens, 0)
<1> DEFINE K == Len(ms)
           T == {i \in Nat : i <= K =>
                    /\ Len(f[i]) > i
                    /\ \E st : /\ Laid(p \o f[i], mt, n + i, st, opens, 0)
                               /\ i = 0 => Clear(p \o f[i], mt, n + i, st)}
<1>1. /\ K \in Nat /\ \A i \in 1..K : GoodMember(ms[i])
  BY DEF GoodMembers
<1>2. f \in [0..K -> Seq(Glyph)] /\ f[0] = Open
      /\ \A i \in 1..K : f[i] = WithMember(f[i - 1], ms[i], s)
  BY DEF Grows
<1>3. \A i \in 1..K : mt[n + i] = MemberText(ms[i], s)
  OBVIOUS
<1>4. \A i \in 1..(n + K) :
          Sum(opens[i], opens[i - 1], Level(mt[i], Len(mt[i])))
  BY DEF Rising
<1> HIDE DEF K
<1>5. 0 \in T
  <2>1. Len(f[0]) > 0
    BY <1>2, Punctuation
  <2>2. n + 0 = n
    OBVIOUS
  <2> QED BY <1>2, <2>1, <2>2
<1>6. ASSUME NEW i \in Nat, i \in T PROVE i + 1 \in T
  <2> SUFFICES ASSUME i + 1 <= K
               PROVE  /\ Len(f[i + 1]) > i + 1
                      /\ \E st : Laid(p \o f[i + 1], mt, n + (i + 1), st,
                                      opens, 0)
    <3>1. i + 1 # 0 /\ i + 1 \in Nat
      OBVIOUS
    <3> QED BY <3>1
  <2> DEFINE x == f[i]
             m == ms[i + 1]
             g == mt[n + (i + 1)]
             k == n + i
  <2>1. i \in 0..K /\ i + 1 \in 1..K /\ (i + 1) - 1 = i /\ k \in Nat
        /\ k + 1 = n + (i + 1) /\ k + 1 \in 1..(n + K) /\ (k + 1) - 1 = k
    BY <1>1
  <2>2. x \in Seq(Glyph) /\ GoodMember(m) /\ f[i + 1] = WithMember(x, m, s)
        /\ g = MemberText(m, s)
    BY <1>1, <1>2, <1>3, <2>1
  <2>3. Len(x) > i
    BY <1>1, <1>6
  <2>4. PICK st : /\ Laid(p \o x, mt, k, st, opens, 0)
                  /\ i = 0 => Clear(p \o x, mt, k, st)
    BY <1>1, <1>6
  <2>5. Sum(opens[k + 1], opens[(k + 1) - 1], Level(mt[k + 1], Len(mt[k + 1])))
    BY <1>4, <2>1
  <2>6. mt[k + 1] = g /\ opens[(k + 1) - 1] = opens[k]
    BY <2>1
  <2> HIDE DEF T, k, m, x, g
  <2>7. /\ WithMember(x, m, s) \in Seq(Glyph)
        /\ x = Open => WithMember(x, m, s) = x \o g
        /\ x # Open => WithMember(x, m, s) = (x \o <<Comma>>) \o g
        /\ g \in Seq(Glyph) /\ Len(g) > 0
        /\ Len(WithMember(x, m, s)) > Len(x)
    BY <2>2, WithMemberText
  <2>8. Len(f[i + 1]) > i + 1
    <3>1. Len(x) \in Nat /\ Len(WithMember(x, m, s)) \in Nat
      BY <2>2, <2>7
    <3> QED BY <2>2, <2>3, <2>7, <3>1
  <2>9. Sum(opens[k + 1], opens[k], Level(mt[k + 1], Len(mt[k + 1])))
        /\ mt[k + 1] \in Seq(Glyph) /\ Len(mt[k + 1]) > 0
    BY <2>5, <2>6, <2>7
  <2>10. ASSUME NEW t, Laid(t, mt, k, st, opens, 0), Clear(t, mt, k, st),
                t \o g = p \o f[i + 1]
         PROVE  \E s2 : Laid(p \o f[i + 1], mt, n + (i + 1), s2, opens, 0)
    <3>1. \E s2 : Laid(t \o mt[k + 1], mt, k + 1, s2, opens, 0)
      BY <2>9, <2>10, GrowMember
    <3> QED BY <2>1, <2>6, <2>10, <3>1
  <2>11. CASE i = 0
    <3>1. x = Open
      BY <1>2, <2>11 DEF x
    <3>2. f[i + 1] = x \o g
      BY <2>2, <2>7, <3>1
    <3>3. (p \o x) \o g = p \o f[i + 1]
      <4>1. x \in Seq(Glyph) /\ g \in Seq(Glyph)
        BY <2>2, <2>7
      <4>2. (p \o x) \o g = p \o (x \o g)
        BY ONLY p \in Seq(Glyph), <4>1, ConcatAssociative
      <4> QED BY <3>2, <4>2
    <3> QED BY <2>4, <2>8, <2>10, <2>11, <3>3
  <2>12. CASE i # 0
    <3> DEFINE c == <<Comma>>
    <3>1. x # Open
      <4>1. Len(x) > 1
        <5>1. Len(x) \in Nat
          BY <2>2
        <5> QED BY <2>3, <2>12, <5>1
      <4>2. Len(Open) = 1
        BY Punctuation
      <4>3. ASSUME x = Open PROVE FALSE
        <5>1. Len(x) = 1
          BY <4>2, <4>3
        <5> QED BY <4>1, <5>1
      <4> QED BY <4>3
    <3>2. c \in Seq(Glyph) /\ Len(c) = 1 /\ c[1] = Comma
          /\ Level(c, Len(c)) = 0
      BY Punctuation, LevelOfGlue
    <3>3. f[i + 1] = (x \o c) \o g
      BY <2>2, <2>7, <3>1
    <3> HIDE DEF c
    <3>4. \A z \in 1..Len(c) : c[z] \in Glue
      BY <3>2 DEF Glue
    <3>5. Sum(0, 0, Level(c, Len(c)))
      BY <3>2 DEF Sum
    <3>6. c[1] \in {Comma, RBrace} /\ Len(c) > 0
      BY <3>2
    <3>7. /\ Laid((p \o x) \o c, mt, k, st, opens, 0)
          /\ Clear((p \o x) \o c, mt, k, st)
      BY <2>4, <3>2, <3>4, <3>5, <3>6, GrowGlue
    <3>8. ((p \o x) \o c) \o g = p \o f[i + 1]
      <4>1. x \o c \in Seq(Glyph)
        BY <2>2, <3>2, Joined
      <4>2. (p \o x) \o c = p \o (x \o c)
        <5>1. x \in Seq(Glyph) /\ c \in Seq(Glyph)
          BY <2>2, <3>2
        <5> QED BY ONLY p \in Seq(Glyph), <5>1, ConcatAssociative
      <4> DEFINE y == x \o c
      <4>a. y \in Seq(Glyph) /\ g \in Seq(Glyph)
        BY <2>7, <4>1
      <4> HIDE DEF y
      <4>b. (p \o y) \o g = p \o (y \o g)
        BY ONLY p \in Seq(Glyph), <4>a, ConcatAssociative
      <4>3. (p \o (x \o c)) \o g = p \o ((x \o c) \o g)
        BY <4>b DEF y
      <4> QED BY <3>3, <4>2, <4>3
    <3> QED BY <2>8, <2>10, <3>7, <3>8
  <2> QED BY <2>11, <2>12
<1> HIDE DEF T
<1>7. Nat \subseteq T
  BY <1>5, <1>6, SetInduction
<1>8. K \in T /\ K <= K
  BY <1>1, <1>7
<1> QED BY <1>8 DEF T, K

(* The levels between the members exist. *)
LEMMA RisingExists ==
    ASSUME NEW mt, NEW n \in Nat, \A i \in 1..n : Len(mt[i]) \in Nat
    PROVE  \E opens : Rising(opens, mt, n)
<1> DEFINE up(i) == Level(mt[i], Len(mt[i]))
           step == [i \in 1..n |-> [x \in Int |-> x + up(i)]]
<1>1. \A i \in 1..n : up(i) \in Int
  BY LevelIs
<1> HIDE DEF up
<1>2. step \in [1..n -> [Int -> Int]]
  BY <1>1
<1>3. \A i \in 1..n, x \in Int : step[i][x] = x + up(i)
  OBVIOUS
<1> HIDE DEF step
<1>4. PICK f : LeadsTo(f, Int, 1, n, step)
  <2>1. 1 \in Int /\ n \in Nat
    OBVIOUS
  <2> QED BY ONLY <1>2, <2>1, StepsExist
<1>5. /\ f \in [0..n -> Int] /\ f[0] = 1
      /\ \A i \in 1..n : f[i] = step[i][f[i - 1]]
  BY <1>4 DEF LeadsTo
<1>6. ASSUME NEW i \in 1..n PROVE Sum(f[i], f[i - 1], up(i))
  <2>1. i \in 0..n /\ i - 1 \in 0..n
    OBVIOUS
  <2>2. f[i] \in Int /\ f[i - 1] \in Int
    BY <1>5, <2>1
  <2> QED BY <1>1, <1>3, <1>5, <2>2 DEF Sum
<1>7. Rising(f, mt, n)
  BY <1>5, <1>6 DEF Rising, up
<1> QED BY <1>7

(* The levels of the first members are those of all members. *)
LEMMA RisingPrefix ==
    ASSUME NEW opens, NEW mt, NEW n, NEW k \in Nat, Rising(opens, mt, n),
           k <= n
    PROVE  Rising(opens, mt, k)
<1>1. n \in Nat /\ \A i \in 1..k : i \in 1..n
  BY DEF Rising
<1> QED BY <1>1 DEF Rising

TextsOf(mt, hs, cs, s) ==
    /\ \A i \in 1..Len(hs) : mt[i] = MemberText(hs[i], Tight)
    /\ \A i \in 1..Len(cs) : mt[Len(hs) + i] = MemberText(cs[i], s)

(* The text of a token - header, padding, payload - is laid out. *)
LEMMA TokenLaid ==
    ASSUME NEW hs, GoodMembers(hs), NEW cs, GoodMembers(cs),
           NEW s \in Separators, NEW f, Grows(f, cs, s),
           NEW pad \in Seq(Glyph), AllNul(pad),
           NEW mt, TextsOf(mt, hs, cs, s)
    PROVE  LET t == ObjectText(hs, Tight) \o pad \o Closed(f[Len(cs)])
               n == Len(hs) + Len(cs)
           IN  \E start, opens :
                  /\ Laid(t, mt, n, start, opens, -1)
                  /\ Clear(t, mt, n, start) /\ Rising(opens, mt, n)
<1> DEFINE H == Len(hs)
           K == Len(cs)
           n == H + K
           x == f[K]
<1>1. /\ H \in Nat /\ K \in Nat /\ n \in Nat /\ H <= n
      /\ \A i \in 1..H : GoodMember(hs[i])
      /\ \A i \in 1..K : GoodMember(cs[i])
  BY DEF GoodMembers
<1>2. x \in Seq(Glyph)
  <2>1. K \in 0..K
    BY <1>1
  <2> QED BY <2>1 DEF Grows
<1>3. Tight \in Separators
  BY DEF Separators
<1>4. ASSUME NEW i \in 1..n PROVE Len(mt[i]) \in Nat
  <2>1. ASSUME NEW m, GoodMember(m), NEW z \in Separators
        PROVE  Len(MemberText(m, z)) \in Nat
    <3>1. MemberText(m, z) \in Seq(Glyph)
      BY <2>1, Punctuation, WithMemberText
    <3> QED BY <3>1
  <2>2. CASE i <= H
    <3>1. i \in 1..H
      BY <1>1, <2>2
    <3>2. mt[i] = MemberText(hs[i], Tight) /\ GoodMember(hs[i])
      BY <1>1, <3>1 DEF TextsOf
    <3> QED BY <1>3, <2>1, <3>2
  <2>3. CASE ~(i <= H)
    <3> DEFINE k == i - H
    <3>1. k \in 1..K /\ H + k = i
      BY <1>1, <2>3
    <3> HIDE DEF k
    <3>2. mt[H + k] = MemberText(cs[k], s) /\ GoodMember(cs[k])
      BY <1>1, <3>1 DEF TextsOf
    <3> QED BY <2>1, <3>1, <3>2
  <2> QED BY <2>2, <2>3
<1> HIDE DEF n
<1>5. PICK opens : Rising(opens, mt, n)
  BY <1>1, <1>4, RisingExists
<1>6. opens[0] = 1
  BY <1>5 DEF Rising
<1>7. PICK h : Grows(h, hs, Tight) /\ ObjectText(hs, Tight) = Closed(h[H])
  BY <1>3, ObjectGrows
<1> DEFINE y == h[H]
           a == y \o <<RBrace>>
           b == a \o pad
           c == b \o Open
           d == b \o x
           e == d \o <<RBrace>>
           start0 == <<>>
<1>8. y \in Seq(Glyph)
  <2>1. H \in 0..H
    BY <1>1
  <2> QED BY <1>7, <2>1 DEF Grows
<1>9. \E st : Laid(y, mt, H, st, opens, 0)
  <2> DEFINE p == <<>>
  <2>1. p \in Seq(Glyph) /\ p \o Open = Open /\ p \o y = y
    BY <1>8, Punctuation
  <2>2. Laid(Open, mt, 0, start0, opens, 0) /\ Clear(Open, mt, 0, start0)
    BY <1>6, OpenLaid
  <2> HIDE DEF p, start0
  <2>3. 0 + H = H /\ 0 \in Nat /\ \A i \in 1..H : 0 + i = i
    BY <1>1
  <2>4. Rising(opens, mt, 0 + Len(hs))
    BY <1>1, <1>5, <2>3, RisingPrefix
  <2>5. \A i \in 1..Len(hs) : mt[0 + i] = MemberText(hs[i], Tight)
    BY <2>3 DEF TextsOf
  <2>6. Laid(p \o Open, mt, 0, start0, opens, 0)
        /\ Clear(p \o Open, mt, 0, start0)
    BY <2>1, <2>2
  <2>7. \E st : Laid(p \o h[Len(hs)], mt, 0 + Len(hs), st, opens, 0)
    BY <1>3, <1>7, <2>1, <2>3, <2>4, <2>5, <2>6, ObjectLaid
  <2> QED BY <2>1, <2>3, <2>7
<1>10. PICK st : Laid(y, mt, H, st, opens, 0)
  BY <1>9
<1> HIDE DEF start0
<1>11. /\ <<RBrace>> \in Seq(Glyph) /\ Len(<<RBrace>>) > 0
       /\ <<RBrace>>[1] \in {Comma, RBrace}
       /\ \A k \in 1..Len(<<RBrace>>) : <<RBrace>>[k] \in Glue
       /\ Sum(-1, 0, Level(<<RBrace>>, Len(<<RBrace>>)))
  <2> DEFINE g == <<RBrace>>
  <2>1. g \in Seq(Glyph) /\ Len(g) = 1 /\ g[1] = RBrace /\ Level(g, Len(g)) = -1
    BY Punctuation, LevelOfGlue
  <2> HIDE DEF g
  <2>2. \A k \in 1..Len(g) : g[k] \in Glue
    BY <2>1 DEF Glue
  <2>3. Sum(-1, 0, Level(g, Len(g))) /\ Len(g) > 0
        /\ g[1] \in {Comma, RBrace}
    BY <2>1 DEF Sum
  <2> QED BY <2>1, <2>2, <2>3 DEF g
<1>12. Laid(a, mt, H, st, opens, -1) /\ Clear(a, mt, H, st)
  <2> DEFINE g == <<RBrace>>
  <2> HIDE DEF g, y
  <2>1. /\ g \in Seq(Glyph) /\ Len(g) > 0 /\ g[1] \in {Comma, RBrace}
        /\ \A k \in 1..Len(g) : g[k] \in Glue
        /\ Sum(-1, 0, Level(g, Len(g)))
    BY <1>11 DEF g
  <2>2. Laid(y \o g, mt, H, st, opens, -1) /\ Clear(y \o g, mt, H, st)
    BY <1>10, <2>1, GrowGlue
  <2> QED BY <2>2 DEF g
<1> HIDE DEF a
<1>13. Laid(b, mt, H, st, opens, -1) /\ Clear(b, mt, H, st)
  <2>1. \A k \in 1..Len(pad) : pad[k] = Nul
    BY DEF AllNul
  <2>2. \A k \in 1..Len(pad) : pad[k] \in Glue
    BY <2>1 DEF Glue
  <2>3. Nul # LBrace /\ Nul # RBrace
    BY DEF Nul, LBrace, RBrace
  <2>4. Len(pad) \in Nat
    OBVIOUS
  <2>5. Level(pad, Len(pad)) = 0
    BY <2>1, <2>3, <2>4, LevelNone
  <2>6. Sum(-1, -1, Level(pad, Len(pad)))
    BY <2>5 DEF Sum
  <2> QED BY <1>12, <2>2, <2>6, GrowGlue
<1>14. b \in Seq(Glyph)
  BY <1>13 DEF Laid
<1> HIDE DEF b
<1>15. Laid(c, mt, H, st, opens, 0) /\ Clear(c, mt, H, st)
  <2>1. Open \in Seq(Glyph) /\ Len(Open) = 1 /\ Open[1] = LBrace
        /\ Level(Open, Len(Open)) = 1
    BY Punctuation, LevelOfGlue
  <2>2. \A k \in 1..Len(Open) : Open[k] \in Glue
    BY <2>1 DEF Glue
  <2>3. Sum(0, -1, Level(Open, Len(Open)))
    BY <2>1 DEF Sum
  <2> QED BY <1>13, <2>1, <2>2, <2>3, GrowGlue
<1>16. \E st2 : Laid(d, mt, n, st2, opens, 0)
  <2>1. \A i \in 1..Len(cs) : mt[H + i] = MemberText(cs[i], s)
    BY DEF TextsOf
  <2>2. H + Len(cs) = n
    BY DEF n
  <2>3. Rising(opens, mt, H + Len(cs))
    BY <1>5, <2>2
  <2>4. H \in Nat
    BY <1>1
  <2> HIDE DEF H
  <2>5. \E st2 : Laid(b \o f[Len(cs)], mt, H + Len(cs), st2, opens, 0)
    BY <1>14, <1>15, <2>1, <2>3, <2>4, ObjectLaid
  <2> QED BY <2>2, <2>5
<1>17. PICK st2 : Laid(d, mt, n, st2, opens, 0)
  BY <1>16
<1>18. Laid(e, mt, n, st2, opens, -1) /\ Clear(e, mt, n, st2)
  <2> DEFINE g == <<RBrace>>
  <2> HIDE DEF g, d
  <2>1. /\ g \in Seq(Glyph) /\ Len(g) > 0 /\ g[1] \in {Comma, RBrace}
        /\ \A k \in 1..Len(g) : g[k] \in Glue
        /\ Sum(-1, 0, Level(g, Len(g)))
    BY <1>11 DEF g
  <2>2. Laid(d \o g, mt, n, st2, opens, -1) /\ Clear(d \o g, mt, n, st2)
    BY <1>17, <2>1, GrowGlue
  <2> QED BY <2>2 DEF g
<1>19. e = ObjectText(hs, Tight) \o pad \o Closed(x)
  <2> DEFINE g == <<RBrace>>
  <2>1. g \in Seq(Glyph)
    BY Punctuation
  <2>2. ObjectText(hs, Tight) \o pad = b
    BY <1>7 DEF Closed, a, b
  <2>3. Closed(x) = x \o g
    BY DEF Closed
  <2> HIDE DEF g, x
  <2>4. (b \o x) \o g = b \o (x \o g)
    BY ONLY x \in Seq(Glyph), <1>2, <1>14, <2>1, ConcatAssociative
  <2>5. e = (b \o x) \o g
    BY DEF g
  <2> QED BY <2>2, <2>3, <2>4, <2>5
<1> HIDE DEF e
<1> QED BY <1>5, <1>18, <1>19 DEF n

(* A set of numbers that is not empty has a least member. *)
LEMMA MinOfSet ==
    ASSUME NEW T \in SUBSET Nat, T # {}
    PROVE  Min(T) \in T /\ \A m \in T : Min(T) <= m
<1>1. \E n \in T : \A m \in T : n <= m
  BY LeastNumber
<1> QED BY <1>1 DEF Min

(* Behind the last quote of a text stands nothing, or a character with
   which no name begins. *)
EndsQuoted(x) ==
    \A p \in 1..Len(x) :
        x[p] = Quote /\ (\A r \in (p + 1)..Len(x) : x[r] # Quote)
            => p = Len(x) \/ x[p + 1] \in Follower

(* It is enough to look at one quote with none behind it. *)
LEMMA LastQuoteIs ==
    ASSUME NEW x, Len(x) \in Nat, NEW e \in 1..Len(x), x[e] = Quote,
           \A r \in (e + 1)..Len(x) : x[r] # Quote,
           e = Len(x) \/ x[e + 1] \in Follower
    PROVE  EndsQuoted(x)
<1>1. ASSUME NEW p \in 1..Len(x), x[p] = Quote,
             \A r \in (p + 1)..Len(x) : x[r] # Quote
      PROVE  p = e
  <2>1. ASSUME p < e PROVE FALSE
    <3>1. e \in (p + 1)..Len(x)
      BY <2>1
    <3> QED BY <1>1, <3>1
  <2>2. ASSUME e < p PROVE FALSE
    <3>1. p \in (e + 1)..Len(x)
      BY <2>2
    <3> QED BY <1>1, <3>1
  <2> QED BY <2>1, <2>2
<1> QED BY <1>1 DEF EndsQuoted

(* A value ends with a quote, with a bracket, or with a number. *)
LEMMA ValueLastQuote ==
    ASSUME NEW v, GoodValue(v)
    PROVE  EndsQuoted(ToJson(v))
<1> DEFINE t == v.text
           j == ToJson(v)
<1>1. t \in Seq(Glyph)
  BY DEF GoodValue
<1>2. CASE v.kind = "string"
  <2>1. j = Quoted(Escaped(t))
    BY <1>2 DEF ToJson
  <2>2. j \in Seq(Glyph) /\ Len(j) >= 2 /\ j[Len(j)] = Quote
    BY <1>1, <2>1, StringText
  <2> HIDE DEF j
  <2>3. Len(j) \in Nat /\ Len(j) \in 1..Len(j)
        /\ \A r \in (Len(j) + 1)..Len(j) : FALSE
    BY <2>2
  <2>4. EndsQuoted(j)
    BY <2>2, <2>3, LastQuoteIs
  <2> QED BY <2>4 DEF j
<1>3. CASE v.kind = "list"
  <2> DEFINE w == Quoted(Escaped(t))
             n == Len(w)
  <2>1. j = <<"[">> \o w \o <<"]">>
    BY <1>3 DEF ToJson
  <2>2. w \in Seq(Glyph) /\ n >= 2 /\ w[n] = Quote
    BY <1>1, StringText
  <2> HIDE DEF j, w
  <2>3. Brackets(j, w)
    BY <2>1, <2>2, ListText
  <2>4. n \in Nat /\ n \in 1..n
    BY <2>2
  <2> HIDE DEF n
  <2>5. Len(j) = n + 2 /\ j[n + 2] = "]" /\ j[1 + n] = w[n]
    BY <2>3, <2>4 DEF Brackets, Occurs, n
  <2>6. 1 + n \in 1..Len(j) /\ (1 + n) + 1 = n + 2 /\ Len(j) \in Nat
        /\ \A r \in ((1 + n) + 1)..Len(j) : r = n + 2
    BY <2>4, <2>5
  <2>7. "]" # Quote /\ "]" \in Follower
    BY GlyphsDiffer, StructuralChars
  <2>8. EndsQuoted(j)
    BY <2>2, <2>5, <2>6, <2>7, LastQuoteIs
  <2> QED BY <2>8 DEF j
<1>4. CASE v.kind = "object"
  <2> DEFINE u == Quoted(t)
             n == Len(u)
  <2>1. j = <<LBrace>> \o u \o <<":", "0", RBrace>>
    BY <1>4 DEF ToJson
  <2>2. u \in Seq(Glyph) /\ n = Len(t) + 2 /\ u[n] = Quote
    <3>1. /\ u \in Seq(Glyph) /\ Len(u) = Len(t) + 2
          /\ u[Len(t) + 2] = Quote
      BY <1>1, Glyphs, QuotedParts
    <3> QED BY <3>1
  <2> HIDE DEF j, u
  <2>3. Braces(j, u)
    BY <2>1, <2>2, ObjectValueText
  <2>4. n \in Nat /\ n \in 1..n
    <3>1. Len(t) \in Nat
      BY <1>1
    <3> HIDE DEF n, t
    <3> QED BY <2>2, <3>1
  <2> HIDE DEF n
  <2>5. /\ Len(j) = n + 4 /\ j[n + 2] = ":" /\ j[n + 3] = "0"
        /\ j[n + 4] = RBrace /\ j[1 + n] = u[n]
    BY <2>3, <2>4 DEF Braces, Occurs, n
  <2>6. 1 + n \in 1..Len(j) /\ (1 + n) + 1 = n + 2 /\ Len(j) \in Nat
        /\ \A r \in ((1 + n) + 1)..Len(j) :
              r = n + 2 \/ r = n + 3 \/ r = n + 4
    BY <2>4, <2>5
  <2>7. ":" # Quote /\ "0" # Quote /\ RBrace # Quote /\ ":" \in Follower
    BY GlyphsDiffer, StructuralChars DEF Glue
  <2>8. EndsQuoted(j)
    BY <2>2, <2>5, <2>6, <2>7, LastQuoteIs
  <2> QED BY <2>8 DEF j
<1>5. CASE v.kind = "number"
  <2>1. j = t
    BY <1>5 DEF ToJson
  <2>2. \A k \in 1..Len(t) : t[k] # Quote
    BY <1>5, StructuralChars DEF GoodValue
  <2> QED BY <2>1, <2>2 DEF EndsQuoted
<1> QED BY <1>2, <1>3, <1>4, <1>5 DEF GoodValue

(* The numbers that describe a written member. *)
WrittenAt(m, s, x, V, l) ==
    /\ V \in Nat /\ l \in Nat \ {0} /\ Len(x) = V + l
    /\ V = Len(m.name) + 2 + Len(s) /\ Len(m.name) \in Nat
    /\ Len(s) \in 1..2

(* The lengths of the parts of a member. *)
LEMMA WrittenNumbers ==
    ASSUME NEW m, NEW s, NEW x, Written(x, m, s)
    PROVE  WrittenAt(m, s, x, ValueAt(m, s), Len(ToJson(m.value)))
<1> DEFINE K == Len(m.name)
           S == Len(s)
           l == Len(ToJson(m.value))
           V == ValueAt(m, s)
<1>1. K \in Nat /\ S \in 1..2 /\ l \in Nat \ {0} /\ Len(x) = K + 2 + S + l
  BY DEF Written
<1>2. V = K + 2 + S
  BY DEF ValueAt
<1> HIDE DEF K, S, l, V
<1>3. V \in Nat /\ Len(x) = V + l
  <2> DEFINE X == Len(x)
  <2>1. X = K + 2 + S + l
    BY <1>1
  <2> HIDE DEF X
  <2>2. V \in Nat /\ X = V + l
    BY ONLY <1>1, <1>2, <2>1
  <2> QED BY <2>2 DEF X
<1> QED BY <1>1, <1>2, <1>3 DEF WrittenAt, K, S, l, V

(* A member ends like its value; if that has no quotes, the last one
   closes the name. *)
LEMMA MemberLastQuote ==
    ASSUME NEW x, NEW m, GoodMember(m), NEW s, Written(x, m, s)
    PROVE  EndsQuoted(x)
<1> DEFINE j == ToJson(m.value)
           K == Len(m.name)
           V == ValueAt(m, s)
           l == Len(j)
           X == Len(x)
<1>1. /\ K \in Nat /\ l \in Nat \ {0} /\ Len(s) \in 1..2
      /\ V = K + 2 + Len(s) /\ X = V + l
      /\ x[K + 2] = Quote /\ x[K + 3] = ":"
      /\ Len(s) # 1 => x[K + 4] = Space
      /\ \A k \in 1..l : x[V + k] = j[k]
  <2>1. /\ K \in Nat /\ l \in Nat \ {0} /\ Len(s) \in 1..2
        /\ (s = Tight <=> Len(s) = 1)
        /\ QuotedAt(x, m.name, 0) /\ x[K + 3] = ":"
        /\ s # Tight => x[K + 4] = Space
        /\ Occurs(x, j, V)
    BY DEF Written
  <2>2. x[0 + K + 2] = Quote
    BY <2>1 DEF QuotedAt
  <2>3. V = K + 2 + Len(s) /\ X = V + l
    BY WrittenNumbers DEF WrittenAt
  <2>4. \A k \in 1..l : x[V + k] = j[k]
    BY <2>1 DEF Occurs
  <2> HIDE DEF K, V, l, X, j
  <2> QED BY <2>1, <2>2, <2>3, <2>4
<1>2. EndsQuoted(j)
  BY ValueLastQuote DEF GoodMember
<1>3. ":" # Quote /\ Space # Quote /\ ":" \in Follower
  BY GlyphsDiffer, StructuralChars
<1> HIDE DEF K, V, l, j
<1> SUFFICES ASSUME NEW p \in 1..X, x[p] = Quote,
                    \A r \in (p + 1)..X : x[r] # Quote
             PROVE  p = X \/ x[p + 1] \in Follower
  BY DEF EndsQuoted
<1> HIDE DEF X
<1>4. p >= K + 2
  <2>1. ASSUME p < K + 2 PROVE FALSE
    <3>1. K + 2 \in (p + 1)..X
      BY <1>1, <2>1
    <3> QED BY <1>1, <3>1
  <2> QED BY <1>1, <2>1
<1>5. CASE p = K + 2
  <2>1. p + 1 = K + 3
    BY <1>1, <1>5
  <2> QED BY <1>1, <1>3, <2>1
<1>6. CASE p > V
  <2> DEFINE k == p - V
  <2>1. k \in 1..l /\ V + k = p /\ V + (k + 1) = p + 1
        /\ (k = l => p = X) /\ (k # l => k + 1 \in 1..l)
        /\ \A r \in (k + 1)..l : V + r \in (p + 1)..X /\ r \in 1..l
    BY <1>1, <1>6
  <2> HIDE DEF k
  <2>2. j[k] = Quote /\ \A r \in (k + 1)..l : j[r] # Quote
    <3>1. \A r \in 1..l : x[V + r] = j[r]
      BY <1>1
    <3>2. j[k] = Quote
      BY ONLY <2>1, <3>1, x[p] = Quote
    <3>3. ASSUME NEW r \in (k + 1)..l PROVE j[r] # Quote
      <4>1. V + r \in (p + 1)..X /\ r \in 1..l
        BY ONLY <2>1, r \in (k + 1)..l
      <4>2. x[V + r] # Quote
        BY ONLY <4>1, \A y \in (p + 1)..X : x[y] # Quote
      <4> QED BY ONLY <3>1, <4>1, <4>2
    <3> QED BY <3>2, <3>3
  <2>3. k = l \/ j[k + 1] \in Follower
    BY <1>2, <2>1, <2>2 DEF EndsQuoted, l
  <2> QED BY <1>1, <2>1, <2>3
<1>7. CASE K + 2 < p /\ p <= V
  <2>1. p = K + 3 \/ (p = K + 4 /\ Len(s) # 1)
    <3> DEFINE S == Len(s)
    <3>1. K \in Nat /\ p \in Nat /\ S \in {1, 2} /\ V = K + 2 + S
      BY <1>1
    <3> HIDE DEF S
    <3>2. p = K + 3 \/ (p = K + 4 /\ S # 1)
      BY ONLY <1>7, <3>1
    <3> QED BY <3>2 DEF S
  <2> QED BY <1>1, <1>3, <2>1
<1> QED BY <1>1, <1>4, <1>5, <1>6, <1>7

(* A quoted name stands in a member and does not go beyond it. *)
LEMMA QuotedInMember ==
    ASSUME NEW t, NEW mt, NEW n, NEW start, NEW opens, NEW d,
           Laid(t, mt, n, start, opens, d), Clear(t, mt, n, start),
           \A i \in 1..n : EndsQuoted(mt[i]),
           NEW name, Named(name), NEW q
    PROVE  QuotedAt(t, name, q) <=>
             \E i \in 1..n, p \in Nat :
                q = start[i] + p /\ QuotedAt(mt[i], name, p)
<1> DEFINE L == Len(name)
<1>1. Len(t) \in Nat /\ L \in Nat /\ n \in Nat
  BY DEF Laid, Named
<1>2. ASSUME NEW i \in 1..n
      PROVE  /\ start[i] \in Nat /\ Len(mt[i]) \in Nat
             /\ MemberEnd(mt, start, i) = start[i] + Len(mt[i])
             /\ MemberEnd(mt, start, i) < Len(t)
             /\ t[MemberEnd(mt, start, i) + 1] \in {Comma, RBrace}
             /\ Occurs(t, mt[i], start[i])
  <2>1. Stands(t, mt, start, i) /\ Delimited(t, mt, start, i)
    BY DEF Laid
  <2>2. MemberEnd(mt, start, i) < Len(t)
    BY DEF Clear
  <2> QED BY <2>1, <2>2 DEF Stands, Delimited, MemberEnd
<1>3. ASSUME NEW i \in 1..n, NEW p \in Nat, q = start[i] + p,
             QuotedAt(mt[i], name, p)
      PROVE  QuotedAt(t, name, q)
  <2>1. p + L + 2 <= Len(mt[i])
    BY <1>3 DEF QuotedAt
  <2>2. QuotedAt(t, name, start[i] + p) <=> QuotedAt(mt[i], name, p)
    BY <1>1, <1>2, <2>1, QuotedWithin
  <2> QED BY <1>3, <2>2
<1>4. ASSUME QuotedAt(t, name, q)
      PROVE  \E i \in 1..n, p \in Nat :
                q = start[i] + p /\ QuotedAt(mt[i], name, p)
  <2>1. q \in Nat /\ q + L + 2 <= Len(t) /\ t[q + 1] = Quote
        /\ t[q + L + 2] = Quote
    BY <1>4 DEF QuotedAt
  <2> HIDE DEF L
  <2>2. q + 1 \in 1..Len(t)
    BY <1>1, <2>1
  <2>3. t[q + 1] \notin Glue
    BY <2>1, GlyphsDiffer
  <2>4. PICK i \in 1..n : Inside(mt, start, i, q + 1)
    BY <2>2, <2>3 DEF Laid
  <2> DEFINE z == MemberEnd(mt, start, i)
             p == q - start[i]
  <2>5. start[i] < q + 1 /\ q + 1 <= z
    BY <2>4 DEF Inside
  <2>6. /\ start[i] \in Nat /\ Len(mt[i]) \in Nat
        /\ z = start[i] + Len(mt[i]) /\ z < Len(t)
        /\ t[z + 1] \in {Comma, RBrace}
    BY <1>2
  <2> HIDE DEF z
  <2>7. q + L + 2 <= z
    <3> SUFFICES ASSUME ~(q + L + 2 <= z) PROVE FALSE
      OBVIOUS
    <3>1. /\ z + 1 \in Nat /\ q < z + 1 /\ z + 1 <= q + L + 2
          /\ z + 1 # q + 1
      BY <1>1, <2>1, <2>5, <2>6
    <3>2. \A r \in Nat : q + 1 < r /\ r <= z => t[r] # Quote
      <4>1. ASSUME NEW r \in Nat, q + 1 < r, r <= z PROVE t[r] # Quote
        <5>1. q < r /\ r <= q + L + 2 /\ r # q + 1 /\ r # q + L + 2
          BY <1>1, <2>1, <3>1, <4>1, <2>6
        <5>2. t[r] \notin Structural
          BY <1>4, <5>1, QuotedSpan DEF L
        <5> QED BY <5>2, StructuralChars
      <4> QED BY <4>1
    <3> DEFINE a == start[i]
               y == Len(mt[i])
               k == q + 1 - a
    <3>3. a \in Nat /\ y \in Nat /\ z = a + y /\ q \in Nat
          /\ a < q + 1 /\ q + 1 <= z
      BY <2>1, <2>5, <2>6
    <3>4. \A r \in 1..y : t[a + r] = mt[i][r]
      BY <1>2 DEF Occurs
    <3>5. EndsQuoted(mt[i])
      OBVIOUS
    <3> HIDE DEF a, y
    <3>6. /\ k \in 1..y /\ a + k = q + 1 /\ a + (k + 1) = q + 2
          /\ (k = y => q + 2 = z + 1) /\ (k # y => k + 1 \in 1..y)
          /\ \A r \in (k + 1)..y :
                r \in 1..y /\ a + r \in Nat /\ q + 1 < a + r /\ a + r <= z
      BY ONLY <3>3
    <3> HIDE DEF k
    <3>7. mt[i][k] = Quote /\ \A r \in (k + 1)..y : mt[i][r] # Quote
      BY <2>1, <3>2, <3>4, <3>6
    <3>8. k = y \/ mt[i][k + 1] \in Follower
      BY <3>5, <3>6, <3>7 DEF EndsQuoted, y
    <3>9. t[q + 2] \in Follower \cup {RBrace}
      <4>1. CASE k = y
        BY <2>6, <3>6, <4>1, StructuralChars
      <4>2. CASE k # y
        BY <3>4, <3>6, <3>8, <4>2
      <4> QED BY <4>1, <4>2
    <3>10. t[q + 2] # Quote
      <4>1. Quote \notin Follower \cup {RBrace}
        BY GlyphsDiffer DEF Follower, Glue
      <4> QED BY <3>9, <4>1
    <3> QED BY <1>4, <3>9, <3>10, QuotedFirst
  <2>8. p \in Nat /\ start[i] + p = q /\ p + L + 2 <= Len(mt[i])
    <3> DEFINE x == start[i]
               y == Len(mt[i])
    <3>1. /\ x \in Nat /\ y \in Nat /\ z = x + y /\ q \in Nat
          /\ L \in Nat /\ x < q + 1 /\ q + 1 <= z /\ q + L + 2 <= z /\ p = q - x
      BY <1>1, <2>1, <2>5, <2>6, <2>7
    <3> HIDE DEF x, y, p
    <3>2. p \in Nat /\ x + p = q /\ p + L + 2 <= y
      BY ONLY <3>1
    <3> QED BY <3>2 DEF x, y
  <2> HIDE DEF p
  <2>9. QuotedAt(t, name, start[i] + p) <=> QuotedAt(mt[i], name, p)
    BY <1>1, <1>2, <2>8, QuotedWithin DEF L
  <2> QED BY <1>4, <2>8, <2>9
<1> QED BY <1>3, <1>4

(* The text of a token looks spaced only inside a member. *)
LEMMA SpacedInMember ==
    ASSUME NEW t, NEW mt, NEW n, NEW start, NEW opens, NEW d,
           Laid(t, mt, n, start, opens, d), Clear(t, mt, n, start)
    PROVE  (\E q : SpacedAt(t, q))
             <=> \E i \in 1..n : \E p : SpacedAt(mt[i], p)
<1>1. Len(t) \in Nat /\ n \in Nat
  BY DEF Laid
<1>2. ASSUME NEW i \in 1..n
      PROVE  /\ start[i] \in Nat /\ Len(mt[i]) \in Nat
             /\ MemberEnd(mt, start, i) = start[i] + Len(mt[i])
             /\ MemberEnd(mt, start, i) < Len(t)
             /\ t[MemberEnd(mt, start, i) + 1] \in {Comma, RBrace}
             /\ Occurs(t, mt[i], start[i])
  <2>1. Stands(t, mt, start, i) /\ Delimited(t, mt, start, i)
    BY DEF Laid
  <2>2. MemberEnd(mt, start, i) < Len(t)
    BY DEF Clear
  <2> QED BY <2>1, <2>2 DEF Stands, Delimited, MemberEnd
<1>3. ASSUME NEW i \in 1..n, NEW p, SpacedAt(mt[i], p)
      PROVE  SpacedAt(t, start[i] + p)
  <2>1. p \in Nat /\ p + 3 <= Len(mt[i])
    BY <1>3 DEF SpacedAt
  <2>2. SpacedAt(t, start[i] + p) <=> SpacedAt(mt[i], p)
    BY <1>1, <1>2, <2>1, SpacedWithin
  <2> QED BY <1>3, <2>2
<1>4. ASSUME NEW q, SpacedAt(t, q)
      PROVE  \E i \in 1..n : \E p : SpacedAt(mt[i], p)
  <2>1. q \in Nat /\ q + 3 <= Len(t) /\ t[q + 1] = Quote
        /\ t[q + 2] = ":" /\ t[q + 3] = Space
    BY <1>4 DEF SpacedAt
  <2>2. q + 1 \in 1..Len(t)
    BY <1>1, <2>1
  <2>3. t[q + 1] \notin Glue
    BY <2>1, GlyphsDiffer
  <2>4. PICK i \in 1..n : Inside(mt, start, i, q + 1)
    BY <2>2, <2>3 DEF Laid
  <2> DEFINE z == MemberEnd(mt, start, i)
             p == q - start[i]
  <2>5. start[i] < q + 1 /\ q + 1 <= z
    BY <2>4 DEF Inside
  <2>6. /\ start[i] \in Nat /\ Len(mt[i]) \in Nat
        /\ z = start[i] + Len(mt[i]) /\ z < Len(t)
        /\ t[z + 1] \in {Comma, RBrace}
    BY <1>2
  <2> HIDE DEF z
  <2>7. q + 3 <= z
    <3>1. Comma \in Glue /\ RBrace \in Glue
      BY DEF Glue
    <3>2. t[z + 1] # ":" /\ t[z + 1] # Space
      BY <2>6, <3>1, GlyphsDiffer
    <3>3. z + 1 # q + 2 /\ z + 1 # q + 3
      BY <2>1, <3>2
    <3>4. z \in Nat
      BY <2>6
    <3> QED BY ONLY <2>1, <2>5, <3>3, <3>4
  <2>8. p \in Nat /\ start[i] + p = q /\ p + 3 <= Len(mt[i])
    <3> DEFINE x == start[i]
               y == Len(mt[i])
    <3>1. /\ x \in Nat /\ y \in Nat /\ z = x + y /\ q \in Nat
          /\ x < q + 1 /\ q + 1 <= z /\ q + 3 <= z /\ p = q - x
      BY <1>1, <2>1, <2>5, <2>6, <2>7
    <3> HIDE DEF x, y, p
    <3>2. p \in Nat /\ x + p = q /\ p + 3 <= y
      BY ONLY <3>1
    <3> QED BY <3>2 DEF x, y
  <2> HIDE DEF p
  <2>9. SpacedAt(t, start[i] + p) <=> SpacedAt(mt[i], p)
    BY <1>1, <1>2, <2>8, SpacedWithin
  <2> QED BY <1>4, <2>8, <2>9
<1> QED BY <1>3, <1>4

(* A text with its members. *)
Outline(t, ms, ss, n, mt, start, opens) ==
    /\ Laid(t, mt, n, start, opens, -1) /\ Clear(t, mt, n, start)
    /\ Rising(opens, mt, n)
    /\ \A i \in 1..n : /\ GoodMember(ms[i]) /\ ss[i] \in Separators
                       /\ Written(mt[i], ms[i], ss[i])

OfMember(m, name) == m.name = name \/ InValue(m.value, name)

ValuePlaceIn(ms, ss, start, i) == start[i] + ValueAt(ms[i], ss[i])

PlaceIn(ms, ss, start, name, i, q) ==
    \/ q = start[i] /\ ms[i].name = name
    \/ \E p \in Nat : /\ q = ValuePlaceIn(ms, ss, start, i) + p
                      /\ QuotedAt(ToJson(ms[i].value), name, p)

(* A name is quoted in the text exactly at the places in the members:
   nothing arises across the borders of two of them. *)
LEMMA OutlinePlaces ==
    ASSUME NEW t, NEW ms, NEW ss, NEW n, NEW mt, NEW start, NEW opens,
           Outline(t, ms, ss, n, mt, start, opens),
           NEW name, Named(name), NEW q
    PROVE  QuotedAt(t, name, q)
             <=> \E i \in 1..n : PlaceIn(ms, ss, start, name, i, q)
<1>1. /\ Laid(t, mt, n, start, opens, -1) /\ Clear(t, mt, n, start)
      /\ \A i \in 1..n : /\ GoodMember(ms[i]) /\ ss[i] \in Separators
                         /\ Written(mt[i], ms[i], ss[i])
  BY DEF Outline
<1>2. QuotedAt(t, name, q) <=>
        \E i \in 1..n, p \in Nat :
           q = start[i] + p /\ QuotedAt(mt[i], name, p)
  <2>1. \A i \in 1..n : EndsQuoted(mt[i])
    BY <1>1, MemberLastQuote
  <2> QED BY <1>1, <2>1, QuotedInMember
<1>3. ASSUME NEW i \in 1..n
      PROVE  (\E p \in Nat : q = start[i] + p /\ QuotedAt(mt[i], name, p))
               <=> PlaceIn(ms, ss, start, name, i, q)
  <2> DEFINE m == ms[i]
             V == ValueAt(m, ss[i])
             x == mt[i]
             a == start[i]
             j == ToJson(m.value)
  <2>1. GoodMember(m) /\ Written(x, m, ss[i]) /\ ss[i] \in Separators
    BY <1>1
  <2>2. a \in Nat
    <3>1. Stands(t, mt, start, i)
      BY <1>1 DEF Laid
    <3> QED BY <3>1 DEF Stands
  <2>3. V \in Nat
    <3> DEFINE x1 == Len(m.name)
               y1 == Len(ss[i])
    <3>1. x1 \in Nat /\ y1 \in 1..2
      BY <2>1 DEF Written
    <3>2. V = x1 + 2 + y1
      BY DEF ValueAt
    <3> HIDE DEF x1, y1, V
    <3> QED BY ONLY <3>1, <3>2
  <2>4. \A p : QuotedAt(x, name, p) <=>
                 \/ p = 0 /\ m.name = name
                 \/ p \in Nat /\ p - V \in Nat /\ QuotedAt(j, name, p - V)
    BY <2>1, MemberMentions
  <2>5. PlaceIn(ms, ss, start, name, i, q) <=>
          \/ q = a /\ m.name = name
          \/ \E p \in Nat : q = (a + V) + p /\ QuotedAt(j, name, p)
    BY DEF PlaceIn, ValuePlaceIn
  <2> HIDE DEF m, V, x, a, j
  <2>6. ASSUME NEW p \in Nat, q = a + p, QuotedAt(x, name, p)
        PROVE  PlaceIn(ms, ss, start, name, i, q)
    <3>1. CASE p = 0 /\ m.name = name
      <4>1. q = a
        BY <2>2, <2>6, <3>1
      <4> QED BY <2>5, <3>1, <4>1
    <3>2. CASE p - V \in Nat /\ QuotedAt(j, name, p - V)
      <4>1. q = (a + V) + (p - V)
        BY <2>2, <2>3, <2>6
      <4> QED BY <2>5, <3>2, <4>1
    <3> QED BY <2>4, <2>6, <3>1, <3>2
  <2>7. ASSUME PlaceIn(ms, ss, start, name, i, q)
        PROVE  \E p \in Nat : q = a + p /\ QuotedAt(x, name, p)
    <3>1. CASE q = a /\ m.name = name
      <4>1. q = a + 0 /\ 0 \in Nat
        BY <2>2, <3>1
      <4>2. QuotedAt(x, name, 0)
        BY <2>4, <3>1
      <4> QED BY <4>1, <4>2
    <3>2. ASSUME NEW p \in Nat, q = (a + V) + p, QuotedAt(j, name, p)
          PROVE  \E y \in Nat : q = a + y /\ QuotedAt(x, name, y)
      <4> DEFINE y == V + p
      <4>1. q = a + y /\ y \in Nat /\ y - V = p
        BY <2>2, <2>3, <3>2
      <4> HIDE DEF y
      <4>2. QuotedAt(x, name, y)
        BY <2>4, <3>2, <4>1
      <4> QED BY <4>1, <4>2
    <3> QED BY <2>5, <2>7, <3>1, <3>2
  <2> QED BY <2>6, <2>7 DEF a, x
<1> QED BY <1>2, <1>3

(* The text looks spaced when a member has a spaced separator or a value
   that looks so. *)
LEMMA OutlineSpaced ==
    ASSUME NEW t, NEW ms, NEW ss, NEW n, NEW mt, NEW start, NEW opens,
           Outline(t, ms, ss, n, mt, start, opens)
    PROVE  (\E q : SpacedAt(t, q))
             <=> \E i \in 1..n : ss[i] # Tight \/ LooksSpaced(ms[i].value)
<1>1. /\ Laid(t, mt, n, start, opens, -1) /\ Clear(t, mt, n, start)
      /\ \A i \in 1..n : /\ GoodMember(ms[i]) /\ ss[i] \in Separators
                         /\ Written(mt[i], ms[i], ss[i])
  BY DEF Outline
<1>2. (\E q : SpacedAt(t, q)) <=> \E i \in 1..n : \E p : SpacedAt(mt[i], p)
  BY <1>1, SpacedInMember
<1>3. \A i \in 1..n : (\E p : SpacedAt(mt[i], p))
                         <=> ss[i] # Tight \/ LooksSpaced(ms[i].value)
  BY <1>1, MemberSpaced
<1> QED BY <1>2, <1>3

(* Where a member stands, and what follows it. *)
LEMMA OutlineMember ==
    ASSUME NEW t, NEW ms, NEW ss, NEW n, NEW mt, NEW start, NEW opens,
           Outline(t, ms, ss, n, mt, start, opens), NEW i \in 1..n
    PROVE  /\ n \in Nat /\ t \in Seq(Glyph) /\ Len(t) \in Nat
           /\ start[i] \in Nat /\ Len(mt[i]) \in Nat \ {0}
           /\ MemberEnd(mt, start, i) = start[i] + Len(mt[i])
           /\ MemberEnd(mt, start, i) < Len(t)
           /\ t[MemberEnd(mt, start, i) + 1] \in {Comma, RBrace}
           /\ Occurs(t, mt[i], start[i])
           /\ Level(t, start[i]) = opens[i - 1]
<1>1. Laid(t, mt, n, start, opens, -1) /\ Clear(t, mt, n, start)
  BY DEF Outline
<1>2. Stands(t, mt, start, i) /\ Delimited(t, mt, start, i)
      /\ Level(t, start[i]) = opens[i - 1]
  BY <1>1 DEF Laid
<1>3. MemberEnd(mt, start, i) < Len(t)
  BY <1>1 DEF Clear
<1>4. n \in Nat /\ t \in Seq(Glyph) /\ Len(t) \in Nat
  BY <1>1 DEF Laid
<1>5. MemberEnd(mt, start, i) = start[i] + Len(mt[i])
  BY DEF MemberEnd
<1> QED BY <1>2, <1>3, <1>4, <1>5 DEF Stands, Delimited

(* A place in a member lies inside it, and exists when the member has the
   name. *)
LEMMA PlaceBounds ==
    ASSUME NEW t, NEW ms, NEW ss, NEW n, NEW mt, NEW start, NEW opens,
           Outline(t, ms, ss, n, mt, start, opens), NEW i \in 1..n,
           NEW name, Named(name)
    PROVE  /\ \A q : PlaceIn(ms, ss, start, name, i, q) =>
                 /\ q \in Nat /\ start[i] <= q
                 /\ q < MemberEnd(mt, start, i)
           /\ (\E q : PlaceIn(ms, ss, start, name, i, q))
                <=> OfMember(ms[i], name)
<1> DEFINE j == ToJson(ms[i].value)
           V == ValueAt(ms[i], ss[i])
           a == start[i]
           e == MemberEnd(mt, start, i)
<1>1. Written(mt[i], ms[i], ss[i]) /\ GoodValue(ms[i].value)
  BY DEF Outline, GoodMember
<1>2. WrittenAt(ms[i], ss[i], mt[i], V, Len(j))
  BY <1>1, WrittenNumbers
<1>3. /\ V \in Nat /\ Len(j) \in Nat \ {0} /\ Len(mt[i]) = V + Len(j)
  BY <1>2 DEF WrittenAt
<1>4. a \in Nat /\ e = a + Len(mt[i])
  BY OutlineMember
<1>5. (\E p : QuotedAt(j, name, p)) <=> InValue(ms[i].value, name)
  BY <1>1, ValueMentions
<1>6. \A q : PlaceIn(ms, ss, start, name, i, q) <=>
               \/ q = a /\ ms[i].name = name
               \/ \E p \in Nat : q = (a + V) + p /\ QuotedAt(j, name, p)
  BY DEF PlaceIn, ValuePlaceIn
<1>7. Len(name) \in Nat
  BY DEF Named
<1> HIDE DEF j, V, a, e
<1>8. ASSUME NEW q, PlaceIn(ms, ss, start, name, i, q)
      PROVE  q \in Nat /\ a <= q /\ q < e
  <2> DEFINE x == Len(mt[i])
             l == Len(j)
  <2>0. V \in Nat /\ l \in Nat \ {0} /\ x = V + l /\ a \in Nat /\ e = a + x
    BY <1>3, <1>4
  <2>1. CASE q = a
    <3> HIDE DEF x, l
    <3> QED BY <2>0, <2>1
  <2>2. ASSUME NEW p \in Nat, q = (a + V) + p, QuotedAt(j, name, p)
        PROVE  q \in Nat /\ a <= q /\ q < e
    <3>1. p + Len(name) + 2 <= l
      BY <2>2 DEF QuotedAt
    <3> DEFINE L == Len(name)
    <3>2. L \in Nat /\ p + L + 2 <= l
      BY <1>7, <3>1
    <3> HIDE DEF x, l, L
    <3>3. q = (a + V) + p /\ p \in Nat
      BY <2>2
    <3> QED BY ONLY <2>0, <3>2, <3>3
  <2> QED BY <1>6, <1>8, <2>1, <2>2
<1>9. ASSUME OfMember(ms[i], name)
      PROVE  \E q : PlaceIn(ms, ss, start, name, i, q)
  <2>1. CASE ms[i].name = name
    BY <1>6, <2>1
  <2>2. CASE InValue(ms[i].value, name)
    <3>1. PICK p : QuotedAt(j, name, p)
      BY <1>5, <2>2
    <3>2. p \in Nat
      BY <3>1 DEF QuotedAt
    <3> QED BY <1>6, <3>1, <3>2
  <2> QED BY <1>9, <2>1, <2>2 DEF OfMember
<1>10. ASSUME NEW q, PlaceIn(ms, ss, start, name, i, q)
       PROVE  OfMember(ms[i], name)
  BY <1>5, <1>6, <1>10 DEF OfMember
<1> QED BY <1>8, <1>9, <1>10 DEF a, e

(* The first place is in the first member that mentions the name. *)
LEMMA FirstPlace ==
    ASSUME NEW t, NEW ms, NEW ss, NEW n, NEW mt, NEW start, NEW opens,
           Outline(t, ms, ss, n, mt, start, opens), n \in Nat,
           NEW name, Named(name),
           NEW Q, \A q : q \in Q <=> QuotedAt(t, name, q)
    PROVE  LET T == {i \in 1..n : OfMember(ms[i], name)}
           IN  /\ Q # {} <=> T # {}
               /\ Q # {} =>
                    /\ Min(T) \in 1..n /\ Min(Q) \in Nat
                    /\ PlaceIn(ms, ss, start, name, Min(T), Min(Q))
                    /\ ms[Min(T)].name = name => Min(Q) = start[Min(T)]
<1> DEFINE T == {i \in 1..n : OfMember(ms[i], name)}
<1>1. \A q : q \in Q <=> \E i \in 1..n : PlaceIn(ms, ss, start, name, i, q)
  BY OutlinePlaces
<1>2. ASSUME NEW i \in 1..n
      PROVE  /\ \A q : PlaceIn(ms, ss, start, name, i, q) =>
                   /\ q \in Nat /\ start[i] <= q
                   /\ q < MemberEnd(mt, start, i)
             /\ (\E q : PlaceIn(ms, ss, start, name, i, q))
                  <=> OfMember(ms[i], name)
  BY PlaceBounds
<1>3. Q # {} <=> T # {}
  <2>1. ASSUME NEW q \in Q PROVE T # {}
    <3>1. PICK i \in 1..n : PlaceIn(ms, ss, start, name, i, q)
      BY <1>1
    <3> QED BY <1>2, <3>1
  <2>2. ASSUME NEW i \in T PROVE Q # {}
    <3>1. PICK q : PlaceIn(ms, ss, start, name, i, q)
      BY <1>2
    <3> QED BY <1>1, <3>1
  <2> QED BY <2>1, <2>2
<1>4. ASSUME Q # {}
      PROVE  /\ Min(T) \in 1..n /\ Min(Q) \in Nat
             /\ PlaceIn(ms, ss, start, name, Min(T), Min(Q))
             /\ ms[Min(T)].name = name => Min(Q) = start[Min(T)]
  <2> DEFINE k == Min(T)
             l == Min(Q)
  <2>1. T \in SUBSET Nat /\ Q \in SUBSET Nat
    BY <1>1, <1>2
  <2>2. k \in T /\ \A m \in T : k <= m
    BY <1>3, <1>4, <2>1, MinOfSet
  <2>3. l \in Q /\ \A m \in Q : l <= m
    BY <1>4, <2>1, MinOfSet
  <2> HIDE DEF k, l
  <2>4. PICK i \in 1..n : PlaceIn(ms, ss, start, name, i, l)
    BY <1>1, <2>3
  <2>5. i \in T
    BY <1>2, <2>4
  <2>6. PICK q : PlaceIn(ms, ss, start, name, k, q)
    BY <1>2, <2>2
  <2>7. k \in 1..n /\ k <= i /\ q \in Q /\ l <= q
    BY <1>1, <2>2, <2>3, <2>5, <2>6
  <2>8. i = k
    <3> SUFFICES ASSUME k < i PROVE FALSE
      BY <2>7
    <3>1. StandsBefore(mt, start, k, i)
      BY <2>7 DEF Outline, Laid
    <3> DEFINE e == MemberEnd(mt, start, k)
               b == start[i]
    <3>2. e < b /\ b <= l /\ q < e /\ l <= q
      BY <1>2, <2>4, <2>6, <2>7, <3>1 DEF StandsBefore
    <3>3. e \in Nat /\ b \in Nat /\ q \in Nat /\ l \in Nat
      <4>1. start[k] \in Nat /\ Len(mt[k]) \in Nat /\ e = start[k] + Len(mt[k])
        BY <2>7, OutlineMember
      <4>2. b \in Nat
        BY OutlineMember
      <4> QED BY <1>2, <2>4, <2>6, <2>7, <4>1, <4>2
    <3> HIDE DEF e, b
    <3> QED BY ONLY <3>2, <3>3
  <2>9. PlaceIn(ms, ss, start, name, k, l)
    BY <2>4, <2>8
  <2>10. ASSUME ms[k].name = name PROVE l = start[k]
    <3>1. PlaceIn(ms, ss, start, name, k, start[k])
      BY <2>10 DEF PlaceIn
    <3>2. start[k] \in Q
      BY <1>1, <2>7, <3>1
    <3>3. l <= start[k] /\ start[k] <= l /\ start[k] \in Nat /\ l \in Nat
      BY <1>2, <2>3, <2>7, <2>9, <3>1, <3>2
    <3> QED BY <3>3
  <2>11. l \in Nat
    BY <2>1, <2>3
  <2> QED BY <2>7, <2>9, <2>10, <2>11 DEF k, l
<1> QED BY <1>3, <1>4

(* The value that goes with a name that stands in member m. *)
FirstOf(m, name) ==
    IF m.name # name /\ m.value.kind = "object" THEN Numeral(<<"0">>)
                                                ELSE m.value

(* A value's text stands at a and a comma or a brace follows it. *)
Stored(t, j, a) ==
    /\ a \in Nat /\ Len(j) \in Nat \ {0} /\ Occurs(t, j, a)
    /\ a + Len(j) < Len(t) /\ t[a + Len(j) + 1] \in {Comma, RBrace}

(* A character of an inner text, in the outer one. *)
LEMMA OccursChar ==
    ASSUME NEW t, NEW u, NEW a, Occurs(t, u, a), Len(u) \in Nat,
           NEW k \in 1..Len(u)
    PROVE  t[a + k] = u[k]
BY DEF Occurs

(* The value of a member with the name. *)
LEMMA OwnValue ==
    ASSUME NEW t, NEW ms, NEW ss, NEW n, NEW mt, NEW start, NEW opens,
           Outline(t, ms, ss, n, mt, start, opens), NEW i \in 1..n,
           ss[i] = Tight, NEW L, L = Len(ms[i].name), NEW q, q = start[i]
    PROVE  /\ t[q + L + 3] = ":"
           /\ Stored(t, ToJson(ms[i].value), q + L + 3)
           /\ MemberEnd(mt, start, i)
                = (q + L + 3) + Len(ToJson(ms[i].value))
           /\ Sum(Level(t, q + 1), opens[i - 1], 0)
<1> DEFINE x == mt[i]
           j == ToJson(ms[i].value)
           V == ValueAt(ms[i], ss[i])
           e == MemberEnd(mt, start, i)
           l == Len(j)
           X == Len(x)
           T == Len(t)
<1>1. Written(x, ms[i], ss[i])
  BY DEF Outline
<1>2. /\ Occurs(x, j, V) /\ x[L + 3] = ":" /\ QuotedAt(x, ms[i].name, 0)
      /\ Len(ss[i]) = 1 /\ L \in Nat /\ l \in Nat \ {0}
  BY <1>1 DEF Written
<1>3. V = L + 3
  <2>1. V = L + 2 + Len(ss[i])
    BY DEF ValueAt
  <2> HIDE DEF V
  <2> QED BY <1>2, <2>1
<1>4. X = V + l
  BY <1>1, WrittenNumbers DEF WrittenAt
<1>5. /\ T \in Nat /\ q \in Nat /\ X \in Nat \ {0} /\ e = q + X /\ e < T
      /\ t[e + 1] \in {Comma, RBrace} /\ Occurs(t, x, q)
      /\ Level(t, q) = opens[i - 1]
  BY OutlineMember
<1> HIDE DEF x, j, V, e, l, X, T
<1>6. Occurs(t, j, q + V)
  BY <1>2, <1>5, OccursTrans DEF T, X, l
<1>7. t[q + (L + 3)] = ":"
  <2>1. L + 3 \in 1..X
    BY <1>2, <1>3, <1>4
  <2>2. Occurs(t, x, q) /\ Len(x) \in Nat /\ L + 3 \in 1..Len(x)
    BY <1>5, <2>1 DEF X
  <2>3. t[q + (L + 3)] = x[L + 3]
    BY ONLY <2>2, OccursChar
  <2> QED BY ONLY <1>2, <2>3
<1>8. q + V = q + L + 3 /\ q + (L + 3) = q + L + 3 /\ q + V \in Nat
      /\ (q + V) + l = e
  <2>1. L \in Nat /\ l \in Nat /\ V = L + 3 /\ X = V + l /\ e = q + X
        /\ q \in Nat
    BY <1>2, <1>3, <1>4, <1>5
  <2> QED BY ONLY <2>1
<1>9. Stored(t, j, q + V)
  BY <1>2, <1>5, <1>6, <1>8 DEF Stored, l, T
<1>10. Sum(Level(t, q + 1), opens[i - 1], 0)
  <2>1. x[1] = Quote
    BY <1>2 DEF QuotedAt
  <2>2. Level(x, 1) = 0
    <3>1. \A k \in 1..1 : x[k] # LBrace /\ x[k] # RBrace
      BY <2>1, GlyphsDiffer DEF Glue
    <3> QED BY <3>1, LevelNone
  <2>3. 1 \in 0..Len(x)
    BY <1>5 DEF X
  <2>4. Sum(Level(t, q + 1), Level(t, q), Level(x, 1))
    BY <1>5, <2>3, LevelOccurs DEF T, X
  <2> QED BY <1>5, <2>2, <2>4
<1> QED BY <1>7, <1>8, <1>9, <1>10 DEF e, l, j

(* The name of a member has no braces. *)
LEMMA LevelAtValue ==
    ASSUME NEW x, NEW m, GoodMember(m), Written(x, m, Tight)
    PROVE  Level(x, ValueAt(m, Tight)) = 0
<1> DEFINE K == Len(m.name)
           V == ValueAt(m, Tight)
<1>1. /\ QuotedAt(x, m.name, 0) /\ x[K + 3] = ":" /\ K \in Nat
      /\ Len(Tight) = 1 /\ Named(m.name)
  BY DEF Written, GoodMember
<1>2. V = K + 3
  <2>1. V = K + 2 + Len(Tight)
    BY DEF ValueAt
  <2> HIDE DEF V
  <2> QED BY <1>1, <2>1
<1>3. ASSUME NEW z \in 1..(K + 3) PROVE x[z] # LBrace /\ x[z] # RBrace
  <2>1. CASE z = K + 3
    BY <1>1, <2>1 DEF LBrace, RBrace
  <2>2. CASE z <= K + 2
    <3>1. z \in Nat /\ 0 < z /\ z <= 0 + K + 2
      BY <1>1, <2>2
    <3>2. z = 0 + 1 \/ z = 0 + K + 2 \/ x[z] \notin Structural
      BY <1>1, <3>1, QuotedSpan
    <3>3. x[1] = Quote /\ x[K + 2] = Quote
      BY <1>1 DEF QuotedAt
    <3>4. z = 1 \/ z = K + 2 \/ x[z] \notin Structural
      BY <1>1, <3>2
    <3>5. LBrace \in Structural /\ RBrace \in Structural
      BY StructuralChars
    <3>6. Quote # LBrace /\ Quote # RBrace
      BY DEF Quote, LBrace, RBrace
    <3> QED BY <3>3, <3>4, <3>5, <3>6
  <2> QED BY <1>1, <2>1, <2>2
<1> HIDE DEF V
<1>4. V \in Nat /\ \A k \in 1..V : x[k] # LBrace /\ x[k] # RBrace
  BY <1>1, <1>2, <1>3
<1> QED BY <1>4, LevelNone DEF V

(* An inner object with the name as its key. *)
LEMMA InnerValue ==
    ASSUME NEW t, NEW ms, NEW ss, NEW n, NEW mt, NEW start, NEW opens,
           Outline(t, ms, ss, n, mt, start, opens), NEW i \in 1..n,
           ss[i] = Tight, NEW name, Named(name), ms[i].value.kind = "object",
           NEW p, QuotedAt(ToJson(ms[i].value), name, p), NEW q,
           q = ValuePlaceIn(ms, ss, start, i) + p, NEW L, L = Len(name)
    PROVE  /\ t[q + L + 3] = ":" /\ t[q + L + 4] = "0"
           /\ Stored(t, <<"0">>, q + L + 3)
           /\ MemberEnd(mt, start, i) = q + L + 5
           /\ Sum(Level(t, q + 1), opens[i - 1], 1)
<1> DEFINE x == mt[i]
           key == ms[i].value.text
           j == ToJson(ms[i].value)
           V == ValueAt(ms[i], ss[i])
           e == MemberEnd(mt, start, i)
           l == Len(j)
           X == Len(x)
           T == Len(t)
           a == start[i]
<1>1. Written(x, ms[i], ss[i]) /\ GoodMember(ms[i])
  BY DEF Outline
<1>2. Occurs(x, j, V) /\ l \in Nat \ {0}
  BY <1>1 DEF Written
<1>3. V \in Nat /\ X = V + l
  BY <1>1, WrittenNumbers DEF WrittenAt
<1>4. /\ T \in Nat /\ a \in Nat /\ X \in Nat \ {0} /\ e = a + X /\ e < T
      /\ t[e + 1] \in {Comma, RBrace} /\ Occurs(t, x, a)
      /\ Level(t, a) = opens[i - 1]
  BY OutlineMember
<1>5. Named(key) /\ L \in Nat
  BY <1>1 DEF GoodMember, GoodValue, Named
<1>6. Braces(j, Quoted(key))
  <2>1. Quoted(key) \in Seq(Glyph)
    BY <1>5, QuotedParts, Glyphs DEF Named
  <2>2. j = <<LBrace>> \o Quoted(key) \o <<":", "0", RBrace>>
    BY DEF ToJson
  <2> QED BY <2>1, <2>2, ObjectValueText
<1>7. p = 1 /\ name = key
  BY <1>5, <1>6, BracesQuoted
<1>8. /\ l = L + 6 /\ j[1] = LBrace /\ j[L + 4] = ":" /\ j[L + 5] = "0"
      /\ j[L + 6] = RBrace
  <2>1. Len(Quoted(key)) = L + 2
    BY <1>5, <1>7, QuotedParts, Glyphs DEF Named
  <2> DEFINE w == Len(Quoted(key))
  <2>2. /\ l = w + 4 /\ j[1] = LBrace /\ j[w + 2] = ":" /\ j[w + 3] = "0"
        /\ j[w + 4] = RBrace
    BY <1>6 DEF Braces
  <2> HIDE DEF w
  <2>3. w = L + 2
    BY <2>1 DEF w
  <2>4. w + 2 = L + 4 /\ w + 3 = L + 5 /\ w + 4 = L + 6
    BY <1>5, <2>3
  <2> QED BY <2>2, <2>4
<1>9. q = (a + V) + p
  BY DEF ValuePlaceIn
<1>10. j[2] = Quote
  <2>1. QuotedAt(j, name, 1)
    BY <1>7
  <2> QED BY <2>1 DEF QuotedAt
<1> HIDE DEF x, j, V, e, l, X, T, a, key
<1>11. Occurs(t, j, a + V)
  BY <1>2, <1>4, OccursTrans DEF T, X, l
<1> DEFINE b == a + V
<1>12. b \in Nat /\ q = b + 1 /\ e = b + l
  <2>1. a \in Nat /\ V \in Nat /\ X = V + l /\ e = a + X /\ p = 1
        /\ q = (a + V) + p /\ l \in Nat
    BY <1>2, <1>3, <1>4, <1>7, <1>9
  <2> QED BY ONLY <2>1
<1> HIDE DEF b
<1>13. \A k \in 1..l : t[b + k] = j[k]
  BY <1>2, <1>11, OccursChar DEF b, l
<1>14. L + 4 \in 1..l /\ L + 5 \in 1..l /\ L + 6 \in 1..l
  BY <1>5, <1>8
<1>15. t[b + (L + 4)] = ":" /\ t[b + (L + 5)] = "0" /\ t[b + (L + 6)] = RBrace
  BY <1>8, <1>13, <1>14
<1>16. /\ b + (L + 4) = q + L + 3 /\ b + (L + 5) = q + L + 4
       /\ b + (L + 6) = (q + L + 3) + 1 + 1 /\ e = q + L + 5
       /\ (q + L + 3) + 1 = q + L + 4 /\ q + L + 3 \in Nat
       /\ (q + L + 3) + 1 < T
  <2>1. b \in Nat /\ q = b + 1 /\ e = b + l /\ L \in Nat /\ l = L + 6
        /\ e < T /\ T \in Nat
    BY <1>4, <1>5, <1>8, <1>12
  <2> QED BY ONLY <2>1
<1>17. Stored(t, <<"0">>, q + L + 3)
  <2> DEFINE z == q + L + 3
             g == <<"0">>
  <2>1. z \in Nat /\ z + 1 < T /\ t[z + 1] = "0" /\ t[z + 1 + 1] = RBrace
    BY <1>15, <1>16
  <2>2. Len(g) = 1 /\ g[1] = "0"
    OBVIOUS
  <2> HIDE DEF z, g
  <2>3. Occurs(t, g, z)
    <3>1. z + Len(g) <= Len(t)
      BY <1>4, <2>1, <2>2 DEF T
    <3>2. \A k \in 1..Len(g) : t[z + k] = g[k]
      BY <2>1, <2>2
    <3> QED BY <2>1, <3>1, <3>2 DEF Occurs
  <2>4. Stored(t, g, z)
    BY <2>1, <2>2, <2>3 DEF Stored, T
  <2> QED BY <2>4 DEF z, g
<1>18. Sum(Level(t, q + 1), opens[i - 1], 1)
  <2>1. Level(x, V) = 0
    BY <1>1, LevelAtValue DEF V
  <2>2. Level(j, 2) = 1
    <3>3. LBrace # RBrace /\ Quote # LBrace /\ Quote # RBrace
      <4>1. LBrace # RBrace
        BY DEF LBrace, RBrace
      <4> QED BY <4>1, GlyphsDiffer DEF Glue
    <3>4. 1..2 = {1, 2}
      OBVIOUS
    <3>5. UpTo(j, LBrace, 2) = {1} /\ UpTo(j, RBrace, 2) = {}
      BY <1>8, <1>10, <3>3, <3>4 DEF UpTo
    <3>6. Cardinality({1}) = 1
      <4>1. {1} = {} \cup {1} /\ 1 \notin {}
        OBVIOUS
      <4>2. Cardinality({} \cup {1}) = 0 + 1
        BY ONLY <4>1, FS_EmptySet, FS_AddElement
      <4> QED BY <4>1, <4>2
    <3>7. /\ Cardinality(UpTo(j, LBrace, 2)) = 1
          /\ Cardinality(UpTo(j, RBrace, 2)) = 0
      BY <3>5, <3>6, FS_EmptySet
    <3>8. 2 \in Nat
      OBVIOUS
    <3>9. Level(j, 2) = 1 - 0
      BY ONLY <3>7, <3>8, LevelIs
    <3> QED BY <3>9
  <2>3. V \in 0..X /\ 2 \in 0..l
    BY <1>3, <1>5, <1>8
  <2>4. Sum(Level(t, a + V), Level(t, a), Level(x, V))
    BY <1>4, <2>3, LevelOccurs DEF T, X
  <2>5. Sum(Level(t, b + 2), Level(t, b), Level(j, 2))
    BY <1>2, <1>4, <1>11, <2>3, LevelOccurs DEF T, l, b
  <2>6. b + 2 = q + 1
    BY <1>12
  <2> QED BY <1>4, <2>1, <2>2, <2>4, <2>5, <2>6 DEF Sum, b
<1> QED BY <1>15, <1>16, <1>17, <1>18 DEF e

(* A name that is a value is not followed by a colon. *)
LEMMA NameAsValue ==
    ASSUME NEW t, NEW ms, NEW ss, NEW n, NEW mt, NEW start, NEW opens,
           Outline(t, ms, ss, n, mt, start, opens), NEW i \in 1..n,
           NEW name, Named(name), ms[i].value.kind # "object",
           NEW p \in Nat, QuotedAt(ToJson(ms[i].value), name, p), NEW q,
           q = ValuePlaceIn(ms, ss, start, i) + p, NEW L, L = Len(name)
    PROVE  t[q + L + 3] # ":" /\ q + L + 3 <= Len(t)
<1> DEFINE x == mt[i]
           j == ToJson(ms[i].value)
           V == ValueAt(ms[i], ss[i])
           e == MemberEnd(mt, start, i)
           l == Len(j)
           X == Len(x)
           T == Len(t)
           a == start[i]
           z == p + L + 2
<1>1. Written(x, ms[i], ss[i]) /\ GoodMember(ms[i])
  BY DEF Outline
<1>2. Occurs(x, j, V) /\ l \in Nat \ {0}
  BY <1>1 DEF Written
<1>3. V \in Nat /\ X = V + l
  BY <1>1, WrittenNumbers DEF WrittenAt
<1>4. /\ T \in Nat /\ a \in Nat /\ X \in Nat \ {0} /\ e = a + X /\ e < T
      /\ t[e + 1] \in {Comma, RBrace} /\ Occurs(t, x, a)
  BY OutlineMember
<1>5. L \in Nat
  BY DEF Named
<1>6. EndsAt(j, z)
  BY <1>1, ValueMentions DEF GoodMember
<1>7. q = (a + V) + p
  BY DEF ValuePlaceIn
<1> HIDE DEF x, j, V, e, l, X, T, a
<1>8. Occurs(t, j, a + V)
  BY <1>2, <1>4, OccursTrans DEF T, X, l
<1>9. z \in Nat /\ q + L + 3 = (a + V) + (z + 1) /\ a + V \in Nat
  <2>1. a \in Nat /\ V \in Nat /\ L \in Nat /\ p \in Nat /\ q = (a + V) + p
    BY <1>3, <1>4, <1>5, <1>7
  <2> QED BY ONLY <2>1
<1>10. e = (a + V) + l
  BY <1>3, <1>4, <1>2
<1> HIDE DEF z
<1>11. CASE z = l
  <2>1. q + L + 3 = e + 1 /\ e + 1 <= T
    BY <1>2, <1>3, <1>4, <1>9, <1>10, <1>11
  <2> QED BY <1>4, <2>1 DEF Comma, RBrace, T
<1>12. CASE z + 1 = l /\ j[z + 1] = "]"
  <2>1. z + 1 \in 1..l /\ q + L + 3 <= T
    BY <1>2, <1>3, <1>4, <1>9, <1>10, <1>12
  <2>2. t[(a + V) + (z + 1)] = "]"
    BY <1>2, <1>8, <1>12, <2>1, OccursChar DEF l
  <2> QED BY <1>9, <2>1, <2>2 DEF T
<1> QED BY <1>6, <1>11, <1>12 DEF EndsAt, l

(* After a member nothing but braces, a comma and padding come before the
   next quote. *)
LEMMA AfterMember ==
    ASSUME NEW t, NEW ms, NEW ss, NEW n, NEW mt, NEW start, NEW opens,
           Outline(t, ms, ss, n, mt, start, opens), NEW i \in 1..n,
           NEW z \in Nat, z <= Len(t), NEW e, e = MemberEnd(mt, start, i),
           \A p \in (e + 1)..z : t[p] # Quote,
           NEW p \in (e + 1)..z
    PROVE  t[p] \in Glue
<1>1. /\ e \in Nat /\ Len(t) \in Nat /\ start[i] \in Nat
  <2>1. /\ start[i] \in Nat /\ Len(mt[i]) \in Nat /\ Len(t) \in Nat
        /\ MemberEnd(mt, start, i) = start[i] + Len(mt[i])
    BY OutlineMember
  <2> DEFINE x == Len(mt[i])
  <2>2. x \in Nat /\ e = start[i] + x
    BY <2>1
  <2> HIDE DEF x
  <2>3. e \in Nat
    BY ONLY <2>1, <2>2
  <2> QED BY ONLY <2>1, <2>3
<1>2. p \in 1..Len(t)
  BY <1>1
<1>3. Laid(t, mt, n, start, opens, -1)
  BY DEF Outline
<1>4. \/ t[p] \in Glue
      \/ \E k \in 1..n : Inside(mt, start, k, p)
  BY <1>2, <1>3 DEF Laid
<1>5. ASSUME NEW k \in 1..n, Inside(mt, start, k, p) PROVE FALSE
  <2> DEFINE b == start[k]
             f == MemberEnd(mt, start, k)
  <2>1. b < p /\ p <= f
    BY <1>5 DEF Inside
  <2>2. k # i
    <3> SUFFICES ASSUME k = i PROVE FALSE
      OBVIOUS
    <3>1. f = e
      OBVIOUS
    <3> HIDE DEF f
    <3> QED BY <1>1, <2>1, <3>1
  <2>3. b \in Nat /\ Occurs(t, mt[k], b) /\ Written(mt[k], ms[k], ss[k])
        /\ Len(mt[k]) \in Nat \ {0}
    <3>1. b \in Nat /\ Occurs(t, mt[k], b) /\ Len(mt[k]) \in Nat \ {0}
      BY OutlineMember
    <3>2. Written(mt[k], ms[k], ss[k])
      BY DEF Outline
    <3> QED BY <3>1, <3>2
  <2>4. mt[k][1] = Quote
    BY <2>3 DEF Written, QuotedAt
  <2>5. t[b + 1] = Quote
    <3>1. 1 \in 1..Len(mt[k])
      BY <2>3
    <3> QED BY <2>3, <2>4, <3>1, OccursChar
  <2>6. e < b
    <3>1. CASE i < k
      BY <1>3, <3>1 DEF Laid, StandsBefore
    <3>2. CASE k < i
      <4>1. StandsBefore(mt, start, k, i)
        BY <1>3, <3>2 DEF Laid
      <4>2. f < start[i] /\ start[i] <= e
        <5>1. /\ Len(mt[i]) \in Nat
              /\ MemberEnd(mt, start, i) = start[i] + Len(mt[i])
          BY OutlineMember
        <5> DEFINE x == Len(mt[i])
        <5>2. x \in Nat /\ e = start[i] + x
          BY <5>1
        <5> HIDE DEF x
        <5> QED BY <1>1, <4>1, <5>2 DEF StandsBefore
      <4>3. f \in Nat
        <5>1. /\ Len(mt[k]) \in Nat /\ start[k] \in Nat
              /\ MemberEnd(mt, start, k) = start[k] + Len(mt[k])
          BY OutlineMember
        <5> DEFINE x == Len(mt[k])
        <5>2. x \in Nat /\ f = b + x /\ b \in Nat
          BY <5>1
        <5> HIDE DEF x, f, b
        <5> QED BY <5>2
      <4> HIDE DEF f, b
      <4> QED BY <1>1, <2>1, <4>2, <4>3
    <3>3. n \in Nat
      BY <1>3 DEF Laid
    <3> QED BY <2>2, <3>1, <3>2, <3>3
  <2> HIDE DEF b, f
  <2>7. b + 1 \in (e + 1)..z
    BY <1>1, <2>1, <2>3, <2>6
  <2> QED BY <2>5, <2>7
<1> QED BY <1>4, <1>5

(* The value of the one member of an inner object. *)
LEMMA ZeroValue ==
    /\ GoodValue(Numeral(<<"0">>)) /\ ToJson(Numeral(<<"0">>)) = <<"0">>
    /\ Numeral(<<"0">>).text = <<"0">> /\ Numeral(<<"0">>).kind = "number"
<1> DEFINE g == <<"0">>
           v == Numeral(g)
<1>1. v.kind = "number" /\ v.text = g
  BY DEF Numeral
<1>2. g \in Seq(Glyph) /\ Len(g) = 1 /\ g[1] = "0"
  BY Glyphs
<1>3. "0" \in Digit
  <2>1. Digits[1] = "0" /\ 1 \in DOMAIN Digits
    BY DEF Digits
  <2> HIDE DEF Digits
  <2> QED BY <2>1 DEF Digit, Range
<1>4. "0" \notin Marks /\ "0" # Space
  BY <1>3, NumberChars
<1> HIDE DEF g, v
<1>5. \A k \in 1..Len(g) : g[k] \notin Marks /\ g[k] # Space
  BY <1>2, <1>4
<1>6. Len(g) > 0
  BY <1>2
<1>7. GoodValue(v)
  BY <1>1, <1>2, <1>5, <1>6 DEF GoodValue
<1>8. ToJson(v) = g
  BY <1>1 DEF ToJson
<1> QED BY <1>1, <1>7, <1>8 DEF g, v

(* What the first place tells, by the member in which it is. *)
LEMMA FirstFound ==
    ASSUME NEW t, NEW ms, NEW ss, NEW n, NEW mt, NEW start, NEW opens,
           Outline(t, ms, ss, n, mt, start, opens), NEW k \in 1..n,
           ss[k] = Tight, NEW name, Named(name), NEW q \in Nat,
           PlaceIn(ms, ss, start, name, k, q),
           ms[k].name = name => q = start[k]
    PROVE  LET a == q + Len(name) + 3
               m == ms[k]
               own == m.name = name
               isval == ~own /\ m.value.kind # "object"
           IN  /\ isval => t[a] # ":" /\ a <= Len(t)
               /\ ~isval =>
                    /\ t[a] = ":" /\ GoodValue(FirstOf(m, name))
                    /\ Stored(t, ToJson(FirstOf(m, name)), a)
                    /\ own => Sum(Level(t, q + 1), opens[k - 1], 0)
                    /\ ~own => /\ Sum(Level(t, q + 1), opens[k - 1], 1)
                               /\ MemberEnd(mt, start, k) = a + 2
                               /\ FirstOf(m, name) = Numeral(<<"0">>)
                               /\ t[a + 1] = "0"
<1> DEFINE L == Len(name)
           a == q + L + 3
           m == ms[k]
<1>1. L \in Nat /\ a \in Nat
  <2>1. L \in Nat
    BY DEF Named
  <2> HIDE DEF L
  <2> QED BY <2>1
<1>2. GoodMember(m)
  BY DEF Outline
<1>3. CASE m.name = name
  <2>1. /\ t[a] = ":" /\ Stored(t, ToJson(m.value), a)
        /\ Sum(Level(t, q + 1), opens[k - 1], 0)
    <3>1. q = start[k] /\ L = Len(ms[k].name)
      BY <1>3
    <3> HIDE DEF L
    <3>2. /\ t[q + L + 3] = ":"
          /\ Stored(t, ToJson(ms[k].value), q + L + 3)
          /\ Sum(Level(t, q + 1), opens[k - 1], 0)
      BY ONLY Outline(t, ms, ss, n, mt, start, opens), k \in 1..n,
         ss[k] = Tight, <3>1, OwnValue
    <3> QED BY <3>2
  <2>2. FirstOf(m, name) = m.value
    BY <1>3 DEF FirstOf
  <2>3. GoodValue(m.value)
    BY <1>2 DEF GoodMember
  <2> QED BY <1>3, <2>1, <2>2, <2>3
<1>4. CASE m.name # name
  <2>1. PICK p \in Nat : /\ q = ValuePlaceIn(ms, ss, start, k) + p
                         /\ QuotedAt(ToJson(m.value), name, p)
    BY <1>4 DEF PlaceIn
  <2>2. CASE m.value.kind # "object"
    <3>1. t[a] # ":" /\ a <= Len(t)
      BY <2>1, <2>2, NameAsValue
    <3> QED BY <1>4, <2>2, <3>1
  <2>3. CASE m.value.kind = "object"
    <3>1. /\ t[q + L + 3] = ":" /\ t[q + L + 4] = "0"
          /\ Stored(t, <<"0">>, q + L + 3)
          /\ MemberEnd(mt, start, k) = q + L + 5
          /\ Sum(Level(t, q + 1), opens[k - 1], 1)
      BY <2>1, <2>3, InnerValue
    <3>2. FirstOf(m, name) = Numeral(<<"0">>)
      BY <1>4, <2>3 DEF FirstOf
    <3>3. q + L + 4 = a + 1 /\ q + L + 5 = a + 2
      <4> HIDE DEF L
      <4> QED BY <1>1
    <3>4. t[a + 1] = "0" /\ MemberEnd(mt, start, k) = a + 2
      BY <3>1, <3>3
    <3>5. Stored(t, ToJson(FirstOf(m, name)), a)
      BY <3>1, <3>2, ZeroValue
    <3>6. GoodValue(FirstOf(m, name))
      BY <3>2, ZeroValue
    <3> QED BY <1>4, <2>3, <3>1, <3>2, <3>4, <3>5, <3>6
  <2> QED BY <2>2, <2>3
<1> QED BY <1>3, <1>4

(* A member opens as many braces as its value does. *)
Braced(j, c) == Cardinality({k \in DOMAIN j : j[k] = c})

(* A member adds the braces of its value to the level. *)
LEMMA LevelWritten ==
    ASSUME NEW x, NEW m, GoodMember(m), Written(x, m, Tight)
    PROVE  LET j == ToJson(m.value)
           IN  /\ Level(x, Len(x)) = Braced(j, LBrace) - Braced(j, RBrace)
               /\ Braced(j, LBrace) \in Nat /\ Braced(j, RBrace) \in Nat
<1> DEFINE j == ToJson(m.value)
           l == Len(j)
           V == ValueAt(m, Tight)
           X == Len(x)
<1>1. /\ l \in Nat \ {0} /\ Occurs(x, j, V) /\ x \in Seq(Glyph)
  BY DEF Written
<1>2. V \in Nat /\ X = V + l
  BY WrittenNumbers DEF WrittenAt
<1>3. Level(x, V) = 0
  BY LevelAtValue
<1>4. j \in Seq(Glyph)
  BY ValueText DEF GoodMember
<1>5. X \in Nat
  BY <1>1
<1>6. DOMAIN j = 1..l
  BY <1>4
<1> HIDE DEF j, l, V, X
<1>7. Sum(Level(x, V + l), Level(x, V), Level(j, l))
  <2>1. l \in 0..l
    BY <1>1
  <2> QED BY <1>1, <1>2, <1>5, <2>1, LevelOccurs DEF l, X
<1>8. UpTo(j, LBrace, l) = {k \in DOMAIN j : j[k] = LBrace}
      /\ UpTo(j, RBrace, l) = {k \in DOMAIN j : j[k] = RBrace}
  BY <1>6 DEF UpTo
<1>9. /\ Level(j, l) = Braced(j, LBrace) - Braced(j, RBrace)
      /\ Braced(j, LBrace) \in Nat /\ Braced(j, RBrace) \in Nat
  <2>1. l \in Nat
    BY <1>1
  <2>2. Level(j, l) = Cardinality(UpTo(j, LBrace, l))
                        - Cardinality(UpTo(j, RBrace, l))
    BY <2>1, LevelIs
  <2>3. /\ Cardinality(UpTo(j, LBrace, l)) \in Nat
        /\ Cardinality(UpTo(j, RBrace, l)) \in Nat
    BY <2>1, UpToFinite
  <2> QED BY <1>8, <2>2, <2>3 DEF Braced
<1>10. Level(x, X) = Level(j, l)
  BY <1>2, <1>3, <1>7, <1>9 DEF Sum
<1> QED BY <1>9, <1>10 DEF X, j

(* The least member of a set is below all others. *)
LEMMA MinIs ==
    ASSUME NEW T \in SUBSET Nat, NEW m \in T, \A y \in T : m <= y
    PROVE  Min(T) = m
<1>1. Min(T) \in T /\ \A y \in T : Min(T) <= y
  BY MinOfSet
<1> DEFINE k == Min(T)
<1>2. k \in Nat /\ m \in Nat /\ k <= m /\ m <= k
  BY <1>1
<1> HIDE DEF k
<1> QED BY <1>2 DEF k

(* Where the digits end that stand from a on. *)
LEMMA NumberStops ==
    ASSUME NEW t, Len(t) \in Nat, NEW v, GoodValue(v), v.kind = "number",
           NEW a, Stored(t, v.text, a),
           NEW ends, ends = {i \in a..(Len(t) - 1) : At(t, i) \notin Digit}
    PROVE  /\ ends # {} /\ Min(ends) \in Nat /\ Min(ends) < Len(t)
           /\ Plain(v) => Min(ends) = a + Len(v.text)
           /\ ~Plain(v) => \/ Min(ends) = a
                           \/ /\ a < Min(ends)
                              /\ At(t, Min(ends)) \notin {Comma, RBrace}
<1> DEFINE x == v.text
           l == Len(x)
           T == Len(t)
           z == a + l
<1>1. /\ a \in Nat /\ l \in Nat \ {0} /\ Occurs(t, x, a) /\ z < T
      /\ t[z + 1] \in {Comma, RBrace} /\ T \in Nat /\ z \in Nat
  BY DEF Stored
<1>2. x \in Seq(Glyph)
  BY DEF GoodValue
<1>3. \A k \in 1..l : t[a + k] = x[k]
  BY <1>1, OccursChar
<1>4. \A i : At(t, i) = t[i + 1]
  BY DEF At
<1>5. DOMAIN x = 1..l
  BY <1>2
<1>6. \A k \in 1..l : x[k] \notin {Comma, RBrace}
  BY StructuralChars DEF GoodValue
<1>7. Comma \notin Digit /\ RBrace \notin Digit
  BY NumberChars, StructuralChars
<1> HIDE DEF x, l, T, z
<1>8. \A i : i \in ends <=> i \in a..(T - 1) /\ t[i + 1] \notin Digit
  BY <1>4 DEF T
<1>9. ends \in SUBSET Nat
  BY <1>1, <1>8
<1>10. z \in ends
  <2>1. z \in a..(T - 1)
    <3>1. z = a + l
      BY DEF z
    <3> QED BY <1>1, <3>1
  <2> QED BY <1>1, <1>7, <1>8, <2>1
<1> DEFINE k == Min(ends)
<1>11. k \in ends /\ \A y \in ends : k <= y
  BY <1>9, <1>10, MinOfSet
<1> HIDE DEF k
<1>12. k \in Nat /\ k < T /\ a <= k /\ k <= z
  BY <1>1, <1>8, <1>10, <1>11
<1>13. z = a + l
  BY DEF z
<1>14. ASSUME Plain(v) PROVE k = z
  <2>1. \A i \in 1..l : x[i] \in Digit
    BY <1>5, <1>14 DEF Plain, Range, x
  <2> SUFFICES ASSUME k # z PROVE FALSE
    OBVIOUS
  <2> DEFINE i == k + 1 - a
  <2>2. i \in 1..l /\ a + i = k + 1
    BY <1>1, <1>12, <1>13
  <2> HIDE DEF i
  <2>3. t[k + 1] = x[i] /\ x[i] \in Digit
    BY <1>3, <2>1, <2>2
  <2> QED BY <1>8, <1>11, <2>3
<1>15. ASSUME ~Plain(v)
       PROVE  k = a \/ (a < k /\ At(t, k) \notin {Comma, RBrace})
  <2>1. PICK d \in 1..l : x[d] \notin Digit
    BY <1>5, <1>15 DEF Plain, Range, x
  <2> DEFINE y == a + d - 1
  <2>2. y \in a..(T - 1) /\ y + 1 = a + d /\ y < z
    BY <1>1, <1>13
  <2> HIDE DEF y
  <2>3. y \in ends
    BY <1>3, <1>8, <2>1, <2>2
  <2>4. k < z
    BY <1>1, <1>11, <1>12, <2>2, <2>3
  <2> DEFINE i == k + 1 - a
  <2>5. i \in 1..l /\ a + i = k + 1
    BY <1>1, <1>12, <1>13, <2>4
  <2> HIDE DEF i
  <2>6. At(t, k) = x[i]
    BY <1>3, <1>4, <2>5
  <2>7. At(t, k) \notin {Comma, RBrace}
    BY <1>6, <2>5, <2>6
  <2> QED BY <1>1, <1>12, <2>7
<1> QED BY <1>10, <1>12, <1>13, <1>14, <1>15 DEF k, T, l, x

(* The part of a string that the quotes enclose which are found. *)
LEMMA SeenParts ==
    ASSUME NEW v, v.text \in Seq(Glyph)
    PROVE  LET e == Escaped(v.text)
               s == Len(Seen(v))
           IN  /\ e \in Seq(Glyph) /\ Seen(v) \in Seq(Glyph)
               /\ s \in Nat /\ s <= Len(e)
               /\ \A i \in 1..s : Seen(v)[i] = e[i] /\ e[i] # Quote
               /\ s < Len(e) => e[s + 1] = Quote
<1> DEFINE e == Escaped(v.text)
           Q == {i \in DOMAIN e : e[i] = Quote}
           w == Seen(v)
<1>1. e \in Seq(Glyph)
  BY EscapedIsSeq, Glyphs
<1>2. w = IF Q = {} THEN e ELSE SubSeq(e, 1, Min(Q) - 1)
  BY DEF Seen
<1> HIDE DEF w
<1>3. DOMAIN e = 1..Len(e) /\ Len(e) \in Nat
  BY <1>1
<1>4. \A i : i \in Q <=> i \in 1..Len(e) /\ e[i] = Quote
  BY <1>3
<1> HIDE DEF e, Q
<1>5. CASE Q = {}
  <2>1. w = e
    BY <1>2, <1>5
  <2> QED BY <1>1, <1>3, <1>4, <1>5, <2>1 DEF e, w
<1>6. CASE Q # {}
  <2> DEFINE k == Min(Q)
  <2>1. Q \in SUBSET Nat
    BY <1>4
  <2>2. k \in Q /\ \A y \in Q : k <= y
    BY <1>6, <2>1, MinOfSet
  <2>3. w = SubSeq(e, 1, k - 1)
    BY <1>2, <1>6
  <2> HIDE DEF k
  <2>4. k \in 1..Len(e) /\ e[k] = Quote
    BY <1>4, <2>2
  <2> DEFINE d == k - 1
  <2>5. d \in Nat /\ 0 + d <= Len(e) /\ d + 1 = k /\ d < Len(e) /\ 0 + d = d
    BY <1>3, <2>4
  <2>6. w = SubSeq(e, 0 + 1, 0 + d)
    BY <2>3, <2>5
  <2> HIDE DEF d
  <2>7. w \in Seq(Glyph) /\ Len(w) = d /\ \A i \in 1..d : w[i] = e[0 + i]
    BY <1>1, <2>5, <2>6, PartIndex
  <2>8. \A i \in 1..d : w[i] = e[i]
    BY <2>7
  <2>9. \A i \in 1..d : e[i] # Quote
    BY <1>3, <1>4, <2>2, <2>4, <2>5
  <2> QED BY <1>1, <1>3, <2>4, <2>5, <2>7, <2>8, <2>9 DEF e, w
<1> QED BY <1>5, <1>6

(* Where the string ends that stands at a. *)
LEMMA StringStops ==
    ASSUME NEW t \in Seq(Glyph), NEW v, v.text \in Seq(Glyph), NEW a,
           Stored(t, Quoted(Escaped(v.text)), a),
           NEW Q, \A i : i \in Q <=> /\ i \in Nat /\ i >= a + 1
                                     /\ i + 1 <= Len(t) /\ t[i + 1] = Quote
    PROVE  /\ Q # {}
           /\ SubSeq(t, a + 1, Min(Q) + 1) = Quoted(Seen(v))
<1> DEFINE e == Escaped(v.text)
           w == Seen(v)
           s == Len(w)
           E == Len(e)
           T == Len(t)
           j == Quoted(e)
<1>1. /\ e \in Seq(Glyph) /\ w \in Seq(Glyph) /\ s \in Nat /\ s <= E
      /\ \A i \in 1..s : w[i] = e[i] /\ e[i] # Quote
      /\ s < E => e[s + 1] = Quote
  BY SeenParts
<1>2. a \in Nat /\ Occurs(t, j, a) /\ a + Len(j) < T
  BY DEF Stored
<1>3. T \in Nat /\ E \in Nat
  BY <1>1
<1> HIDE DEF e, w
<1>4. /\ Len(j) = E + 2 /\ j[1] = Quote /\ j[E + 2] = Quote
      /\ \A i \in 1..E : j[i + 1] = e[i]
  BY <1>1, QuotedParts, Glyphs
<1>5. /\ Len(Quoted(w)) = s + 2 /\ Quoted(w)[1] = Quote
      /\ Quoted(w)[s + 2] = Quote /\ Quoted(w) \in Seq(Glyph)
      /\ \A i \in 1..s : Quoted(w)[i + 1] = w[i]
  BY <1>1, QuotedParts, Glyphs
<1> HIDE DEF j, s, E, T
<1>6. \A k \in 1..(E + 2) : t[a + k] = j[k]
  <2>1. Len(j) \in Nat
    BY <1>3, <1>4
  <2> QED BY <1>2, <1>4, <2>1, OccursChar
<1>7. t[a + 1] = Quote
  <2>1. 1 \in 1..(E + 2)
    BY <1>3
  <2> QED BY <1>4, <1>6, <2>1
<1>8. \A i \in 1..s : t[a + (i + 1)] = w[i] /\ t[a + (i + 1)] # Quote
  <2> TAKE i \in 1..s
  <2>1. i \in 1..E /\ i + 1 \in 1..(E + 2)
    BY <1>1, <1>3
  <2> QED BY <1>1, <1>4, <1>6, <2>1
<1>9. t[a + (s + 2)] = Quote
  <2>1. CASE s < E
    <3>1. s + 1 \in 1..E /\ (s + 1) + 1 = s + 2 /\ s + 2 \in 1..(E + 2)
      BY <1>1, <1>3, <2>1
    <3> QED BY <1>1, <1>4, <1>6, <2>1, <3>1
  <2>2. CASE s = E
    <3>1. s + 2 \in 1..(E + 2)
      BY <1>3, <2>2
    <3> QED BY <1>4, <1>6, <2>2, <3>1
  <2> QED BY <1>1, <1>3, <2>1, <2>2
<1> DEFINE z == a + s + 1
<1>10. /\ z \in Nat /\ z >= a + 1 /\ z + 1 <= T /\ z + 1 = a + (s + 2)
       /\ a + (s + 2) < T
  BY <1>1, <1>2, <1>3, <1>4
<1>11. z \in Q
  BY <1>9, <1>10 DEF T
<1>12. ASSUME NEW y \in Q PROVE z <= y
  <2>1. y \in Nat /\ y >= a + 1 /\ y + 1 <= T /\ t[y + 1] = Quote
    BY <1>12 DEF T
  <2> SUFFICES ASSUME y < z PROVE FALSE
    BY <1>10, <2>1
  <2> DEFINE i == y - a
  <2>2. i \in 1..s /\ a + (i + 1) = y + 1
    BY <1>1, <1>2, <2>1
  <2> HIDE DEF i
  <2> QED BY <1>8, <2>1, <2>2
<1>13. Q \in SUBSET Nat
  OBVIOUS
<1> HIDE DEF z
<1>14. Min(Q) = z
  BY <1>11, <1>12, <1>13, MinIs
<1>15. SubSeq(t, a + 1, z + 1) = Quoted(w)
  <2> DEFINE b == s + 2
             u == SubSeq(t, a + 1, a + b)
  <2>1. b \in Nat /\ a + b <= Len(t)
    BY <1>1, <1>10 DEF T
  <2> HIDE DEF b
  <2>2. u \in Seq(Glyph) /\ Len(u) = b /\ \A k \in 1..b : u[k] = t[a + k]
    BY <1>2, <2>1, PartIndex
  <2> HIDE DEF u
  <2>3. ASSUME NEW k \in 1..b PROVE u[k] = Quoted(w)[k]
    <3>1. CASE k = 1
      BY <1>5, <1>7, <2>2, <3>1
    <3>2. CASE k = s + 2
      BY <1>5, <1>9, <2>2, <3>2
    <3>3. CASE k # 1 /\ k # s + 2
      <4> DEFINE i == k - 1
      <4>1. i \in 1..s /\ i + 1 = k
        BY <1>1, <2>3, <3>3 DEF b
      <4> HIDE DEF i
      <4> QED BY <1>5, <1>8, <2>2, <4>1
    <3> QED BY <3>1, <3>2, <3>3
  <2>4. Len(u) = Len(Quoted(w))
    BY <1>5, <2>2 DEF b
  <2>5. u = Quoted(w)
    BY <1>5, <2>2, <2>3, <2>4, SameSeq
  <2>6. z + 1 = a + b
    BY <1>10 DEF b
  <2> QED BY <2>5, <2>6 DEF u
<1> QED BY <1>11, <1>14, <1>15 DEF w

(* Escaping brings no zero byte in. *)
LEMMA EscapedNoNul ==
    ASSUME NEW t \in Seq(Glyph), \A i \in 1..Len(t) : t[i] # Nul
    PROVE  \A i \in 1..Len(Escaped(t)) : Escaped(t)[i] # Nul
<1> DEFINE e == Escaped(t)
<1>1. PICK pos : Spelled(t, e, pos)
  BY EscapedSpelled, Glyphs
<1>2. Backslash # Nul
  BY DEF Backslash, Nul
<1>0. Len(t) \in Nat /\ Len(e) \in Nat
  BY EscapedIsSeq, Glyphs
<1> HIDE DEF e
<1>3. ASSUME NEW j \in 1..Len(e) PROVE e[j] # Nul
  <2>1. PICK i \in 1..Len(t) : pos[i - 1] < j /\ j <= pos[i]
    BY <1>1 DEF Spelled
  <2>2. /\ pos[i] = pos[i - 1] + (IF t[i] \in Escapes THEN 2 ELSE 1)
        /\ e[pos[i]] = t[i]
        /\ t[i] \in Escapes => e[pos[i - 1] + 1] = Backslash
        /\ pos[i - 1] \in Nat /\ pos[i] \in Nat
    <3>1. Len(t) \in Nat /\ Len(e) \in Nat
      BY <1>0
    <3> QED BY <1>1, <3>1, SpelledChar
  <2>3. j = pos[i] \/ (t[i] \in Escapes /\ j = pos[i - 1] + 1)
    BY <2>1, <2>2
  <2> QED BY <1>2, <2>2, <2>3
<1> QED BY <1>3 DEF e

(* A text cut and filled up to n bytes. *)
Padded(x, n) == [i \in 1..n |-> IF i <= Len(x) THEN x[i] ELSE Nul]

NulFree(x) == \A i \in 1..Len(x) : x[i] # Nul

(* A padded text has n bytes: the text's, then zero bytes. *)
LEMMA PaddedSeq ==
    ASSUME NEW x \in Seq(Glyph), NEW n \in Nat
    PROVE  /\ Padded(x, n) \in Seq(Glyph) /\ Len(Padded(x, n)) = n
           /\ \A i \in 1..n : i <= Len(x) => Padded(x, n)[i] = x[i]
           /\ \A i \in 1..n : i > Len(x) => Padded(x, n)[i] = Nul
<1> DEFINE l == Len(x)
           p == [i \in 1..n |-> IF i <= l THEN x[i] ELSE Nul]
<1>1. l \in Nat /\ \A i \in 1..l : x[i] \in Glyph
  OBVIOUS
<1> HIDE DEF l
<1>2. \A i \in 1..n : (IF i <= l THEN x[i] ELSE Nul) \in Glyph
  BY <1>1, Glyphs
<1>3. p \in Seq(Glyph) /\ Len(p) = n
  BY <1>2
<1>4. Padded(x, n) = p
  BY DEF Padded, l
<1>5. \A i \in 1..n : p[i] = IF i <= l THEN x[i] ELSE Nul
  OBVIOUS
<1> HIDE DEF p
<1>6. \A i \in 1..n : i > l => ~(i <= l)
  BY <1>1
<1> QED BY <1>3, <1>4, <1>5, <1>6 DEF l

(* Packing a text that fits pads it. *)
LEMMA PackPadded ==
    ASSUME NEW x \in Seq(Glyph), NEW n \in Nat, Len(x) <= n
    PROVE  Pack(x, n) = Padded(x, n)
<1> DEFINE l == Len(x)
           fill == [i \in 1..(n - l) |-> Nul]
           p == x \o fill
<1>1. Pack(x, n) = p
  BY DEF Pack
<1>2. l \in Nat /\ n - l \in Nat
  OBVIOUS
<1>3. /\ fill \in Seq(Glyph) /\ Len(fill) = n - l
      /\ \A i \in 1..(n - l) : fill[i] = Nul
  BY <1>2, Glyphs
<1> HIDE DEF fill
<1>4. /\ p \in Seq(Glyph) /\ Len(p) = l + (n - l)
      /\ \A i \in 1..l : p[i] = x[i]
      /\ \A i \in 1..(n - l) : p[l + i] = fill[i]
  BY <1>3, ConcatIndex
<1> DEFINE q == Padded(x, n)
<1>5. /\ q \in Seq(Glyph) /\ Len(q) = n
      /\ \A i \in 1..n : i <= l => q[i] = x[i]
      /\ \A i \in 1..n : i > l => q[i] = Nul
  BY PaddedSeq
<1> HIDE DEF p, q, l
<1>6. Len(p) = n
  BY <1>2, <1>4
<1>7. ASSUME NEW i \in 1..n PROVE p[i] = q[i]
  <2>1. CASE i <= l
    BY <1>2, <1>4, <1>5, <2>1
  <2>2. CASE i > l
    <3> DEFINE k == i - l
    <3>1. k \in 1..(n - l) /\ l + k = i
      BY <1>2, <2>2
    <3> HIDE DEF k
    <3> QED BY <1>3, <1>4, <1>5, <2>2, <3>1
  <2> QED BY <1>2, <2>1, <2>2
<1>8. p = q
  BY <1>4, <1>5, <1>6, <1>7, SameSeq
<1> QED BY <1>1, <1>8 DEF q

(* Texts without zero bytes that fit are told apart when they are filled. *)
LEMMA PaddedSame ==
    ASSUME NEW x \in Seq(Glyph), NEW y \in Seq(Glyph), NEW n \in Nat,
           Len(x) <= n, Len(y) <= n, NulFree(x), NulFree(y),
           Padded(x, n) = Padded(y, n)
    PROVE  x = y
<1> DEFINE a == Len(x)
           b == Len(y)
           p == Padded(x, n)
<1>1. a \in Nat /\ b \in Nat /\ a <= n /\ b <= n
  OBVIOUS
<1>2. /\ \A i \in 1..n : i <= a => p[i] = x[i]
      /\ \A i \in 1..n : i > a => p[i] = Nul
  BY PaddedSeq
<1>3. /\ \A i \in 1..n : i <= b => p[i] = y[i]
      /\ \A i \in 1..n : i > b => p[i] = Nul
  <2> DEFINE q == Padded(y, n)
  <2>1. /\ \A i \in 1..n : i <= b => q[i] = y[i]
        /\ \A i \in 1..n : i > b => q[i] = Nul
    BY PaddedSeq
  <2>2. p = q
    OBVIOUS
  <2> HIDE DEF p, q
  <2> QED BY <2>1, <2>2
<1>4. (\A i \in 1..a : x[i] # Nul) /\ (\A i \in 1..b : y[i] # Nul)
  BY DEF NulFree
<1> HIDE DEF a, b, p
<1>5. ~(a < b)
  <2> SUFFICES ASSUME a < b PROVE FALSE
    OBVIOUS
  <2>1. b \in 1..n /\ b \in 1..b /\ b > a /\ b <= b
    BY <1>1
  <2> QED BY <1>2, <1>3, <1>4, <2>1
<1>6. ~(b < a)
  <2> SUFFICES ASSUME b < a PROVE FALSE
    OBVIOUS
  <2>1. a \in 1..n /\ a \in 1..a /\ a > b /\ a <= a
    BY <1>1
  <2> QED BY <1>2, <1>3, <1>4, <2>1
<1>7. a = b
  BY <1>1, <1>5, <1>6
<1>8. \A i \in 1..a : x[i] = y[i]
  <2> TAKE i \in 1..a
  <2>1. i \in 1..n /\ i <= a /\ i <= b
    BY <1>1, <1>7
  <2> QED BY <1>2, <1>3, <2>1
<1> QED BY <1>7, <1>8, SameSeq DEF a, b

(* A text from one quote, or from a digit, to the next one. *)
UpToQuote(x) ==
    /\ x \in Seq(Glyph) /\ Len(x) \in Nat /\ Len(x) >= 2
    /\ x[Len(x)] = Quote
    /\ \A i \in 2..(Len(x) - 1) : x[i] # Quote

(* The circuit reveals the quoted text only if it found just that. *)
LEMMA RevealString ==
    ASSUME NEW x, UpToQuote(x), NEW y \in Seq(Glyph), NulFree(y),
           NEW n \in Nat, Len(Quoted(y)) <= n
    PROVE  Pack(Quoted(y), n) = Padded(x, n) <=> x = Quoted(y)
<1> DEFINE g == Quoted(y)
           a == Len(x)
           b == Len(g)
           p == Padded(x, n)
<1>1. /\ g \in Seq(Glyph) /\ b = Len(y) + 2 /\ g[1] = Quote
      /\ g[Len(y) + 2] = Quote /\ \A i \in 1..Len(y) : g[i + 1] = y[i]
  BY QuotedParts, Glyphs
<1>2. Len(y) \in Nat /\ a \in Nat /\ a >= 2 /\ x \in Seq(Glyph)
      /\ x[a] = Quote /\ \A i \in 2..(a - 1) : x[i] # Quote
  BY DEF UpToQuote
<1>3. Pack(g, n) = Padded(g, n)
  BY <1>1, PackPadded
<1>4. b \in Nat /\ b >= 2 /\ b <= n /\ g[b] = Quote
  <2> DEFINE c == Len(y)
  <2>1. c \in Nat /\ b = c + 2 /\ g[c + 2] = Quote /\ b <= n
    BY <1>1, <1>2
  <2> HIDE DEF b, c, g
  <2> QED BY <2>1
<1>5. /\ \A i \in 1..n : i <= a => p[i] = x[i]
      /\ \A i \in 1..n : i > a => p[i] = Nul
  BY <1>2, PaddedSeq
<1>6. Quote # Nul
  BY GlyphsDiffer
<1>7. \A i \in 1..b : g[i] # Nul
  <2> TAKE i \in 1..b
  <2> DEFINE c == Len(y)
  <2>1. /\ c \in Nat /\ b = c + 2 /\ g[c + 2] = Quote /\ g[1] = Quote
        /\ \A k \in 1..c : g[k + 1] = y[k] /\ y[k] # Nul
    BY <1>1, <1>2 DEF NulFree
  <2> HIDE DEF b, c, g
  <2>2. CASE i = 1 \/ i = c + 2
    BY <1>6, <2>1, <2>2
  <2>3. CASE i # 1 /\ i # c + 2
    <3> DEFINE k == i - 1
    <3>1. k \in 1..c /\ k + 1 = i
      BY <2>1, <2>3
    <3> HIDE DEF k
    <3> QED BY <2>1, <3>1
  <2> QED BY <2>2, <2>3
<1> HIDE DEF a, b, g
<1>8. ASSUME Padded(g, n) = p PROVE x = g
  <2>1. /\ \A i \in 1..n : i <= b => p[i] = g[i]
        /\ \A i \in 1..n : i > b => p[i] = Nul
    <3> DEFINE q == Padded(g, n)
    <3>1. /\ \A i \in 1..n : i <= b => q[i] = g[i]
          /\ \A i \in 1..n : i > b => q[i] = Nul
      BY <1>1, PaddedSeq DEF b
    <3>2. p = q
      BY <1>8
    <3> HIDE DEF p, q
    <3> QED BY <3>1, <3>2
  <2> HIDE DEF p
  <2>2. ~(a < b)
    <3> SUFFICES ASSUME a < b PROVE FALSE
      OBVIOUS
    <3>1. b \in 1..n /\ b \in 1..b /\ b > a /\ b <= b
      BY <1>2, <1>4
    <3> QED BY <1>5, <1>7, <2>1, <3>1
  <2>3. ~(b < a)
    <3> SUFFICES ASSUME b < a PROVE FALSE
      OBVIOUS
    <3>1. b \in 1..n /\ b <= a /\ b <= b /\ b \in 2..(a - 1)
      BY <1>2, <1>4
    <3>2. p[b] = x[b] /\ p[b] = g[b]
      BY <1>5, <2>1, <3>1
    <3> QED BY <1>2, <1>4, <3>1, <3>2
  <2>4. a = b
    BY <1>2, <1>4, <2>2, <2>3
  <2>5. \A i \in 1..a : x[i] = g[i]
    <3> TAKE i \in 1..a
    <3>1. i \in 1..n /\ i <= a /\ i <= b
      BY <1>2, <1>4, <2>4
    <3> QED BY <1>5, <2>1, <3>1
  <2> QED BY <1>1, <1>2, <2>4, <2>5, SameSeq DEF a, b
<1> QED BY <1>3, <1>8 DEF p, g

(* A digest is that of the value only if the value was found and fits. *)
LEMMA HashSame ==
    ASSUME NEW S, Nul \in S, NEW x \in Seq(S), NEW y \in Seq(S), NulFree(y),
           NEW n \in Nat
    PROVE  [i \in 1..Len(x) |-> IF i <= n THEN x[i] ELSE Nul] = y
             <=> x = y /\ Len(x) <= n
<1> DEFINE a == Len(x)
           h == [i \in 1..a |-> IF i <= n THEN x[i] ELSE Nul]
<1>1. a \in Nat /\ x = [i \in 1..a |-> x[i]]
  OBVIOUS
<1>2. NulFree(y) => \A i \in 1..Len(y) : y[i] # Nul
  BY DEF NulFree
<1>3. \A i \in 1..a : h[i] = IF i <= n THEN x[i] ELSE Nul
  OBVIOUS
<1>4. h \in Seq(S) /\ Len(h) = a
  <2>1. \A i \in 1..a : (IF i <= n THEN x[i] ELSE Nul) \in S
    BY <1>1
  <2> QED BY <1>1, <2>1
<1> HIDE DEF a, h
<1>5. ASSUME a <= n PROVE h = x
  <2>1. \A i \in 1..a : h[i] = x[i]
    BY <1>1, <1>3, <1>5
  <2> QED BY <1>4, <2>1, SameSeq DEF a
<1>6. ASSUME ~(a <= n) PROVE h # y
  <2>1. a \in 1..a /\ ~(a <= n)
    BY <1>1, <1>6
  <2>2. h[a] = Nul
    BY <1>3, <2>1
  <2> QED BY <1>2, <1>4, <2>1, <2>2
<1> QED BY <1>5, <1>6 DEF a, h

(* The smaller of two numbers. *)
LEMMA MinOfTwo ==
    ASSUME NEW a \in Nat, NEW b \in Nat
    PROVE  /\ a <= b => Min({a, b}) = a
           /\ b <= a => Min({a, b}) = b
<1>1. {a, b} \in SUBSET Nat
  OBVIOUS
<1>2. ASSUME a <= b PROVE Min({a, b}) = a
  <2>1. a \in {a, b} /\ \A y \in {a, b} : a <= y
    BY <1>2
  <2> QED BY ONLY <1>1, <2>1, MinIs
<1>3. ASSUME b <= a PROVE Min({a, b}) = b
  <2>1. b \in {a, b} /\ \A y \in {a, b} : b <= y
    BY <1>3
  <2> QED BY ONLY <1>1, <2>1, MinIs
<1> QED BY <1>2, <1>3

(* The bytes in which a domain is searched, without the first one and the
   last quote. *)
SearchedIn(x, n) == SubSeq(x, 2, Min({n, Len(x) - 1}))

(* What RevealDomainOnly searches: the value behind its opening quote, up
   to the closing one. *)
LEMMA SearchedParts ==
    ASSUME NEW x, UpToQuote(x), NEW n \in Nat, NEW w, w = SearchedIn(x, n)
    PROVE  /\ w \in Seq(Glyph) /\ Len(w) \in Nat
           /\ \A i : i \in 1..Len(w) <=> /\ i \in Nat /\ i >= 1
                                         /\ i + 1 <= n /\ i + 1 <= Len(x) - 1
           /\ \A i \in 1..Len(w) : w[i] = x[i + 1]
<1> DEFINE a == Len(x)
           m == Min({n, a - 1})
<1>1. a \in Nat /\ a >= 2 /\ x \in Seq(Glyph) /\ a - 1 \in Nat
  BY DEF UpToQuote
<1>2. (n <= a - 1 => m = n) /\ (a - 1 <= n => m = a - 1)
  BY <1>1, MinOfTwo
<1>3. w = SubSeq(x, 2, m)
  BY DEF SearchedIn
<1> HIDE DEF m
<1>4. CASE m <= 1
  <2>1. w = <<>>
    <3>1. m \in Nat /\ m < 2
      BY <1>1, <1>2, <1>4
    <3> QED BY <1>1, <1>3, <3>1
  <2>2. w \in Seq(Glyph) /\ Len(w) = 0
    BY <2>1, Punctuation
  <2> HIDE DEF a
  <2>3. \A i : ~(i \in Nat /\ i >= 1 /\ i + 1 <= n /\ i + 1 <= a - 1)
    BY <1>1, <1>2, <1>4
  <2> QED BY <2>2, <2>3 DEF a
<1>5. CASE ~(m <= 1)
  <2> DEFINE d == m - 1
  <2>1. d \in Nat /\ 1 + d <= a /\ 1 + d = m
    BY <1>1, <1>2, <1>5
  <2> HIDE DEF d
  <2>2. w = SubSeq(x, 1 + 1, 1 + d)
    BY <1>3, <2>1
  <2>3. w \in Seq(Glyph) /\ Len(w) = d /\ \A i \in 1..d : w[i] = x[1 + i]
    BY <1>1, <2>1, <2>2, PartIndex
  <2> HIDE DEF a
  <2>4. \A i : i \in 1..d <=> /\ i \in Nat /\ i >= 1
                              /\ i + 1 <= n /\ i + 1 <= a - 1
    BY <1>1, <1>2, <1>5, <2>1
  <2>5. \A i \in 1..d : 1 + i = i + 1
    BY <2>1
  <2> QED BY <2>1, <2>3, <2>4, <2>5 DEF a
<1> QED
  <2>1. m <= 1 \/ ~(m <= 1)
    OBVIOUS
  <2> QED BY <1>4, <1>5

(* The at sign is no quote. *)
LEMMA AtIsNoQuote == "@" # Quote /\ "@" # Nul
BY GlyphsDiffer DEF Glue

(* The circuit counts the @ that stand where it is searched. *)
LEMMA OneAt ==
    ASSUME NEW x, UpToQuote(x), NEW n \in Nat
    PROVE  OneAtSign(Padded(x, n))
             <=> Cardinality(AtPlaces(SearchedIn(x, n))) <= 1
<1> DEFINE p == Padded(x, n)
           w == SearchedIn(x, n)
           A == AtPlaces(w)
           B == AtSigns(p)
           a == Len(x)
           f == [j \in A |-> j + 1]
<1>1. /\ w \in Seq(Glyph) /\ Len(w) \in Nat
      /\ \A i : i \in 1..Len(w) <=> /\ i \in Nat /\ i >= 1
                                    /\ i + 1 <= n /\ i + 1 <= a - 1
      /\ \A i \in 1..Len(w) : w[i] = x[i + 1]
  BY SearchedParts
<1>2. a \in Nat /\ a >= 2 /\ x \in Seq(Glyph) /\ x[a] = Quote
  BY DEF UpToQuote
<1>3. /\ Len(p) = n
      /\ \A i \in 1..n : i <= a => p[i] = x[i]
      /\ \A i \in 1..n : i > a => p[i] = Nul
  BY <1>2, PaddedSeq
<1> HIDE DEF p
<1>4. \A i : i \in B <=> i \in 2..n /\ p[i] = "@"
  BY <1>3 DEF AtSigns
<1> HIDE DEF w
<1>5. \A i : i \in A <=> i \in 1..Len(w) /\ w[i] = "@"
  <2>1. DOMAIN w = 1..Len(w)
    BY <1>1
  <2> QED BY <2>1 DEF AtPlaces
<1> HIDE DEF A, B, a
<1>6. ASSUME NEW j \in A PROVE j \in Nat /\ j + 1 \in B
  <2>1. /\ j \in Nat /\ j >= 1 /\ j + 1 <= n /\ j + 1 <= a - 1
        /\ x[j + 1] = "@"
    BY <1>1, <1>5
  <2>2. j + 1 \in 2..n /\ j + 1 <= a /\ j + 1 \in 1..n
    BY <1>2, <2>1
  <2> QED BY <1>3, <1>4, <2>1, <2>2
<1>7. ASSUME NEW i \in B PROVE \E j \in A : i = j + 1
  <2>1. i \in 2..n /\ i \in 1..n /\ p[i] = "@"
    BY <1>4
  <2>2. ~(i > a)
    BY <1>3, <2>1, AtIsNoQuote
  <2>3. p[i] = x[i] /\ i <= a
    BY <1>2, <1>3, <2>1, <2>2
  <2>4. i # a
    BY <1>2, <2>1, <2>3, AtIsNoQuote
  <2> DEFINE j == i - 1
  <2>5. j \in Nat /\ j >= 1 /\ j + 1 <= n /\ j + 1 <= a - 1 /\ j + 1 = i
    BY <1>2, <2>1, <2>3, <2>4
  <2> HIDE DEF j
  <2>6. j \in 1..Len(w)
    BY <1>1, <2>5
  <2>7. w[j] = "@"
    BY <1>1, <2>1, <2>3, <2>5, <2>6
  <2> QED BY <1>5, <2>5, <2>6, <2>7
<1>8. IsFiniteSet(A)
  <2>1. A \subseteq 1..Len(w)
    BY <1>5
  <2>2. IsFiniteSet(1..Len(w))
    BY <1>1, FS_Interval
  <2> QED BY <2>1, <2>2, FS_Subset
<1>9. f \in Bijection(A, B)
  <2>1. f \in [A -> B]
    BY <1>6
  <2>2. \A y \in A, z \in A : f[y] = f[z] => y = z
    <3>1. ASSUME NEW y \in A, NEW z \in A, y + 1 = z + 1 PROVE y = z
      <4>1. y \in Nat /\ z \in Nat
        BY <1>6
      <4> QED BY <3>1, <4>1
    <3> QED BY <3>1
  <2>3. \A d \in B : \E y \in A : f[y] = d
    BY <1>7
  <2> HIDE DEF f
  <2> QED BY <2>1, <2>2, <2>3
        DEF Bijection, Injection, Surjection, IsInjective
<1>10. ExistsBijection(A, B)
  BY <1>9 DEF ExistsBijection
<1>11. Cardinality(B) = Cardinality(A)
  BY <1>8, <1>10, FS_Bijection
<1> QED BY <1>11 DEF OneAtSign, A, B, p, w

(* d is what follows the first @ in w. *)
DomainIn(w, d) ==
    \/ d = <<>> /\ \A i \in 1..Len(w) : w[i] # "@"
    \/ \E m \in 1..Len(w) :
          /\ w[m] = "@" /\ \A i \in 1..(m - 1) : w[i] # "@"
          /\ d \in Seq(Glyph) /\ Len(d) = Len(w) - m
          /\ \A i \in 1..Len(d) : d[i] = w[m + i]

(* What get_domain returns is behind the last at sign. *)
LEMMA DomainParts ==
    ASSUME NEW w \in Seq(Glyph), NEW d, d = Domain(w)
    PROVE  DomainIn(w, d)
<1> DEFINE A == AtPlaces(w)
           b == Len(w)
<1>1. b \in Nat /\ DOMAIN w = 1..b
  OBVIOUS
<1>2. \A i : i \in A <=> i \in 1..b /\ w[i] = "@"
  BY <1>1 DEF AtPlaces
<1>3. d = IF A = {} THEN <<>> ELSE SubSeq(w, Min(A) + 1, b)
  BY DEF Domain
<1> HIDE DEF A
<1>4. CASE A = {}
  BY <1>2, <1>3, <1>4 DEF DomainIn
<1>5. CASE A # {}
  <2> DEFINE m == Min(A)
             k == b - m
  <2>1. A \in SUBSET Nat
    BY <1>2
  <2>2. m \in A /\ \A y \in A : m <= y
    BY <1>5, <2>1, MinOfSet
  <2>3. d = SubSeq(w, m + 1, b)
    BY <1>3, <1>5
  <2> HIDE DEF m
  <2>4. m \in 1..b /\ w[m] = "@"
    BY <1>2, <2>2
  <2>5. k \in Nat /\ m + k = b /\ m \in Nat /\ m + k <= b
    BY <1>1, <2>4
  <2> HIDE DEF k
  <2>6. d = SubSeq(w, m + 1, m + k)
    BY <2>3, <2>5
  <2>7. d \in Seq(Glyph) /\ Len(d) = k /\ \A i \in 1..k : d[i] = w[m + i]
    BY <2>5, <2>6, PartIndex
  <2>8. \A i \in 1..(m - 1) : w[i] # "@"
    BY <1>1, <1>2, <2>2, <2>4
  <2>9. Len(d) = Len(w) - m
    BY <2>7 DEF k
  <2>10. \A i \in 1..Len(d) : d[i] = w[m + i]
    BY <2>7
  <2> QED BY <2>4, <2>7, <2>8, <2>9, <2>10 DEF DomainIn
<1> QED BY <1>4, <1>5

(* The circuit reveals what follows the first @ that it searches for. *)
DomainOf(x, n, d) == d = Domain(SearchedIn(x, n - 1))

DomainShown(x, n, d) ==
    /\ RevealDomainOnly(Padded(x, n)) = Padded(d, n)
    /\ d \in Seq(Glyph) /\ Len(d) <= n
    /\ \A i \in 1..Len(d) : \E k \in 2..(Len(x) - 1) : d[i] = x[k]
    /\ (\A k \in 2..(Len(x) - 1) : x[k] # "@") => d = <<>>

(* What RevealDomainOnly reveals is the domain of what it searches. *)
LEMMA DomainRevealed ==
    ASSUME NEW x, UpToQuote(x), NEW n \in Nat \ {0},
           NEW d, DomainOf(x, n, d)
    PROVE  DomainShown(x, n, d)
<1> SUFFICES
       /\ RevealDomainOnly(Padded(x, n)) = Padded(d, n)
       /\ d \in Seq(Glyph) /\ Len(d) <= n
       /\ \A i \in 1..Len(d) : \E k \in 2..(Len(x) - 1) : d[i] = x[k]
       /\ (\A k \in 2..(Len(x) - 1) : x[k] # "@") => d = <<>>
  BY DEF DomainShown
<1> DEFINE a == Len(x)
           p == Padded(x, n)
           w == SearchedIn(x, n - 1)
           S == StripQuotes(p)
           B == AtSigns(p)
           at == IF B = {} THEN n ELSE Min(B)
           u == SubSeq(S, at + 1, n - 1)
           b == Len(w)
<1>1. /\ w \in Seq(Glyph) /\ b \in Nat
      /\ \A i : i \in 1..b <=> /\ i \in Nat /\ i >= 1
                               /\ i + 1 <= n - 1 /\ i + 1 <= a - 1
      /\ \A i \in 1..b : w[i] = x[i + 1]
  <2>1. n - 1 \in Nat
    OBVIOUS
  <2> QED BY <2>1, SearchedParts
<1>2. a \in Nat /\ a >= 2 /\ x \in Seq(Glyph) /\ x[a] = Quote
      /\ \A i \in 2..(a - 1) : x[i] # Quote
  BY DEF UpToQuote
<1>3. /\ p \in Seq(Glyph) /\ Len(p) = n
      /\ \A i \in 1..n : i <= a => p[i] = x[i]
      /\ \A i \in 1..n : i > a => p[i] = Nul
  BY <1>2, PaddedSeq
<1> HIDE DEF p
<1>4. \A i : i \in B <=> i \in 2..n /\ p[i] = "@"
  BY <1>3 DEF AtSigns
<1>5. S \in Seq(Glyph) /\ Len(S) = n
      /\ \A i \in 1..n : S[i] = IF p[i] = Quote THEN Nul ELSE p[i]
  <2>1. DOMAIN p = 1..n
    BY <1>3
  <2>2. S = [i \in 1..n |-> IF p[i] = Quote THEN Nul ELSE p[i]]
    BY <2>1 DEF StripQuotes
  <2>3. \A i \in 1..n : (IF p[i] = Quote THEN Nul ELSE p[i]) \in Glyph
    <3>1. \A i \in 1..n : p[i] \in Glyph
      BY <1>3, <2>1
    <3> QED BY <3>1, Glyphs
  <2> HIDE DEF S
  <2> QED BY <2>2, <2>3
<1>6. RevealDomainOnly(p) = Pack(u, n)
  BY <1>3 DEF RevealDomainOnly
<1> HIDE DEF S, B, w, a, b
<1>7. ASSUME NEW i \in 2..n
      PROVE  /\ i <= a - 1 => S[i] = x[i] /\ p[i] = x[i]
             /\ i > a - 1 => S[i] = Nul /\ p[i] # "@"
  <2>1. i \in 1..n /\ S[i] = IF p[i] = Quote THEN Nul ELSE p[i]
    BY <1>5
  <2>2. CASE i <= a - 1
    <3>1. i <= a /\ i \in 2..(a - 1) /\ ~(i > a - 1)
      BY <1>2, <2>2
    <3> QED BY <1>2, <1>3, <2>1, <2>2, <3>1
  <2>3. CASE i > a - 1
    <3>1. i = a \/ i > a
      BY <1>2, <2>3
    <3>2. CASE i = a
      <4>1. p[i] = Quote /\ ~(i <= a - 1)
        BY <1>2, <1>3, <2>1, <3>2
      <4> QED BY <2>1, <4>1, AtIsNoQuote
    <3>3. CASE i > a
      <4>1. p[i] = Nul /\ ~(i <= a - 1)
        BY <1>2, <1>3, <2>1, <3>3
      <4> QED BY <2>1, <4>1, AtIsNoQuote, GlyphsDiffer
    <3> QED BY <3>1, <3>2, <3>3
  <2> QED BY <1>2, <2>2, <2>3
<1>8. \/ d = <<>> /\ \A i \in 1..b : w[i] # "@"
      \/ \E m \in 1..b :
            /\ w[m] = "@" /\ \A i \in 1..(m - 1) : w[i] # "@"
            /\ d \in Seq(Glyph) /\ Len(d) = b - m
            /\ \A i \in 1..Len(d) : d[i] = w[m + i]
  <2>1. w \in Seq(Glyph) /\ d = Domain(w)
    BY <1>1 DEF w, DomainOf
  <2>2. DomainIn(w, d)
    BY ONLY <2>1, DomainParts
  <2> QED BY <2>2 DEF DomainIn, b
<1>9. ASSUME NEW y \in B, y <= n - 1
      PROVE  y - 1 \in 1..b /\ w[y - 1] = "@"
  <2>1. y \in 2..n /\ p[y] = "@"
    BY <1>4
  <2>2. y <= a - 1 /\ p[y] = x[y]
    BY <1>2, <1>7, <2>1
  <2> DEFINE i == y - 1
  <2>3. i \in Nat /\ i >= 1 /\ i + 1 <= n - 1 /\ i + 1 <= a - 1 /\ i + 1 = y
    BY <1>2, <1>9, <2>1, <2>2
  <2> HIDE DEF i
  <2>4. i \in 1..b
    BY <1>1, <2>3
  <2>5. w[i] = "@"
    BY <1>1, <2>1, <2>2, <2>3, <2>4
  <2> QED BY <2>4, <2>5 DEF i
<1>10. B \in SUBSET Nat
  BY <1>4
<1>11. CASE d = <<>> /\ \A i \in 1..b : w[i] # "@"
  <2>1. at = n
    <3>1. CASE B = {}
      BY <3>1
    <3>2. CASE B # {}
      <4>1. at = Min(B)
        BY <3>2
      <4>2. at \in B
        BY <1>10, <3>2, <4>1, MinOfSet
      <4>3. at \in 2..n
        BY <1>4, <4>2
      <4> HIDE DEF at
      <4>4. ~(at <= n - 1)
        BY <1>9, <1>11, <4>2
      <4> QED BY <4>3, <4>4
    <3> QED BY <3>1, <3>2
  <2>2. u = <<>>
    <3>1. u = SubSeq(S, n + 1, n - 1)
      BY <2>1
    <3> HIDE DEF u, at
    <3> QED BY <1>5, <3>1
  <2>3. d \in Seq(Glyph) /\ Len(d) = 0
    BY <1>11, Punctuation
  <2>4. Pack(d, n) = Padded(d, n)
    <3>1. n \in Nat /\ Len(d) <= n
      BY <2>3
    <3> QED BY <2>3, <3>1, PackPadded
  <2>5. u = d
    BY <1>11, <2>2
  <2> HIDE DEF u
  <2>6. RevealDomainOnly(p) = Padded(d, n)
    BY <1>6, <2>4, <2>5
  <2>7. Len(d) <= n /\ \A i \in 1..Len(d) : FALSE
    BY <2>3
  <2> QED BY <1>11, <2>3, <2>6, <2>7 DEF p, a
<1>12. ASSUME NEW m \in 1..b,
              w[m] = "@", \A i \in 1..(m - 1) : w[i] # "@",
              d \in Seq(Glyph), Len(d) = b - m,
              \A i \in 1..Len(d) : d[i] = w[m + i]
       PROVE  /\ RevealDomainOnly(p) = Padded(d, n)
              /\ Len(d) <= n
              /\ \A i \in 1..Len(d) : \E k \in 2..(a - 1) : d[i] = x[k]
              /\ \E k \in 2..(a - 1) : x[k] = "@"
  <2> DEFINE z == m + 1
             e == Len(d)
  <2>1. /\ m \in Nat /\ m >= 1 /\ z <= n - 1 /\ z <= a - 1 /\ x[z] = "@"
        /\ z \in Nat /\ z >= 2
    <3>1. /\ m \in Nat /\ m >= 1 /\ m + 1 <= n - 1 /\ m + 1 <= a - 1
          /\ w[m] = x[m + 1]
      BY <1>1
    <3> QED BY <1>12, <3>1
  <2>2. e \in Nat /\ e = b - m
    BY <1>1, <1>12
  <2>3. \A i : i \in 1..e <=> /\ i \in Nat /\ i >= 1
                              /\ z + i <= n - 1 /\ z + i <= a - 1
    <3> HIDE DEF e
    <3> TAKE i
    <3>1. ASSUME i \in 1..e
          PROVE  /\ i \in Nat /\ i >= 1 /\ z + i <= n - 1 /\ z + i <= a - 1
      <4>1. m + i \in 1..b /\ i \in Nat /\ i >= 1
        BY <1>1, <2>1, <2>2, <3>1
      <4> DEFINE q == m + i
      <4>2. q \in 1..b /\ q + 1 = z + i
        BY <2>1, <4>1
      <4> HIDE DEF q, z
      <4>3. q + 1 <= n - 1 /\ q + 1 <= a - 1
        BY <1>1, <4>2
      <4> QED BY <4>1, <4>2, <4>3
    <3>2. ASSUME i \in Nat, i >= 1, z + i <= n - 1, z + i <= a - 1
          PROVE  i \in 1..e
      <4> DEFINE q == m + i
      <4>1. q \in Nat /\ q >= 1 /\ q + 1 <= n - 1 /\ q + 1 <= a - 1
        BY <1>2, <2>1, <3>2
      <4> HIDE DEF q
      <4>2. q \in 1..b
        BY <1>1, <4>1
      <4> QED BY <1>1, <2>1, <2>2, <3>2, <4>2 DEF q
    <3> QED BY <3>1, <3>2
  <2>4. \A i \in 1..e : d[i] = x[z + i]
    <3> TAKE i \in 1..e
    <3>1. m + i \in 1..b /\ (m + i) + 1 = z + i
      <4> HIDE DEF e
      <4> QED BY <1>1, <2>1, <2>2
    <3>2. w[m + i] = x[(m + i) + 1]
      BY <1>1, <3>1
    <3> QED BY <1>12, <3>1, <3>2
  <2> HIDE DEF e, z
  <2>5. z \in B
    <3>1. z \in 2..n
      BY <2>1
    <3>2. p[z] = x[z]
      BY <1>7, <2>1, <3>1
    <3> QED BY <1>4, <2>1, <3>1, <3>2
  <2>6. ASSUME NEW y \in B PROVE z <= y
    <3> SUFFICES ASSUME y < z PROVE FALSE
      BY <1>10, <2>1
    <3>1. y \in 2..n /\ y <= n - 1 /\ z = m + 1
      BY <1>4, <2>1 DEF z
    <3>2. y - 1 \in 1..b /\ w[y - 1] = "@"
      BY <1>9, <3>1
    <3>3. y - 1 \in 1..(m - 1)
      BY <2>1, <3>1
    <3> QED BY <1>12, <3>2, <3>3
  <2>7. at = z
    BY <1>10, <2>5, <2>6, MinIs
  <2> DEFINE c == n - 1 - z
  <2>8. c \in Nat /\ z + c = n - 1 /\ z + c <= n
    BY <2>1
  <2>9. u \in Seq(Glyph) /\ Len(u) = c /\ \A i \in 1..c : u[i] = S[z + i]
    <3>1. u = SubSeq(S, z + 1, z + c)
      BY <2>7, <2>8
    <3> HIDE DEF u, c
    <3> QED BY <1>5, <2>1, <2>8, <3>1, PartIndex
  <2> HIDE DEF u, at
  <2>10. Pack(u, n) = Padded(u, n)
    <3>1. c <= n
      BY <2>1
    <3> HIDE DEF c
    <3> QED BY <2>9, <3>1, PackPadded
  <2> DEFINE pu == Padded(u, n)
             pd == Padded(d, n)
  <2>11. /\ pu \in Seq(Glyph) /\ Len(pu) = n
         /\ \A i \in 1..n : i <= c => pu[i] = u[i]
         /\ \A i \in 1..n : i > c => pu[i] = Nul
    BY <2>9, PaddedSeq
  <2>12. /\ pd \in Seq(Glyph) /\ Len(pd) = n
         /\ \A i \in 1..n : i <= e => pd[i] = d[i]
         /\ \A i \in 1..n : i > e => pd[i] = Nul
    BY <1>12, PaddedSeq DEF e
  <2> HIDE DEF pu, pd
  <2>13. ASSUME NEW i \in 1..n PROVE pu[i] = pd[i]
    <3>1. CASE i <= e
      <4>1. i \in 1..e
        BY <2>2, <3>1
      <4>2. z + i <= n - 1 /\ z + i <= a - 1 /\ z + i \in 2..n
        BY <2>1, <2>3, <4>1
      <4>3. i <= c /\ i \in 1..c
        BY <2>1, <4>2
      <4>4. S[z + i] = x[z + i]
        BY <1>7, <4>2
      <4> HIDE DEF c
      <4> QED BY <2>4, <2>9, <2>11, <2>12, <3>1, <4>1, <4>3, <4>4
    <3>2. CASE i > e /\ i <= c
      <4>1. i \in 1..c /\ z + i \in 2..n /\ z + i <= n - 1
        BY <2>1, <3>2
      <4>2. i \notin 1..e
        BY <2>2, <3>2
      <4>3. z + i > a - 1
        BY <1>2, <2>1, <2>3, <4>1, <4>2
      <4>4. S[z + i] = Nul
        BY <1>7, <4>1, <4>3
      <4> HIDE DEF c
      <4> QED BY <2>9, <2>11, <2>12, <3>2, <4>1, <4>4
    <3>3. CASE i > e /\ i > c
      BY <2>11, <2>12, <3>3
    <3> QED BY <2>2, <2>8, <3>1, <3>2, <3>3
  <2>14. pu = pd
    BY <2>11, <2>12, <2>13, SameSeq
  <2>15. RevealDomainOnly(p) = Padded(d, n)
    BY <1>6, <2>10, <2>14 DEF pu, pd
  <2>16. e <= n
    <3> SUFFICES ASSUME e > n PROVE FALSE
      BY <2>2
    <3>1. e \in 1..e
      BY <2>2
    <3>2. z + e <= n - 1
      BY <2>3, <3>1
    <3> QED BY <2>1, <2>2, <3>2
  <2>17. \A i \in 1..e : z + i \in 2..(a - 1)
    BY <1>2, <2>1, <2>3
  <2>18. z \in 2..(a - 1)
    BY <1>2, <2>1
  <2> QED BY <2>1, <2>4, <2>15, <2>16, <2>17, <2>18 DEF e
<1>13. CASE \E m \in 1..b :
               /\ w[m] = "@" /\ \A i \in 1..(m - 1) : w[i] # "@"
               /\ d \in Seq(Glyph) /\ Len(d) = b - m
               /\ \A i \in 1..Len(d) : d[i] = w[m + i]
  BY <1>12, <1>13 DEF p, a
<1> QED BY <1>8, <1>11, <1>13

(* The circuit reads the digits that it finds. *)
LEMMA NumberRevealed ==
    ASSUME NEW x \in Seq(Glyph), \A i \in 1..Len(x) : x[i] \in Digit,
           NEW n \in Nat
    PROVE  AsciiDigitsToField(Padded(x, n))
             = IF Len(x) < n THEN Number(x)
                             ELSE Number(SubSeq(x, 1, n)) + 48
<1> DEFINE a == Len(x)
           p == Padded(x, n)
           y == SubSeq(x, 1, n)
<1>1. a \in Nat /\ x = [i \in 1..a |-> x[i]]
  OBVIOUS
<1>2. /\ p \in Seq(Glyph) /\ Len(p) = n
      /\ \A i \in 1..n : i <= a => p[i] = x[i]
      /\ \A i \in 1..n : i > a => p[i] = Nul
  BY PaddedSeq
<1>3. \A i \in 1..a : x[i] \in Digit /\ x[i] # Nul
  BY DigitValues
<1>4. AsciiDigitsToField(p)
        = Number(Trimmed(p)) + (IF Len(Trimmed(p)) = n THEN 48 ELSE 0)
  BY <1>2 DEF AsciiDigitsToField
<1> HIDE DEF p, a
<1>5. CASE a < n
  <2> DEFINE v == SubSeq(p, 1, a)
  <2>1. Trimmed(p) = v
    <3>1. a \in 0..Len(p)
      BY <1>1, <1>2, <1>5
    <3>2. \A i \in 1..a : p[i] # Nul
      BY <1>1, <1>2, <1>3, <1>5
    <3>3. \A i \in (a + 1)..Len(p) : p[i] = Nul
      BY <1>1, <1>2, <1>5
    <3> QED BY <1>2, <3>1, <3>2, <3>3, TrimmedUpTo
  <2>2. v = x
    <3>1. 0 \in Nat /\ 0 + a <= Len(p) /\ v = SubSeq(p, 0 + 1, 0 + a)
      BY <1>1, <1>2, <1>5
    <3>2. v \in Seq(Glyph) /\ Len(v) = a /\ \A i \in 1..a : v[i] = p[0 + i]
      BY <1>1, <1>2, <3>1, PartIndex
    <3> HIDE DEF v
    <3>3. \A i \in 1..a : v[i] = x[i]
      BY <1>1, <1>2, <1>5, <3>2
    <3> QED BY <3>2, <3>3, SameSeq DEF a
  <2>3. Number(x) \in Nat
    <3>1. x \in Seq(Digit)
      BY <1>1, <1>3
    <3> QED BY <3>1, NumberIsNat
  <2> HIDE DEF v
  <2>4. AsciiDigitsToField(p) = Number(x) + (IF Len(x) = n THEN 48 ELSE 0)
    BY <1>4, <2>1, <2>2
  <2>5. Len(x) # n
    BY <1>1, <1>5 DEF a
  <2> DEFINE N == Number(x)
  <2>6. N \in Nat /\ AsciiDigitsToField(p) = N + 0
    BY <2>3, <2>4, <2>5
  <2> HIDE DEF N
  <2>7. AsciiDigitsToField(p) = N
    BY <2>6
  <2> QED BY <1>5, <2>7 DEF N, a, p
<1>6. CASE ~(a < n)
  <2> DEFINE v == SubSeq(p, 1, n)
  <2>1. Trimmed(p) = v
    <3>1. n \in 0..Len(p)
      BY <1>2
    <3>2. \A i \in 1..n : p[i] # Nul
      BY <1>1, <1>2, <1>3, <1>6
    <3>3. \A i \in (n + 1)..Len(p) : p[i] = Nul
      BY <1>2
    <3> QED BY <1>2, <3>1, <3>2, <3>3, TrimmedUpTo
  <2>2. y \in Seq(Glyph) /\ Len(y) = n /\ \A i \in 1..n : y[i] = x[0 + i]
    <3>1. 0 \in Nat /\ 0 + n <= Len(x) /\ y = SubSeq(x, 0 + 1, 0 + n)
      BY <1>1, <1>6 DEF a
    <3> HIDE DEF y
    <3> QED BY <3>1, PartIndex
  <2>3. v \in Seq(Glyph) /\ Len(v) = n /\ \A i \in 1..n : v[i] = p[0 + i]
    <3>1. 0 \in Nat /\ 0 + n <= Len(p) /\ v = SubSeq(p, 0 + 1, 0 + n)
      BY <1>2
    <3> HIDE DEF v
    <3> QED BY <1>2, <3>1, PartIndex
  <2> HIDE DEF v, y
  <2>4. \A i \in 1..n : v[i] = y[i]
    <3> TAKE i \in 1..n
    <3>1. 0 + i = i /\ i <= a
      BY <1>1, <1>6
    <3> QED BY <1>2, <2>2, <2>3, <3>1
  <2>5. v = y
    BY <2>2, <2>3, <2>4, SameSeq
  <2>6. AsciiDigitsToField(p) = Number(y) + 48
    BY <1>4, <2>1, <2>2, <2>5
  <2> QED BY <1>6, <2>6 DEF y, a, p
<1> QED BY <1>5, <1>6

(* What an issuer writes has the form that the lemmas ask for. *)
LEMMA StringsAreGlyphs == Seq(STRING) \subseteq Seq(Glyph)
<1>1. STRING \subseteq Glyph
  BY Glyphs
<1>2. ASSUME NEW S, NEW U, S \subseteq U PROVE Seq(S) \subseteq Seq(U)
  BY <1>2
<1> QED BY <1>1, <1>2

(* A name of the model is a name in the sense of the lemmas. *)
LEMMA NameIsNamed ==
    ASSUME NEW x, IsName(x)
    PROVE  Named(x)
<1>1. /\ x \in Seq(STRING) /\ Range(x) \cap Structural = {}
      /\ x # <<>> => x[1] \notin Follower
  BY DEF IsName
<1>2. x \in Seq(Glyph)
  BY <1>1, StringsAreGlyphs
<1>3. ASSUME NEW k \in 1..Len(x) PROVE x[k] \notin Structural
  <2>1. DOMAIN x = 1..Len(x)
    BY <1>1
  <2>2. x[k] \in Range(x)
    BY <2>1 DEF Range
  <2> QED BY <1>1, <2>2
<1>4. Len(x) > 0 => x[1] \notin Follower
  <2>1. Len(x) > 0 => x # <<>>
    BY <1>1
  <2> QED BY <1>1, <2>1
<1> QED BY <1>2, <1>3, <1>4 DEF Named

(* A member of the model is a member in the sense of the lemmas. *)
LEMMA MemberIsGood ==
    ASSUME NEW m \in Members
    PROVE  GoodMember(m) /\ NulFree(m.value.text)
<1> DEFINE x == m.value.text
<1>1. Named(m.name)
  BY NameAssumption, NameIsNamed
<1>2. /\ m.value.kind \in {"string", "number", "list", "object"}
      /\ x \in Seq(STRING) /\ Nul \notin Range(x)
      /\ m.value.kind = "number" =>
           x # <<>> /\ Range(x) \subseteq Digit \cup {"-", "+", ".", "e", "E"}
      /\ m.value.kind = "object" => IsName(x)
  BY ValueAssumption
<1> HIDE DEF x
<1>3. x \in Seq(Glyph) /\ DOMAIN x = 1..Len(x) /\ Len(x) \in Nat
  <2>1. x \in Seq(Glyph)
    BY <1>2, StringsAreGlyphs
  <2> QED BY <2>1
<1>4. \A k \in 1..Len(x) : x[k] \in Range(x)
  BY <1>3 DEF Range
<1>5. NulFree(x)
  BY <1>2, <1>4 DEF NulFree
<1>6. m.value.kind = "object" => Named(x)
  BY <1>2, NameIsNamed
<1>7. ASSUME m.value.kind = "number"
      PROVE  /\ Len(x) > 0
             /\ \A k \in 1..Len(x) : x[k] \notin Marks /\ x[k] # Space
  <2>1. Len(x) > 0
    BY <1>2, <1>3, <1>7
  <2> QED BY <1>2, <1>4, <1>7, <2>1, NumberChars
<1>8. GoodValue(m.value)
  BY <1>2, <1>3, <1>6, <1>7 DEF GoodValue, x
<1> QED BY <1>1, <1>5, <1>8 DEF GoodMember, x

(* So are the members of a header or of a payload. *)
LEMMA MembersAreGood ==
    ASSUME NEW ms \in Seq(Members)
    PROVE  GoodMembers(ms)
<1>1. Len(ms) \in Nat /\ ms = [i \in 1..Len(ms) |-> ms[i]]
      /\ \A i \in 1..Len(ms) : ms[i] \in Members
  OBVIOUS
<1> QED BY <1>1, MemberIsGood DEF GoodMembers

(* What else is known of a token on its way: how its payload grew, and why
   it is where it is. *)
OutcomeInv ==
    /\ header \in Header /\ sep \in Separator
    /\ \A i \in DOMAIN header : Typed(header[i])
    /\ \E f : Grows(f, claims, sep) /\ payload = f[Len(claims)]
    /\ stage # "issuing" => claims # <<>>
    /\ stage = "refused" => ~Prepares(Token, config)
    /\ stage \in {"prepared", "unprovable", "proved", "accepted", "rejected"}
         => /\ Prepares(Token, config)
            /\ inputs = <<prepare_prover_inputs(Token, config)>>
    /\ stage = "unprovable" => ~Main(inputs[1], config)
    /\ stage \in {"proved", "accepted", "rejected"} =>
         /\ Main(inputs[1], config)
         /\ public = Output(inputs[1], config)
    /\ stage = "accepted" => Opens
    /\ stage = "rejected" => ~Opens

(* The empty object, before the first member. *)
LEMMA NothingGrown ==
    ASSUME NEW s
    PROVE  \E f : Grows(f, <<>>, s) /\ Open = f[Len(<<>>)]
<1> DEFINE f == [i \in 0..0 |-> Open]
           e == <<>>
<1>1. Len(e) = 0 /\ 0 \in 0..0
  OBVIOUS
<1>2. f \in [0..0 -> Seq(Glyph)] /\ f[0] = Open
  BY Punctuation
<1> HIDE DEF f, e
<1>3. Grows(f, e, s) /\ Open = f[Len(e)]
  BY <1>1, <1>2 DEF Grows
<1> QED BY <1>3 DEF e

(* The members of a payload are members. *)
LEMMA ClaimsAreMembers ==
    ASSUME FlowInv
    PROVE  claims \in Seq(Members)
<1> DEFINE S == {m \in Member : Typed(m)}
<1>1. S \subseteq Members
  BY DEF Members
<1>2. claims \in Seq(S)
  BY DEF FlowInv
<1> HIDE DEF S
<1> QED BY <1>1, <1>2

(* The invariant holds in the beginning. *)
LEMMA OutcomeInvInit == Init => OutcomeInv
<1> SUFFICES ASSUME Init PROVE OutcomeInv
  OBVIOUS
<1>1. /\ header \in Header /\ \A i \in DOMAIN header : Typed(header[i])
      /\ sep \in Separator /\ claims = <<>> /\ payload = Open
      /\ stage = "issuing"
  BY DEF Init
<1>2. \E f : Grows(f, claims, sep) /\ payload = f[Len(claims)]
  <2>1. \E f : Grows(f, <<>>, sep) /\ Open = f[Len(<<>>)]
    BY NothingGrown
  <2> QED BY ONLY <1>1, <2>1
<1> QED BY <1>1, <1>2 DEF OutcomeInv

(* It holds when the issuer has put one more member in. *)
LEMMA OutcomeInvIssue ==
    ASSUME FlowInv, OutcomeInv, NEW m \in Member, Issue(m)
    PROVE  OutcomeInv'
<1>1. /\ stage = "issuing" /\ stage' = stage /\ header' = header
      /\ sep' = sep /\ config' = config /\ claims' = Append(claims, m)
      /\ payload' = WithMember(payload, m, sep)
  BY DEF Issue
<1>2. PICK f : Grows(f, claims, sep) /\ payload = f[Len(claims)]
  BY DEF OutcomeInv
<1>3. GoodMembers(claims)
  BY ClaimsAreMembers, MembersAreGood
<1>4. GoodMember(m)
  BY MemberIsGood DEF Members
<1>5. sep \in Separators
  BY NameAssumption DEF OutcomeInv, Separators, Tight, Loose
<1>6. PICK h : /\ Grows(h, Append(claims, m), sep)
               /\ h[Len(claims) + 1] = WithMember(f[Len(claims)], m, sep)
  BY <1>2, <1>3, <1>4, <1>5, GrowsOn
<1>7. Len(Append(claims, m)) = Len(claims) + 1
  <2>1. claims \in Seq(Members) /\ m \in Members
    BY ClaimsAreMembers DEF Members
  <2> QED BY <2>1
<1> DEFINE z == Append(claims, m)
<1>8. Grows(h, z, sep) /\ WithMember(payload, m, sep) = h[Len(z)]
  BY <1>2, <1>6, <1>7
<1> HIDE DEF z
<1>9. \E g : Grows(g, claims', sep') /\ payload' = g[Len(claims')]
  <2>1. claims' = z
    BY <1>1 DEF z
  <2>2. Grows(h, claims', sep') /\ payload' = h[Len(claims')]
    BY <1>1, <1>8, <2>1
  <2> QED BY <2>2
<1>10. header' \in Header /\ sep' \in Separator
       /\ (\A i \in DOMAIN header : Typed(header[i]))'
  BY <1>1 DEF OutcomeInv, Typed
<1>11. stage' = "issuing"
  BY <1>1
<1>12. (\E g : Grows(g, claims, sep) /\ payload = g[Len(claims)])'
  BY <1>9
<1> QED BY <1>10, <1>11, <1>12 DEF OutcomeInv

(* The other steps do not touch what it speaks of. *)
LEMMA OutcomeInvNext ==
    ASSUME FlowInv, OutcomeInv, [Next]_vars,
           ~(\E m \in Member : Issue(m))
    PROVE  OutcomeInv'
<1>1. UNCHANGED issued
  BY DEF Next, PrepareSucceeds, PrepareFails, ProveSucceeds,
         ProveFails, VerifyAccepts, VerifyRefuses, vars
<1>2. /\ config' = config /\ claims' = claims /\ Token' = Token
      /\ header' = header /\ sep' = sep /\ payload' = payload
  BY <1>1 DEF issued, Token
<1> DEFINE Told ==
             /\ header \in Header /\ sep \in Separator
             /\ \A i \in DOMAIN header : Typed(header[i])
             /\ \E f : Grows(f, claims, sep) /\ payload = f[Len(claims)]
<1>3. Told'
  <2>1. Told
    BY DEF OutcomeInv
  <2>2. Told' <=> Told
    BY <1>2 DEF Typed
  <2> QED BY <2>1, <2>2
<1> HIDE DEF Told
<1>4. CASE PrepareSucceeds
  <2>1. /\ claims # <<>> /\ Prepares(Token, config)
        /\ inputs' = <<prepare_prover_inputs(Token, config)>>
        /\ stage' = "prepared"
    BY <1>4 DEF PrepareSucceeds
  <2> QED BY <1>2, <1>3, <2>1 DEF OutcomeInv, Told
<1>5. CASE PrepareFails
  <2>1. /\ claims # <<>> /\ ~Prepares(Token, config) /\ stage' = "refused"
    BY <1>5 DEF PrepareFails
  <2> QED BY <1>2, <1>3, <2>1 DEF OutcomeInv, Told
<1>6. CASE ProveSucceeds
  <2>1. /\ stage = "prepared" /\ stage' = "proved" /\ inputs' = inputs
        /\ Main(inputs[1], config) /\ public' = Output(inputs[1], config)
    BY <1>6 DEF ProveSucceeds
  <2> QED BY <1>2, <1>3, <2>1 DEF OutcomeInv, Told
<1>7. CASE ProveFails
  <2>1. /\ stage = "prepared" /\ stage' = "unprovable" /\ inputs' = inputs
        /\ ~Main(inputs[1], config)
    BY <1>7 DEF ProveFails
  <2> QED BY <1>2, <1>3, <2>1 DEF OutcomeInv, Told
<1>8. CASE VerifyAccepts
  <2>1. /\ stage = "proved" /\ stage' = "accepted" /\ inputs' = inputs
        /\ public' = public /\ Opens
    BY <1>8 DEF VerifyAccepts
  <2>2. Opens'
    BY <1>2, <2>1 DEF Opens, Preimage
  <2> QED BY <1>2, <1>3, <2>1, <2>2 DEF OutcomeInv, Told
<1>9. CASE VerifyRefuses
  <2>1. /\ stage = "proved" /\ stage' = "rejected" /\ inputs' = inputs
        /\ public' = public /\ ~Opens
    BY <1>9 DEF VerifyRefuses
  <2>2. ~Opens'
    BY <1>2, <2>1 DEF Opens, Preimage
  <2> QED BY <1>2, <1>3, <2>1, <2>2 DEF OutcomeInv, Told
<1>10. CASE UNCHANGED vars
  <2>1. stage' = stage /\ inputs' = inputs /\ public' = public
    BY <1>10 DEF vars
  <2>2. Opens' = Opens
    BY <1>2, <2>1 DEF Opens, Preimage
  <2> QED BY <1>2, <1>3, <2>1, <2>2 DEF OutcomeInv, Told
<1> QED BY <1>4, <1>5, <1>6, <1>7, <1>8, <1>9, <1>10 DEF Next

(* Whatever the steps: the text of the payload grew from its members, and
   the token is where it is because of what prep_inputs, the circuit and
   the verifier decided. *)
LEMMA OutcomeInvInvariant == Spec => [](FlowInv /\ OutcomeInv)
<1>1. FlowInv /\ OutcomeInv /\ [Next]_vars => OutcomeInv'
  <2> SUFFICES ASSUME FlowInv, OutcomeInv, [Next]_vars PROVE OutcomeInv'
    OBVIOUS
  <2>1. CASE \E m \in Member : Issue(m)
    BY <2>1, OutcomeInvIssue
  <2>2. CASE ~(\E m \in Member : Issue(m))
    BY <2>2, OutcomeInvNext
  <2> QED BY <2>1, <2>2
<1> QED BY <1>1, OutcomeInvInit, FlowInvInvariant, PTL DEF Spec

(* The token as the lemmas see it: what follows each name, and the text of
   each member. *)
Text == HeaderAndPayload(Token)

TokenSeps == [i \in 1..Len(All) |-> IF i <= Len(header) THEN Tight ELSE sep]

TokenTexts == [i \in 1..Len(All) |-> MemberText(All[i], TokenSeps[i])]

(* The members of the header and of the payload, in one sequence. *)
LEMMA AllMembers ==
    ASSUME FlowInv, OutcomeInv
    PROVE  /\ header \in Seq(Members) /\ claims \in Seq(Members)
           /\ All \in Seq(Members) /\ Len(All) = Len(header) + Len(claims)
           /\ \A i \in 1..Len(header) : All[i] = header[i]
           /\ \A i \in 1..Len(claims) : All[Len(header) + i] = claims[i]
           /\ sep \in Separators
           /\ \A i \in 1..Len(All) : Typed(All[i])
           /\ \A i \in 1..Len(All) : All[i] \in Members
           /\ DOMAIN All = 1..Len(All) /\ Len(All) \in Nat
<1>1. header \in Seq(Members)
  BY NameAssumption DEF OutcomeInv
<1>2. claims \in Seq(Members)
  BY ClaimsAreMembers
<1>3. All = header \o claims
  BY DEF All
<1>4. /\ All \in Seq(Members) /\ Len(All) = Len(header) + Len(claims)
      /\ \A i \in 1..Len(header) : All[i] = header[i]
      /\ \A i \in 1..Len(claims) : All[Len(header) + i] = claims[i]
  BY <1>1, <1>2, <1>3, ConcatIndex
<1>5. sep \in Separators
  BY NameAssumption DEF OutcomeInv, Separators, Tight, Loose
<1> DEFINE H == Len(header)
           K == Len(claims)
           n == Len(All)
<1>6. H \in Nat /\ K \in Nat /\ n = H + K
  BY <1>1, <1>2, <1>4
<1>7. \A i \in 1..H : Typed(header[i])
  <2>1. DOMAIN header = 1..H
    BY <1>1
  <2> QED BY <2>1 DEF OutcomeInv
<1>8. \A i \in 1..K : Typed(claims[i])
  <2> DEFINE S == {m \in Member : Typed(m)}
  <2>1. claims \in Seq(S)
    BY DEF FlowInv
  <2> HIDE DEF S
  <2>2. \A i \in 1..K : claims[i] \in S
    BY <2>1
  <2> QED BY <2>2 DEF S
<1>9. DOMAIN All = 1..n
  BY <1>4
<1>10. \A i \in 1..n : All[i] \in Members
  BY <1>4
<1> HIDE DEF H, K, n
<1>11. ASSUME NEW i \in 1..n PROVE Typed(All[i])
  <2>1. CASE i <= H
    <3>1. i \in 1..H
      BY <1>6, <2>1
    <3> QED BY <1>4, <1>7, <3>1 DEF H
  <2>2. CASE ~(i <= H)
    <3> DEFINE k == i - H
    <3>1. k \in 1..K /\ H + k = i
      BY <1>6, <2>2
    <3> HIDE DEF k
    <3>2. All[H + k] = claims[k]
      BY <1>4, <3>1 DEF H, K
    <3> QED BY <1>8, <3>1, <3>2
  <2> QED BY <2>1, <2>2
<1>12. n \in Nat
  BY <1>6
<1> QED BY <1>1, <1>2, <1>4, <1>5, <1>9, <1>10, <1>11, <1>12 DEF n

(* Every member of the token is written with its separator. *)
LEMMA SepsAndTexts ==
    ASSUME FlowInv, OutcomeInv
    PROVE  /\ \A i \in 1..Len(All) :
                 /\ TokenSeps[i] \in Separators
                 /\ Written(TokenTexts[i], All[i], TokenSeps[i])
                 /\ GoodMember(All[i])
                 /\ sep = Tight => TokenSeps[i] = Tight
           /\ TextsOf(TokenTexts, header, claims, sep)
           /\ \A i \in 1..Len(claims) : TokenSeps[Len(header) + i] = sep
<1> DEFINE H == Len(header)
           K == Len(claims)
           n == Len(All)
<1>1. /\ sep \in Separators /\ \A i \in 1..n : All[i] \in Members
      /\ H \in Nat /\ K \in Nat /\ n = H + K
      /\ \A i \in 1..H : All[i] = header[i]
      /\ \A i \in 1..K : All[H + i] = claims[i]
  <2>1. header \in Seq(Members) /\ claims \in Seq(Members)
    BY AllMembers
  <2> QED BY <2>1, AllMembers
<1> HIDE DEF H, K, n
<1>2. \A i \in 1..n : TokenSeps[i] = IF i <= H THEN Tight ELSE sep
  BY DEF TokenSeps, H, n
<1>3. \A i \in 1..n : TokenTexts[i] = MemberText(All[i], TokenSeps[i])
  BY DEF TokenTexts, n
<1>4. ASSUME NEW i \in 1..n
      PROVE  /\ TokenSeps[i] \in Separators
             /\ Written(TokenTexts[i], All[i], TokenSeps[i])
             /\ GoodMember(All[i])
             /\ sep = Tight => TokenSeps[i] = Tight
  <2>1. Tight \in Separators
    BY DEF Separators
  <2>2. TokenSeps[i] = Tight \/ TokenSeps[i] = sep
    BY <1>2
  <2>3. TokenSeps[i] \in Separators
    BY <1>1, <2>1, <2>2
  <2>4. GoodMember(All[i])
    BY <1>1, MemberIsGood
  <2>5. Written(MemberText(All[i], TokenSeps[i]), All[i], TokenSeps[i])
    BY <2>3, <2>4, MemberWritten
  <2>6. TokenTexts[i] = MemberText(All[i], TokenSeps[i])
    BY <1>3
  <2> QED BY <2>2, <2>3, <2>4, <2>5, <2>6
<1>5. ASSUME NEW i \in 1..H PROVE TokenTexts[i] = MemberText(header[i], Tight)
  <2>1. i \in 1..n /\ i <= H
    BY <1>1
  <2> QED BY <1>1, <1>2, <1>3, <2>1
<1>6. ASSUME NEW i \in 1..K
      PROVE  /\ TokenTexts[H + i] = MemberText(claims[i], sep)
             /\ TokenSeps[H + i] = sep
  <2>1. H + i \in 1..n /\ ~(H + i <= H)
    BY <1>1
  <2> QED BY <1>1, <1>2, <1>3, <2>1
<1>7. TextsOf(TokenTexts, header, claims, sep)
  BY <1>5, <1>6 DEF TextsOf, H, K
<1> QED BY <1>4, <1>6, <1>7 DEF n, H, K

(* The text that prepare_prover_inputs searches has an outline. *)
LEMMA TokenOutline ==
    ASSUME FlowInv, OutcomeInv
    PROVE  \E start, opens :
              Outline(Text, All, TokenSeps, Len(All), TokenTexts, start, opens)
<1> DEFINE pad == base_64_decoded_header_padding(period_idx(Token))
<1>1. PICK f : Grows(f, claims, sep) /\ payload = f[Len(claims)]
  BY DEF OutcomeInv
<1>2. GoodMembers(header) /\ GoodMembers(claims) /\ sep \in Separators
  BY AllMembers, MembersAreGood
<1>3. TextsOf(TokenTexts, header, claims, sep)
  BY SepsAndTexts
<1>4. Token.header = ObjectText(header, Tight)
      /\ Token.payload = Closed(f[Len(claims)])
  BY <1>1 DEF Token, Tight
<1>5. Token.header \in Seq(Bytes)
  BY <1>4, TextAssumption, TextSeq DEF OutcomeInv, Tight
<1>6. pad \in Seq(Bytes) /\ AllNul(pad)
  <2> DEFINE z == Len(Token.header)
  <2>1. z \in Nat
    BY <1>5
  <2>2. period_idx(Token) = EncodedLen(z)
    BY <1>5, EncodedType DEF period_idx
  <2> HIDE DEF z
  <2> DEFINE b == base_64_decoded_header_padding(EncodedLen(z))
  <2>3. b \in Seq(Bytes) /\ \A i \in 1..Len(b) : b[i] = Nul
    BY <2>1, HeaderFill
  <2>4. pad = b
    BY <2>2
  <2> HIDE DEF b, pad
  <2> QED BY <2>3, <2>4 DEF AllNul
<1> HIDE DEF pad
<1>7. pad \in Seq(Glyph)
  <2>1. Bytes \subseteq Glyph
    BY Glyphs DEF Chars
  <2>2. ASSUME NEW S, NEW U, S \subseteq U PROVE Seq(S) \subseteq Seq(U)
    BY <2>2
  <2> QED BY <1>6, <2>1, <2>2
<1>8. Text = ObjectText(header, Tight) \o pad \o Closed(f[Len(claims)])
  BY <1>4 DEF Text, HeaderAndPayload, pad
<1> DEFINE n == Len(header) + Len(claims)
<1>9. PICK start, opens :
         /\ Laid(Text, TokenTexts, n, start, opens, -1)
         /\ Clear(Text, TokenTexts, n, start)
         /\ Rising(opens, TokenTexts, n)
  <2>1. LET t == ObjectText(header, Tight) \o pad \o Closed(f[Len(claims)])
        IN  \E start, opens :
               /\ Laid(t, TokenTexts, n, start, opens, -1)
               /\ Clear(t, TokenTexts, n, start)
               /\ Rising(opens, TokenTexts, n)
    BY <1>1, <1>2, <1>3, <1>6, <1>7, TokenLaid
  <2> HIDE DEF n
  <2> QED BY <1>8, <2>1
<1>10. n = Len(All)
  BY AllMembers
<1> HIDE DEF n
<1>11. \A i \in 1..Len(All) : /\ GoodMember(All[i])
                              /\ TokenSeps[i] \in Separators
                              /\ Written(TokenTexts[i], All[i], TokenSeps[i])
  BY SepsAndTexts
<1>12. Outline(Text, All, TokenSeps, Len(All), TokenTexts, start, opens)
  BY <1>9, <1>10, <1>11 DEF Outline
<1> QED BY <1>12

(* How many braces are open before a member: Depth counts them as the
   circuit does. *)
OpenBefore(K) ==
    LET open[i \in 0..K] ==
            IF i = 0 THEN 1
                     ELSE open[i - 1] + Count(i, LBrace) - Count(i, RBrace)
    IN  open[K]

(* The open braces that OpenBefore counts are the level of the text. *)
LEMMA OpenIsRising ==
    ASSUME FlowInv, OutcomeInv, sep = Tight, NEW opens,
           Rising(opens, TokenTexts, Len(All)), NEW K \in Nat, K <= Len(All)
    PROVE  OpenBefore(K) = opens[K]
<1> DEFINE up(i) == Count(i, LBrace) - Count(i, RBrace)
           Body(f) == [i \in 0..K |->
                         IF i = 0 THEN 1
                         ELSE f[i - 1] + Count(i, LBrace) - Count(i, RBrace)]
           open == CHOOSE f : f = Body(f)
           g == [i \in 0..K |-> opens[i]]
           n == Len(All)
<1>1. OpenBefore(K) = open[K]
  BY DEF OpenBefore
<1>2. n \in Nat /\ K <= n
  BY AllMembers
<1> HIDE DEF n
<1>3. ASSUME NEW i \in 1..K
      PROVE  /\ opens[i] \in Int /\ opens[i - 1] \in Int
             /\ Count(i, LBrace) \in Nat /\ Count(i, RBrace) \in Nat
             /\ opens[i] = opens[i - 1] + Count(i, LBrace) - Count(i, RBrace)
  <2> DEFINE x == TokenTexts[i]
             j == ToJson(All[i].value)
  <2>1. i \in 1..n
    BY <1>2
  <2>2. GoodMember(All[i]) /\ Written(x, All[i], Tight)
    <3>1. Written(x, All[i], TokenSeps[i]) /\ TokenSeps[i] = Tight
          /\ GoodMember(All[i])
      BY <2>1, SepsAndTexts DEF n
    <3> HIDE DEF x
    <3> QED BY <3>1
  <2>3. Sum(opens[i], opens[i - 1], Level(x, Len(x)))
    BY <2>1 DEF Rising, n
  <2>4. /\ Level(x, Len(x)) = Braced(j, LBrace) - Braced(j, RBrace)
        /\ Braced(j, LBrace) \in Nat /\ Braced(j, RBrace) \in Nat
    BY <2>2, LevelWritten
  <2>5. Count(i, LBrace) = Braced(j, LBrace)
        /\ Count(i, RBrace) = Braced(j, RBrace)
    BY DEF Count, Braced
  <2> DEFINE a == opens[i]
             b == opens[i - 1]
             c == Braced(j, LBrace)
             d == Braced(j, RBrace)
  <2>6. Sum(a, b, c - d) /\ c \in Nat /\ d \in Nat
    BY <2>3, <2>4
  <2> HIDE DEF a, b, c, d
  <2>7. a \in Int /\ b \in Int /\ a = b + c - d
    BY <2>6 DEF Sum
  <2> QED BY <2>5, <2>6, <2>7 DEF a, b, c, d
<1>4. opens[0] = 1
  BY DEF Rising
<1>5. g = Body(g)
  <2>1. ASSUME NEW i \in 0..K PROVE g[i] = Body(g)[i]
    <3>1. g[i] = opens[i]
      OBVIOUS
    <3>2. CASE i = 0
      <4>1. Body(g)[i] = 1
        BY <3>2
      <4> QED BY <1>4, <3>1, <3>2, <4>1
    <3>3. CASE i # 0
      <4>1. i \in 1..K /\ i - 1 \in 0..K
        BY <3>3
      <4>2. g[i - 1] = opens[i - 1]
        BY <4>1
      <4> HIDE DEF g
      <4>3. Body(g)[i] = g[i - 1] + Count(i, LBrace) - Count(i, RBrace)
        BY <3>3
      <4> QED BY <1>3, <3>1, <4>1, <4>2, <4>3
    <3> QED BY <3>2, <3>3
  <2>2. Body(g) = [i \in 0..K |-> Body(g)[i]] /\ g = [i \in 0..K |-> g[i]]
    OBVIOUS
  <2> HIDE DEF Body, g
  <2> QED BY <2>1, <2>2
<1>6. open = Body(open)
  <2> HIDE DEF Body
  <2> QED BY <1>5
<1> HIDE DEF open
<1>7. \A i \in 0..K : open[i] = IF i = 0 THEN 1
                      ELSE open[i - 1] + Count(i, LBrace) - Count(i, RBrace)
  BY <1>6
<1> HIDE DEF Body, g
<1> DEFINE T == {i \in Nat : i <= K => open[i] = opens[i]}
<1>8. 0 \in T
  <2>1. 0 \in 0..K
    OBVIOUS
  <2>2. open[0] = 1
    BY <1>7, <2>1
  <2> QED BY <1>4, <2>2
<1>9. ASSUME NEW i \in Nat, i \in T PROVE i + 1 \in T
  <2> SUFFICES ASSUME i + 1 <= K PROVE open[i + 1] = opens[i + 1]
    OBVIOUS
  <2>1. open[i] = opens[i]
    BY <1>9
  <2> DEFINE k == i + 1
  <2>2. k \in 0..K /\ k \in 1..K /\ k # 0 /\ k - 1 = i
    OBVIOUS
  <2> HIDE DEF k
  <2>3. open[k] = open[k - 1] + Count(k, LBrace) - Count(k, RBrace)
    BY <1>7, <2>2
  <2>4. open[k] = opens[k]
    BY <1>3, <2>1, <2>2, <2>3
  <2> QED BY <2>4 DEF k
<1> HIDE DEF T
<1>10. Nat \subseteq T
  BY <1>8, <1>9, SetInduction
<1>11. open[K] = opens[K]
  BY <1>10 DEF T
<1> QED BY <1>1, <1>11

(* Depth, by the braces open before the first mention. *)
LEMMA DepthIs ==
    Depth = OpenBefore(Min(Mentioning) - 1)
              + (IF First.name # config.name /\ First.value.kind = "object"
                 THEN 1 ELSE 0)
BY DEF Depth, OpenBefore

(* The searched text and the claim's name are text. *)
LEMMA TextParts ==
    ASSUME FlowInv, OutcomeInv
    PROVE  /\ Text \in Seq(Glyph) /\ Len(Text) \in Nat
           /\ Named(config.name) /\ config.name \in Seq(Glyph)
           /\ Len(config.name) \in Nat /\ Quoted(config.name) \in Seq(Glyph)
           /\ Len(Quoted(config.name)) = Len(config.name) + 2
<1>1. PICK start, opens :
         Outline(Text, All, TokenSeps, Len(All), TokenTexts, start, opens)
  BY TokenOutline
<1>2. Text \in Seq(Glyph) /\ Len(Text) \in Nat
  BY ONLY <1>1 DEF Outline, Laid
<1>3. IsName(config.name)
  BY NameAssumption DEF FlowInv
<1>4. Named(config.name)
  BY ONLY <1>3, NameIsNamed
<1>5. config.name \in Seq(Glyph)
  BY ONLY <1>4 DEF Named
<1>6. Len(config.name) \in Nat
  BY ONLY <1>5
<1>7. /\ Quoted(config.name) \in Seq(Glyph)
      /\ Len(Quoted(config.name)) = Len(config.name) + 2
  BY ONLY <1>5, Glyphs, QuotedParts
<1> QED BY ONLY <1>2, <1>4, <1>5, <1>6, <1>7

(* The prover finds the name where it stands in quotes. *)
LEMMA NamePlacesAre ==
    ASSUME FlowInv, OutcomeInv, NEW q
    PROVE  q \in NamePlaces(Text, config) <=> QuotedAt(Text, config.name, q)
<1>1. /\ Text \in Seq(Glyph) /\ Len(Text) \in Nat
      /\ config.name \in Seq(Glyph) /\ Quoted(config.name) \in Seq(Glyph)
  BY TextParts
<1>2. 0 \in Nat
  OBVIOUS
<1>3. q \in Places(Text, Quoted(config.name), 0)
        <=> q >= 0 /\ Occurs(Text, Quoted(config.name), q)
  BY ONLY <1>1, <1>2, PlaceIsOccurrence
<1>4. Occurs(Text, Quoted(config.name), q) <=> QuotedAt(Text, config.name, q)
  BY ONLY <1>1, Glyphs, QuotedOccurs
<1>5. QuotedAt(Text, config.name, q) => q >= 0
  BY DEF QuotedAt
<1> QED BY ONLY <1>3, <1>4, <1>5 DEF NamePlaces

(* is_minified accepts a token without spaces behind the names, in members
   and in values. *)
LEMMA MinifiedIs ==
    ASSUME FlowInv, OutcomeInv, claims # <<>>
    PROVE  is_minified(Text) <=>
             /\ sep = Tight
             /\ \A i \in DOMAIN All : ~LooksSpaced(All[i].value)
<1>1. PICK start, opens :
         Outline(Text, All, TokenSeps, Len(All), TokenTexts, start, opens)
  BY TokenOutline
<1>2. (\E q : SpacedAt(Text, q))
        <=> \E i \in 1..Len(All) :
               TokenSeps[i] # Tight \/ LooksSpaced(All[i].value)
  BY ONLY <1>1, OutlineSpaced
<1>3. \A q : q \in Places(Text, Spaced, 0) <=> SpacedAt(Text, q)
  <2> TAKE q
  <2>1. Text \in Seq(Glyph) /\ Len(Text) \in Nat
    BY TextParts
  <2>2. 0 \in Nat
    OBVIOUS
  <2>3. q \in Places(Text, Spaced, 0) <=> q >= 0 /\ Occurs(Text, Spaced, q)
    BY ONLY <2>1, <2>2, SpacedSeq, PlaceIsOccurrence
  <2>4. Occurs(Text, Spaced, q) <=> SpacedAt(Text, q)
    BY ONLY <2>1, SpacedOccurs
  <2>5. SpacedAt(Text, q) => q >= 0
    BY DEF SpacedAt
  <2> QED BY ONLY <2>3, <2>4, <2>5
<1>4. is_minified(Text) <=> ~\E q : SpacedAt(Text, q)
  <2>1. is_minified(Text) <=> Places(Text, Spaced, 0) = {}
    BY DEF is_minified, Spaced
  <2> QED BY ONLY <2>1, <1>3
<1>5. DOMAIN All = 1..Len(All)
  BY AllMembers
<1>6. sep = Tight => \A i \in 1..Len(All) : TokenSeps[i] = Tight
  BY SepsAndTexts
<1>7. \E i \in 1..Len(All) : TokenSeps[i] = sep
  <2> DEFINE H == Len(header)
             K == Len(claims)
             n == Len(All)
  <2>1. /\ header \in Seq(Members) /\ claims \in Seq(Members)
        /\ n = H + K
    BY AllMembers
  <2>2. H \in Nat /\ K \in Nat /\ K # 0
    BY ONLY <2>1, claims # <<>>
  <2>3. \A i \in 1..K : TokenSeps[H + i] = sep
    BY SepsAndTexts
  <2> HIDE DEF H, K, n
  <2>4. 1 \in 1..K /\ H + 1 \in 1..n
    BY ONLY <2>1, <2>2
  <2>5. TokenSeps[H + 1] = sep
    BY ONLY <2>3, <2>4
  <2>6. \E i \in 1..n : TokenSeps[i] = sep
    BY ONLY <2>4, <2>5
  <2> QED BY ONLY <2>6 DEF n
<1> QED BY ONLY <1>2, <1>4, <1>5, <1>6, <1>7

(* A member mentions the name when it is found in that member. *)
LEMMA MentioningIs ==
    ASSUME FlowInv, OutcomeInv
    PROVE  /\ Mentioning = {i \in 1..Len(All) : OfMember(All[i], config.name)}
           /\ Mentioned <=> Mentioning # {}
<1>1. DOMAIN All = 1..Len(All)
  BY AllMembers
<1>2. \A m : Mentions(m) <=> OfMember(m, config.name)
  BY ONLY Zenon DEF Mentions, OfMember, InValue
<1> QED BY ONLY <1>1, <1>2 DEF Mentioning, Mentioned

(* What SHA-256 padding makes of the length. *)
LEMMA PaddingLen ==
    ASSUME NEW token,
           token.header \in Seq(Bytes), token.payload \in Seq(Bytes)
    PROVE  Len(sha256_padding(PrePadded(token)))
             = PaddedLen(Len(PrePadded(token)))
<1> DEFINE h == Base64(token.header)
           p == Base64(token.payload)
           m == PrePadded(token)
           n == PaddedLen(Len(m))
           fill == [i \in 1..(n - Len(m)) |->
                      IF Len(m) + i <= n - LenBytes THEN Zero ELSE Junk]
<1>1. h \in Seq(Sextets) /\ p \in Seq(Sextets)
  BY EncodedType
<1>2. Period \in Sextets /\ Zero \in Sextets /\ Junk \in Sextets
  BY SextetMembers
<1>3. m = (h \o <<Period>>) \o p
  BY DEF PrePadded
<1> HIDE DEF h, p
<1>4. h \o <<Period>> \in Seq(Sextets)
  BY <1>1, <1>2
<1> HIDE DEF m
<1>5. m \in Seq(Sextets)
  BY ONLY <1>1, <1>3, <1>4, ConcatIndex
<1>6. Len(m) \in Nat
  BY ONLY <1>5
<1>7. n \in Nat /\ n >= Len(m) + 2
  BY <1>6, PaddedLenFits
<1>8. fill \in Seq(Sextets) /\ Len(fill) = n - Len(m)
  <2>1. n - Len(m) \in Nat
    BY <1>6, <1>7
  <2>2. \A i \in 1..(n - Len(m)) : fill[i] \in Sextets
    BY <1>2
  <2> QED BY <2>1, <2>2, FunctionSeq
<1>9. sha256_padding(m) = m \o fill
  BY DEF sha256_padding
<1> HIDE DEF n, fill
<1>10. Len(m \o fill) = Len(m) + Len(fill)
  BY ONLY <1>5, <1>8, ConcatIndex
<1>11. Len(sha256_padding(m)) = n
  BY <1>6, <1>7, <1>8, <1>9, <1>10
<1> QED BY ONLY <1>11 DEF n, m

(* The claim is absent, or a value of the type that config.json says. *)
LEMMA ClaimIs ==
    ASSUME FlowInv
    PROVE  \/ Claim = Null
           \/ Claim.kind = config.type /\ GoodValue(Claim) /\ NulFree(Claim.text)
<1>1. CASE Claim = Null
  BY ONLY <1>1
<1>2. CASE Claim # Null
  <2>1. PICK m \in Member : Claim = m.value /\ m.value.kind = config.type
    BY ONLY <1>2, ClaimKnown, FlowInv
  <2>2. m \in Members
    BY ONLY DEF Members
  <2>3. GoodMember(m) /\ NulFree(m.value.text)
    BY ONLY <2>2, MemberIsGood
  <2> QED BY ONLY <2>1, <2>3 DEF GoodMember
<1> QED BY ONLY <1>1, <1>2

(* An inner object with the name is where the name is first. *)
Inner == First.name # config.name /\ First.value.kind = "object"

(* No quote up to z means nothing but glue up to z, from place e on. *)
GlueAfter(t, e) ==
    \A z \in Nat :
        z <= Len(t) /\ (\A p \in (e + 1)..z : t[p] # Quote)
            => \A p \in (e + 1)..z : t[p] \in Glue

FirstFacts(q, a) ==
    /\ q \in Nat /\ a \in Nat /\ a = q + Len(config.name) + 3
    /\ QuotedAt(Text, config.name, q)
    /\ IsValue => Text[a] # ":" /\ a <= Len(Text)
    /\ ~IsValue =>
         /\ Text[a] = ":" /\ GoodValue(FirstValue)
         /\ Stored(Text, ToJson(FirstValue), a)
         /\ Level(Text, q + 1) = Depth
         /\ First.name = config.name => FirstValue.kind = config.type
         /\ Inner => /\ FirstValue = Numeral(<<"0">>)
                     /\ Text[a + 1] = "0" /\ GlueAfter(Text, a + 2)

(* The first place of a name, with the sets that its lemma speaks of. *)
PlacesOf(Q, t, name) == \A q : q \in Q <=> QuotedAt(t, name, q)

MembersOf(ms, name, n) == {i \in 1..n : OfMember(ms[i], name)}

IsFirst(ms, ss, start, name, n, Q) ==
    LET T == MembersOf(ms, name, n)
    IN  /\ Q # {} <=> T # {}
        /\ Q # {} =>
             /\ Min(T) \in 1..n /\ Min(Q) \in Nat
             /\ PlaceIn(ms, ss, start, name, Min(T), Min(Q))
             /\ ms[Min(T)].name = name => Min(Q) = start[Min(T)]

(* The least of the places is the first one. *)
LEMMA FirstPlaceIs ==
    ASSUME NEW t, NEW ms, NEW ss, NEW n, NEW mt, NEW start, NEW opens,
           Outline(t, ms, ss, n, mt, start, opens), n \in Nat,
           NEW name, Named(name), NEW Q, PlacesOf(Q, t, name)
    PROVE  IsFirst(ms, ss, start, name, n, Q)
<1>1. \A q : q \in Q <=> QuotedAt(t, name, q)
  BY ONLY PlacesOf(Q, t, name) DEF PlacesOf
<1> QED BY <1>1, FirstPlace DEF IsFirst, MembersOf

(* The prover finds the name exactly when a member mentions it. *)
LEMMA NamesStand ==
    ASSUME FlowInv, OutcomeInv
    PROVE  NamePlaces(Text, config) # {} <=> Mentioned
<1>1. PICK start, opens :
         Outline(Text, All, TokenSeps, Len(All), TokenTexts, start, opens)
  BY TokenOutline
<1> DEFINE Q == NamePlaces(Text, config)
           n == Len(All)
           name == config.name
           T == {i \in 1..n : OfMember(All[i], name)}
<1>2. \A q : q \in Q <=> QuotedAt(Text, name, q)
  BY NamePlacesAre
<1>3. Named(name) /\ n \in Nat
  BY TextParts, AllMembers
<1>4. Mentioning = T /\ (Mentioned <=> Mentioning # {})
  BY MentioningIs
<1>5. Outline(Text, All, TokenSeps, n, TokenTexts, start, opens)
  BY <1>1
<1> HIDE DEF Q, n, name
<1>6. Q # {} <=> T # {}
  <2>1. PlacesOf(Q, Text, name)
    BY ONLY <1>2 DEF PlacesOf
  <2>2. IsFirst(All, TokenSeps, start, name, n, Q)
    BY ONLY <1>3, <1>5, <2>1, FirstPlaceIs
  <2> QED BY ONLY <2>2 DEF IsFirst, MembersOf
<1> QED BY ONLY <1>4, <1>6 DEF Q

(* The first place of the name is in the first member that mentions it,
   and the value's place follows. *)
LEMMA FirstStands ==
    ASSUME FlowInv, OutcomeInv, sep = Tight, Mentioned
    PROVE  FirstFacts(Min(NamePlaces(Text, config)), ValuePlace)
<1>1. PICK start, opens :
         Outline(Text, All, TokenSeps, Len(All), TokenTexts, start, opens)
  BY TokenOutline
<1> DEFINE Q == NamePlaces(Text, config)
           n == Len(All)
           name == config.name
           T == {i \in 1..n : OfMember(All[i], name)}
           k == Min(T)
           q == Min(Q)
           m == All[k]
           L == Len(name)
           a == q + L + 3
<1>2. \A p : p \in Q <=> QuotedAt(Text, name, p)
  BY NamePlacesAre
<1>3. Named(name) /\ n \in Nat /\ L \in Nat
  BY TextParts, AllMembers
<1>4. Mentioning = T /\ (Mentioned <=> Mentioning # {})
  BY MentioningIs
<1>5. Outline(Text, All, TokenSeps, n, TokenTexts, start, opens)
  BY <1>1
<1>6. First = m /\ Min(Mentioning) = k
  BY ONLY <1>4 DEF First
<1>7. ValuePlace = a
  <2>1. ValuePlace = (q + L + 2) + 1
    BY ONLY DEF ValuePlace, ValueStart, Text
  <2>2. q \in Nat
    <3> HIDE DEF n, name
    <3>1. PlacesOf(Q, Text, name)
      BY ONLY <1>2 DEF PlacesOf
    <3>2. IsFirst(All, TokenSeps, start, name, n, Q)
      BY ONLY <1>3, <1>5, <3>1, FirstPlaceIs
    <3>3. Q # {} => Min(Q) \in Nat
      BY ONLY <3>2 DEF IsFirst, MembersOf
    <3> QED BY ONLY <3>3, NamesStand, Mentioned, FlowInv, OutcomeInv
  <2> HIDE DEF q, L
  <2> QED BY ONLY <1>3, <2>1, <2>2
<1>8. /\ k \in 1..n /\ q \in Nat
      /\ PlaceIn(All, TokenSeps, start, name, k, q)
      /\ m.name = name => q = start[k]
      /\ QuotedAt(Text, name, q)
  <2>1. Q # {}
    BY NamesStand
  <2> HIDE DEF Q, n, name
  <2>2. /\ Min(T) \in 1..n /\ Min(Q) \in Nat
        /\ PlaceIn(All, TokenSeps, start, name, Min(T), Min(Q))
        /\ All[Min(T)].name = name => Min(Q) = start[Min(T)]
    <3>1. PlacesOf(Q, Text, name)
      BY ONLY <1>2 DEF PlacesOf
    <3>2. IsFirst(All, TokenSeps, start, name, n, Q)
      BY ONLY <1>3, <1>5, <3>1, FirstPlaceIs
    <3> QED BY ONLY <2>1, <3>2 DEF IsFirst, MembersOf
  <2>3. \E i \in 1..n : PlaceIn(All, TokenSeps, start, name, i, Min(Q))
    BY ONLY <2>2
  <2>4. QuotedAt(Text, name, Min(Q))
    BY ONLY <2>3, <1>3, <1>5, OutlinePlaces
  <2> QED BY ONLY <2>2, <2>4
<1>9. TokenSeps[k] = Tight /\ Typed(m)
  <2>1. \A i \in 1..n : TokenSeps[i] = Tight
    BY SepsAndTexts
  <2>2. \A i \in 1..n : Typed(All[i])
    BY AllMembers
  <2> HIDE DEF n, k
  <2> QED BY ONLY <1>8, <2>1, <2>2
<1>10. LET own == m.name = name
           isval == ~own /\ m.value.kind # "object"
       IN  /\ isval => Text[a] # ":" /\ a <= Len(Text)
           /\ ~isval =>
                /\ Text[a] = ":" /\ GoodValue(FirstOf(m, name))
                /\ Stored(Text, ToJson(FirstOf(m, name)), a)
                /\ own => Sum(Level(Text, q + 1), opens[k - 1], 0)
                /\ ~own => /\ Sum(Level(Text, q + 1), opens[k - 1], 1)
                           /\ MemberEnd(TokenTexts, start, k) = a + 2
                           /\ FirstOf(m, name) = Numeral(<<"0">>)
                           /\ Text[a + 1] = "0"
  <2> HIDE DEF n, k, q, name
  <2> QED BY ONLY <1>3, <1>5, <1>8, <1>9, FirstFound
<1>11. FirstValue = FirstOf(m, name)
  BY ONLY <1>6 DEF FirstValue, FirstOf
<1>12. IsValue <=> m.name # name /\ m.value.kind # "object"
  BY ONLY <1>6 DEF IsValue
<1>13. Depth = opens[k - 1] + (IF Inner THEN 1 ELSE 0)
  <2>1. Rising(opens, TokenTexts, n)
    BY ONLY <1>5 DEF Outline
  <2>2. k - 1 \in Nat /\ k - 1 <= n
    <3> HIDE DEF n, k
    <3> QED BY ONLY <1>3, <1>8
  <2>3. OpenBefore(k - 1) = opens[k - 1]
    BY <2>1, <2>2, OpenIsRising
  <2> HIDE DEF k
  <2> QED BY ONLY <1>6, <2>3, DepthIs DEF Inner
<1>14. ASSUME ~IsValue PROVE Level(Text, q + 1) = Depth
  <2> DEFINE lv == Level(Text, q + 1)
             o == opens[k - 1]
  <2>1. m.name = name => Sum(lv, o, 0)
    BY ONLY <1>10, <1>12, <1>14
  <2>2. m.name # name => Sum(lv, o, 1)
    BY ONLY <1>10, <1>12, <1>14
  <2>3. Depth = o + (IF Inner THEN 1 ELSE 0)
    BY ONLY <1>13
  <2>4. Inner <=> m.name # name
    BY ONLY <1>6, <1>12, <1>14 DEF Inner
  <2> HIDE DEF lv, o
  <2>7. lv = Depth
    <3>1. CASE Inner
      BY ONLY <2>2, <2>3, <2>4, <3>1 DEF Sum
    <3>2. CASE ~Inner
      BY ONLY <2>1, <2>3, <2>4, <3>2 DEF Sum
    <3> QED BY ONLY <3>1, <3>2
  <2> QED BY ONLY <2>7 DEF lv
<1>15. m.name = name => FirstOf(m, name).kind = config.type
  BY ONLY <1>9 DEF Typed, FirstOf
<1>16. ASSUME Inner
       PROVE  /\ FirstOf(m, name) = Numeral(<<"0">>)
              /\ Text[a + 1] = "0" /\ GlueAfter(Text, a + 2)
  <2>1. m.name # name /\ m.value.kind = "object"
    BY ONLY <1>6, <1>16 DEF Inner
  <2>2. /\ MemberEnd(TokenTexts, start, k) = a + 2
        /\ FirstOf(m, name) = Numeral(<<"0">>) /\ Text[a + 1] = "0"
    BY ONLY <1>10, <2>1
  <2>3. ASSUME NEW z \in Nat, z <= Len(Text),
               \A p \in ((a + 2) + 1)..z : Text[p] # Quote,
               NEW p \in ((a + 2) + 1)..z
        PROVE  Text[p] \in Glue
    <3> DEFINE e == a + 2
    <3>1. /\ e = MemberEnd(TokenTexts, start, k)
          /\ \A x \in (e + 1)..z : Text[x] # Quote
          /\ p \in (e + 1)..z
      BY ONLY <2>2, <2>3
    <3> HIDE DEF e, n, k
    <3> QED BY ONLY <1>5, <1>8, <2>3, <3>1, AfterMember
  <2>4. GlueAfter(Text, a + 2)
    BY ONLY <2>3 DEF GlueAfter
  <2> QED BY ONLY <2>2, <2>4
<1>17. a \in Nat
  <2> HIDE DEF L, q
  <2> QED BY ONLY <1>3, <1>8
<1>18. FirstFacts(q, a)
  <2> USE DEF FirstFacts
  <2>1. a = q + Len(config.name) + 3
    BY ONLY DEF name
  <2>2. QuotedAt(Text, config.name, q)
    BY ONLY <1>8
  <2>3. IsValue => Text[a] # ":" /\ a <= Len(Text)
    BY ONLY <1>10, <1>12
  <2>4. ASSUME ~IsValue
        PROVE  /\ Text[a] = ":" /\ GoodValue(FirstValue)
               /\ Stored(Text, ToJson(FirstValue), a)
    BY ONLY <1>10, <1>11, <1>12, <2>4
  <2>5. First.name = config.name => FirstValue.kind = config.type
    BY ONLY <1>6, <1>11, <1>15
  <2>6. Inner => /\ FirstValue = Numeral(<<"0">>)
                 /\ Text[a + 1] = "0" /\ GlueAfter(Text, a + 2)
    BY ONLY <1>11, <1>16
  <2> HIDE DEF q, a
  <2> QED BY ONLY <1>8, <1>14, <1>17, <2>1, <2>2, <2>3, <2>4, <2>5, <2>6
<1> QED BY ONLY <1>7, <1>18

(* get_domain fails without an at sign, and returns the domain otherwise. *)
LEMMA AtStands ==
    ASSUME NEW t \in Seq(Glyph)
    PROVE  /\ Places(t, <<"@">>, 0) # {} <=> "@" \in Range(t)
           /\ Places(t, <<"@">>, 0) # {} => get_domain(t) = Domain(t)
<1> DEFINE S == Glyph \cup {"@"}
           pat == <<"@">>
<1>1. t \in Seq(S)
  <2>1. ASSUME NEW A, NEW B, A \subseteq B PROVE Seq(A) \subseteq Seq(B)
    BY <2>1
  <2>2. Glyph \subseteq S
    BY ONLY DEF S
  <2> HIDE DEF S
  <2> QED BY ONLY <2>1, <2>2, t \in Seq(Glyph)
<1>2. pat \in Seq(S) /\ Len(pat) = 1 /\ pat[1] = "@"
  <2>1. "@" \in S
    BY ONLY DEF S
  <2> HIDE DEF S
  <2> QED BY ONLY <2>1 DEF pat
<1> HIDE DEF S
<1>3. \A q : q \in Places(t, pat, 0) <=> q >= 0 /\ Occurs(t, pat, q)
  <2> HIDE DEF pat
  <2>1. 0 \in Nat
    OBVIOUS
  <2> QED BY ONLY <1>1, <1>2, <2>1, PlaceIsOccurrence
<1> HIDE DEF pat
<1>4. \A q : Occurs(t, pat, q) <=> q \in Nat /\ q + 1 <= Len(t)
                                     /\ t[q + 1] = "@"
  BY ONLY <1>2 DEF Occurs
<1>5. \A x : x \in Range(t) <=> \E i \in 1..Len(t) : t[i] = x
  BY ONLY t \in Seq(Glyph) DEF Range
<1>6. ASSUME Places(t, pat, 0) # {} PROVE "@" \in Range(t)
  <2>1. PICK q : q \in Nat /\ q + 1 <= Len(t) /\ t[q + 1] = "@"
    BY ONLY <1>3, <1>4, <1>6
  <2>2. q + 1 \in 1..Len(t)
    BY ONLY <2>1, t \in Seq(Glyph)
  <2> QED BY ONLY <1>5, <2>1, <2>2
<1>7. ASSUME "@" \in Range(t) PROVE Places(t, pat, 0) # {}
  <2>1. PICK i \in 1..Len(t) : t[i] = "@"
    BY ONLY <1>5, <1>7
  <2> DEFINE q == i - 1
  <2>2. q \in Nat /\ q + 1 = i /\ q + 1 <= Len(t) /\ q >= 0
    BY ONLY <2>1, t \in Seq(Glyph)
  <2> HIDE DEF q
  <2>3. Occurs(t, pat, q)
    BY ONLY <1>4, <2>1, <2>2
  <2> QED BY ONLY <1>3, <2>2, <2>3
<1>8. Places(t, pat, 0) # {} => get_domain(t) = Domain(t)
  BY ONLY <1>1, DomainIsDomain DEF pat
<1> QED BY ONLY <1>6, <1>7, <1>8 DEF pat

(* The quotes at which the prover may end a string value. *)
LEMMA ClosingQuotesAre ==
    ASSUME FlowInv, OutcomeInv, sep = Tight, Mentioned, NEW i
    PROVE  i \in ClosingQuotes(Text, config) <=>
             /\ i \in Nat /\ i >= ValuePlace + 1
             /\ i + 1 <= Len(Text) /\ Text[i + 1] = Quote
<1> DEFINE a == ValuePlace
           b == ValueStart(Text, config)
           pat == <<Quote>>
           q == Min(NamePlaces(Text, config))
           L == Len(config.name)
<1>1. FirstFacts(q, a)
  BY FirstStands
<1>2. Text \in Seq(Glyph) /\ L \in Nat
  BY TextParts
<1>3. b + 2 = a + 1 /\ a + 1 \in Nat
  <2>1. q \in Nat /\ a \in Nat /\ a = q + L + 3
    BY ONLY <1>1 DEF FirstFacts
  <2>2. b = q + L + 2
    BY ONLY DEF ValueStart
  <2> HIDE DEF q, L, a, b
  <2> QED BY ONLY <1>2, <2>1, <2>2
<1>4. pat \in Seq(Glyph) /\ Len(pat) = 1 /\ pat[1] = Quote
  BY ONLY Glyphs
<1>5. ClosingQuotes(Text, config) = Places(Text, pat, a + 1)
  BY ONLY <1>3 DEF ClosingQuotes
<1> HIDE DEF pat, a
<1>6. i \in Places(Text, pat, a + 1) <=> i >= a + 1 /\ Occurs(Text, pat, i)
  BY ONLY <1>2, <1>3, <1>4, PlaceIsOccurrence
<1>7. Occurs(Text, pat, i) <=> i \in Nat /\ i + 1 <= Len(Text)
                                 /\ Text[i + 1] = Quote
  BY ONLY <1>4 DEF Occurs
<1> QED BY ONLY <1>5, <1>6, <1>7 DEF a

QuotesFrom(Q, t, a) ==
    \A i : i \in Q <=> /\ i \in Nat /\ i >= a + 1
                       /\ i + 1 <= Len(t) /\ t[i + 1] = Quote

(* From the opening quote of a string to the next quote stands what Seen
   says. *)
LEMMA StringFrom ==
    ASSUME NEW t \in Seq(Glyph), NEW v, v.text \in Seq(Glyph), NEW a,
           Stored(t, Quoted(Escaped(v.text)), a), NEW Q, QuotesFrom(Q, t, a)
    PROVE  /\ Q # {}
           /\ SubSeq(t, a + 1, Min(Q) + 1) = Quoted(Seen(v))
<1>1. \A i : i \in Q <=> /\ i \in Nat /\ i >= a + 1
                         /\ i + 1 <= Len(t) /\ t[i + 1] = Quote
  BY ONLY QuotesFrom(Q, t, a) DEF QuotesFrom
<1>2. v.text \in Seq(Glyph) /\ Stored(t, Quoted(Escaped(v.text)), a)
  OBVIOUS
<1> QED BY ONLY <1>1, <1>2, t \in Seq(Glyph), StringStops

(* So it is for the string that the prover takes for the claim. *)
LEMMA FirstStringStops ==
    ASSUME FlowInv, OutcomeInv, sep = Tight, Mentioned, ~IsValue,
           FirstValue.kind = "string"
    PROVE  LET Q == ClosingQuotes(Text, config)
           IN  /\ Q # {}
               /\ SubSeq(Text, ValuePlace + 1, Min(Q) + 1)
                    = Quoted(Seen(FirstValue))
<1> DEFINE a == ValuePlace
           q == Min(NamePlaces(Text, config))
           Q == ClosingQuotes(Text, config)
           v == FirstValue
<1>1. FirstFacts(q, a)
  BY FirstStands
<1>2. GoodValue(v) /\ Stored(Text, ToJson(v), a)
  BY ONLY <1>1, ~IsValue DEF FirstFacts
<1>3. ToJson(v) = Quoted(Escaped(v.text))
  BY ONLY FirstValue.kind = "string" DEF ToJson
<1>4. v.text \in Seq(Glyph) /\ Text \in Seq(Glyph)
  BY <1>2, TextParts DEF GoodValue
<1>5. \A i : i \in Q <=> /\ i \in Nat /\ i >= a + 1
                         /\ i + 1 <= Len(Text) /\ Text[i + 1] = Quote
  BY ClosingQuotesAre
<1>6. Stored(Text, Quoted(Escaped(v.text)), a)
  BY ONLY <1>2, <1>3
<1> HIDE DEF a, Q, v
<1>8. QuotesFrom(Q, Text, a)
  BY ONLY <1>5 DEF QuotesFrom
<1>7. Q # {} /\ SubSeq(Text, a + 1, Min(Q) + 1) = Quoted(Seen(v))
  BY ONLY <1>4, <1>8, <1>6, StringFrom
<1> QED BY ONLY <1>7 DEF a, Q, v

(* Whether the padded token fits the circuit. *)
LEMMA LengthFits ==
    ASSUME IInv
    PROVE  Len(sha256_padding(PrePadded(Token))) <= MaxCredLen
             <=> ~(PaddedLen(Len(PrePadded(Token))) > MaxCredLen)
<1> DEFINE m == PrePadded(Token)
           h == Base64(Token.header)
           p == Base64(Token.payload)
<1>1. Token.header \in Seq(Bytes) /\ Token.payload \in Seq(Bytes)
  BY TokenText
<1>2. Len(sha256_padding(m)) = PaddedLen(Len(m))
  BY ONLY <1>1, PaddingLen
<1>3. h \in Seq(Sextets) /\ p \in Seq(Sextets)
  BY ONLY <1>1, EncodedType
<1>4. m = h \o <<Period>> \o p
  BY ONLY DEF PrePadded
<1>5. m \in Seq(Sextets)
  <2>1. <<Period>> \in Seq(Sextets)
    BY ONLY SextetMembers
  <2> HIDE DEF h, p, m
  <2> QED BY ONLY <1>3, <1>4, <2>1
<1> HIDE DEF m
<1>6. PaddedLen(Len(m)) \in Nat
  BY <1>5, PaddedLenFits
<1>7. MaxCredLen \in Nat
  BY BlockAssumption
<1>8. Len(sha256_padding(m)) <= MaxCredLen <=> ~(PaddedLen(Len(m)) > MaxCredLen)
  BY ONLY <1>2, <1>6, <1>7
<1> QED BY ONLY <1>8 DEF m

(* Whether the claim fits its field elements or its preimage. *)
LEMMA ValueFits ==
    ASSUME FlowInv
    PROVE  /\ (Revealed(config) /\ config.type = "string"
                  => Packable(Claim, config))
             /\ (config.form = "digest" /\ config.type = "string"
                  => AuxFits(Claim, config))
           <=>
           ~(\/ /\ config.type = "string" /\ config.form # "hidden"
                /\ Claim.kind # "string"
             \/ /\ config.form = "reveal" /\ config.type = "string"
                /\ Len(Claim.text) + 2 > config.max
             \/ /\ config.form = "domain"
                /\ \/ "@" \notin Range(Claim.text)
                   \/ Len(Domain(Claim.text)) > config.max
             \/ /\ config.form = "digest" /\ config.type = "string"
                /\ Len(Claim.text) > config.max)
<1> DEFINE v == Claim
           t == v.text
           max == config.max
<1>1. /\ config.form \in {"reveal", "domain", "digest", "hidden"}
      /\ config.type \in {"string", "number"}
      /\ config.form = "domain" => config.type = "string"
      /\ max \in Nat
  BY ConfigAssumption DEF FlowInv
<1>2. v.kind = "string" => t \in Seq(Glyph)
  <2>1. Null.kind # "string"
    BY DEF Null
  <2> QED BY ONLY <2>1, ClaimIs, FlowInv DEF GoodValue
<1> HIDE DEF v
<1>3. CASE config.type = "number"
  BY ONLY <1>1, <1>3
<1>4. CASE config.type = "string" /\ v.kind # "string"
  <2>1. config.form # "hidden" => Revealed(config) \/ config.form = "digest"
    BY ONLY <1>1 DEF Revealed
  <2>2. config.form = "hidden" => ~Revealed(config)
    BY ONLY DEF Revealed
  <2>3. ~Packable(v, config) /\ ~AuxFits(v, config)
    BY ONLY <1>4 DEF Packable, AuxFits
  <2> QED BY ONLY <1>1, <1>4, <2>1, <2>2, <2>3 DEF v
<1>5. CASE config.type = "string" /\ v.kind = "string"
  <2>1. t \in Seq(Glyph) /\ Len(t) \in Nat
    <3>1. t \in Seq(Glyph)
      BY ONLY <1>2, <1>5
    <3> HIDE DEF t
    <3> QED BY ONLY <3>1
  <2> HIDE DEF t, max
  <2>2. Len(Quoted(t)) = Len(t) + 2
    BY ONLY <2>1, Glyphs, QuotedParts
  <2>3. /\ Places(t, <<"@">>, 0) # {} <=> "@" \in Range(t)
        /\ Places(t, <<"@">>, 0) # {} => get_domain(t) = Domain(t)
    BY ONLY <2>1, AtStands
  <2>4. CASE config.form = "reveal"
    <3>1. Packable(v, config) <=> Len(Quoted(t)) <= max
      BY ONLY <1>5, <2>4 DEF Packable, ToPack, t, max
    <3>2. Len(Quoted(t)) <= max <=> ~(Len(t) + 2 > max)
      BY ONLY <1>1, <2>1, <2>2
    <3>3. Revealed(config)
      BY ONLY <2>4 DEF Revealed
    <3> QED BY ONLY <1>5, <2>4, <3>1, <3>2, <3>3 DEF t, max, v
  <2>5. CASE config.form = "domain"
    <3>1. Packable(v, config) <=> /\ Places(t, <<"@">>, 0) # {}
                                  /\ Len(get_domain(t)) <= max
      BY ONLY <1>5, <2>5 DEF Packable, ToPack, t, max
    <3>2. Places(t, <<"@">>, 0) # {} =>
            (Len(get_domain(t)) <= max <=> ~(Len(Domain(t)) > max))
      <4> DEFINE dt == Domain(t)
      <4>1. Places(t, <<"@">>, 0) # {} => Len(dt) \in Nat
        <5>1. DomainIn(t, dt)
          BY ONLY <2>1, DomainParts
        <5> HIDE DEF dt
        <5>2. dt \in Seq(Glyph)
          BY ONLY <5>1, Punctuation DEF DomainIn
        <5> HIDE DEF dt
        <5> QED BY ONLY <5>2
      <4> HIDE DEF dt
      <4>2. Places(t, <<"@">>, 0) # {} => (Len(dt) <= max <=> ~(Len(dt) > max))
        BY ONLY <1>1, <4>1 DEF max
      <4> QED BY ONLY <2>3, <4>2 DEF dt
    <3>3. Revealed(config)
      BY ONLY <2>5 DEF Revealed
    <3> QED BY ONLY <1>5, <2>3, <2>5, <3>1, <3>2, <3>3 DEF t, max, v
  <2>6. CASE config.form = "digest"
    <3>1. AuxFits(v, config) <=> Len(t) <= max
      BY ONLY <1>5 DEF AuxFits, t, max
    <3>2. Len(t) <= max <=> ~(Len(t) > max)
      BY ONLY <1>1, <2>1 DEF max
    <3>3. ~Revealed(config)
      BY ONLY <2>6 DEF Revealed
    <3> QED BY ONLY <1>5, <2>6, <3>1, <3>2, <3>3 DEF t, max, v
  <2>7. CASE config.form = "hidden"
    <3>1. ~Revealed(config)
      BY ONLY <2>7 DEF Revealed
    <3> QED BY ONLY <2>7, <3>1
  <2> QED BY ONLY <1>1, <2>4, <2>5, <2>6, <2>7
<1> QED BY ONLY <1>1, <1>3, <1>4, <1>5

(* prep_inputs succeeds only without a cause in FailsEarly, and fails only
   for one of them or where it took another member for the claim. *)
LEMMA PreparesIs ==
    ASSUME FlowInv, OutcomeInv, IInv, claims # <<>>
    PROVE  /\ Prepares(Token, config) => ~FailsEarly
           /\ ~Prepares(Token, config) =>
                 \/ FailsEarly
                 \/ config.type = "string" /\ First.name # config.name
<1> DEFINE long == PaddedLen(Len(PrePadded(Token))) > MaxCredLen
           spaced == \E i \in DOMAIN All : LooksSpaced(All[i].value)
           fits == /\ (Revealed(config) /\ config.type = "string"
                         => Packable(Claim, config))
                   /\ (config.form = "digest" /\ config.type = "string"
                         => AuxFits(Claim, config))
           bad == \/ /\ config.type = "string" /\ config.form # "hidden"
                     /\ Claim.kind # "string"
                  \/ /\ config.form = "reveal" /\ config.type = "string"
                     /\ Len(Claim.text) + 2 > config.max
                  \/ /\ config.form = "domain"
                     /\ \/ "@" \notin Range(Claim.text)
                        \/ Len(Domain(Claim.text)) > config.max
                  \/ /\ config.form = "digest" /\ config.type = "string"
                     /\ Len(Claim.text) > config.max
           small == Len(sha256_padding(PrePadded(Token))) <= MaxCredLen
           closed == config.type = "string" =>
                        ClosingQuotes(Text, config) # {}
<1>1. FailsEarly <=> long \/ sep # Tight \/ spaced \/ ~Mentioned \/ bad
  BY ONLY DEF FailsEarly, Tight
<1>2. Prepares(Token, config) <=>
        /\ small /\ is_minified(Text)
        /\ NamePlaces(Text, config) # {} /\ closed /\ fits
  <2>1. ClaimOf(Token.claims, config.name) = Claim
    BY ONLY DEF Claim, Token
  <2> QED BY ONLY <2>1 DEF Prepares, FoundInterval, Text
<1>3. small <=> ~long
  BY LengthFits
<1>4. is_minified(Text) <=> sep = Tight /\ ~spaced
  BY MinifiedIs
<1>5. NamePlaces(Text, config) # {} <=> Mentioned
  BY NamesStand
<1>6. fits <=> ~bad
  BY ValueFits
<1>7. ASSUME sep = Tight, Mentioned, config.type = "string",
             First.name = config.name
      PROVE  ClosingQuotes(Text, config) # {}
  <2>1. ~IsValue
    BY ONLY <1>7 DEF IsValue
  <2>2. FirstValue.kind = "string"
    <3>1. FirstFacts(Min(NamePlaces(Text, config)), ValuePlace)
      BY <1>7, FirstStands
    <3> QED BY ONLY <1>7, <2>1, <3>1 DEF FirstFacts
  <2> QED BY <1>7, <2>1, <2>2, FirstStringStops
<1> HIDE DEF long, spaced, fits, bad, small
<1> QED BY ONLY <1>1, <1>2, <1>3, <1>4, <1>5, <1>6, <1>7

(* The circuit's bytes agree with a text as far as the text goes. *)
Agrees(B, t) ==
    /\ Len(B) = JsonLen /\ JsonLen \in Nat /\ Len(t) <= JsonLen
    /\ \A k \in 1..Len(t) : B[k] = t[k]

(* The bytes that the circuit decodes are those of the searched text. *)
LEMMA DecodedAgrees ==
    ASSUME FlowInv, OutcomeInv, IInv, Prepares(Token, config)
    PROVE  Agrees(JWTB64Decode(Message(Token), period_idx(Token)), Text)
<1> DEFINE T == Aligned(Message(Token), period_idx(Token))
           B == JWTB64Decode(Message(Token), period_idx(Token))
           S == {B[i] : i \in 1..JsonLen} \cup Glyph
           t == Text
<1>1. Token.header \in Seq(Bytes) /\ Token.payload \in Seq(Bytes)
  BY TokenText
<1>2. Len(sha256_padding(PrePadded(Token))) <= MaxCredLen
  BY ONLY Prepares(Token, config) DEF Prepares
<1>3. IsPrefix(t, B)
  BY ONLY <1>1, <1>2, DecodedPrefix DEF Text
<1>4. JsonLen \in Nat
  BY BlockAssumption DEF JsonLen
<1>5. B = [j \in 1..JsonLen |-> B[j]]
  <2>1. B = Base64Decode(T)
    BY ONLY DEF JWTB64Decode
  <2>2. Base64Decode(T) = [j \in 1..JsonLen |-> Base64Decode(T)[j]]
    BY ONLY DEF Base64Decode
  <2> HIDE DEF B, T
  <2> QED BY ONLY <2>1, <2>2
<1>6. t \in Seq(Glyph)
  BY TextParts
<1> HIDE DEF B, t
<1>7. B \in Seq(S) /\ Len(B) = JsonLen
  <2>1. \A j \in 1..JsonLen : B[j] \in S
    BY ONLY DEF S
  <2> HIDE DEF S
  <2> QED BY ONLY <1>4, <1>5, <2>1, FunctionSeq
<1>8. t \in Seq(S)
  <2>1. ASSUME NEW X, NEW Y, X \subseteq Y PROVE Seq(X) \subseteq Seq(Y)
    BY <2>1
  <2>2. Glyph \subseteq S
    BY ONLY DEF S
  <2> HIDE DEF S
  <2> QED BY ONLY <1>6, <2>1, <2>2
<1> HIDE DEF S
<1>9. Occurs(B, t, 0)
  BY ONLY <1>3, <1>7, <1>8, PrefixOccurs
<1>10. Len(t) <= JsonLen /\ \A k \in 1..Len(t) : B[k] = t[k]
  <2>1. Len(t) \in Nat
    BY ONLY <1>6
  <2>2. 0 + Len(t) <= Len(B) /\ \A k \in 1..Len(t) : B[0 + k] = t[k]
    BY ONLY <1>9 DEF Occurs
  <2>3. \A k \in 1..Len(t) : 0 + k = k
    BY ONLY <2>1
  <2> QED BY ONLY <1>4, <1>7, <2>1, <2>2, <2>3
<1> QED BY ONLY <1>4, <1>7, <1>10 DEF Agrees, B, t

(* The circuit counts the braces that the text has. *)
LEMMA AgreesLevel ==
    ASSUME NEW B, NEW t \in Seq(Glyph), Agrees(B, t), NEW p \in 0..Len(t)
    PROVE  Level(B, p) = Level(t, p)
<1>1. Len(B) \in Nat /\ Len(t) \in Nat /\ p \in Nat
  BY DEF Agrees
<1>2. Occurs(B, t, 0)
  BY DEF Agrees, Occurs
<1>3. Sum(Level(B, 0 + p), Level(B, 0), Level(t, p))
  BY ONLY <1>1, <1>2, p \in 0..Len(t), LevelOccurs
<1>4. Level(B, 0) = 0
  BY ONLY LevelNone
<1>5. 0 + p = p
  BY ONLY <1>1
<1>6. Level(B, 0 + p) = Level(B, p)
  BY ONLY <1>5
<1> DEFINE x == Level(B, p)
           y == Level(t, p)
<1>7. Sum(x, 0, y)
  BY ONLY <1>3, <1>4, <1>6
<1> HIDE DEF x, y
<1>8. x = y
  BY ONLY <1>7 DEF Sum
<1> QED BY ONLY <1>8 DEF x, y

PartOf(t, a, r, x) ==
    /\ a \in Nat /\ r \in Nat /\ a < r /\ r <= Len(t)
    /\ x = SubSeq(t, a + 1, r)

SamePart(B, t, a, r, x, max) ==
    /\ x \in Seq(Glyph) /\ Len(x) = r - a
    /\ \A i \in 1..Len(x) : x[i] = t[a + i]
    /\ RevealedBytes(B, a, r, max) = Padded(x, max)
    /\ HashedBytes(B, a, r, max)
         = [i \in 1..Len(x) |-> IF i <= max THEN x[i] ELSE Nul]
    /\ \A i \in 0..(Len(t) - 1) : At(B, i) = At(t, i)

(* A part of the text is what the circuit's templates read there. *)
LEMMA AgreesPart ==
    ASSUME NEW B, NEW t \in Seq(Glyph), Agrees(B, t),
           NEW a, NEW r, NEW x, PartOf(t, a, r, x), NEW max \in Nat
    PROVE  SamePart(B, t, a, r, x, max)
<1>11. /\ a \in Nat /\ r \in Nat /\ a < r /\ r <= Len(t)
       /\ x = SubSeq(t, a + 1, r)
  BY ONLY PartOf(t, a, r, x) DEF PartOf
<1> DEFINE n == r - a
           l == Len(t)
<1>1. n \in Nat /\ a + n = r /\ a + n <= l /\ l \in Nat
  BY <1>11
<1>2. \A k \in 1..l : B[k] = t[k]
  BY DEF Agrees
<1> HIDE DEF n
<1>3. x = SubSeq(t, a + 1, a + n)
  BY ONLY <1>1, <1>11
<1>4. x \in Seq(Glyph) /\ Len(x) = n /\ \A i \in 1..n : x[i] = t[a + i]
  BY ONLY <1>1, <1>3, <1>11, t \in Seq(Glyph), PartIndex
<1> HIDE DEF l
<1>5. \A i \in 1..n : B[a + i] = x[i]
  <2>1. \A i \in 1..n : a + i \in 1..l
    BY ONLY <1>1, <1>11
  <2> QED BY ONLY <1>2, <1>4, <2>1
<1>6. \A i \in Nat : At(B, a + i - 1) = B[a + i]
  <2>1. \A i \in Nat : (a + i - 1) + 1 = a + i
    BY ONLY <1>11
  <2> QED BY ONLY <2>1 DEF At
<1>7. \A i \in Nat : a + i - 1 < r <=> i <= n
  BY ONLY <1>1, <1>11
<1>8. RevealedBytes(B, a, r, max) = Padded(x, max)
  <2>1. ASSUME NEW i \in 1..max
        PROVE  (IF a + i - 1 < r THEN At(B, a + i - 1) ELSE Nul)
                 = (IF i <= Len(x) THEN x[i] ELSE Nul)
    <3>1. CASE i <= n
      <4>1. i \in 1..n /\ i \in Nat
        BY ONLY <1>1, <3>1, i \in 1..max, max \in Nat
      <4> QED BY ONLY <1>4, <1>5, <1>6, <1>7, <3>1, <4>1
    <3>2. CASE ~(i <= n)
      <4>1. i \in Nat
        BY ONLY i \in 1..max, max \in Nat
      <4> QED BY ONLY <1>4, <1>7, <3>2, <4>1
    <3> QED BY ONLY <3>1, <3>2
  <2> QED BY ONLY <2>1 DEF RevealedBytes, Padded
<1>9. HashedBytes(B, a, r, max)
        = [i \in 1..Len(x) |-> IF i <= max THEN x[i] ELSE Nul]
  <2>1. ASSUME NEW i \in 1..n PROVE At(B, a + i - 1) = x[i]
    <3>1. i \in Nat
      BY ONLY <1>1, i \in 1..n
    <3> QED BY ONLY <1>5, <1>6, <3>1
  <2> QED BY ONLY <1>4, <2>1 DEF HashedBytes, n
<1>10. ASSUME NEW i \in 0..(l - 1) PROVE At(B, i) = At(t, i)
  <2>1. i + 1 \in 1..l
    BY ONLY <1>1, i \in 0..(l - 1)
  <2> QED BY ONLY <1>2, <2>1 DEF At
<1> QED BY ONLY <1>4, <1>8, <1>9, <1>10 DEF n, l, SamePart

NameBefore(t, name, q, a, x) ==
    /\ QuotedAt(t, name, q) /\ a = q + Len(name) + 3 /\ a <= Len(t)
    /\ x = Quoted(name) \o <<":">>

NameFound(B, t, q, a, x) ==
    /\ SubSeq(B, q + 1, q + Len(x)) = x <=> t[a] = ":"
    /\ q + Len(x) = a

(* A name in the text is what MatchClaimName finds there. *)
LEMMA NameMatches ==
    ASSUME NEW B, NEW t \in Seq(Glyph), Agrees(B, t),
           NEW name \in Seq(Glyph), NEW q, NEW a, NEW x,
           NameBefore(t, name, q, a, x)
    PROVE  NameFound(B, t, q, a, x)
<1>11. /\ QuotedAt(t, name, q)
       /\ a = q + Len(name) + 3 /\ a <= Len(t)
       /\ x = Quoted(name) \o <<":">>
  BY ONLY NameBefore(t, name, q, a, x) DEF NameBefore
<1> DEFINE L == Len(name)
           w == Quoted(name)
           y == SubSeq(t, q + 1, q + Len(x))
           z == SubSeq(B, q + 1, q + Len(x))
           c == <<":">>
           l == Len(t)
<1>1. L \in Nat /\ l \in Nat /\ q \in Nat
  BY ONLY name \in Seq(Glyph), t \in Seq(Glyph), <1>11
     DEF QuotedAt
<1>2. w \in Seq(Glyph) /\ Len(w) = L + 2
  BY ONLY Glyphs, QuotedParts, name \in Seq(Glyph)
<1>3. c \in Seq(Glyph) /\ Len(c) = 1 /\ c[1] = ":"
  BY ONLY Glyphs
<1>4. Occurs(t, w, q)
  BY ONLY Glyphs, QuotedOccurs, <1>1, name \in Seq(Glyph),
          <1>11 DEF l
<1> HIDE DEF w, c
<1>5. /\ x \in Seq(Glyph) /\ Len(x) = Len(w) + Len(c)
      /\ \A i \in 1..Len(w) : x[i] = w[i]
      /\ \A i \in 1..Len(c) : x[Len(w) + i] = c[i]
  <2>1. x = w \o c
    BY ONLY <1>11 DEF w, c
  <2>2. /\ w \o c \in Seq(Glyph) /\ Len(w \o c) = Len(w) + Len(c)
        /\ \A i \in 1..Len(w) : (w \o c)[i] = w[i]
        /\ \A i \in 1..Len(c) : (w \o c)[Len(w) + i] = c[i]
    <3>1. w \in Seq(Glyph) /\ c \in Seq(Glyph)
      BY ONLY <1>2, <1>3
    <3> QED BY ONLY <3>1, ConcatIndex
  <2> QED BY ONLY <2>1, <2>2
<1> HIDE DEF L, l
<1>6. Len(x) = L + 3 /\ q + Len(x) = a /\ a <= l
  BY ONLY <1>1, <1>2, <1>3, <1>5, <1>11
     DEF L, l
<1>7. x[L + 3] = ":" /\ \A i \in 1..(L + 2) : x[i] = t[q + i]
  <2>1. L + 3 = Len(w) + 1 /\ 1 \in 1..Len(c)
    BY ONLY <1>1, <1>2, <1>3
  <2>2. x[L + 3] = ":"
    BY ONLY <1>3, <1>5, <2>1
  <2>3. \A i \in 1..(L + 2) : t[q + i] = w[i]
    BY ONLY <1>2, <1>4 DEF Occurs
  <2> QED BY ONLY <1>2, <1>5, <2>2, <2>3
<1>8. /\ y \in Seq(Glyph) /\ Len(y) = L + 3
      /\ \A i \in 1..(L + 3) : y[i] = t[q + i]
  <2> DEFINE n == L + 3
  <2>1. n \in Nat /\ q + n <= Len(t) /\ n = Len(x)
    BY ONLY <1>1, <1>6 DEF l
  <2>2. y = SubSeq(t, q + 1, q + n)
    BY ONLY <2>1
  <2> HIDE DEF n, y
  <2>3. y \in Seq(Glyph) /\ Len(y) = n /\ \A i \in 1..n : y[i] = t[q + i]
    BY ONLY <1>1, <2>1, <2>2, t \in Seq(Glyph), PartIndex
  <2> QED BY ONLY <2>3 DEF n
<1>9. z = y
  <2>1. \A k \in 1..l : B[k] = t[k]
    BY ONLY Agrees(B, t) DEF Agrees, l
  <2>2. z = [i \in 1..(q + Len(x) - (q + 1) + 1) |-> B[i + (q + 1) - 1]]
    BY ONLY <1>1, <1>6
  <2>3. y = [i \in 1..(q + Len(x) - (q + 1) + 1) |-> t[i + (q + 1) - 1]]
    BY ONLY <1>1, <1>6
  <2>4. \A i \in 1..(q + Len(x) - (q + 1) + 1) : i + (q + 1) - 1 \in 1..l
    BY ONLY <1>1, <1>6
  <2> HIDE DEF y, z
  <2> QED BY ONLY <2>1, <2>2, <2>3, <2>4
<1> HIDE DEF y, z
<1>10. y = x <=> t[a] = ":"
  <2>1. L + 3 \in 1..(L + 3) /\ q + (L + 3) = a
    BY ONLY <1>1, <1>6
  <2>2. ASSUME y = x PROVE t[a] = ":"
    BY ONLY <1>7, <1>8, <2>1, <2>2
  <2>3. ASSUME t[a] = ":" PROVE y = x
    <3>1. ASSUME NEW i \in 1..(L + 3) PROVE y[i] = x[i]
      <4>1. CASE i = L + 3
        BY ONLY <1>7, <1>8, <2>1, <2>3, <4>1
      <4>2. CASE i # L + 3
        <5>1. i \in 1..(L + 2)
          BY ONLY <1>1, <4>2, i \in 1..(L + 3)
        <5> QED BY ONLY <1>7, <1>8, <5>1, i \in 1..(L + 3)
      <4> QED BY ONLY <4>1, <4>2
    <3> QED BY ONLY <1>5, <1>6, <1>8, <3>1, SameSeq
  <2> QED BY ONLY <2>2, <2>3
<1> QED BY ONLY <1>6, <1>9, <1>10 DEF z, NameFound

Ready == /\ FlowInv /\ OutcomeInv /\ IInv
         /\ claims # <<>> /\ Prepares(Token, config)

NamePlace == Min(NamePlaces(Text, config))

ValueEnd == find_value_interval(Text, config).r

Part == SubSeq(Text, ValuePlace + 1, ValueEnd)

(* What is known of a token that has been prepared. *)
LEMMA ReadyFacts ==
    ASSUME Ready
    PROVE  /\ sep = Tight /\ Mentioned /\ ~FailsEarly
           /\ FirstFacts(NamePlace, ValuePlace)
           /\ config.type = "string" => ClosingQuotes(Text, config) # {}
           /\ config.type \in {"string", "number"}
           /\ config.form \in {"reveal", "domain", "digest", "hidden"}
           /\ config.form = "domain" => config.type = "string"
           /\ config.max \in Nat \ {0}
<1>1. FlowInv /\ OutcomeInv /\ IInv /\ claims # <<>> /\ Prepares(Token, config)
  BY ONLY Ready DEF Ready
<1>2. ~FailsEarly
  BY <1>1, PreparesIs
<1>3. sep = Tight /\ Mentioned
  BY ONLY <1>2 DEF FailsEarly, Tight
<1>4. FirstFacts(NamePlace, ValuePlace)
  BY <1>1, <1>3, FirstStands DEF NamePlace
<1>5. config.type = "string" => ClosingQuotes(Text, config) # {}
  BY ONLY <1>1 DEF Prepares, FoundInterval, Text
<1>6. /\ config.type \in {"string", "number"}
      /\ config.form \in {"reveal", "domain", "digest", "hidden"}
      /\ config.form = "domain" => config.type = "string"
      /\ config.max \in Nat \ {0}
  BY <1>1, ConfigAssumption DEF FlowInv
<1> QED BY ONLY <1>2, <1>3, <1>4, <1>5, <1>6

(* Where the number stands that the prover takes for the claim. *)
LEMMA NumberStands ==
    ASSUME Ready, ~IsValue, config.type = "number"
    PROVE  LET v == FirstValue
           IN  /\ GoodValue(v) /\ v.kind = "number" /\ ToJson(v) = v.text
               /\ Stored(Text, v.text, ValuePlace)
<1> DEFINE v == FirstValue
<1>1. FirstFacts(NamePlace, ValuePlace)
  BY ReadyFacts
<1>2. /\ GoodValue(v) /\ Stored(Text, ToJson(v), ValuePlace)
      /\ First.name = config.name => v.kind = config.type
      /\ Inner => v = Numeral(<<"0">>)
  BY ONLY <1>1, ~IsValue DEF FirstFacts
<1>3. First.name = config.name \/ Inner
  BY ONLY ~IsValue DEF IsValue, Inner
<1>4. v.kind = "number"
  <2>1. CASE First.name = config.name
    BY ONLY <1>2, <2>1, config.type = "number"
  <2>2. CASE Inner
    BY ONLY <1>2, <2>2, ZeroValue
  <2> QED BY ONLY <1>3, <2>1, <2>2
<1>5. ToJson(v) = v.text
  BY ONLY <1>4 DEF ToJson
<1> QED BY ONLY <1>2, <1>4, <1>5

(* Where the prover ends it: at its end, if it is written in digits. *)
LEMMA NumberEnds ==
    ASSUME Ready, ~IsValue, config.type = "number"
    PROVE  LET a == ValuePlace
               r == ValueEnd
           IN  /\ r \in Nat /\ r < Len(Text)
               /\ Plain(FirstValue) => r = a + Len(FirstValue.text)
               /\ ~Plain(FirstValue) =>
                    \/ r = a
                    \/ a < r /\ At(Text, r) \notin {Comma, RBrace}
<1> DEFINE a == ValuePlace
           t == Text
           v == FirstValue
           ends == {i \in a..(Len(t) - 1) : At(t, i) \notin Digit}
<1>1. /\ GoodValue(v) /\ v.kind = "number" /\ Stored(t, v.text, a)
  BY NumberStands
<1>2. Len(t) \in Nat
  BY TextParts DEF Ready
<1>3. a = ValueStart(t, config) + 1
  BY ONLY DEF ValuePlace, Text
<1>4. ValueEnd = IF ends = {} THEN 0 ELSE Min(ends)
  <2>1. ValueEnd = NumberEnd(t, config)
    BY ONLY config.type = "number" DEF ValueEnd, find_value_interval
  <2>2. NumberEnd(t, config)
          = LET es == {i \in (ValueStart(t, config) + 1)..(Len(t) - 1) :
                          At(t, i) \notin Digit}
            IN  IF es = {} THEN 0 ELSE Min(es)
    BY ONLY DEF NumberEnd
  <2> HIDE DEF a
  <2> QED BY ONLY <1>3, <2>1, <2>2
<1>5. ends = {i \in a..(Len(t) - 1) : At(t, i) \notin Digit}
  OBVIOUS
<1> HIDE DEF a, t, v, ends
<1>6. /\ ends # {} /\ Min(ends) \in Nat /\ Min(ends) < Len(t)
      /\ Plain(v) => Min(ends) = a + Len(v.text)
      /\ ~Plain(v) => \/ Min(ends) = a
                      \/ /\ a < Min(ends)
                         /\ At(t, Min(ends)) \notin {Comma, RBrace}
  BY ONLY <1>1, <1>2, <1>5, NumberStops
<1> QED BY ONLY <1>4, <1>6 DEF a, t, v

(* The circuit finds digits where a number is written in digits. *)
LEMMA PlainPart ==
    ASSUME Ready, ~IsValue, config.type = "number", Plain(FirstValue)
    PROVE  /\ ValueEnd \in Nat /\ ValuePlace < ValueEnd
           /\ ValueEnd < Len(Text) /\ At(Text, ValueEnd) \in {Comma, RBrace}
           /\ Found = Part
           /\ \A i \in 1..Len(Part) : Part[i] \in Digit
<1> DEFINE a == ValuePlace
           t == Text
           r == ValueEnd
           v == FirstValue
           x == v.text
           l == Len(x)
<1>1. GoodValue(v) /\ Stored(t, x, a) /\ v.kind = "number"
  BY NumberStands
<1>2. r \in Nat /\ r < Len(t) /\ r = a + l
  BY NumberEnds
<1>3. t \in Seq(Glyph) /\ x \in Seq(Glyph)
  BY <1>1, TextParts DEF Ready, GoodValue
<1>4. Range(x) \subseteq Digit
  BY ONLY Plain(FirstValue) DEF Plain
<1>5. Found = x
  BY ONLY <1>1, config.type = "number" DEF Found
<1>6. Part = SubSeq(t, a + 1, r)
  BY ONLY DEF Part
<1> HIDE DEF a, t, r, v
<1>7. /\ a \in Nat /\ l \in Nat \ {0} /\ Occurs(t, x, a) /\ a + l < Len(t)
      /\ t[a + l + 1] \in {Comma, RBrace}
  BY ONLY <1>1 DEF Stored
<1>8. At(t, r) \in {Comma, RBrace}
  BY ONLY <1>2, <1>7 DEF At
<1>9. a < r
  <2> HIDE DEF l
  <2> QED BY ONLY <1>2, <1>7
<1> HIDE DEF x
<1>10. SubSeq(t, a + 1, r) = x
  <2> DEFINE y == SubSeq(t, a + 1, a + l)
  <2>1. l \in Nat /\ a + l <= Len(t)
    BY ONLY <1>2, <1>3, <1>7
  <2> HIDE DEF l, y
  <2>2. y \in Seq(Glyph) /\ Len(y) = l /\ \A k \in 1..l : y[k] = t[a + k]
    BY ONLY <1>3, <1>7, <2>1, PartIndex DEF y
  <2>3. \A k \in 1..l : t[a + k] = x[k]
    BY ONLY <1>7 DEF Occurs, l
  <2>4. \A k \in 1..l : y[k] = x[k]
    BY ONLY <2>2, <2>3
  <2>5. y = x
    BY ONLY <1>3, <2>2, <2>4, SameSeq DEF l
  <2> QED BY ONLY <1>2, <2>5 DEF y
<1>11. \A i \in 1..l : x[i] \in Digit
  BY ONLY <1>3, <1>4 DEF Range
<1> QED BY ONLY <1>2, <1>5, <1>6, <1>8, <1>9, <1>10, <1>11 DEF a, t, r

(* The circuit finds a string up to its closing quote. *)
LEMMA StringPart ==
    ASSUME Ready, ~IsValue, config.type = "string"
    PROVE  /\ ValueEnd \in Nat /\ ValuePlace < ValueEnd
           /\ ValueEnd <= Len(Text)
           /\ Found = Part /\ UpToQuote(Part)
           /\ \A i \in (ValuePlace + 1)..(ValueEnd - 2) : At(Text, i) # Quote
           /\ At(Text, ValueEnd - 1) = Quote
<1> DEFINE a == ValuePlace
           t == Text
           r == ValueEnd
           Q == ClosingQuotes(t, config)
           m == Min(Q)
           l == Len(t)
<1>1. FlowInv /\ OutcomeInv /\ sep = Tight /\ Mentioned /\ Q # {}
  BY ReadyFacts DEF Ready
<1>2. \A i : i \in Q <=> /\ i \in Nat /\ i >= a + 1
                         /\ i + 1 <= l /\ t[i + 1] = Quote
  BY <1>1, ClosingQuotesAre
<1>3. t \in Seq(Glyph) /\ l \in Nat /\ a \in Nat
  <2>1. FirstFacts(NamePlace, ValuePlace)
    BY ReadyFacts
  <2> QED BY <1>1, <2>1, TextParts DEF FirstFacts
<1>4. r = m + 1
  BY ONLY config.type = "string" DEF ValueEnd, find_value_interval
<1>5. Found = Part
  <2>1. CASE FirstValue.kind = "string"
    <3>1. SubSeq(t, a + 1, m + 1) = Quoted(Seen(FirstValue))
      BY <1>1, <2>1, FirstStringStops
    <3>2. Found = Quoted(Seen(FirstValue))
      BY ONLY <2>1, config.type = "string" DEF Found
    <3>3. Part = SubSeq(t, a + 1, m + 1)
      BY ONLY <1>4 DEF Part
    <3> QED BY ONLY <3>1, <3>2, <3>3
  <2>2. CASE FirstValue.kind # "string"
    BY ONLY <2>2, config.type = "string" DEF Found, Part, ValueEnd, Text
  <2> QED BY ONLY <2>1, <2>2
<1>6. Part = SubSeq(t, a + 1, r)
  BY ONLY DEF Part
<1>7. m \in Q /\ \A i \in Q : m <= i
  <2>1. Q \in SUBSET Nat
    BY ONLY <1>2
  <2> HIDE DEF Q
  <2> QED BY ONLY <1>1, <2>1, MinOfSet
<1> HIDE DEF Q, m, r, a, t, l
<1>8. m \in Nat /\ m >= a + 1 /\ m + 1 <= l /\ t[m + 1] = Quote
  BY ONLY <1>2, <1>7
<1>9. r \in Nat /\ a < r /\ r <= l /\ r - 1 = m
  BY ONLY <1>3, <1>4, <1>8
<1>10. At(t, r - 1) = Quote
  BY ONLY <1>8, <1>9 DEF At
<1>11. ASSUME NEW i \in (a + 1)..(r - 2) PROVE At(t, i) # Quote
  <2>1. i \in Nat /\ i >= a + 1 /\ i < m /\ i + 1 <= l
    BY ONLY <1>3, <1>8, <1>9, i \in (a + 1)..(r - 2)
  <2>2. i \notin Q
    BY ONLY <1>7, <1>8, <2>1
  <2> QED BY ONLY <1>2, <2>1, <2>2 DEF At
<1>12. UpToQuote(SubSeq(t, a + 1, r))
  <2> DEFINE n == r - a
             x == SubSeq(t, a + 1, r)
  <2>1. /\ n \in Nat /\ n >= 2 /\ a + n = r /\ a + n <= l
    BY ONLY <1>3, <1>8, <1>9
  <2> HIDE DEF n
  <2>2. x = SubSeq(t, a + 1, a + n)
    BY ONLY <2>1
  <2> HIDE DEF x
  <2>3. x \in Seq(Glyph) /\ Len(x) = n /\ \A k \in 1..n : x[k] = t[a + k]
    BY ONLY <1>3, <2>1, <2>2, PartIndex DEF l
  <2>4. x[n] = Quote
    <3>1. n \in 1..n /\ a + n = m + 1
      BY ONLY <1>3, <1>8, <1>9, <2>1
    <3> QED BY ONLY <1>8, <2>3, <3>1
  <2>5. ASSUME NEW i \in 2..(n - 1) PROVE x[i] # Quote
    <3> DEFINE j == a + i - 1
    <3>1. j \in (a + 1)..(r - 2) /\ j + 1 = a + i /\ i \in 1..n
      BY ONLY <1>3, <1>9, <2>1, i \in 2..(n - 1)
    <3> HIDE DEF j
    <3>2. t[j + 1] # Quote
      BY ONLY <1>11, <3>1 DEF At
    <3> QED BY ONLY <2>3, <3>1, <3>2
  <2> QED BY ONLY <2>1, <2>3, <2>4, <2>5 DEF UpToQuote, x
<1> QED BY ONLY <1>5, <1>6, <1>9, <1>10, <1>11, <1>12 DEF a, t, r, l

Decoded == JWTB64Decode(Message(Token), period_idx(Token))

Sound == ~IsValue /\ (config.type = "number" => Plain(FirstValue))

(* Digits do not end a value. *)
LEMMA DigitsPlain ==
    \A d \in Digit : d # Comma /\ d # RBrace /\ d # "]"
<1>1. DOMAIN Digits = 1..10
  BY DEF Digits
<1>2. ASSUME NEW i \in 1..10 PROVE Digits[i] # "]"
  <2>1. Digits[i] \in {"0", "1", "2", "3", "4", "5", "6", "7", "8", "9"}
    BY DEF Digits
  <2>2. \A c \in {"0", "1", "2", "3", "4", "5", "6", "7", "8", "9"} : c # "]"
    OBVIOUS
  <2> QED BY <2>1, <2>2
<1>3. \A d \in Digit : d # "]"
  BY <1>1, <1>2 DEF Digit, Range
<1>4. \A d \in Digit : d \notin Marks
  BY NumberChars
<1> QED BY ONLY <1>3, <1>4, StructuralChars

(* The circuit's bytes at the claim's place. *)
LEMMA ReadyAgrees ==
    ASSUME Ready
    PROVE  /\ Agrees(Decoded, Text) /\ Text \in Seq(Glyph)
           /\ Len(Text) \in Nat /\ JsonLen \in Nat /\ Len(Text) <= JsonLen
           /\ ValuePlace \in Nat /\ ValuePlace <= Len(Text)
           /\ NamePlace \in Nat /\ NamePlace < ValuePlace
           /\ config.name \in Seq(Glyph)
           /\ QuotedAt(Text, config.name, NamePlace)
           /\ ValuePlace = NamePlace + Len(config.name) + 3
<1>1. FlowInv /\ OutcomeInv /\ IInv /\ Prepares(Token, config)
  BY ONLY Ready DEF Ready
<1>2. Agrees(Decoded, Text)
  BY <1>1, DecodedAgrees DEF Decoded
<1>3. /\ Text \in Seq(Glyph) /\ Len(Text) \in Nat
      /\ config.name \in Seq(Glyph) /\ Len(config.name) \in Nat
  BY <1>1, TextParts
<1>4. JsonLen \in Nat /\ Len(Text) <= JsonLen
  BY ONLY <1>2 DEF Agrees
<1> DEFINE a == ValuePlace
           q == NamePlace
           L == Len(config.name)
           l == Len(Text)
<1>5. FirstFacts(q, a)
  BY ReadyFacts
<1>6. /\ q \in Nat /\ a \in Nat /\ a = q + L + 3
      /\ QuotedAt(Text, config.name, q)
      /\ IsValue => a <= l
      /\ ~IsValue => Stored(Text, ToJson(FirstValue), a)
  BY ONLY <1>5 DEF FirstFacts
<1> HIDE DEF a, q
<1>7. ASSUME ~IsValue PROVE a <= l
  <2> DEFINE j == Len(ToJson(FirstValue))
  <2>1. j \in Nat /\ a + j < l
    BY ONLY <1>6, <1>7 DEF Stored
  <2> HIDE DEF j, l
  <2> QED BY ONLY <1>3, <1>6, <2>1 DEF l
<1>8. q < a
  <2> HIDE DEF L
  <2> QED BY ONLY <1>3, <1>6 DEF L
<1> QED BY ONLY <1>2, <1>3, <1>4, <1>6, <1>7, <1>8 DEF a, q, l

(* MatchClaimName accepts the place when the name stands before a value at
   depth 1. *)
LEMMA NameIsMatched ==
    ASSUME Ready
    PROVE  /\ NamePlace + Len(NameTemplate(config)) = ValuePlace
           /\ MatchClaimName(Decoded, NamePlace, ValueEnd, config) <=>
                /\ ~IsValue /\ NamePlace < ValueEnd /\ ValueEnd <= JsonLen
                /\ Depth = 1
<1> DEFINE a == ValuePlace
           q == NamePlace
           t == Text
           B == Decoded
           name == config.name
           x == NameTemplate(config)
<1>1. /\ Agrees(B, t) /\ t \in Seq(Glyph) /\ Len(t) \in Nat
      /\ a \in Nat /\ a <= Len(t) /\ q \in Nat /\ q < a
      /\ name \in Seq(Glyph) /\ QuotedAt(t, name, q)
      /\ a = q + Len(name) + 3
  BY ReadyAgrees
<1>2. x = Quoted(name) \o <<":">>
  BY ONLY DEF NameTemplate
<1>3. FirstFacts(q, a)
  BY ReadyFacts
<1>4. /\ IsValue => t[a] # ":"
      /\ ~IsValue => t[a] = ":" /\ Level(t, q + 1) = Depth
  BY ONLY <1>3 DEF FirstFacts
<1>5. MatchClaimName(B, q, ValueEnd, config) <=>
        /\ SubSeq(B, q + 1, q + Len(x)) = x
        /\ q < ValueEnd /\ ValueEnd <= JsonLen
        /\ Level(B, q + 1) = 1
  BY ONLY DEF MatchClaimName, Level
<1> HIDE DEF a, q, t, B, name, x
<1>6. /\ SubSeq(B, q + 1, q + Len(x)) = x <=> t[a] = ":"
      /\ q + Len(x) = a
  <2>1. NameBefore(t, name, q, a, x)
    BY ONLY <1>1, <1>2 DEF NameBefore
  <2>2. NameFound(B, t, q, a, x)
    BY ONLY <1>1, <2>1, NameMatches
  <2> QED BY ONLY <2>2 DEF NameFound
<1>7. Level(B, q + 1) = Level(t, q + 1)
  <2>1. q + 1 \in 0..Len(t)
    BY ONLY <1>1
  <2> QED BY ONLY <1>1, <2>1, AgreesLevel
<1>8. MatchClaimName(B, q, ValueEnd, config) <=>
        /\ ~IsValue /\ q < ValueEnd /\ ValueEnd <= JsonLen /\ Depth = 1
  BY ONLY <1>4, <1>5, <1>6, <1>7
<1> QED BY ONLY <1>6, <1>8 DEF a, q, B, x

(* What the circuit's templates read of a value with sound ends. *)
LEMMA SoundPart ==
    ASSUME Ready, Sound
    PROVE  LET a == ValuePlace
               r == ValueEnd
           IN  /\ a \in Nat /\ r \in Nat /\ a < r /\ r <= JsonLen
               /\ NamePlace < r
               /\ Found \in Seq(Glyph) /\ Len(Found) = r - a
               /\ \A i \in 1..Len(Found) : Found[i] = Text[a + i]
               /\ config.type = "string" => UpToQuote(Found)
               /\ config.type = "number" =>
                    \A i \in 1..Len(Found) : Found[i] \in Digit
               /\ \A max \in Nat :
                    /\ RevealedBytes(Decoded, a, r, max) = Padded(Found, max)
                    /\ HashedBytes(Decoded, a, r, max)
                         = [i \in 1..Len(Found) |->
                              IF i <= max THEN Found[i] ELSE Nul]
               /\ \A i \in 0..(Len(Text) - 1) : At(Decoded, i) = At(Text, i)
               /\ r <= Len(Text)
<1> DEFINE a == ValuePlace
           r == ValueEnd
           t == Text
           B == Decoded
           x == Part
<1>1. /\ Agrees(B, t) /\ t \in Seq(Glyph) /\ Len(t) \in Nat
      /\ a \in Nat /\ JsonLen \in Nat /\ Len(t) <= JsonLen
      /\ NamePlace \in Nat /\ NamePlace < a
  BY ReadyAgrees
<1>2. ~IsValue /\ (config.type = "number" => Plain(FirstValue))
  BY ONLY Sound DEF Sound
<1>3. config.type \in {"string", "number"}
  BY ReadyFacts
<1>4. /\ r \in Nat /\ a < r /\ r <= Len(t) /\ Found = x
      /\ config.type = "string" => UpToQuote(x)
      /\ config.type = "number" => \A i \in 1..Len(x) : x[i] \in Digit
  <2>1. CASE config.type = "string"
    BY <1>2, <2>1, StringPart
  <2>2. CASE config.type = "number"
    <3>1. /\ r \in Nat /\ a < r /\ r < Len(t) /\ Found = x
          /\ \A i \in 1..Len(x) : x[i] \in Digit
      BY <1>2, <2>2, PlainPart
    <3>2. r <= Len(t)
      BY ONLY <1>1, <3>1
    <3> QED BY ONLY <2>2, <3>1, <3>2
  <2> QED BY ONLY <1>3, <2>1, <2>2
<1>5. x = SubSeq(t, a + 1, r)
  BY ONLY DEF Part
<1> HIDE DEF a, r, t, B, x
<1>6. ASSUME NEW max \in Nat
      PROVE  /\ x \in Seq(Glyph) /\ Len(x) = r - a
             /\ \A i \in 1..Len(x) : x[i] = t[a + i]
             /\ RevealedBytes(B, a, r, max) = Padded(x, max)
             /\ HashedBytes(B, a, r, max)
                  = [i \in 1..Len(x) |-> IF i <= max THEN x[i] ELSE Nul]
             /\ \A i \in 0..(Len(t) - 1) : At(B, i) = At(t, i)
  <2>1. PartOf(t, a, r, x)
    BY ONLY <1>1, <1>4, <1>5 DEF PartOf
  <2>2. SamePart(B, t, a, r, x, max)
    BY ONLY <1>1, <2>1, max \in Nat, AgreesPart
  <2> QED BY ONLY <2>2 DEF SamePart
<1>7. /\ x \in Seq(Glyph) /\ Len(x) = r - a
      /\ \A i \in 1..Len(x) : x[i] = t[a + i]
      /\ \A i \in 0..(Len(t) - 1) : At(B, i) = At(t, i)
  <2>1. 0 \in Nat
    OBVIOUS
  <2> QED BY ONLY <1>6, <2>1
<1>8. r <= JsonLen /\ NamePlace < r
  BY ONLY <1>1, <1>4
<1>9. \A max \in Nat :
         /\ RevealedBytes(B, a, r, max) = Padded(x, max)
         /\ HashedBytes(B, a, r, max)
              = [i \in 1..Len(x) |-> IF i <= max THEN x[i] ELSE Nul]
  BY ONLY <1>6
<1> QED BY ONLY <1>1, <1>4, <1>7, <1>8, <1>9 DEF a, r, t, B

(* The circuit's checks of the value hold for sound ends. *)
LEMMA SoundChecks ==
    ASSUME Ready, Sound
    PROVE  LET a == ValuePlace
               r == ValueEnd
           IN  /\ ValidateClaimValue(Decoded, a, r, config.type)
               /\ RevealsBytes(Decoded, a, r, config.type)
                    <=> ~(a + FieldLen > JsonLen)
<1> DEFINE a == ValuePlace
           r == ValueEnd
           t == Text
           B == Decoded
           x == Found
           l == Len(t)
<1>1. /\ a \in Nat /\ r \in Nat /\ a < r /\ r <= JsonLen /\ r <= l
      /\ Len(x) = r - a
      /\ \A i \in 1..Len(x) : x[i] = t[a + i]
      /\ config.type = "number" => \A i \in 1..Len(x) : x[i] \in Digit
      /\ \A i \in 0..(l - 1) : At(B, i) = At(t, i)
  BY SoundPart
<1>2. /\ JsonLen \in Nat /\ l \in Nat /\ l <= JsonLen
      /\ FieldLen \in Nat \ {0}
  BY ReadyAgrees, FieldLenAssumption
<1>3. /\ ~IsValue /\ (config.type = "number" => Plain(FirstValue))
  BY ONLY Sound DEF Sound
<1>4. config.type = "string" =>
        /\ \A i \in (a + 1)..(r - 2) : At(t, i) # Quote
        /\ At(t, r - 1) = Quote
  BY <1>3, StringPart
<1>5. config.type = "number" => r < l /\ At(t, r) \in {Comma, RBrace}
  BY <1>3, PlainPart
<1> HIDE DEF a, r, t, B, x, l
<1>6. IntervalIndicator(a, r)
  BY ONLY <1>1 DEF IntervalIndicator
<1>7. IntervalIndicator(a, a + FieldLen) <=> ~(a + FieldLen > JsonLen)
  BY ONLY <1>1, <1>2 DEF IntervalIndicator
<1>8. ASSUME config.type = "number" PROVE AssertEndNumber(B, r)
  <2>1. r \in 0..(l - 1)
    BY ONLY <1>1, <1>2, <1>5, <1>8
  <2>2. At(B, r) \in {Comma, RBrace}
    BY ONLY <1>1, <1>5, <1>8, <2>1
  <2> QED BY ONLY <2>2 DEF AssertEndNumber
<1>9. ASSUME config.type = "number", NEW i \in a..(r - 1)
      PROVE  At(B, i) \notin {Comma, "]", RBrace}
  <2> DEFINE k == i - a + 1
  <2>1. k \in 1..Len(x) /\ a + k = i + 1 /\ i \in 0..(l - 1)
    BY ONLY <1>1, <1>2, i \in a..(r - 1)
  <2> HIDE DEF k
  <2>2. At(B, i) = t[a + k] /\ x[k] = t[a + k] /\ x[k] \in Digit
    BY ONLY <1>1, <1>9, <2>1 DEF At
  <2> QED BY ONLY <2>2, DigitsPlain
<1>10. ASSUME config.type = "string"
       PROVE  /\ \A i \in (a + 1)..(r - 2) : At(B, i) # Quote
              /\ At(B, r - 1) = Quote
  <2>1. /\ \A i \in (a + 1)..(r - 2) : i \in 0..(l - 1)
        /\ r - 1 \in 0..(l - 1)
    BY ONLY <1>1, <1>2
  <2> QED BY ONLY <1>1, <1>4, <1>10, <2>1
<1>11. ValidateClaimValue(B, a, r, config.type)
  BY ONLY <1>6, <1>8, <1>9, <1>10 DEF ValidateClaimValue
<1>12. RevealsBytes(B, a, r, config.type) <=> ~(a + FieldLen > JsonLen)
  BY ONLY <1>6, <1>7, <1>8 DEF RevealsBytes
<1> QED BY ONLY <1>11, <1>12 DEF a, r, B

(* They fail for a number that is not written in digits. *)
LEMMA UnsoundFails ==
    ASSUME Ready, ~IsValue, config.type = "number", ~Plain(FirstValue)
    PROVE  /\ ~ValidateClaimValue(Decoded, ValuePlace, ValueEnd, "number")
           /\ ~RevealsBytes(Decoded, ValuePlace, ValueEnd, "number")
<1> DEFINE a == ValuePlace
           r == ValueEnd
           t == Text
           B == Decoded
           l == Len(t)
<1>1. /\ r \in Nat /\ r < l
      /\ \/ r = a
         \/ a < r /\ At(t, r) \notin {Comma, RBrace}
  BY NumberEnds
<1>2. /\ JsonLen \in Nat /\ l \in Nat /\ l <= JsonLen /\ Agrees(B, t)
      /\ a \in Nat
  BY ReadyAgrees
<1> HIDE DEF a, r, B, l
<1>3. CASE r = a
  <2>1. ~IntervalIndicator(a, r)
    BY ONLY <1>2, <1>3 DEF IntervalIndicator
  <2>2. ~ValidateClaimValue(B, a, r, "number")
    BY ONLY <2>1 DEF ValidateClaimValue
  <2>3. ~RevealsBytes(B, a, r, "number")
    BY ONLY <2>1 DEF RevealsBytes
  <2> QED BY ONLY <2>2, <2>3 DEF a, r, B
<1>4. CASE a < r /\ At(t, r) \notin {Comma, RBrace}
  <2>1. r \in 1..(JsonLen - 1) /\ r + 1 \in 1..l
    BY ONLY <1>1, <1>2, <1>4
  <2>2. B[r + 1] = t[r + 1]
    BY ONLY <1>2, <2>1 DEF Agrees, l
  <2>3. At(B, r) \notin {Comma, RBrace}
    BY ONLY <1>4, <2>2 DEF At
  <2>4. ~AssertEndNumber(B, r)
    BY ONLY <2>1, <2>3 DEF AssertEndNumber
  <2>5. ~ValidateClaimValue(B, a, r, "number")
    BY ONLY <2>4 DEF ValidateClaimValue
  <2>6. ~RevealsBytes(B, a, r, "number")
    BY ONLY <2>4 DEF RevealsBytes
  <2> QED BY ONLY <2>5, <2>6 DEF a, r, B
<1> QED BY ONLY <1>1, <1>3, <1>4

In == prepare_prover_inputs(Token, config)

MainParts ==
    LET a == ValuePlace
        r == ValueEnd
        B == Decoded
        text == RevealedBytes(B, a, r, config.max)
    IN  /\ MatchClaimName(B, NamePlace, r, config)
        /\ config.form = "hidden" => ValidateClaimValue(B, a, r, config.type)
        /\ config.form # "hidden" => RevealsBytes(B, a, r, config.type)
        /\ config.form = "reveal" =>
             Value(Claim, config) = RevealClaimValue(B, a, r, config)
        /\ config.form = "domain" =>
             /\ OneAtSign(text)
             /\ Value(Claim, config) = RevealDomainOnly(text)
        /\ config.form = "digest" =>
             PaddingFits(r - a, config.max)

(* The inputs that prepare_prover_inputs computes. *)
LEMMA InIs ==
    /\ In.message = Message(Token) /\ In.period_idx = period_idx(Token)
    /\ In.l = NamePlace /\ In.r = ValueEnd
    /\ Revealed(config) => In.value = <<Value(Claim, config)>>
    /\ config.form = "digest" => In.aux = <<Claim>>
<1>1. find_value_interval(Text, config).l = NamePlace
  BY ONLY DEF find_value_interval, NamePlace
<1>2. ClaimOf(Token.claims, config.name) = Claim
  BY ONLY DEF Claim, Token
<1> QED BY ONLY <1>1, <1>2 DEF In, prepare_prover_inputs, ValueEnd, Text

(* The circuit's constraints, with those inputs. *)
LEMMA MainIs ==
    ASSUME Ready
    PROVE  Main(In, config) <=> MainParts
<1>1. JWTB64Decode(In.message, In.period_idx) = Decoded
  BY ONLY InIs DEF Decoded
<1>2. In.l + Len(NameTemplate(config)) = ValuePlace
  <2>1. NamePlace + Len(NameTemplate(config)) = ValuePlace
    BY NameIsMatched
  <2> QED BY ONLY <2>1, InIs
<1>3. In.l = NamePlace /\ In.r = ValueEnd
  BY ONLY InIs
<1>4. config.form \in {"reveal", "domain"}
        => In.value[1] = Value(Claim, config)
  BY ONLY InIs DEF Revealed
<1> DEFINE x == In
           c == config
           a == x.l + Len(NameTemplate(config))
           B == JWTB64Decode(x.message, x.period_idx)
<1>5. Main(x, c) <=>
        /\ MatchClaimName(B, x.l, x.r, c)
        /\ c.form = "hidden" => ValidateClaimValue(B, a, x.r, c.type)
        /\ c.form # "hidden" => RevealsBytes(B, a, x.r, c.type)
        /\ c.form = "reveal" => x.value[1] = RevealClaimValue(B, a, x.r, c)
        /\ c.form = "domain" =>
             /\ OneAtSign(RevealedBytes(B, a, x.r, c.max))
             /\ x.value[1] = RevealDomainOnly(RevealedBytes(B, a, x.r, c.max))
        /\ c.form = "digest" => PaddingFits(x.r - a, c.max)
  BY ONLY DEF Main
<1>6. a = ValuePlace /\ B = Decoded /\ x.l = NamePlace /\ x.r = ValueEnd
  BY ONLY <1>1, <1>2, <1>3
<1>7. c.form \in {"reveal", "domain"} => x.value[1] = Value(Claim, c)
  BY ONLY <1>4
<1> HIDE DEF x, a, B
<1>8. MainParts <=>
        /\ MatchClaimName(B, x.l, x.r, c)
        /\ c.form = "hidden" => ValidateClaimValue(B, a, x.r, c.type)
        /\ c.form # "hidden" => RevealsBytes(B, a, x.r, c.type)
        /\ c.form = "reveal" =>
             Value(Claim, c) = RevealClaimValue(B, a, x.r, c)
        /\ c.form = "domain" =>
             /\ OneAtSign(RevealedBytes(B, a, x.r, c.max))
             /\ Value(Claim, c)
                  = RevealDomainOnly(RevealedBytes(B, a, x.r, c.max))
        /\ c.form = "digest" => PaddingFits(x.r - a, c.max)
  BY ONLY <1>6 DEF MainParts
<1>9. Main(x, c) <=> MainParts
  BY ONLY <1>5, <1>7, <1>8
<1> QED BY ONLY <1>9 DEF x

(* Each form of disclosure demands what it should of the part. *)
LEMMA RevealsString ==
    ASSUME Ready, Sound, config.form = "reveal", config.type = "string"
    PROVE  Value(Claim, config)
             = RevealClaimValue(Decoded, ValuePlace, ValueEnd, config)
           <=> Found = Quoted(Claim.text)
<1> DEFINE a == ValuePlace
           r == ValueEnd
           x == Found
           y == Claim.text
           n == config.max
<1>1. n \in Nat
  BY ReadyFacts
<1>2. UpToQuote(x) /\ RevealedBytes(Decoded, a, r, n) = Padded(x, n)
  <2>1. \A max \in Nat : RevealedBytes(Decoded, a, r, max) = Padded(x, max)
    BY SoundPart
  <2>2. UpToQuote(x)
    BY SoundPart
  <2> HIDE DEF n
  <2> QED BY ONLY <1>1, <2>1, <2>2
<1>3. Claim.kind = "string" /\ Len(Quoted(y)) <= n
  <2>1. Packable(Claim, config)
    BY ONLY Ready, config.form = "reveal", config.type = "string"
       DEF Ready, Prepares, Revealed, Claim, Token
  <2> QED BY ONLY <2>1, config.form = "reveal" DEF Packable, ToPack
<1>4. y \in Seq(Glyph) /\ NulFree(y)
  <2>1. FlowInv
    BY ONLY Ready DEF Ready
  <2>2. Claim # Null
    BY ONLY <1>3 DEF Null
  <2> QED BY ONLY <2>1, <2>2, ClaimIs DEF GoodValue
<1>5. Value(Claim, config) = Pack(Quoted(y), n)
  BY ONLY config.form = "reveal", config.type = "string" DEF Value, ToPack
<1>6. RevealClaimValue(Decoded, a, r, config) = Padded(x, n)
  BY ONLY <1>2, config.type = "string" DEF RevealClaimValue
<1> HIDE DEF a, r, x, y, n
<1>7. Pack(Quoted(y), n) = Padded(x, n) <=> x = Quoted(y)
  BY ONLY <1>1, <1>2, <1>3, <1>4, RevealString
<1> QED BY ONLY <1>5, <1>6, <1>7 DEF a, r, x, y

(* A revealed number is the one in the text. *)
LEMMA RevealsNumber ==
    ASSUME Ready, Sound, config.form = "reveal", config.type = "number"
    PROVE  Value(Claim, config)
             = RevealClaimValue(Decoded, ValuePlace, ValueEnd, config)
           <=> NumberFound = NumberInput(Claim)
<1> DEFINE a == ValuePlace
           r == ValueEnd
           x == Found
           n == config.max
<1>1. n \in Nat
  BY ReadyFacts
<1>2. /\ x \in Seq(Glyph) /\ \A i \in 1..Len(x) : x[i] \in Digit
      /\ \A max \in Nat : RevealedBytes(Decoded, a, r, max) = Padded(x, max)
  BY SoundPart
<1>3. RevealClaimValue(Decoded, a, r, config) = AsciiDigitsToField(Padded(x, n))
  <2>1. RevealedBytes(Decoded, a, r, n) = Padded(x, n)
    <3> HIDE DEF n
    <3> QED BY ONLY <1>1, <1>2
  <2> QED BY ONLY <2>1, config.type = "number" DEF RevealClaimValue
<1>4. Value(Claim, config) = NumberInput(Claim)
  BY ONLY config.type = "number" DEF Value
<1>5. NumberFound = IF Len(x) < n THEN Number(x)
                                  ELSE Number(SubSeq(x, 1, n)) + 48
  BY ONLY DEF NumberFound
<1> HIDE DEF a, r, x, n
<1>6. AsciiDigitsToField(Padded(x, n))
        = IF Len(x) < n THEN Number(x) ELSE Number(SubSeq(x, 1, n)) + 48
  BY ONLY <1>1, <1>2, NumberRevealed
<1>7. RevealClaimValue(Decoded, a, r, config) = NumberFound
  BY ONLY <1>3, <1>5, <1>6
<1> QED BY ONLY <1>4, <1>7 DEF a, r

(* The padding has too many zero bytes iff the last block has no room. *)
LEMMA ZeroBytes ==
    ASSUME NEW n \in Nat
    PROVE  CalculatePadding(n) <= MaxZeroBytes
             <=> ~(n % Block >= Block - LenBytes)
<1> DEFINE b == Block
           e == LenBytes
           q == n \div b
           s == n % b
<1>1. b \in Nat /\ e \in Nat /\ e >= 1 /\ b > e
  BY BlockAssumption
<1>2. q \in Nat /\ s \in 0..(b - 1) /\ n = b * q + s
  <2> HIDE DEF b
  <2> QED BY ONLY <1>1, n \in Nat
<1>3. PaddedLen(n) = IF s + e < b THEN b * q + b ELSE b * q + b + b
  <2> DEFINE x == n + 1 + e + b - 1
  <2>1. PaddedLen(n) = b * (x \div b)
    BY ONLY DEF PaddedLen
  <2> HIDE DEF b, e, q, s
  <2>2. ASSUME NEW k \in Nat, NEW t \in 0..(b - 1), x = b * k + t
        PROVE  x \div b = k
    BY ONLY <1>1, <2>2
  <2>3. CASE s + e < b
    <3>1. x = b * (q + 1) + (s + e) /\ b * (q + 1) = b * q + b
      BY ONLY <1>1, <1>2
    <3>2. s + e \in 0..(b - 1) /\ q + 1 \in Nat
      BY ONLY <1>1, <1>2, <2>3
    <3> QED BY ONLY <2>1, <2>2, <2>3, <3>1, <3>2
  <2>4. CASE ~(s + e < b)
    <3>1. x = b * (q + 2) + (s + e - b) /\ b * (q + 2) = b * q + b + b
      BY ONLY <1>1, <1>2
    <3>2. s + e - b \in 0..(b - 1) /\ q + 2 \in Nat
      BY ONLY <1>1, <1>2, <2>4
    <3> QED BY ONLY <2>1, <2>2, <2>4, <3>1, <3>2
  <2> QED BY ONLY <2>3, <2>4
<1> DEFINE p == b * q
<1>4. p \in Nat
  BY ONLY <1>1, <1>2
<1>5. /\ CalculatePadding(n) = PaddedLen(n) - (n + 1 + e)
      /\ MaxZeroBytes = b - e - 1
  BY ONLY DEF CalculatePadding, MaxZeroBytes
<1> HIDE DEF b, e, q, s, p
<1>6. n = p + s /\ PaddedLen(n) = IF s + e < b THEN p + b ELSE p + b + b
  BY ONLY <1>2, <1>3 DEF p
<1>7. CalculatePadding(n) <= MaxZeroBytes <=> ~(s >= b - e)
  BY ONLY <1>1, <1>2, <1>4, <1>5, <1>6
<1> QED BY ONLY <1>7 DEF b, e, s

(* Whether the found value fits the hash of the circuit. *)
LEMMA DigestFits ==
    ASSUME Ready, Sound
    PROVE  PaddingFits(ValueEnd - ValuePlace, config.max)
             <=> ~(\/ PaddedLen(Len(Found)) > MaxPaddedLen(config.max)
                   \/ Len(Found) % Block >= Block - LenBytes)
<1> DEFINE n == Len(Found)
           p == PaddedLen(n)
           m == MaxPaddedLen(config.max)
<1>1. n = ValueEnd - ValuePlace /\ n \in Nat
  <2>1. Found \in Seq(Glyph) /\ Len(Found) = ValueEnd - ValuePlace
    BY SoundPart
  <2> QED BY ONLY <2>1
<1>2. p \in Nat
  <2> HIDE DEF n
  <2> QED BY <1>1, PaddedLenFits
<1>3. m \in Int
  <2> DEFINE X == 8 * config.max + 1 + 8 * LenBytes
             D == 8 * Block
             k == X \div D + 1
  <2>1. config.max \in Nat
    BY ReadyFacts
  <2>2. Block \in Nat /\ LenBytes \in Nat /\ Block > 0
    BY BlockAssumption
  <2>3. X \in Nat /\ D \in Nat /\ D > 0
    BY ONLY <2>1, <2>2
  <2> HIDE DEF X, D
  <2>4. k \in Int
    BY ONLY <2>3
  <2>5. m = Block * k
    BY ONLY DEF MaxPaddedLen, X, D
  <2> HIDE DEF k, m
  <2> QED BY ONLY <2>2, <2>4, <2>5
<1>4. PaddingFits(ValueEnd - ValuePlace, config.max)
        <=> CalculatePadding(n) <= MaxZeroBytes /\ p <= m
  BY ONLY <1>1 DEF PaddingFits
<1> HIDE DEF p, m
<1>5. p <= m <=> ~(p > m)
  BY ONLY <1>2, <1>3
<1> HIDE DEF n
<1>6. CalculatePadding(n) <= MaxZeroBytes <=> ~(n % Block >= Block - LenBytes)
  BY <1>1, ZeroBytes
<1> QED BY ONLY <1>4, <1>5, <1>6 DEF p, m, n

(* The first member that mentions the name is a member. *)
LEMMA FirstIsMember ==
    ASSUME Ready
    PROVE  First \in Members
<1>1. FlowInv /\ OutcomeInv /\ Mentioned
  BY ReadyFacts DEF Ready
<1> DEFINE n == Len(All)
           T == Mentioning
<1>2. /\ n \in Nat /\ \A i \in 1..n : All[i] \in Members
  BY <1>1, AllMembers
<1>3. T = {i \in 1..n : OfMember(All[i], config.name)} /\ T # {}
  BY <1>1, MentioningIs
<1> HIDE DEF n, T
<1>4. T \in SUBSET Nat
  BY ONLY <1>2, <1>3
<1>5. Min(T) \in T
  BY ONLY <1>3, <1>4, MinOfSet
<1>6. All[Min(T)] \in Members
  BY ONLY <1>2, <1>3, <1>5
<1> QED BY ONLY <1>6 DEF First, T

(* A string found inside an inner object is punctuation. *)
LEMMA InnerIsGlue ==
    ASSUME Ready, Sound, Inner, config.type = "string"
    PROVE  \A k \in 2..(Len(Found) - 1) : Found[k] \in Glue
<1> DEFINE a == ValuePlace
           r == ValueEnd
           t == Text
           x == Found
           l == Len(x)
<1>1. FirstFacts(NamePlace, a)
  BY ReadyFacts
<1>2. ~IsValue
  BY ONLY Sound DEF Sound
<1>3. /\ FirstValue = Numeral(<<"0">>) /\ GlueAfter(t, a + 2)
      /\ Stored(t, ToJson(FirstValue), a)
  BY ONLY <1>1, <1>2, Inner DEF FirstFacts
<1>4. t[a + 2] \in Glue
  <2>1. Stored(t, <<"0">>, a)
    BY ONLY <1>3, ZeroValue
  <2>2. a \in Nat /\ t[a + 1 + 1] \in {Comma, RBrace}
    BY ONLY <2>1 DEF Stored
  <2>3. a + 1 + 1 = a + 2
    BY ONLY <2>2
  <2> QED BY ONLY <2>2, <2>3 DEF Glue
<1>5. /\ a \in Nat /\ r \in Nat /\ a < r /\ r <= Len(t)
      /\ l = r - a /\ \A i \in 1..l : x[i] = t[a + i]
      /\ UpToQuote(x)
  BY SoundPart
<1>6. l \in Nat /\ l >= 2 /\ \A i \in 2..(l - 1) : x[i] # Quote
  BY ONLY <1>5 DEF UpToQuote
<1>7. Len(t) \in Nat
  BY ReadyAgrees
<1> HIDE DEF a, r, t, x, l
<1> DEFINE z == r - 1
<1>8. z \in Nat /\ z <= Len(t)
  BY ONLY <1>5, <1>7
<1>9. ASSUME NEW p \in ((a + 2) + 1)..z PROVE t[p] # Quote
  <2> DEFINE i == p - a
  <2>1. i \in 2..(l - 1) /\ i \in 1..l /\ a + i = p
    BY ONLY <1>5, p \in ((a + 2) + 1)..z
  <2> HIDE DEF i
  <2> QED BY ONLY <1>5, <1>6, <2>1
<1>10. \A p \in ((a + 2) + 1)..z : t[p] \in Glue
  <2> HIDE DEF z
  <2> QED BY ONLY <1>3, <1>8, <1>9 DEF GlueAfter
<1>11. ASSUME NEW k \in 2..(l - 1) PROVE x[k] \in Glue
  <2>1. k \in 1..l
    BY ONLY <1>6, k \in 2..(l - 1)
  <2>2. x[k] = t[a + k]
    BY ONLY <1>5, <2>1
  <2>3. CASE k = 2
    BY ONLY <1>4, <2>2, <2>3
  <2>4. CASE k # 2
    <3>1. a + k \in ((a + 2) + 1)..z
      BY ONLY <1>5, <2>4, k \in 2..(l - 1)
    <3> HIDE DEF z
    <3> QED BY ONLY <1>10, <2>2, <3>1
  <2> QED BY ONLY <2>3, <2>4
<1> QED BY ONLY <1>11 DEF x, l

(* A revealed domain has no zero byte. *)
LEMMA DomainHasNoNul ==
    ASSUME Ready, Sound, config.type = "string",
           NEW n \in Nat \ {0}, NEW d, d = Domain(SearchedIn(Found, n - 1))
    PROVE  /\ RevealDomainOnly(Padded(Found, n)) = Padded(d, n)
           /\ d \in Seq(Glyph) /\ Len(d) <= n /\ NulFree(d)
<1> DEFINE x == Found
           l == Len(x)
           v == FirstValue
<1>1. UpToQuote(x)
  BY SoundPart
<1>2. /\ RevealDomainOnly(Padded(x, n)) = Padded(d, n)
      /\ d \in Seq(Glyph) /\ Len(d) <= n
      /\ \A i \in 1..Len(d) : \E k \in 2..(l - 1) : d[i] = x[k]
      /\ (\A k \in 2..(l - 1) : x[k] # "@") => d = <<>>
  <2> HIDE DEF x
  <2>1. DomainOf(x, n, d)
    BY ONLY d = Domain(SearchedIn(Found, n - 1)) DEF x, DomainOf
  <2>2. DomainShown(x, n, d)
    BY ONLY <1>1, <2>1, n \in Nat \ {0}, DomainRevealed
  <2> QED BY ONLY <2>2 DEF DomainShown, l
<1>3. FirstFacts(NamePlace, ValuePlace) /\ ~IsValue
  BY ReadyFacts DEF Sound
<1>4. CASE Inner
  <2>1. \A k \in 2..(l - 1) : x[k] \in Glue
    BY <1>4, InnerIsGlue
  <2> HIDE DEF x, l
  <2>2. \A k \in 2..(l - 1) : x[k] # "@"
    BY ONLY <2>1, GlyphsDiffer
  <2>3. d = <<>>
    BY ONLY <1>2, <2>2
  <2>4. NulFree(d)
    BY ONLY <2>3 DEF NulFree
  <2> QED BY ONLY <1>2, <2>4 DEF x
<1>5. CASE ~Inner
  <2>1. First.name = config.name
    BY ONLY <1>3, <1>5 DEF IsValue, Inner
  <2>2. v.kind = "string"
    BY ONLY <1>3, <2>1, config.type = "string" DEF FirstFacts
  <2>3. v.text \in Seq(Glyph) /\ NulFree(v.text)
    <3>1. v = First.value
      BY ONLY <2>1 DEF FirstValue
    <3>2. GoodMember(First) /\ NulFree(First.value.text)
      BY FirstIsMember, MemberIsGood
    <3> QED BY ONLY <3>1, <3>2 DEF GoodMember, GoodValue
  <2>4. x = Quoted(Seen(v))
    BY ONLY <2>2, config.type = "string" DEF Found
  <2> DEFINE e == Escaped(v.text)
             w == Seen(v)
             s == Len(w)
  <2>5. /\ w \in Seq(Glyph) /\ s \in Nat /\ e \in Seq(Glyph) /\ s <= Len(e)
        /\ \A i \in 1..s : w[i] = e[i]
    BY ONLY <2>3, SeenParts
  <2>6. \A i \in 1..Len(e) : e[i] # Nul
    BY ONLY <2>3, EscapedNoNul DEF NulFree
  <2> HIDE DEF e, w, x
  <2>7. /\ Len(x) = s + 2 /\ \A i \in 1..s : x[i + 1] = w[i]
    BY ONLY <2>4, <2>5, Glyphs, QuotedParts DEF w
  <2>8. ASSUME NEW k \in 2..(l - 1) PROVE x[k] # Nul
    <3> DEFINE i == k - 1
    <3>1. i \in 1..s /\ i + 1 = k /\ i \in 1..Len(e)
      <4>1. Len(e) \in Nat
        BY ONLY <2>5
      <4> QED BY ONLY <4>1, <2>5, <2>7, k \in 2..(l - 1)
    <3> HIDE DEF i, s
    <3> QED BY ONLY <2>5, <2>6, <2>7, <3>1
  <2> HIDE DEF l
  <2>9. NulFree(d)
    BY ONLY <1>2, <2>8 DEF NulFree
  <2> QED BY ONLY <1>2, <2>9 DEF x
<1> QED BY ONLY <1>4, <1>5

(* A text has finitely many at signs. *)
LEMMA CountIsNat ==
    ASSUME NEW w \in Seq(Glyph)
    PROVE  Cardinality(AtPlaces(w)) \in Nat
<1>1. Len(w) \in Nat /\ DOMAIN w = 1..Len(w)
  OBVIOUS
<1>2. AtPlaces(w) = UpTo(w, "@", Len(w))
  BY ONLY <1>1 DEF AtPlaces, UpTo
<1> QED BY ONLY <1>1, <1>2, UpToFinite

(* A domain is revealed when the circuit and prep_inputs take the same
   one. *)
LEMMA RevealsDomain ==
    ASSUME Ready, Sound, config.form = "domain"
    PROVE  LET text == RevealedBytes(Decoded, ValuePlace, ValueEnd, config.max)
           IN  OneAtSign(text) /\ Value(Claim, config) = RevealDomainOnly(text)
                 <=> ~(\/ Domain(Searched(config.max - 1)) # Domain(Claim.text)
                       \/ Cardinality(AtPlaces(Searched(config.max))) > 1)
<1> DEFINE a == ValuePlace
           r == ValueEnd
           x == Found
           y == Claim.text
           n == config.max
           e == Domain(y)
           d == Domain(SearchedIn(x, n - 1))
           c == Cardinality(AtPlaces(SearchedIn(x, n)))
           text == RevealedBytes(Decoded, a, r, n)
<1>1. n \in Nat \ {0} /\ config.type = "string"
  BY ReadyFacts
<1>2. UpToQuote(x) /\ text = Padded(x, n)
  <2>1. \A max \in Nat : RevealedBytes(Decoded, a, r, max) = Padded(x, max)
    BY SoundPart
  <2>2. UpToQuote(x)
    BY <1>1, SoundPart
  <2> HIDE DEF n, x
  <2> QED BY ONLY <1>1, <2>1, <2>2
<1>3. /\ Claim.kind = "string" /\ Places(y, <<"@">>, 0) # {}
      /\ Len(get_domain(y)) <= n
  <2>1. Packable(Claim, config)
    BY ONLY <1>1, Ready, config.form = "domain"
       DEF Ready, Prepares, Revealed, Claim, Token
  <2> QED BY ONLY <2>1, config.form = "domain" DEF Packable, ToPack
<1>4. y \in Seq(Glyph) /\ NulFree(y)
  <2>1. FlowInv
    BY ONLY Ready DEF Ready
  <2>2. Claim # Null
    BY ONLY <1>3 DEF Null
  <2> QED BY ONLY <2>1, <2>2, ClaimIs DEF GoodValue
<1>5. Value(Claim, config) = Pack(get_domain(y), n)
  BY ONLY <1>1, config.form = "domain" DEF Value, ToPack
<1>6. get_domain(y) = e
  <2> HIDE DEF y
  <2> QED BY ONLY <1>3, <1>4, AtStands
<1>7. /\ RevealDomainOnly(Padded(x, n)) = Padded(d, n)
      /\ d \in Seq(Glyph) /\ Len(d) <= n /\ NulFree(d)
  <2>1. \A m \in Nat \ {0} : \A z :
          z = Domain(SearchedIn(x, m - 1)) =>
             /\ RevealDomainOnly(Padded(x, m)) = Padded(z, m)
             /\ z \in Seq(Glyph) /\ Len(z) <= m /\ NulFree(z)
    BY <1>1, DomainHasNoNul
  <2>2. d = Domain(SearchedIn(x, n - 1))
    OBVIOUS
  <2> HIDE DEF x, n, d
  <2> QED BY ONLY <1>1, <2>1, <2>2
<1>8. Domain(Searched(n - 1)) = d
  BY ONLY DEF Searched, SearchedIn
<1>9. Cardinality(AtPlaces(Searched(n))) = c
  BY ONLY DEF Searched, SearchedIn
<1>10. OneAtSign(Padded(x, n)) <=> ~(c > 1)
  <2> DEFINE w == SearchedIn(x, n)
  <2> HIDE DEF x, n
  <2>1. w \in Seq(Glyph)
    <3>1. w = SearchedIn(x, n) /\ n \in Nat
      BY ONLY <1>1
    <3> HIDE DEF w
    <3> QED BY ONLY <1>2, <3>1, SearchedParts
  <2>2. c \in Nat
    <3> HIDE DEF w
    <3>1. Cardinality(AtPlaces(w)) \in Nat
      BY ONLY <2>1, CountIsNat
    <3> QED BY ONLY <3>1 DEF w
  <2>3. OneAtSign(Padded(x, n)) <=> c <= 1
    BY ONLY <1>1, <1>2, OneAt
  <2> HIDE DEF c
  <2> QED BY ONLY <2>2, <2>3
<1> HIDE DEF a, r, x, y, n, e, d, c, text
<1>11. e \in Seq(Glyph) /\ NulFree(e) /\ Len(e) <= n
  <2>1. DomainIn(y, e)
    <3>1. e = Domain(y)
      BY ONLY DEF e
    <3> QED BY ONLY <1>4, <3>1, DomainParts
  <2>2. e \in Seq(Glyph)
    BY ONLY <2>1, Punctuation DEF DomainIn
  <2>3. Len(e) <= n
    BY ONLY <1>3, <1>6
  <2>4. NulFree(e)
    <3>1. CASE e = <<>>
      BY ONLY <3>1 DEF NulFree
    <3>2. CASE e # <<>>
      <4>1. PICK m \in 1..Len(y) : /\ Len(e) = Len(y) - m
                                   /\ \A i \in 1..Len(e) : e[i] = y[m + i]
        BY ONLY <2>1, <3>2 DEF DomainIn
      <4>2. Len(y) \in Nat
        BY ONLY <1>4
      <4>3. \A i \in 1..Len(e) : m + i \in 1..Len(y)
        BY ONLY <4>1, <4>2
      <4> QED BY ONLY <1>4, <4>1, <4>3 DEF NulFree
    <3> QED BY ONLY <3>1, <3>2
  <2> QED BY ONLY <2>2, <2>3, <2>4
<1>12. Pack(e, n) = Padded(e, n)
  BY ONLY <1>1, <1>11, PackPadded
<1>13. Padded(e, n) = Padded(d, n) <=> d = e
  <2>1. ASSUME Padded(e, n) = Padded(d, n) PROVE e = d
    BY ONLY <1>1, <1>7, <1>11, <2>1, PaddedSame
  <2>2. d = e => Padded(e, n) = Padded(d, n)
    OBVIOUS
  <2> QED BY ONLY <2>1, <2>2
<1>14. Value(Claim, config) = RevealDomainOnly(text) <=> d = e
  BY ONLY <1>2, <1>5, <1>6, <1>7, <1>12, <1>13
<1>15. OneAtSign(text) <=> ~(c > 1)
  BY ONLY <1>2, <1>10
<1>16. /\ Domain(Searched(config.max - 1)) = d /\ Domain(Claim.text) = e
       /\ Cardinality(AtPlaces(Searched(config.max))) = c
  BY ONLY <1>8, <1>9 DEF n, e, y
<1>17. RevealedBytes(Decoded, ValuePlace, ValueEnd, config.max) = text
  BY ONLY DEF text, a, r, n
<1> QED BY ONLY <1>14, <1>15, <1>16, <1>17

(* The circuit accepts exactly the tokens without a cause in FailsLate. *)
LEMMA MainDecides ==
    ASSUME Ready
    PROVE  Main(In, config) <=> ~FailsLate
<1> DEFINE a == ValuePlace
           r == ValueEnd
           B == Decoded
           text == RevealedBytes(B, a, r, config.max)
           named == MatchClaimName(B, NamePlace, r, config)
           valid == ValidateClaimValue(B, a, r, config.type)
           reveals == RevealsBytes(B, a, r, config.type)
           value == Value(Claim, config)
                      = RevealClaimValue(B, a, r, config)
           domain == /\ OneAtSign(text)
                     /\ Value(Claim, config) = RevealDomainOnly(text)
           fits == PaddingFits(r - a, config.max)
           far == a + FieldLen > JsonLen
           other == IF config.type = "number"
                    THEN NumberFound # NumberInput(Claim)
                    ELSE Found # Quoted(Claim.text)
           elsewhere ==
               \/ Domain(Searched(config.max - 1)) # Domain(Claim.text)
               \/ Cardinality(AtPlaces(Searched(config.max))) > 1
           long == \/ PaddedLen(Len(Found)) > MaxPaddedLen(config.max)
                   \/ Len(Found) % Block >= Block - LenBytes
<1>1. Main(In, config) <=>
        /\ named
        /\ config.form = "hidden" => valid
        /\ config.form # "hidden" => reveals
        /\ config.form = "reveal" => value
        /\ config.form = "domain" => domain
        /\ config.form = "digest" => fits
  <2>1. Main(In, config) <=> MainParts
    BY MainIs
  <2> QED BY ONLY <2>1 DEF MainParts
<1>2. FailsLate <=>
        \/ IsValue \/ Depth # 1
        \/ config.type = "number" /\ ~Plain(FirstValue)
        \/ config.form # "hidden" /\ far
        \/ config.form = "reveal" /\ other
        \/ config.form = "domain" /\ elsewhere
        \/ config.form = "digest" /\ long
  BY ONLY DEF FailsLate
<1>3. named <=> ~IsValue /\ NamePlace < r /\ r <= JsonLen /\ Depth = 1
  BY NameIsMatched
<1>4. /\ config.form \in {"reveal", "domain", "digest", "hidden"}
      /\ config.type \in {"string", "number"}
  BY ReadyFacts
<1> HIDE DEF named, valid, reveals, value, domain, fits, far, other,
             elsewhere, long
<1>5. CASE IsValue \/ Depth # 1
  BY ONLY <1>1, <1>2, <1>3, <1>5
<1>6. CASE ~IsValue /\ config.type = "number" /\ ~Plain(FirstValue)
  <2>1. ~valid /\ ~reveals
    BY <1>6, UnsoundFails DEF valid, reveals
  <2> QED BY ONLY <1>1, <1>2, <1>6, <2>1
<1>7. CASE ~IsValue /\ Depth = 1
             /\ (config.type = "number" => Plain(FirstValue))
  <2>1. Sound
    BY ONLY <1>7 DEF Sound
  <2>2. named
    <3>1. NamePlace < r /\ r <= JsonLen
      BY <2>1, SoundPart
    <3> QED BY ONLY <1>3, <1>7, <3>1
  <2>3. valid /\ (reveals <=> ~far)
    BY <2>1, SoundChecks DEF valid, reveals, far
  <2>4. config.form = "reveal" => (value <=> ~other)
    <3>1. CASE config.type = "string"
      BY <2>1, <3>1, RevealsString DEF value, other
    <3>2. CASE config.type = "number"
      BY <2>1, <3>2, RevealsNumber DEF value, other
    <3> QED BY ONLY <1>4, <3>1, <3>2
  <2>5. config.form = "domain" => (domain <=> ~elsewhere)
    BY <2>1, RevealsDomain DEF domain, elsewhere
  <2>6. fits <=> ~long
    BY <2>1, DigestFits DEF fits, long
  <2> QED BY ONLY <1>1, <1>2, <1>4, <1>7, <2>2, <2>3, <2>4, <2>5, <2>6
<1> QED BY ONLY <1>5, <1>6, <1>7

(* What serde_json writes for the claim has no zero byte. *)
LEMMA ClaimJson ==
    ASSUME FlowInv
    PROVE  \E S : /\ Glyph \subseteq S /\ ToJson(Claim) \in Seq(S)
                  /\ NulFree(ToJson(Claim))
<1> DEFINE y == ToJson(Claim)
<1>1. CASE Claim = Null
  <2> DEFINE S == Glyph \cup {"n", "u", "l"}
  <2>1. y = <<"n", "u", "l", "l">>
    BY ONLY <1>1 DEF ToJson, Null
  <2>2. y \in Seq(S)
    <3>1. "n" \in S /\ "u" \in S /\ "l" \in S
      BY ONLY DEF S
    <3> HIDE DEF S
    <3> QED BY ONLY <2>1, <3>1
  <2>3. NulFree(y)
    <3>1. "n" # Nul /\ "u" # Nul /\ "l" # Nul
      BY ONLY DEF Nul
    <3>2. Len(y) = 4 /\ y[1] = "n" /\ y[2] = "u" /\ y[3] = "l" /\ y[4] = "l"
      BY ONLY <2>1
    <3> HIDE DEF y
    <3>3. \A i \in 1..4 : i = 1 \/ i = 2 \/ i = 3 \/ i = 4
      OBVIOUS
    <3>4. \A i \in 1..Len(y) : y[i] # Nul
      BY ONLY <3>1, <3>2, <3>3
    <3> QED BY ONLY <3>4 DEF NulFree
  <2>4. Glyph \subseteq S
    BY ONLY DEF S
  <2> HIDE DEF S, y
  <2>5. \E X : Glyph \subseteq X /\ y \in Seq(X) /\ NulFree(y)
    BY ONLY <2>2, <2>3, <2>4
  <2> QED BY ONLY <2>5 DEF y
<1>2. CASE Claim # Null
  <2> DEFINE v == Claim
             e == Escaped(v.text)
  <2>1. v.kind = config.type /\ GoodValue(v) /\ NulFree(v.text)
    BY ONLY <1>2, FlowInv, ClaimIs
  <2>2. config.type \in {"string", "number"}
    BY ConfigAssumption DEF FlowInv
  <2>3. y \in Seq(Glyph)
    BY ONLY <2>1, ValueText
  <2>4. v.text \in Seq(Glyph)
    BY ONLY <2>1 DEF GoodValue
  <2>5. CASE v.kind = "string"
    <3>1. y = Quoted(e)
      BY ONLY <2>5 DEF ToJson
    <3>2. e \in Seq(Glyph)
      BY ONLY <2>4, Glyphs, EscapedIsSeq
    <3>3. \A i \in 1..Len(e) : e[i] # Nul
      BY ONLY <2>1, <2>4, EscapedNoNul DEF NulFree
    <3> HIDE DEF e, y
    <3>4. /\ Len(y) = Len(e) + 2 /\ y[1] = Quote /\ y[Len(e) + 2] = Quote
          /\ \A i \in 1..Len(e) : y[i + 1] = e[i]
      BY ONLY <3>1, <3>2, Glyphs, QuotedParts
    <3> DEFINE l == Len(e)
    <3>5. l \in Nat
      BY ONLY <3>2
    <3> HIDE DEF l
    <3>6. ASSUME NEW i \in 1..(l + 2) PROVE y[i] # Nul
      <4>1. CASE i = 1 \/ i = l + 2
        BY ONLY <3>4, <4>1, GlyphsDiffer DEF l
      <4>2. CASE i # 1 /\ i # l + 2
        <5> DEFINE k == i - 1
        <5>1. k \in 1..l /\ k + 1 = i
          BY ONLY <3>5, <4>2, i \in 1..(l + 2)
        <5> HIDE DEF k
        <5> QED BY ONLY <3>3, <3>4, <5>1 DEF l
      <4> QED BY ONLY <4>1, <4>2
    <3>7. NulFree(y)
      BY ONLY <3>4, <3>6 DEF NulFree, l
    <3>8. \E X : Glyph \subseteq X /\ y \in Seq(X) /\ NulFree(y)
      BY ONLY <2>3, <3>7
    <3> QED BY ONLY <3>8 DEF y
  <2>6. CASE v.kind = "number"
    <3>1. y = v.text
      BY ONLY <2>6 DEF ToJson
    <3>2. NulFree(y)
      BY ONLY <2>1, <3>1
    <3> HIDE DEF y
    <3>3. \E X : Glyph \subseteq X /\ y \in Seq(X) /\ NulFree(y)
      BY ONLY <2>3, <3>2
    <3> QED BY ONLY <3>3 DEF y
  <2> QED BY ONLY <2>1, <2>2, <2>5, <2>6
<1> QED BY ONLY <1>1, <1>2

(* The digest opens unless DoesNotOpen gives a cause. *)
LEMMA OpensDecides ==
    ASSUME Ready, ~FailsLate, inputs = <<In>>, public = Output(In, config)
    PROVE  Opens <=> ~DoesNotOpen
<1>1. CASE config.form # "digest"
  BY ONLY <1>1 DEF Opens, DoesNotOpen
<1>2. CASE config.form = "digest"
  <2> DEFINE a == ValuePlace
             r == ValueEnd
             x == Found
             y == ToJson(Claim)
             n == config.max
             h == HashedBytes(Decoded, a, r, n)
  <2>1. Sound
    BY ONLY ~FailsLate DEF FailsLate, Sound
  <2>2. n \in Nat
    BY ReadyFacts
  <2>3. public[1] = h
    <3>1. In.l + Len(NameTemplate(config)) = a
      <4>1. NamePlace + Len(NameTemplate(config)) = a
        BY NameIsMatched
      <4> QED BY ONLY <4>1, InIs
    <3>2. /\ JWTB64Decode(In.message, In.period_idx) = Decoded
          /\ In.r = r
      BY ONLY InIs DEF Decoded
    <3>3. Output(In, config) = <<h>>
      <4> DEFINE z == In
                 b == JWTB64Decode(z.message, z.period_idx)
                 p == z.l + Len(NameTemplate(config))
      <4>1. Output(z, config) = <<HashedBytes(b, p, z.r, n)>>
        BY ONLY <1>2 DEF Output
      <4> QED BY ONLY <3>1, <3>2, <4>1
    <3> QED BY ONLY <3>3, public = Output(In, config)
  <2>4. Preimage = y
    BY ONLY <1>2, InIs, inputs = <<In>> DEF Preimage
  <2>5. Opens <=> h = y
    BY ONLY <1>2, <2>3, <2>4 DEF Opens
  <2>6. /\ x \in Seq(Glyph)
        /\ h = [i \in 1..Len(x) |-> IF i <= n THEN x[i] ELSE Nul]
    <3>1. \A max \in Nat :
             HashedBytes(Decoded, a, r, max)
               = [i \in 1..Len(x) |-> IF i <= max THEN x[i] ELSE Nul]
      BY <2>1, SoundPart
    <3>2. x \in Seq(Glyph)
      BY <2>1, SoundPart
    <3> HIDE DEF n, x
    <3> QED BY ONLY <2>2, <3>1, <3>2
  <2>7. DoesNotOpen <=> x # y \/ Len(x) > n
    BY ONLY <1>2 DEF DoesNotOpen
  <2> HIDE DEF x, y, n, h
  <2>8. PICK S : Glyph \subseteq S /\ y \in Seq(S) /\ NulFree(y)
    <3>1. FlowInv
      BY ONLY Ready DEF Ready
    <3> QED BY ONLY <3>1, ClaimJson DEF y
  <2>9. x \in Seq(S) /\ Nul \in S
    <3>1. ASSUME NEW X, NEW Y, X \subseteq Y PROVE Seq(X) \subseteq Seq(Y)
      BY <3>1
    <3> QED BY ONLY <2>6, <2>8, <3>1, Glyphs
  <2>10. [i \in 1..Len(x) |-> IF i <= n THEN x[i] ELSE Nul] = y
           <=> x = y /\ Len(x) <= n
    BY ONLY <2>2, <2>8, <2>9, HashSame
  <2>11. Len(x) <= n <=> ~(Len(x) > n)
    <3>1. Len(x) \in Nat
      BY ONLY <2>6
    <3> QED BY ONLY <2>2, <3>1
  <2> QED BY ONLY <2>5, <2>6, <2>7, <2>10, <2>11
<1> QED BY ONLY <1>1, <1>2

(* Each outcome has the causes that OutcomeIsExplained names. *)
LEMMA Explained ==
    ASSUME FlowInv, OutcomeInv, IInv
    PROVE  OutcomeIsExplained
<1>1. ASSUME stage = "refused"
      PROVE  FailsEarly \/ (config.type = "string" /\ First.name # config.name)
  <2>1. claims # <<>> /\ ~Prepares(Token, config)
    BY <1>1 DEF OutcomeInv
  <2> QED BY <2>1, PreparesIs
<1>2. ASSUME stage \in {"unprovable", "proved", "accepted", "rejected"}
      PROVE  /\ Ready /\ inputs = <<In>> /\ ~FailsEarly
             /\ Main(inputs[1], config) <=> ~FailsLate
  <2>1. Ready /\ inputs = <<In>>
    BY <1>2 DEF OutcomeInv, Ready, In
  <2>2. ~FailsEarly
    BY <2>1, ReadyFacts
  <2>3. Main(In, config) <=> ~FailsLate
    BY <2>1, MainDecides
  <2>4. inputs[1] = In
    BY ONLY <2>1
  <2> QED BY ONLY <2>1, <2>2, <2>3, <2>4
<1>3. ASSUME stage = "unprovable" PROVE ~FailsEarly /\ FailsLate
  <2>1. ~Main(inputs[1], config)
    BY <1>3 DEF OutcomeInv
  <2> QED BY ONLY <1>2, <1>3, <2>1
<1>4. ASSUME stage \in {"accepted", "rejected"}
      PROVE  ~FailsEarly /\ ~FailsLate /\ (Opens <=> ~DoesNotOpen)
  <2>1. Main(inputs[1], config) /\ public = Output(inputs[1], config)
    BY <1>4 DEF OutcomeInv
  <2>2. Ready /\ inputs = <<In>> /\ ~FailsEarly /\ ~FailsLate
    BY ONLY <1>2, <1>4, <2>1
  <2>3. public = Output(In, config)
    BY ONLY <2>1, <2>2
  <2>4. Opens <=> ~DoesNotOpen
    BY <2>2, <2>3, OpensDecides
  <2> QED BY ONLY <2>2, <2>4
<1>5. /\ stage = "accepted" => Opens
      /\ stage = "rejected" => ~Opens
  BY DEF OutcomeInv
<1> QED BY ONLY <1>1, <1>3, <1>4, <1>5 DEF OutcomeIsExplained

(* Why a token comes to its end, for all names, members, configurations
   and sizes: that it is refused when it is prepared
   (prepare_prover_inputs), cannot be proved (prepare_circom,
   match_claim.circom), is rejected or is accepted (verify_show) has the
   causes that OutcomeIsExplained gives. *)
THEOREM OutcomeIsExplainedCorrect == Spec => []OutcomeIsExplained
<1>1. Spec => [](FlowInv /\ OutcomeInv)
  BY OutcomeInvInvariant
<1>2. Spec => []IInv
  BY IInvInvariant
<1>3. FlowInv /\ OutcomeInv /\ IInv => OutcomeIsExplained
  BY Explained
<1> QED BY <1>1, <1>2, <1>3, PTL

=============================================================================
