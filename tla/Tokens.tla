--------------------------------- MODULE Tokens ---------------------------------
(***************************************************************************)
(* base64url as JwtSigner and SecureRandom encode it and the JWT decoder     *)
(* decodes it, and the tokens JwtSigner signs and verifies.  A character of  *)
(* the alphabet is its index; characters outside it are larger numbers.  The *)
(* ints val and buf are kept without the high bits, which are never read.    *)
(***************************************************************************)
EXTENDS Integers, SequencesExt

CONSTANTS Bytes,       \* bytes that data is made of
          Secrets,
          MaxBytes,    \* bound on the length of data
          Iat          \* the byte that stands for the claim "iat"

VARIABLES data,        \* bytes of a payload
          token,       \* the segments of a token, between the dots
          signer,      \* the secret it was signed with
          damaged      \* a segment has been lost or added

token_vars == <<data, token, signer, damaged>>

-----------------------------------------------------------------------------
(* base64url *)

Bits(n, shift, count) == (n \div 2^shift) % 2^count

EncodeByteOneChar(acc, byte) ==
    LET val == (acc.val * 256 + byte) % 2^16
        bits == acc.bits + 8
    IN  [val |-> val, bits |-> bits - 6, out |-> Append(acc.out, Bits(val, bits, 6))]

\* One round of the loop in base64url_encode_impl(): shift a byte in, and take out
\* one or two characters.
EncodeByte(acc, byte) ==
    LET val == (acc.val * 256 + byte) % 2^16
        bits == acc.bits + 8
    IN  [val |-> val,
         bits |-> IF bits >= 6 THEN bits - 12 ELSE bits - 6,
         out |-> acc.out \o <<Bits(val, bits, 6)>>
                    \o IF bits >= 6 THEN <<Bits(val, bits - 6, 6)>> ELSE <<>>]

base64url_encode_impl(bytes) ==
    LET acc == FoldLeft(EncodeByte, [val |-> 0, bits |-> -6, out |-> <<>>], bytes)
    IN  IF acc.bits > -6
        THEN Append(acc.out, Bits(acc.val * 256, acc.bits + 8, 6))
        ELSE acc.out

\* SecureRandom::base64url_encode(): three bytes at a time
EncodeTriple(bytes, i) ==
    LET b0 == bytes[i]
        b1 == IF i + 1 <= Len(bytes) THEN bytes[i + 1] ELSE 0
        b2 == IF i + 2 <= Len(bytes) THEN bytes[i + 2] ELSE 0
    IN  <<Bits(b0, 2, 6), Bits(b0, 0, 2) * 16 + Bits(b1, 4, 4)>>
           \o (IF i + 1 <= Len(bytes) THEN <<Bits(b1, 0, 4) * 4 + Bits(b2, 6, 2)>> ELSE <<>>)
           \o (IF i + 2 <= Len(bytes) THEN <<Bits(b2, 0, 6)>> ELSE <<>>)

base64url_encode(bytes) ==
    FlattenSeq([k \in 1..(Len(bytes) + 2) \div 3 |-> EncodeTriple(bytes, 3 * k - 2)])

Plus == 64
Slash == 65
Other == 66

\* decode_char() also knows the two characters of plain base64.
decode_char(c) == CASE c = Plus -> 62 [] c = Slash -> 63 [] c = Other -> -1 [] OTHER -> c

\* One round of base64url_decode(): other characters are skipped.
DecodeChar(acc, c) ==
    LET buf == (acc.buf * 64 + decode_char(c)) % 2^16
        bits == acc.bits + 6
    IN  IF decode_char(c) < 0 THEN acc
        ELSE IF bits < 8 THEN [acc EXCEPT !.buf = buf, !.bits = bits]
        ELSE [buf |-> buf, bits |-> bits - 8, out |-> Append(acc.out, Bits(buf, bits - 8, 8))]

base64url_decode(encoded) ==
    FoldLeft(DecodeChar, [buf |-> 0, bits |-> 0, out |-> <<>>], encoded).out

-----------------------------------------------------------------------------
(* JWT *)

\* A segment is encoded text, or the encoding of a digest.
Segment(bytes) == [text |-> base64url_encode_impl(bytes), digest |-> <<>>]
DigestSegment(digest) == [text |-> <<>>, digest |-> digest]

\* hmac_sha256(): another digest for another secret or message
hmac_sha256(secret, input) == <<secret, input>>

Header == <<Iat>>

\* json::parse() of a segment: the dump of a JSON value is never empty.
IsJson(segment) == base64url_decode(segment.text) # <<>>

JwtError == <<>>

\* sign() adds "iat" to a payload that has none.
Stamped(payload) == IF Contains(payload, Iat) THEN payload ELSE Append(payload, Iat)

sign(secret, payload) ==
    LET input == <<Segment(Header), Segment(Stamped(payload))>>
    IN  Append(input, DigestSegment(hmac_sha256(secret, input)))

\* Header and payload, decoded
decode_jwt(t) ==
    IF Len(t) < 3 \/ ~IsJson(t[1]) \/ ~IsJson(t[2])
    THEN JwtError
    ELSE <<base64url_decode(t[1].text), base64url_decode(t[2].text)>>

\* constant_time_equal() of what follows the second dot and the expected signature
constant_time_equal(a, b) == Len(a) = Len(b) /\ \A i \in DOMAIN a : a[i] = b[i]

\* verify(): the signature covers what precedes the second dot.
verify(secret, t) ==
    IF Len(t) < 3 \/ ~constant_time_equal(
                         SubSeq(t, 3, Len(t)),
                         <<DigestSegment(hmac_sha256(secret, SubSeq(t, 1, 2)))>>)
    THEN JwtError
    ELSE decode_jwt(t)

-----------------------------------------------------------------------------

TokenInit ==
    /\ data = <<>>
    /\ token = <<>>
    /\ signer \in Secrets
    /\ damaged = FALSE

\* The payload grows, and SecureRandom::generate_token() has more bytes to encode.
AddByte(b) ==
    /\ token = <<>>
    /\ Len(data) < MaxBytes
    /\ data' = Append(data, b)
    /\ UNCHANGED <<token, signer, damaged>>

Sign ==
    /\ token = <<>>
    /\ token' = sign(signer, data)
    /\ UNCHANGED <<data, signer, damaged>>

\* A segment is lost, added or replaced on the way.
Damage ==
    /\ token # <<>> /\ ~damaged
    /\ damaged' = TRUE
    /\ \E i \in 1..3, b \in Bytes :
          \/ token' = RemoveAt(token, i)
          \/ token' = InsertAt(token, i, Segment(<<b>>))
          \/ token' = [token EXCEPT ![i] = Segment(<<b>>)]
          \/ token' = Append(token, Segment(<<b>>))
    /\ UNCHANGED <<data, signer>>

\* The token is verified.
Verify ==
    /\ damaged
    /\ UNCHANGED token_vars

TokenNext == (\E b \in Bytes : AddByte(b)) \/ Sign \/ Damage \/ Verify

TokenSpec == TokenInit /\ [][TokenNext]_token_vars

-----------------------------------------------------------------------------
(* Properties *)

\* The two encoders agree on every data, and what they write has the length without
\* padding and decodes to that data, as plain base64 with padding does; verify()
\* accepts exactly the tokens that sign() makes with the same secret, and returns
\* the payload with its "iat".
TokensRoundTrip ==
    /\ base64url_encode_impl(data) = base64url_encode(data)
    /\ Len(base64url_encode(data)) = (4 * Len(data) + 2) \div 3
    /\ LET encoded == base64url_encode(data)
           plain == [i \in DOMAIN encoded |-> CASE encoded[i] = 62 -> Plus
                                                [] encoded[i] = 63 -> Slash
                                                [] OTHER -> encoded[i]]
       IN  /\ base64url_decode(encoded) = data
           /\ base64url_decode(Append(plain, Other)) = data
    /\ token # <<>> =>
          \A secret \in Secrets :
             verify(secret, token) =
                IF \E payload \in {data} \cup {<<b>> : b \in Bytes} : token = sign(secret, payload)
                THEN <<Header, base64url_decode(token[2].text)>>
                ELSE JwtError
    /\ ~damaged /\ token # <<>> => verify(signer, token) = <<Header, Stamped(data)>>
=============================================================================
