--------------------------------- MODULE Texts ---------------------------------
(***************************************************************************)
(* The texts the kernel reads and writes: UUIDs, e-mail addresses, phone     *)
(* numbers, and the traceparent header of a correlation context.  A text is  *)
(* a sequence of characters.  It begins well formed and is damaged by a few  *)
(* edits; a 64-bit number is the sequence of its hexadecimal digits.         *)
(***************************************************************************)
EXTENDS Integers, SequencesExt

CONSTANTS MaxEdits     \* bound on the edits

VARIABLES kind,    \* what the text should be
          text,
          edits    \* number of edits so far

text_vars == <<kind, text, edits>>

None == <<>>

-----------------------------------------------------------------------------
(* Characters.  One stands for all that the parsers treat alike.                  *)

Digit == "0" :> 0 @@ "1" :> 1 @@ "4" :> 4 @@ "8" :> 8
HexDigit == Digit @@ "a" :> 10 @@ "A" :> 10
Whitespace == {" "}

\* How std::format writes a hexadecimal digit
Written(d) == CHOOSE c \in DOMAIN HexDigit \ {"A"} : HexDigit[c] = d

Lower(t) == [i \in DOMAIN t |-> IF t[i] = "A" THEN "a" ELSE t[i]]

Hex(digits) == [i \in DOMAIN digits |-> Written(digits[i])]

AllHex(t) == ToSet(t) \subseteq DOMAIN HexDigit

\* substr(from, count), from 0
substr(t, from, count) == SubSeq(t, from + 1, from + count)

-----------------------------------------------------------------------------
(* UUID *)

\* read_hex in from_string()
read_hex(t) == [i \in DOMAIN t |-> HexDigit[t[i]]]

DashesButLast(t) == t[9] = "-" /\ t[14] = "-" /\ t[19] = "-"

\* The layout 8-4-4-4-12
DashesInPlace(t) == t[9] = "-" /\ t[14] = "-" /\ t[19] = "-" /\ t[24] = "-"

from_string(t) ==
    LET p1 == substr(t, 0, 8)   p2 == substr(t, 9, 4)   p3 == substr(t, 14, 4)
        p4 == substr(t, 19, 4)  p5 == substr(t, 24, 12)
    IN  IF /\ Len(t) = 36
           /\ DashesInPlace(t)
           /\ \A p \in {p1, p2, p3, p4, p5} : AllHex(p)
        THEN <<read_hex(p1) \o read_hex(p2) \o read_hex(p3), read_hex(p4) \o read_hex(p5)>>
        ELSE None

to_string(uuid) ==
    LET hi == Hex(uuid[1])  lo == Hex(uuid[2])
    IN  substr(hi, 0, 8) \o <<"-">> \o substr(hi, 8, 4) \o <<"-">> \o substr(hi, 12, 4)
           \o <<"-">> \o substr(lo, 0, 4) \o <<"-">> \o substr(lo, 4, 12)

to_string_no_dashes(uuid) == Hex(uuid[1]) \o Hex(uuid[2])

\* generate() sets the version and the variant in two random numbers.
generate(a, b) == <<[a EXCEPT ![13] = 4], [b EXCEPT ![1] = 8 + (@ % 4)]>>

-----------------------------------------------------------------------------
(* CorrelationContext *)

NoIds == [trace_id |-> <<>>, span_id |-> <<>>]

\* CorrelationContext::generate()
GeneratedIds(uuid) ==
    LET trace_id == to_string_no_dashes(uuid)
    IN  [trace_id |-> trace_id, span_id |-> substr(trace_id, 0, 16)]

\* A malformed header leaves the context as it was.
set_traceparent(ctx, tp) ==
    LET tid == substr(tp, 3, 32)  sid == substr(tp, 36, 16)
    IN  IF /\ Len(tp) >= 55
           /\ tp[3] = "-" /\ tp[36] = "-" /\ tp[53] = "-"
           /\ AllHex(substr(tp, 0, 2)) /\ AllHex(tid) /\ AllHex(sid)
        THEN [trace_id |-> tid, span_id |-> sid]
        ELSE ctx

traceparent(ctx) ==
    IF ctx.trace_id = <<>> \/ ctx.span_id = <<>>
    THEN <<>>
    ELSE <<"0", "0", "-">> \o ctx.trace_id \o <<"-">> \o ctx.span_id \o <<"-", "0", "1">>

-----------------------------------------------------------------------------
(* Email, PhoneNumber *)

ParseEmail(t) ==
    LET ats == {i \in DOMAIN t : t[i] = "@"}
        at == CHOOSE i \in ats : \A j \in ats : i <= j
    IN  /\ t # <<>>
        /\ ats # {} /\ at # 1 /\ at # Len(t)
        /\ Contains(SubSeq(t, at + 1, Len(t)), ".")
        /\ ToSet(t) \cap Whitespace = {}

ParsePhone(t) ==
    /\ t # <<>> /\ t[1] = "+"
    /\ Len(Tail(t)) \in 7..15
    /\ ToSet(Tail(t)) \subseteq DOMAIN Digit

-----------------------------------------------------------------------------

SampleUuid == <<"0", "8", "a", "4", "0", "0", "0", "8", "-", "4", "a", "0", "0", "-",
                "0", "0", "0", "8", "-", "a", "0", "0", "4", "-",
                "0", "a", "0", "0", "0", "0", "0", "0", "0", "0", "4", "8">>

Samples ==
    {<<"uuid", SampleUuid>>,
     <<"traceparent", traceparent(GeneratedIds(from_string(SampleUuid)))>>,
     <<"email", <<"a", "@", "a", ".", "a">> >>,
     <<"phone", <<"+">> \o [i \in 1..7 |-> "8"]>>,
     <<"phone", <<"+">> \o [i \in 1..15 |-> "8"]>>}

Alphabet == "uuid" :> {"4", "A", "g", "-"} @@ "traceparent" :> {"A", "g", "-"}
            @@ "email" :> {"a", "@", ".", " "} @@ "phone" :> {"+", "0", "a"}

TextInit ==
    /\ \E sample \in Samples : kind = sample[1] /\ text = sample[2]
    /\ edits = 0

Edit ==
    /\ edits < MaxEdits
    /\ edits' = edits + 1
    /\ UNCHANGED kind
    /\ \/ \E i \in DOMAIN text, c \in Alphabet[kind] : text' = [text EXCEPT ![i] = c]
       \/ \E i \in DOMAIN text : text' = RemoveAt(text, i)
       \/ \E i \in 1..Len(text) + 1, c \in Alphabet[kind] : text' = InsertAt(text, i, c)

\* The text is given to its parser.
Parse ==
    /\ edits = MaxEdits
    /\ UNCHANGED text_vars

TextNext == Edit \/ Parse

TextSpec == TextInit /\ [][TextNext]_text_vars

-----------------------------------------------------------------------------
(* Properties *)

PositionsOf(c) == {i \in DOMAIN text : text[i] = c}

\* A UUID text is read exactly when it has the layout, and is written back in lower
\* case; what generate() makes of two random numbers is a version 4 UUID that is
\* read back as it was, and its digits make ids that traceparent() hands on.
UuidsRoundTrip ==
    LET uuid == from_string(text)
    IN  /\ uuid # None <=> /\ Len(text) = 36
                           /\ PositionsOf("-") = {9, 14, 19, 24}
                           /\ \A i \in DOMAIN text : text[i] \in DOMAIN HexDigit \cup {"-"}
        /\ uuid # None =>
              LET new == generate(uuid[1], uuid[2])
                  ids == GeneratedIds(new)
              IN  /\ to_string(uuid) = Lower(text)
                  /\ from_string(to_string(new)) = new
                  /\ to_string(new)[15] = "4" /\ to_string(new)[20] \in {"8", "a"}
                  /\ set_traceparent(NoIds, traceparent(ids)) = ids

Taken == set_traceparent(NoIds, text)

\* The two ids stand where the format has them; the version and what follows
\* the third dash are left open.
IdsInPlace ==
    /\ Len(text) >= 55
    /\ PositionsOf("-") \cap 1..53 = {3, 36, 53}
    /\ \A i \in 4..52 : text[i] \in DOMAIN HexDigit \cup {"-"}

\* What traceparent() writes: "00-{32hex}-{16hex}-01"
TraceparentFormat == IdsInPlace /\ Len(text) = 55 /\ ToSet(SubSeq(text, 1, 2)) = {"0"}

\* A header as traceparent() writes it gives its two ids, one whose ids are damaged
\* or shifted leaves the context alone, and ids that were taken are handed on to the
\* next service unchanged.
TraceparentsForwarded ==
    /\ TraceparentFormat => Taken = [trace_id |-> SubSeq(text, 4, 35), span_id |-> SubSeq(text, 37, 52)]
    /\ Taken # NoIds => IdsInPlace /\ set_traceparent(NoIds, traceparent(Taken)) = Taken

\* local@domain.tld, the three parts not empty
EmailFormat ==
    \E at \in PositionsOf("@"), dot \in PositionsOf(".") :
        /\ PositionsOf("@") = {at} /\ PositionsOf(" ") = {}
        /\ 1 < at /\ at + 1 < dot /\ dot < Len(text)

\* What no address may be: without a local part, without a "." after the "@", or
\* with whitespace
NoEmail ==
    \/ 1 \in PositionsOf("@")
    \/ \A at \in PositionsOf("@"), dot \in PositionsOf(".") : dot < at
    \/ PositionsOf(" ") # {}

\* A "+" and seven to fifteen digits
PhonePattern ==
    /\ PositionsOf("+") = {1}
    /\ Len(text) - 1 \in 7..15
    /\ \A i \in 2..Len(text) : text[i] \in DOMAIN Digit

\* However a text was damaged: UUID and PhoneNumber accept exactly their formats,
\* Email every local@domain.tld and nothing without its "@", "." or local part, and
\* set_traceparent() every header traceparent() writes and none whose ids are
\* damaged; what from_string() and set_traceparent() read is written back and read
\* again without loss.  Email and set_traceparent() accept more than their formats:
\* an empty label ("a@."), and what OnlyTheFormat is about.
TextsMatchReference ==
    /\ kind = "uuid" => UuidsRoundTrip
    /\ kind = "traceparent" => TraceparentsForwarded
    /\ kind = "email" => (EmailFormat => ParseEmail(text)) /\ (NoEmail => ~ParseEmail(text))
    /\ kind = "phone" => (ParsePhone(text) <=> PhonePattern)

=============================================================================
