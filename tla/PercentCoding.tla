---------------------------- MODULE PercentCoding --------------------------
(***************************************************************************)
(* Percent coding (http.rs) on texts of bytes: percent_encode, the crate's *)
(* own percent_decode, and the decoder of query strings on the other side. *)
(* A text is read from its front, so each function is defined by what it   *)
(* does there and by itself on the rest.                                   *)
(***************************************************************************)
EXTENDS Integers, Sequences

Bytes == 0 .. 255
Texts == Seq(Bytes)

Percent == 37
Ampersand == 38
Plus == 43
Space == 32

\* Letters, digits, "-", ".", "_" and "~".
Unreserved == (65 .. 90) \cup (97 .. 122) \cup (48 .. 57) \cup {45, 46, 95, 126}

\* HEX: "0" to "9", then "A" to "F".
HexDigit(d) == IF d < 10 THEN 48 + d ELSE 55 + d

Escaped(b) == IF b \in Unreserved THEN <<b>>
              ELSE <<Percent, HexDigit(b \div 16), HexDigit(b % 16)>>

\* Mutant: the value goes into the URL as it is.
PercentEncodeNot(text) == text

PercentEncode(text) ==
    LET encode[t \in Texts] == IF t = << >> THEN << >>
                               ELSE Escaped(Head(t)) \o encode[Tail(t)]
    IN  encode[text]

HexDigits == (48 .. 57) \cup (97 .. 102) \cup (65 .. 70)
decode_hex_nibble(h) == IF h \in 48 .. 57 THEN h - 48
                        ELSE IF h \in 97 .. 102 THEN h - 87 ELSE h - 55

\* "%" and two hexadecimal digits in front.
StartsEscape(t) == /\ t[1] = Percent
                   /\ Len(t) >= 3 /\ t[2] \in HexDigits /\ t[3] \in HexDigits
EscapedByte(t) == 16 * decode_hex_nibble(t[2]) + decode_hex_nibble(t[3])
AfterEscape(t) == SubSeq(t, 4, Len(t))

\* An IncompleteEscape or InvalidEscape ends the result with what is no byte.
BadEscape == 256

PercentDecode(text) ==
    LET decode[t \in Texts] ==
            IF t = << >> THEN << >>
            ELSE IF StartsEscape(t) THEN <<EscapedByte(t)>> \o decode[AfterEscape(t)]
            ELSE IF Head(t) = Percent THEN <<BadEscape>>
            ELSE <<Head(t)>> \o decode[Tail(t)]
    IN  decode[text]

\* A form decoder: the value ends at "&", "+" is a space.
FormDecode(text) ==
    LET decode[t \in Texts] ==
            IF t = << >> THEN << >>
            ELSE IF Head(t) = Ampersand THEN << >>
            ELSE IF StartsEscape(t) THEN <<EscapedByte(t)>> \o decode[AfterEscape(t)]
            ELSE <<IF Head(t) = Plus THEN Space ELSE Head(t)>> \o decode[Tail(t)]
    IN  decode[text]
============================================================================
