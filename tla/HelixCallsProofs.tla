-------------------------- MODULE HelixCallsProofs -------------------------
(***************************************************************************)
(* Proofs about HelixCalls, for collections of any number of pages with    *)
(* any cursors, and about the percent coding it rests on: decoding gives   *)
(* back what was encoded, for every text.                                  *)
(***************************************************************************)
EXTENDS HelixCalls, SequenceFacts

----------------------------------------------------------------------------
(* Percent coding.                                                         *)

LEMMA TextFacts ==
    /\ << >> \in Texts
    /\ \A t \in Texts : /\ Len(t) \in Nat /\ (Len(t) = 0 <=> t = << >>)
                        /\ t # << >> => /\ Head(t) \in Bytes /\ Head(t) = t[1]
                                        /\ Tail(t) \in Texts
                                        /\ Len(Tail(t)) = Len(t) - 1
<1>1. << >> \in Texts
  BY DEF Texts
<1>2. ASSUME NEW t \in Texts
      PROVE  /\ Len(t) \in Nat /\ (Len(t) = 0 <=> t = << >>)
             /\ t # << >> => /\ Head(t) \in Bytes /\ Head(t) = t[1]
                             /\ Tail(t) \in Texts
                             /\ Len(Tail(t)) = Len(t) - 1
  <2> HIDE DEF Bytes
  <2> QED
    BY HeadTailProperties, EmptySeq, LenProperties DEF Texts
<1> QED
  BY <1>1, <1>2

LEMMA EscapeRestFacts ==
    ASSUME NEW t \in Texts, Len(t) >= 3
    PROVE  AfterEscape(t) \in Texts /\ Len(AfterEscape(t)) = Len(t) - 3
<1> DEFINE n == Len(t)
<1>1. n \in Nat /\ t \in Seq(Bytes)
  BY TextFacts DEF Texts
<1>2. CASE n = 3
  <2>1. SubSeq(t, 4, n) = << >>
    BY <1>1, <1>2
  <2>2. Len(<< >>) = 0 /\ n - 3 = 0
    BY <1>2
  <2>3. AfterEscape(t) = << >>
    BY <2>1 DEF AfterEscape
  <2> HIDE DEF n
  <2>4. Len(t) - 3 = 0
    BY <2>2 DEF n
  <2> QED
    BY <2>2, <2>3, <2>4, TextFacts
<1>3. CASE n >= 4
  <2>1. 4 \in 1 .. n /\ n \in 1 .. n
    BY <1>1, <1>3
  <2> HIDE DEF Bytes
  <2>2. SubSeq(t, 4, n) \in Seq(Bytes) /\ Len(SubSeq(t, 4, n)) = n - 4 + 1
    BY <1>1, <1>3, <2>1, SubSeqProperties
  <2> HIDE DEF n
  <2>3. n - 4 + 1 = n - 3
    BY <1>1
  <2> QED
    BY <2>2, <2>3 DEF AfterEscape, Texts, n
<1>4. n = 3 \/ n >= 4
  <2>1. \A k \in Nat : k >= 3 => k = 3 \/ k >= 4
    OBVIOUS
  <2> QED
    BY <1>1, <2>1
<1> QED
  BY <1>2, <1>3, <1>4

\* A byte is itself or "%" and two digits, which are not "&" and not "%".
LEMMA EscapedFacts ==
    ASSUME NEW b \in Bytes
    PROVE  /\ Escaped(b) \in Texts
           /\ \/ /\ Escaped(b) = <<b>> /\ b # Percent /\ b # Ampersand /\ b # Plus
              \/ \E g, h \in Bytes :
                    /\ Escaped(b) = <<Percent, g, h>>
                    /\ g \in HexDigits /\ h \in HexDigits
                    /\ 16 * decode_hex_nibble(g) + decode_hex_nibble(h) = b
<1>1. CASE b \in Unreserved
  <2>1. Escaped(b) = <<b>>
    BY <1>1 DEF Escaped
  <2>2. b # Percent /\ b # Ampersand /\ b # Plus
    BY <1>1 DEF Unreserved, Percent, Ampersand, Plus
  <2>3. <<b>> \in Texts
    BY DEF Texts
  <2> QED
    BY <2>1, <2>2, <2>3
<1>2. CASE b \notin Unreserved
  <2> DEFINE d == b \div 16
             e == b % 16
             g == HexDigit(d)
             h == HexDigit(e)
  <2>1. d \in 0 .. 15 /\ e \in 0 .. 15 /\ 16 * d + e = b
    BY DEF Bytes
  <2> HIDE DEF d, e
  <2>2. ASSUME NEW x \in 0 .. 15
        PROVE  /\ HexDigit(x) \in Bytes /\ HexDigit(x) \in HexDigits
               /\ decode_hex_nibble(HexDigit(x)) = x
    BY DEF HexDigit, HexDigits, decode_hex_nibble, Bytes
  <2>3. /\ g \in Bytes /\ g \in HexDigits /\ decode_hex_nibble(g) = d
        /\ h \in Bytes /\ h \in HexDigits /\ decode_hex_nibble(h) = e
    BY <2>1, <2>2
  <2>4. Escaped(b) = <<Percent, g, h>>
    BY <1>2 DEF Escaped, d, e
  <2>5. <<Percent, g, h>> \in Texts
    <3>1. Percent \in Bytes
      BY DEF Percent, Bytes
    <3> HIDE DEF g, h, Bytes
    <3> QED
      BY <2>3, <3>1 DEF Texts
  <2> HIDE DEF g, h
  <2> QED
    BY <2>1, <2>3, <2>4, <2>5
<1> QED
  BY <1>1, <1>2

\* What percent_encode does at the front of a text, and on the rest.
IsEncoding(f) ==
    f = [t \in Texts |-> IF t = << >> THEN << >> ELSE Escaped(Head(t)) \o f[Tail(t)]]

LEMMA EncodingExists == \E f : IsEncoding(f)
<1> DEFINE said == [t \in Texts |-> IF t = << >> THEN << >> ELSE Escaped(Head(t))]
           next == [t \in Texts |-> IF t = << >> THEN << >> ELSE Tail(t)]
<1>1. said \in [Texts -> Texts]
  BY TextFacts, EscapedFacts
<1>2. next \in [Texts -> Texts]
  BY TextFacts
<1>3. \A t \in Texts : t # << >> => Len(next[t]) < Len(t)
  <2> SUFFICES ASSUME NEW t \in Texts, t # << >>
               PROVE  Len(Tail(t)) < Len(t)
    OBVIOUS
  <2>1. Len(t) \in Nat /\ Len(Tail(t)) = Len(t) - 1
    BY TextFacts
  <2> QED
    BY <2>1
<1>4. \A t \in Texts : t # << >> => said[t] = Escaped(Head(t)) /\ next[t] = Tail(t)
  OBVIOUS
<1> HIDE DEF said, next
<1>5. PICK f \in [Texts -> Texts] : Unfolds(f, said, next, Texts)
  <2> HIDE DEF Bytes
  <2>1. \E f \in [Seq(Bytes) -> Seq(Bytes)] : Unfolds(f, said, next, Seq(Bytes))
    BY <1>1, <1>2, <1>3, UnfoldsExists DEF Texts
  <2> QED
    BY <2>1 DEF Texts
<1>6. \A t \in Texts : f[t] = IF t = << >> THEN << >> ELSE Escaped(Head(t)) \o f[Tail(t)]
  BY <1>4, <1>5 DEF Unfolds
<1>7. f = [t \in Texts |-> f[t]]
  BY <1>5
<1> QED
  BY <1>6, <1>7 DEF IsEncoding

LEMMA EncodeUnfolds ==
    ASSUME NEW t \in Texts
    PROVE  /\ PercentEncode(t) = IF t = << >> THEN << >>
                                 ELSE Escaped(Head(t)) \o PercentEncode(Tail(t))
           /\ PercentEncode(t) \in Texts
<1> DEFINE e == CHOOSE f : IsEncoding(f)
<1>1. IsEncoding(e)
  BY EncodingExists
<1>2. \A u \in Texts : PercentEncode(u) = e[u]
  BY DEF PercentEncode, IsEncoding
<1> HIDE DEF e
<1>3. \A u \in Texts : e[u] = IF u = << >> THEN << >> ELSE Escaped(Head(u)) \o e[Tail(u)]
  BY <1>1 DEF IsEncoding
<1> DEFINE T == {u \in Texts : e[u] \in Texts}
<1>4. ASSUME NEW u \in Texts, \A v \in Texts : Len(v) < Len(u) => v \in T
      PROVE  u \in T
  <2>1. CASE u = << >>
    BY <1>3, <2>1, TextFacts
  <2>2. CASE u # << >>
    <3>1. Tail(u) \in Texts /\ Len(Tail(u)) = Len(u) - 1 /\ Len(u) \in Nat
      BY <2>2, TextFacts
    <3>2. e[Tail(u)] \in Texts
      <4>1. Len(Tail(u)) < Len(u)
        BY <3>1
      <4> QED
        BY <1>4, <3>1, <4>1
    <3>3. Escaped(Head(u)) \in Texts
      BY <2>2, TextFacts, EscapedFacts
    <3>4. Escaped(Head(u)) \o e[Tail(u)] \in Texts
      BY <3>2, <3>3, ConcatProperties DEF Texts
    <3> QED
      BY <1>3, <2>2, <3>4
  <2> QED
    BY <2>1, <2>2
<1>5. Texts \subseteq T
  <2> HIDE DEF T, Bytes
  <2> QED
    BY <1>4, LengthInduction DEF Texts
<1>6. t # << >> => Tail(t) \in Texts
  BY TextFacts
<1> QED
  BY <1>2, <1>3, <1>5, <1>6

\* What the decoders do at the front of a text, and on the rest.
IsDecoding(f) ==
    f = [t \in Texts |->
            IF t = << >> THEN << >>
            ELSE IF StartsEscape(t) THEN <<EscapedByte(t)>> \o f[AfterEscape(t)]
            ELSE IF Head(t) = Percent THEN <<BadEscape>>
            ELSE <<Head(t)>> \o f[Tail(t)]]

IsFormDecoding(f) ==
    f = [t \in Texts |->
            IF t = << >> THEN << >>
            ELSE IF Head(t) = Ampersand THEN << >>
            ELSE IF StartsEscape(t) THEN <<EscapedByte(t)>> \o f[AfterEscape(t)]
            ELSE <<IF Head(t) = Plus THEN Space ELSE Head(t)>> \o f[Tail(t)]]

LEMMA StartsEscapeFacts ==
    ASSUME NEW t \in Texts, StartsEscape(t)
    PROVE  /\ Len(t) >= 3 /\ EscapedByte(t) \in Bytes
           /\ AfterEscape(t) \in Texts /\ Len(AfterEscape(t)) < Len(t)
<1>1. Len(t) >= 3 /\ t[2] \in HexDigits /\ t[3] \in HexDigits
  BY DEF StartsEscape
<1>2. \A h \in HexDigits : decode_hex_nibble(h) \in 0 .. 15
  BY DEF HexDigits, decode_hex_nibble
<1>3. \A x, y \in 0 .. 15 : 16 * x + y \in Bytes
  BY DEF Bytes
<1>4. EscapedByte(t) \in Bytes
  BY <1>1, <1>2, <1>3 DEF EscapedByte
<1>5. AfterEscape(t) \in Texts /\ Len(AfterEscape(t)) = Len(t) - 3 /\ Len(t) \in Nat
  BY <1>1, EscapeRestFacts, TextFacts
<1>6. \A n \in Nat : n - 3 < n
  OBVIOUS
<1> QED
  BY <1>1, <1>4, <1>5, <1>6

LEMMA DecodingExists == \E f : IsDecoding(f)
<1> DEFINE Marks == 0 .. 256
           said == [t \in Texts |->
                       IF t = << >> THEN << >>
                       ELSE IF StartsEscape(t) THEN <<EscapedByte(t)>>
                       ELSE IF Head(t) = Percent THEN <<BadEscape>>
                       ELSE <<Head(t)>>]
           next == [t \in Texts |->
                       IF t = << >> THEN << >>
                       ELSE IF StartsEscape(t) THEN AfterEscape(t)
                       ELSE IF Head(t) = Percent THEN << >>
                       ELSE Tail(t)]
<1>1. said \in [Texts -> Seq(Marks)]
  <2> SUFFICES ASSUME NEW t \in Texts
               PROVE  said[t] \in Seq(Marks)
    OBVIOUS
  <2>1. \A b \in Bytes \cup {BadEscape} : b \in Marks
    BY DEF Bytes, BadEscape
  <2> HIDE DEF Marks
  <2>2. \A b \in Bytes \cup {BadEscape} : <<b>> \in Seq(Marks)
    BY <2>1
  <2>3. << >> \in Seq(Marks)
    OBVIOUS
  <2>4. /\ t # << >> => Head(t) \in Bytes
        /\ StartsEscape(t) => EscapedByte(t) \in Bytes
    BY TextFacts, StartsEscapeFacts
  <2>5. said[t] \in {<< >>, <<BadEscape>>} \cup {<<b>> : b \in Bytes}
    BY <2>4
  <2> HIDE DEF said
  <2> QED
    BY <2>2, <2>3, <2>5
<1>2. next \in [Texts -> Texts]
  BY TextFacts, StartsEscapeFacts
<1>3. ASSUME NEW t \in Texts, t # << >>
      PROVE  Len(next[t]) < Len(t)
  <2>1. Len(t) \in Nat /\ Len(Tail(t)) = Len(t) - 1 /\ Len(t) # 0
    BY <1>3, TextFacts
  <2>2. Len(<< >>) < Len(t) /\ Len(Tail(t)) < Len(t)
    BY <2>1
  <2>3. StartsEscape(t) => Len(AfterEscape(t)) < Len(t)
    BY StartsEscapeFacts
  <2>4. \/ next[t] = << >> \/ next[t] = Tail(t)
        \/ StartsEscape(t) /\ next[t] = AfterEscape(t)
    OBVIOUS
  <2> HIDE DEF next
  <2> QED
    BY <2>2, <2>3, <2>4
<1>4. ASSUME NEW f \in [Texts -> Seq(Marks)], Unfolds(f, said, next, Texts), NEW t \in Texts
      PROVE  f[t] = IF t = << >> THEN << >>
                    ELSE IF StartsEscape(t) THEN <<EscapedByte(t)>> \o f[AfterEscape(t)]
                    ELSE IF Head(t) = Percent THEN <<BadEscape>>
                    ELSE <<Head(t)>> \o f[Tail(t)]
  <2>1. f[<< >>] = << >>
    BY <1>4, TextFacts DEF Unfolds
  <2>2. <<BadEscape>> \o << >> = <<BadEscape>>
    BY DEF BadEscape
  <2> QED
    BY <1>4, <2>1, <2>2 DEF Unfolds
<1> HIDE DEF said, next, Marks
<1>5. PICK f \in [Texts -> Seq(Marks)] : Unfolds(f, said, next, Texts)
  <2> HIDE DEF Bytes
  <2>1. \E f \in [Seq(Bytes) -> Seq(Marks)] : Unfolds(f, said, next, Seq(Bytes))
    BY <1>1, <1>2, <1>3, UnfoldsExists DEF Texts
  <2> QED
    BY <2>1 DEF Texts
<1>6. f = [t \in Texts |-> f[t]]
  BY <1>5
<1>7. \A t \in Texts :
         f[t] = IF t = << >> THEN << >>
                ELSE IF StartsEscape(t) THEN <<EscapedByte(t)>> \o f[AfterEscape(t)]
                ELSE IF Head(t) = Percent THEN <<BadEscape>>
                ELSE <<Head(t)>> \o f[Tail(t)]
  BY <1>4, <1>5
<1> QED
  BY <1>6, <1>7 DEF IsDecoding

LEMMA FormDecodingExists == \E f : IsFormDecoding(f)
<1> DEFINE plain(b) == IF b = Plus THEN Space ELSE b
           said == [t \in Texts |->
                       IF t = << >> THEN << >>
                       ELSE IF Head(t) = Ampersand THEN << >>
                       ELSE IF StartsEscape(t) THEN <<EscapedByte(t)>>
                       ELSE <<plain(Head(t))>>]
           next == [t \in Texts |->
                       IF t = << >> THEN << >>
                       ELSE IF Head(t) = Ampersand THEN << >>
                       ELSE IF StartsEscape(t) THEN AfterEscape(t)
                       ELSE Tail(t)]
<1>1. said \in [Texts -> Texts]
  <2> SUFFICES ASSUME NEW t \in Texts
               PROVE  said[t] \in Texts
    OBVIOUS
  <2>1. \A b \in Bytes : plain(b) \in Bytes
    BY DEF Bytes, Space
  <2>2. \A b \in Bytes : <<b>> \in Texts
    BY DEF Texts
  <2>3. /\ t # << >> => Head(t) \in Bytes
        /\ StartsEscape(t) => EscapedByte(t) \in Bytes
    BY TextFacts, StartsEscapeFacts
  <2> HIDE DEF plain, Bytes
  <2>4. said[t] \in {<< >>} \cup {<<b>> : b \in Bytes}
    BY <2>1, <2>3
  <2> HIDE DEF said
  <2> QED
    BY <2>2, <2>4, TextFacts
<1>2. next \in [Texts -> Texts]
  BY TextFacts, StartsEscapeFacts
<1>3. ASSUME NEW t \in Texts, t # << >>
      PROVE  Len(next[t]) < Len(t)
  <2>1. Len(t) \in Nat /\ Len(Tail(t)) = Len(t) - 1 /\ Len(t) # 0
    BY <1>3, TextFacts
  <2>2. Len(<< >>) < Len(t) /\ Len(Tail(t)) < Len(t)
    BY <2>1
  <2>3. StartsEscape(t) => Len(AfterEscape(t)) < Len(t)
    BY StartsEscapeFacts
  <2>4. \/ next[t] = << >> \/ next[t] = Tail(t)
        \/ StartsEscape(t) /\ next[t] = AfterEscape(t)
    OBVIOUS
  <2> HIDE DEF next
  <2> QED
    BY <2>2, <2>3, <2>4
<1>4. ASSUME NEW f \in [Texts -> Texts], Unfolds(f, said, next, Texts), NEW t \in Texts
      PROVE  f[t] = IF t = << >> THEN << >>
                    ELSE IF Head(t) = Ampersand THEN << >>
                    ELSE IF StartsEscape(t) THEN <<EscapedByte(t)>> \o f[AfterEscape(t)]
                    ELSE <<IF Head(t) = Plus THEN Space ELSE Head(t)>> \o f[Tail(t)]
  <2>1. f[<< >>] = << >>
    BY <1>4, TextFacts DEF Unfolds
  <2>2. << >> \o << >> = << >>
    OBVIOUS
  <2> QED
    BY <1>4, <2>1, <2>2 DEF Unfolds
<1> HIDE DEF said, next
<1>5. PICK f \in [Texts -> Texts] : Unfolds(f, said, next, Texts)
  <2> HIDE DEF Bytes
  <2>1. \E f \in [Seq(Bytes) -> Seq(Bytes)] : Unfolds(f, said, next, Seq(Bytes))
    BY <1>1, <1>2, <1>3, UnfoldsExists DEF Texts
  <2> QED
    BY <2>1 DEF Texts
<1>6. f = [t \in Texts |-> f[t]]
  BY <1>5
<1> HIDE DEF plain
<1>7. \A t \in Texts :
         f[t] = IF t = << >> THEN << >>
                ELSE IF Head(t) = Ampersand THEN << >>
                ELSE IF StartsEscape(t) THEN <<EscapedByte(t)>> \o f[AfterEscape(t)]
                ELSE <<IF Head(t) = Plus THEN Space ELSE Head(t)>> \o f[Tail(t)]
  BY <1>4, <1>5
<1> QED
  BY <1>6, <1>7 DEF IsFormDecoding

LEMMA DecodeUnfolds ==
    ASSUME NEW t \in Texts, t # << >>
    PROVE  /\ PercentDecode(t) =
                 IF StartsEscape(t) THEN <<EscapedByte(t)>> \o PercentDecode(AfterEscape(t))
                 ELSE IF Head(t) = Percent THEN <<BadEscape>>
                 ELSE <<Head(t)>> \o PercentDecode(Tail(t))
           /\ FormDecode(t) =
                 IF Head(t) = Ampersand THEN << >>
                 ELSE IF StartsEscape(t) THEN <<EscapedByte(t)>> \o FormDecode(AfterEscape(t))
                 ELSE <<IF Head(t) = Plus THEN Space ELSE Head(t)>> \o FormDecode(Tail(t))
<1> DEFINE d == CHOOSE f : IsDecoding(f)
           e == CHOOSE f : IsFormDecoding(f)
<1>1. IsDecoding(d) /\ IsFormDecoding(e)
  BY DecodingExists, FormDecodingExists
<1>2. \A u \in Texts : PercentDecode(u) = d[u]
  BY DEF PercentDecode, IsDecoding
<1>3. \A u \in Texts : FormDecode(u) = e[u]
  BY DEF FormDecode, IsFormDecoding
<1> HIDE DEF d, e
<1>4. /\ Tail(t) \in Texts
      /\ StartsEscape(t) => AfterEscape(t) \in Texts
  BY TextFacts, StartsEscapeFacts
<1>5. d[t] = IF StartsEscape(t) THEN <<EscapedByte(t)>> \o d[AfterEscape(t)]
             ELSE IF Head(t) = Percent THEN <<BadEscape>>
             ELSE <<Head(t)>> \o d[Tail(t)]
  BY <1>1 DEF IsDecoding
<1>6. e[t] = IF Head(t) = Ampersand THEN << >>
             ELSE IF StartsEscape(t) THEN <<EscapedByte(t)>> \o e[AfterEscape(t)]
             ELSE <<IF Head(t) = Plus THEN Space ELSE Head(t)>> \o e[Tail(t)]
  BY <1>1 DEF IsFormDecoding
<1> QED
  BY <1>2, <1>3, <1>4, <1>5, <1>6

LEMMA DecodeEmpty == PercentDecode(<< >>) = << >> /\ FormDecode(<< >>) = << >>
<1>1. PICK d : IsDecoding(d) /\ d = CHOOSE f : IsDecoding(f)
  BY DecodingExists
<1>2. PICK e : IsFormDecoding(e) /\ e = CHOOSE f : IsFormDecoding(f)
  BY FormDecodingExists
<1>3. d[<< >>] = << >> /\ e[<< >>] = << >>
  BY <1>1, <1>2, TextFacts DEF IsDecoding, IsFormDecoding
<1>4. PercentDecode(<< >>) = d[<< >>]
  BY <1>1 DEF PercentDecode, IsDecoding
<1>5. FormDecode(<< >>) = e[<< >>]
  BY <1>2 DEF FormDecode, IsFormDecoding
<1> QED
  BY <1>3, <1>4, <1>5

\* The decoders read back what a byte was escaped to.
LEMMA DecodeEscaped ==
    ASSUME NEW b \in Bytes, NEW w \in Texts
    PROVE  /\ PercentDecode(Escaped(b) \o w) = <<b>> \o PercentDecode(w)
           /\ FormDecode(Escaped(b) \o w) = <<b>> \o FormDecode(w)
<1> DEFINE t == Escaped(b) \o w
<1>1. CASE Escaped(b) = <<b>> /\ b # Percent /\ b # Ampersand /\ b # Plus
  <2>1. t = <<b>> \o w
    BY <1>1
  <2> HIDE DEF t
  <2>2. t \in Texts /\ t # << >> /\ Head(t) = b /\ t[1] = b /\ Tail(t) = w
    <3> HIDE DEF Bytes
    <3> QED
      BY <2>1 DEF Texts
  <2>3. ~StartsEscape(t)
    BY <1>1, <2>2 DEF StartsEscape
  <2>4. PercentDecode(t) = <<b>> \o PercentDecode(w) /\ FormDecode(t) = <<b>> \o FormDecode(w)
    BY <1>1, <2>2, <2>3, DecodeUnfolds
  <2> QED
    BY <2>4 DEF t
<1>2. ASSUME NEW g \in Bytes, NEW h \in Bytes, Escaped(b) = <<Percent, g, h>>,
             g \in HexDigits, h \in HexDigits,
             16 * decode_hex_nibble(g) + decode_hex_nibble(h) = b
      PROVE  /\ PercentDecode(t) = <<b>> \o PercentDecode(w)
             /\ FormDecode(t) = <<b>> \o FormDecode(w)
  <2>1. t = <<Percent, g, h>> \o w
    BY <1>2
  <2>2. Percent \in Bytes /\ Percent # Ampersand
    BY DEF Percent, Ampersand, Bytes
  <2> HIDE DEF t
  <2>3. /\ t \in Texts /\ Len(t) = Len(w) + 3 /\ Len(w) \in Nat
        /\ t[1] = Percent /\ t[2] = g /\ t[3] = h
        /\ \A i \in 1 .. Len(w) : t[i + 3] = w[i]
    <3> HIDE DEF Bytes
    <3> DEFINE u == <<Percent, g, h>>
    <3>1. u \in Seq(Bytes) /\ Len(u) = 3 /\ u[1] = Percent /\ u[2] = g /\ u[3] = h
      BY <2>2
    <3> HIDE DEF u
    <3>2. w \in Seq(Bytes) /\ Len(w) \in Nat
      BY LenProperties DEF Texts
    <3>3. /\ u \o w \in Seq(Bytes) /\ Len(u \o w) = 3 + Len(w)
          /\ \A i \in 1 .. 3 + Len(w) :
                (u \o w)[i] = IF i <= 3 THEN u[i] ELSE w[i - 3]
      <4>1. /\ u \o w \in Seq(Bytes) /\ Len(u \o w) = Len(u) + Len(w)
            /\ \A i \in 1 .. Len(u) + Len(w) :
                  (u \o w)[i] = IF i <= Len(u) THEN u[i] ELSE w[i - Len(u)]
        BY <3>1, <3>2, ConcatProperties
      <4>2. Len(u) = 3
        BY <3>1
      <4> QED
        BY <4>1, <4>2
    <3>4. t = u \o w
      BY <2>1 DEF u
    <3> DEFINE n == Len(w)
    <3>5. n \in Nat /\ \A i \in 1 .. 3 + n : t[i] = IF i <= 3 THEN u[i] ELSE w[i - 3]
      BY <3>2, <3>3, <3>4
    <3> HIDE DEF n
    <3>6. /\ \A i \in 1 .. 3 : i \in 1 .. 3 + n /\ i <= 3
          /\ \A i \in 1 .. n : i + 3 \in 1 .. 3 + n /\ ~ (i + 3 <= 3) /\ (i + 3) - 3 = i
          /\ 3 + n = n + 3 /\ 1 \in 1 .. 3 /\ 2 \in 1 .. 3 /\ 3 \in 1 .. 3
      BY <3>5
    <3>7. /\ t[1] = Percent /\ t[2] = g /\ t[3] = h
          /\ \A i \in 1 .. n : t[i + 3] = w[i]
      BY <3>1, <3>5, <3>6
    <3> QED
      BY <3>2, <3>3, <3>4, <3>6, <3>7 DEF Texts, n
  <2>4. t # << >> /\ Head(t) = Percent /\ Len(t) >= 3
    BY <2>3, TextFacts
  <2>5. StartsEscape(t) /\ EscapedByte(t) = b
    BY <1>2, <2>3, <2>4 DEF StartsEscape, EscapedByte
  <2>6. AfterEscape(t) = w
    <3>1. /\ AfterEscape(t) \in Texts /\ Len(AfterEscape(t)) = Len(w)
      BY <2>3, <2>4, EscapeRestFacts
    <3>2. \A i \in 1 .. Len(w) : AfterEscape(t)[i] = w[i]
      <4> SUFFICES ASSUME NEW i \in 1 .. Len(w)
                   PROVE  AfterEscape(t)[i] = w[i]
        OBVIOUS
      <4> DEFINE n == Len(t)
      <4>1. n \in Nat /\ 4 \in 1 .. n + 1 /\ n \in 0 .. n /\ i \in 1 .. (n - 4 + 1)
            /\ 4 + i - 1 = i + 3
        BY <2>3, <2>4
      <4>2. t \in Seq(Bytes)
        BY <2>3 DEF Texts
      <4> HIDE DEF n, Bytes
      <4>3. SubSeq(t, 4, n)[i] = t[4 + i - 1]
        BY <4>1, <4>2, SubSeqProperties
      <4> QED
        BY <2>3, <4>1, <4>3 DEF AfterEscape, n
    <3> HIDE DEF Bytes
    <3> QED
      BY <3>1, <3>2, SeqEqual DEF Texts
  <2>7. PercentDecode(t) = <<b>> \o PercentDecode(w) /\ FormDecode(t) = <<b>> \o FormDecode(w)
    BY <2>2, <2>3, <2>4, <2>5, <2>6, DecodeUnfolds
  <2> QED
    BY <2>7
<1> QED
  BY <1>1, <1>2, EscapedFacts

\* percent_decode reads back what percent_encode wrote, and so does the form
\* decoder of the other side, whatever the text.
THEOREM RoundTrip ==
    \A t \in Texts :
        PercentDecode(PercentEncode(t)) = t /\ FormDecode(PercentEncode(t)) = t
<1> DEFINE T == {t \in Texts : /\ PercentDecode(PercentEncode(t)) = t
                              /\ FormDecode(PercentEncode(t)) = t}
<1>1. ASSUME NEW t \in Texts, \A u \in Texts : Len(u) < Len(t) => u \in T
      PROVE  t \in T
  <2>1. CASE t = << >>
    <3>1. PercentEncode(t) = << >>
      BY <2>1, EncodeUnfolds
    <3> QED
      BY <2>1, <3>1, DecodeEmpty
  <2>2. CASE t # << >>
    <3> DEFINE b == Head(t)
               u == Tail(t)
               w == PercentEncode(u)
    <3>1. b \in Bytes /\ u \in Texts /\ Len(u) < Len(t)
      <4>1. b \in Bytes /\ u \in Texts /\ Len(u) = Len(t) - 1 /\ Len(t) \in Nat
        BY <2>2, TextFacts
      <4> QED
        BY <4>1
    <3>2. w \in Texts /\ PercentDecode(w) = u /\ FormDecode(w) = u
      BY <1>1, <3>1, EncodeUnfolds
    <3>3. PercentEncode(t) = Escaped(b) \o w
      BY <2>2, EncodeUnfolds
    <3>4. t = <<b>> \o u
      <4> HIDE DEF Bytes
      <4> QED
        BY <2>2 DEF Texts
    <3> HIDE DEF b, u, w
    <3> QED
      BY <3>1, <3>2, <3>3, <3>4, DecodeEscaped
  <2> QED
    BY <2>1, <2>2
<1>2. Texts \subseteq T
  <2> HIDE DEF T, Bytes
  <2> QED
    BY <1>1, LengthInduction DEF Texts
<1> QED
  BY <1>2

\* What percent_encode writes is "%" and unreserved characters only, so a value
\* cannot end or split the query string append_query_params puts it in.
THEOREM UrlSafe ==
    \A t \in Texts : PercentEncode(t) \in Seq(Unreserved \cup {Percent})
<1> DEFINE Plain == Unreserved \cup {Percent}
           T == {t \in Texts : PercentEncode(t) \in Seq(Plain)}
<1>1. ASSUME NEW b \in Bytes PROVE Escaped(b) \in Seq(Plain)
  <2>1. CASE b \in Unreserved
    BY <2>1 DEF Escaped
  <2>2. CASE b \notin Unreserved
    <3>1. b \div 16 \in 0 .. 15 /\ b % 16 \in 0 .. 15
      BY DEF Bytes
    <3>2. \A d \in 0 .. 15 : HexDigit(d) \in Plain
      BY DEF HexDigit, Unreserved
    <3>3. Percent \in Plain
      OBVIOUS
    <3>4. HexDigit(b \div 16) \in Plain /\ HexDigit(b % 16) \in Plain
      BY <3>1, <3>2
    <3>5. Escaped(b) = <<Percent, HexDigit(b \div 16), HexDigit(b % 16)>>
      BY <2>2 DEF Escaped
    <3> HIDE DEF Plain
    <3> QED
      BY <3>3, <3>4, <3>5
  <2> QED
    BY <2>1, <2>2
<1> HIDE DEF Plain
<1>2. ASSUME NEW t \in Texts, \A u \in Texts : Len(u) < Len(t) => u \in T
      PROVE  t \in T
  <2>1. CASE t = << >>
    <3>1. PercentEncode(t) = << >>
      BY <2>1, EncodeUnfolds
    <3>2. << >> \in Seq(Plain)
      BY EmptySeq
    <3> QED
      BY <3>1, <3>2
  <2>2. CASE t # << >>
    <3>1. Head(t) \in Bytes /\ Tail(t) \in Texts /\ Len(Tail(t)) < Len(t)
      <4>1. /\ Head(t) \in Bytes /\ Tail(t) \in Texts
            /\ Len(Tail(t)) = Len(t) - 1 /\ Len(t) \in Nat
        BY <2>2, TextFacts
      <4> QED
        BY <4>1
    <3>2. PercentEncode(Tail(t)) \in Seq(Plain) /\ Escaped(Head(t)) \in Seq(Plain)
      BY <1>1, <1>2, <3>1
    <3>3. Escaped(Head(t)) \o PercentEncode(Tail(t)) \in Seq(Plain)
      BY <3>2, ConcatProperties
    <3>4. PercentEncode(t) = Escaped(Head(t)) \o PercentEncode(Tail(t))
      BY <2>2, EncodeUnfolds
    <3> QED
      BY <3>3, <3>4
  <2> QED
    BY <2>1, <2>2
<1>3. Texts \subseteq T
  <2> HIDE DEF T, Bytes
  <2> QED
    BY <1>2, LengthInduction DEF Texts
<1> QED
  BY <1>3 DEF Plain

----------------------------------------------------------------------------
(* The table of endpoints.                                                 *)

\* What the walk needs of an endpoint: with scopes it insists on a token or
\* says none, its parser expects success, and it is marked as paged if its
\* reply has a place for a cursor.
WellFormed(e) ==
    /\ e.scopes # {} => e.auth \in NeedsToken \cup {"None"}
    /\ e.reply.status \in 200 .. 299
    /\ e.reply.cursor \in {"none", "reply", "data", "text"}
    /\ e.reply.cursor # "none" => e.paged

\* A reply of each kind in the table: what its parser expects and where its
\* cursor is.
LEMMA ReplyFacts ==
    /\ \A status \in 200 .. 299 : Body(status).status = status /\ Body(status).cursor = "none"
    /\ Nullable(Body(200)).status = 200 /\ Nullable(Body(200)).cursor = "none"
    /\ \A place \in {"reply", "data", "text"} :
           /\ Pages(place).status = 200 /\ Pages(place).cursor = place
           /\ Nullable(Pages(place)).status = 200 /\ Nullable(Pages(place)).cursor = place
    /\ NoBody.status = 204 /\ NoBody.cursor = "none"
    /\ Untyped.status = 200 /\ Untyped.cursor = "none"
    /\ Calendar.status = 200 /\ Calendar.cursor = "none"
<1> DEFINE HasBoth(r) == "status" \in DOMAIN r /\ "cursor" \in DOMAIN r
<1>1. \A status : /\ HasBoth(Body(status))
                  /\ Body(status).status = status
                  /\ Body(status).cursor = "none"
  BY DEF Body
<1>2. \A place : /\ HasBoth(Pages(place))
                 /\ Pages(place).status = 200
                 /\ Pages(place).cursor = place
  BY DEF Body, Pages
<1>3. \A r : HasBoth(r) =>
                 Nullable(r).status = r.status /\ Nullable(r).cursor = r.cursor
  BY DEF Nullable
<1>4. NoBody.status = 204 /\ NoBody.cursor = "none"
  BY DEF Body, NoBody
<1>5. HasBoth(Untyped) /\ Untyped.status = 200 /\ Untyped.cursor = "none"
  BY DEF Body, Untyped
<1>6. Calendar.status = 200 /\ Calendar.cursor = "none"
  BY <1>5 DEF Calendar
<1> HIDE DEF HasBoth
<1>7. \A place :
          Nullable(Pages(place)).status = 200 /\ Nullable(Pages(place)).cursor = place
  BY <1>2, <1>3
<1>8. Nullable(Body(200)).status = 200 /\ Nullable(Body(200)).cursor = "none"
  BY <1>1, <1>3
<1> QED
  BY <1>1, <1>2, <1>4, <1>5, <1>6, <1>7, <1>8

LEMMA EndpointFacts == \A e \in AllEndpoints : WellFormed(e)
<1> USE ReplyFacts DEF WellFormed, NeedsToken, Endpoint
<1>1. \A e \in AdsGroup : WellFormed(e)
  BY DEF AdsGroup, AdsStartCommercial, AdsGetAdSchedule, AdsSnoozeNextAd
<1>2. \A e \in AnalyticsGroup : WellFormed(e)
  BY DEF AnalyticsGroup, AnalyticsGetExtensionAnalytics, AnalyticsGetGameAnalytics
<1>3. \A e \in BitsGroup : WellFormed(e)
  BY DEF BitsGroup, BitsGetBitsLeaderboard, BitsGetCheermotes, BitsGetCustomPowerUp,
         BitsGetExtensionTransactions
<1>4. \A e \in ChannelsGroup : WellFormed(e)
  BY DEF ChannelsGroup, ChannelsGetChannelInformation,
         ChannelsModifyChannelInformation, ChannelsGetChannelEditors,
         ChannelsGetFollowedChannels, ChannelsGetChannelFollowers
<1>5. \A e \in ChannelPointsGroup : WellFormed(e)
  BY DEF ChannelPointsGroup, ChannelPointsCreateCustomRewards,
         ChannelPointsDeleteCustomReward, ChannelPointsGetCustomReward,
         ChannelPointsGetCustomRewardRedemption, ChannelPointsUpdateCustomReward,
         ChannelPointsUpdateRedemptionStatus
<1>6. \A e \in CharityGroup : WellFormed(e)
  BY DEF CharityGroup, CharityGetCharityCampaign, CharityGetCharityCampaignDonations
<1>7. \A e \in ChatGroup : WellFormed(e)
  BY DEF ChatGroup, ChatGetChatters, ChatGetChannelEmotes, ChatGetGlobalEmotes,
         ChatGetEmoteSets, ChatGetChannelChatBadges, ChatGetGlobalChatBadges,
         ChatGetChatSettings, ChatGetSharedChatSession, ChatGetUserEmotes,
         ChatUpdateChatSettings, ChatSendChatAnnouncement, ChatSendAShoutout,
         ChatSendChatMessage, ChatGetPinnedChatMessage, ChatPinChatMessage,
         ChatUpdatePinnedChatMessage, ChatUnpinChatMessage, ChatGetUserChatColor,
         ChatUpdateUserChatColor
<1>8. \A e \in ClipsGroup : WellFormed(e)
  BY DEF ClipsGroup, ClipsCreateClip, ClipsCreateClipFromVod, ClipsGetClips,
         ClipsGetClipsDownload
<1>9. \A e \in ConduitsGroup : WellFormed(e)
  BY DEF ConduitsGroup, ConduitsGetConduits, ConduitsCreateConduits,
         ConduitsUpdateConduits, ConduitsDeleteConduit, ConduitsGetConduitShards,
         ConduitsUpdateConduitShards
<1>10. \A e \in CclsGroup : WellFormed(e)
  BY DEF CclsGroup, CclsGetContentClassificationLabels
<1>11. \A e \in EntitlementsGroup : WellFormed(e)
  BY DEF EntitlementsGroup, EntitlementsGetDropsEntitlements,
         EntitlementsUpdateDropsEntitlements
<1>12. \A e \in ExtensionsGroup : WellFormed(e)
  BY DEF ExtensionsGroup, ExtensionsGetExtensionConfigurationSegment,
         ExtensionsSetExtensionConfigurationSegment,
         ExtensionsSetExtensionRequiredConfiguration,
         ExtensionsSendExtensionPubsubMessage, ExtensionsGetExtensionLiveChannels,
         ExtensionsGetExtensionSecrets, ExtensionsCreateExtensionSecret,
         ExtensionsSendExtensionChatMessage, ExtensionsGetExtensions,
         ExtensionsGetReleasedExtensions, ExtensionsGetExtensionBitsProducts,
         ExtensionsUpdateExtensionBitsProduct
<1>13. \A e \in EventsubGroup : WellFormed(e)
  BY DEF EventsubGroup, EventsubCreateEventsubSubscription,
         EventsubDeleteEventsubSubscription, EventsubGetEventsubSubscriptions
<1>14. \A e \in GamesGroup : WellFormed(e)
  BY DEF GamesGroup, GamesGetTopGames, GamesGetGames
<1>15. \A e \in GoalsGroup : WellFormed(e)
  BY DEF GoalsGroup, GoalsGetCreatorGoals
<1>16. \A e \in GuestStarGroup : WellFormed(e)
  BY DEF GuestStarGroup, GuestStarGetChannelGuestStarSettings,
         GuestStarUpdateChannelGuestStarSettings, GuestStarGetGuestStarSession,
         GuestStarCreateGuestStarSession, GuestStarEndGuestStarSession,
         GuestStarGetGuestStarInvites, GuestStarSendGuestStarInvite,
         GuestStarDeleteGuestStarInvite, GuestStarAssignGuestStarSlot,
         GuestStarUpdateGuestStarSlot, GuestStarDeleteGuestStarSlot,
         GuestStarUpdateGuestStarSlotSettings
<1>17. \A e \in HypeTrainGroup : WellFormed(e)
  BY DEF HypeTrainGroup, HypeTrainGetHypeTrainStatus
<1>18. \A e \in ModerationGroup : WellFormed(e)
  BY DEF ModerationGroup, ModerationCheckAutomodStatus,
         ModerationManageHeldAutomodMessages, ModerationGetAutomodSettings,
         ModerationUpdateAutomodSettings, ModerationGetBannedUsers, ModerationBanUser,
         ModerationUnbanUser, ModerationGetUnbanRequests,
         ModerationResolveUnbanRequests, ModerationGetBlockedTerms,
         ModerationAddBlockedTerm, ModerationRemoveBlockedTerm,
         ModerationDeleteChatMessages, ModerationGetModeratedChannels,
         ModerationGetModerators, ModerationAddChannelModerator,
         ModerationRemoveChannelModerator, ModerationGetVips, ModerationAddChannelVip,
         ModerationRemoveChannelVip, ModerationUpdateShieldModeStatus,
         ModerationGetShieldModeStatus, ModerationWarnChatUser,
         ModerationAddSuspiciousStatusToChatUser,
         ModerationRemoveSuspiciousStatusFromChatUser
<1>19. \A e \in PollsGroup : WellFormed(e)
  BY DEF PollsGroup, PollsGetPolls, PollsCreatePoll, PollsEndPoll
<1>20. \A e \in PredictionsGroup : WellFormed(e)
  BY DEF PredictionsGroup, PredictionsGetPredictions, PredictionsCreatePrediction,
         PredictionsEndPrediction
<1>21. \A e \in RaidsGroup : WellFormed(e)
  BY DEF RaidsGroup, RaidsStartARaid, RaidsCancelARaid
<1>22. \A e \in ScheduleGroup : WellFormed(e)
  BY DEF ScheduleGroup, ScheduleGetChannelStreamSchedule, ScheduleGetChannelIcalendar,
         ScheduleUpdateChannelStreamSchedule,
         ScheduleCreateChannelStreamScheduleSegment,
         ScheduleUpdateChannelStreamScheduleSegment,
         ScheduleDeleteChannelStreamScheduleSegment
<1>23. \A e \in SearchGroup : WellFormed(e)
  BY DEF SearchGroup, SearchSearchCategories, SearchSearchChannels
<1>24. \A e \in StreamsGroup : WellFormed(e)
  BY DEF StreamsGroup, StreamsGetStreamKey, StreamsGetStreams,
         StreamsGetFollowedStreams, StreamsCreateStreamMarker, StreamsGetStreamMarkers
<1>25. \A e \in SubscriptionsGroup : WellFormed(e)
  BY DEF SubscriptionsGroup, SubscriptionsGetBroadcasterSubscriptions,
         SubscriptionsCheckUserSubscription
<1>26. \A e \in TagsGroup : WellFormed(e)
  BY DEF TagsGroup, TagsGetAllStreamTags, TagsGetStreamTags
<1>27. \A e \in TeamsGroup : WellFormed(e)
  BY DEF TeamsGroup, TeamsGetChannelTeams, TeamsGetTeams
<1>28. \A e \in UsersGroup : WellFormed(e)
  BY DEF UsersGroup, UsersGetUsers, UsersUpdateUser, UsersGetAuthorizationByUser,
         UsersGetUserBlockList, UsersBlockUser, UsersUnblockUser,
         UsersGetUserExtensions, UsersGetUserActiveExtensions,
         UsersUpdateUserExtensions
<1>29. \A e \in VideosGroup : WellFormed(e)
  BY DEF VideosGroup, VideosGetVideos, VideosDeleteVideos
<1>30. \A e \in WhispersGroup : WellFormed(e)
  BY DEF WhispersGroup, WhispersSendWhisper
<1> HIDE DEF WellFormed
<1> QED
  BY <1>1, <1>2, <1>3, <1>4, <1>5, <1>6, <1>7, <1>8, <1>9, <1>10, <1>11, <1>12,
     <1>13, <1>14, <1>15, <1>16, <1>17, <1>18, <1>19, <1>20, <1>21, <1>22, <1>23,
     <1>24, <1>25, <1>26, <1>27, <1>28, <1>29, <1>30 DEF AllEndpoints

----------------------------------------------------------------------------
(* The inductive invariant.                                                *)

\* A caller is granted all, none or one of the scopes the endpoint lists.
SettingInv ==
    /\ WellFormed(endpoint)
    /\ reader \in {"typed", "json"}
    /\ reader = "typed" => endpoint.reply.typed \in {"yes", "empty"}
    /\ granted \subseteq endpoint.scopes
    /\ cursors \in Collections

NextPage == Len(received) + 1

\* The pages received are the first ones, and the walk goes on to a page there
\* is, with its cursor or, out of a Link header, with its cursor encoded.
Heading ==
    /\ NextPage <= Len(cursors)
    /\ \/ after = cursors[NextPage]
       \/ reader = "json" /\ after = PercentEncode(cursors[NextPage])

\* The page answered is the one asked for, with the cursor of the page after it
\* or, if it is the last, none.
PageInv ==
    /\ reply.page = NextPage /\ reply.page \in 1 .. Len(cursors)
    /\ reply.status = endpoint.reply.status
    /\ reply.null \in BOOLEAN
    /\ \/ /\ reply.cursor = << >> /\ reply.places = {} /\ last = reply.page
       \/ /\ reply.page < Len(cursors) /\ reply.cursor = cursors[reply.page + 1]
          /\ endpoint.reply.cursor # "none"

\* A call fails at the caller's hand, or on a reply the reader does not take.
FailedInv ==
    \/ ~Prepares
    \/ troubled
    \/ reply = Refusal /\ (~Entitled \/ after # cursors[NextPage])
    \/ PageInv /\ ~IF reader = "typed" THEN ParsesTyped(reply) ELSE ParsesJson(reply)

WalkInv ==
    /\ received = [i \in 1 .. Len(received) |-> i] /\ Len(received) \in Nat
    /\ phase \in {"ready", "stopped", "sent", "answered", "failed", "done"}
    /\ phase # "done" => Heading
    /\ phase = "stopped" => MissingScopes(endpoint, granted) # {}
    /\ phase = "sent" => query = PercentEncode(after)
    /\ phase = "answered" =>
          \/ reply = Refusal /\ (~Entitled \/ after # cursors[NextPage])
          \/ PageInv
    /\ phase = "failed" => FailedInv
    /\ DoneMeansComplete

Inv == SettingInv /\ WalkInv

----------------------------------------------------------------------------
(* The cursors of a collection tell its pages apart, encoded or not.       *)

LEMMA CollectionFacts ==
    ASSUME NEW c \in Collections
    PROVE  /\ Len(c) \in Nat \ {0}
           /\ \A p \in 1 .. Len(c) : c[p] \in Texts
           /\ \A p \in 1 .. Len(c) : c[p] = << >> => p = 1
           /\ \A p \in 1 .. Len(c) : PercentEncode(c[p]) = << >> => p = 1
           /\ \A p, q \in 1 .. Len(c) :
                 c[p] = c[q] \/ PercentEncode(c[p]) = c[q] => p = q
<1>1. /\ c \in Seq(Texts) /\ c # << >> /\ c[1] = << >>
      /\ \A p, q \in 1 .. Len(c) :
            c[p] = c[q] \/ PercentEncode(c[p]) = c[q] => p = q
  BY CallsAssumption
<1> HIDE DEF Texts
<1>2. Len(c) \in Nat \ {0} /\ \A p \in 1 .. Len(c) : c[p] \in Texts
  BY <1>1
<1>3. 1 \in 1 .. Len(c)
  BY <1>2
<1>4. \A p \in 1 .. Len(c) : c[p] = << >> => p = 1
  BY <1>1, <1>3
<1>5. \A p \in 1 .. Len(c) : PercentEncode(c[p]) = << >> => p = 1
  BY <1>1, <1>3
<1> QED
  BY <1>1, <1>2, <1>4, <1>5

LEMMA SettingInit == Init => SettingInv
<1> SUFFICES ASSUME Init PROVE SettingInv
  OBVIOUS
<1>1. endpoint \in AllEndpoints /\ cursors \in Collections
  BY DEF Init
<1>2. WellFormed(endpoint)
  BY <1>1, EndpointFacts
<1>3. /\ reader \in {"typed", "json"}
      /\ reader = "typed" => endpoint.reply.typed \in {"yes", "empty"}
  BY CallsAssumption DEF Init
<1>4. granted \subseteq endpoint.scopes
  BY DEF Init
<1> QED
  BY <1>1, <1>2, <1>3, <1>4 DEF SettingInv

LEMMA SettingStays == SettingInv /\ [Next]_vars => SettingInv'
<1> SUFFICES ASSUME SettingInv, [Next]_vars PROVE SettingInv'
  OBVIOUS
<1>1. UNCHANGED setting
  BY DEF Next, vars, Stop, PrepareFails, Send, Serve, Refuse, Trouble, Read, ReadFails
<1> QED
  BY <1>1 DEF setting, SettingInv

LEMMA WalkInit == Init => WalkInv
<1> SUFFICES ASSUME Init PROVE WalkInv
  OBVIOUS
<1>1. /\ received = << >> /\ phase = "ready" /\ after = << >>
      /\ cursors \in Collections
  BY DEF Init
<1>2. received = [i \in 1 .. Len(received) |-> i] /\ Len(received) = 0
  BY <1>1
<1>3. Len(cursors) \in Nat \ {0} /\ cursors[1] = << >>
  BY <1>1, CollectionFacts, CallsAssumption
<1>4. Heading
  BY <1>1, <1>2, <1>3 DEF Heading, NextPage
<1> QED
  BY <1>1, <1>2, <1>4 DEF WalkInv, DoneMeansComplete

----------------------------------------------------------------------------
(* Steps.                                                                  *)

\* What the service decodes is the cursor the caller meant to send.
LEMMA DecodedQuery ==
    ASSUME Inv, phase = "sent"
    PROVE  /\ after \in Texts
           /\ FormDecode(query) = after
           /\ NextPage \in 1 .. Len(cursors)
<1>1. /\ Heading /\ query = PercentEncode(after) /\ Len(received) \in Nat
      /\ cursors \in Collections
  BY DEF Inv, WalkInv, SettingInv
<1>2. NextPage \in 1 .. Len(cursors)
  BY <1>1, CollectionFacts DEF Heading, NextPage
<1>3. cursors[NextPage] \in Texts
  BY <1>1, <1>2, CollectionFacts
<1>4. PercentEncode(cursors[NextPage]) \in Texts
  BY <1>3, EncodeUnfolds
<1>5. after \in Texts
  BY <1>1, <1>3, <1>4 DEF Heading
<1> QED
  BY <1>1, <1>2, <1>5, RoundTrip

LEMMA ServeSafe == Inv /\ Serve => WalkInv'
<1> SUFFICES ASSUME Inv, Serve PROVE WalkInv'
  OBVIOUS
<1>1. phase = "sent" /\ cursors \in Collections /\ Heading
  BY DEF Serve, Inv, WalkInv, SettingInv
<1>2. UNCHANGED <<endpoint, reader, held, granted, cursors, after, query, received, troubled>>
  BY DEF Serve, setting
<1>3. PICK page \in 1 .. Len(cursors), more \in BOOLEAN, null \in BOOLEAN,
           places \in SUBSET {"header", "link"} :
         /\ FormDecode(query) = cursors[page]
         /\ more => page < Len(cursors) /\ endpoint.reply.cursor # "none"
         /\ ~more => places = {}
         /\ reply' = [status |-> endpoint.reply.status, page |-> page, null |-> null,
                      cursor |-> IF more THEN cursors[page + 1] ELSE << >>,
                      places |-> places]
         /\ last' = IF more THEN last ELSE page
  BY DEF Serve
<1>4. page = NextPage
  <2>1. after = cursors[page] /\ NextPage \in 1 .. Len(cursors)
    BY <1>1, <1>3, DecodedQuery
  <2>2. cursors[NextPage] = cursors[page] \/ PercentEncode(cursors[NextPage]) = cursors[page]
    BY <1>1, <2>1 DEF Heading
  <2> QED
    BY <1>1, <2>1, <2>2, CollectionFacts
<1>5. /\ reply'.status = endpoint.reply.status /\ reply'.page = page
      /\ reply'.null = null /\ reply'.places = places
      /\ reply'.cursor = IF more THEN cursors[page + 1] ELSE << >>
  BY <1>3
<1>6. NextPage' = NextPage
  BY <1>2 DEF NextPage
<1>7. PageInv'
  BY <1>2, <1>3, <1>4, <1>5, <1>6 DEF PageInv
<1>8. Heading'
  BY <1>1, <1>2, <1>6 DEF Heading
<1> QED
  BY <1>2, <1>7, <1>8 DEF Serve, Inv, WalkInv, DoneMeansComplete

LEMMA RefuseSafe == Inv /\ Refuse => WalkInv'
<1> SUFFICES ASSUME Inv, Refuse PROVE WalkInv'
  OBVIOUS
<1>1. phase = "sent" /\ Heading /\ reply' = Refusal /\ phase' = "answered"
  BY DEF Refuse, Inv, WalkInv
<1>2. UNCHANGED <<endpoint, reader, held, granted, cursors, after, query, received,
                  last, troubled>>
  BY DEF Refuse, setting
<1>3. ~Entitled \/ after # cursors[NextPage]
  BY <1>1, DecodedQuery DEF Refuse
<1>4. NextPage' = NextPage /\ (Entitled' <=> Entitled)
  BY <1>2 DEF NextPage, Entitled, Granted
<1>5. Heading'
  BY <1>1, <1>2, <1>4 DEF Heading
<1>6. Refusal' = Refusal
  BY DEF Refusal
<1> QED
  BY <1>1, <1>2, <1>3, <1>4, <1>5, <1>6 DEF Inv, WalkInv, DoneMeansComplete
\* A reply that is read is a page.
LEMMA ReadsPages ==
    ASSUME Inv, Read
    PROVE  PageInv
<1>1. reply = Refusal \/ PageInv
  BY DEF Read, Inv, WalkInv
<1>2. ASSUME reply = Refusal PROVE FALSE
  <2>1. reply.status = 400
    BY <1>2 DEF Refusal
  <2>2. ParsesTyped(reply) \/ ParsesJson(reply)
    BY DEF Read
  <2> QED
    BY <2>1, <2>2 DEF Inv, SettingInv, WellFormed, ParsesTyped, ParsesJson
<1> QED
  BY <1>1, <1>2

LEMMA ReadSafe == Inv /\ Read => WalkInv'
<1> SUFFICES ASSUME Inv, Read PROVE WalkInv'
  OBVIOUS
<1> DEFINE n == Len(received)
<1>1. /\ PageInv /\ cursors \in Collections /\ n \in Nat
      /\ received = [i \in 1 .. n |-> i]
      /\ Len(cursors) \in Nat
  BY ReadsPages, CollectionFacts DEF Inv, WalkInv, SettingInv
<1>2. /\ UNCHANGED <<endpoint, reader, held, granted, cursors, query, reply, last, troubled>>
      /\ received' = Append(received, n + 1)
  BY <1>1 DEF Read, setting, PageInv, NextPage
<1>3. received' = [i \in 1 .. n + 1 |-> i] /\ Len(received') = n + 1
  <2> HIDE DEF n
  <2>1. \A i \in 1 .. n + 1 : i \notin 1 .. n => i = n + 1
    BY <1>1
  <2> QED
    BY <1>1, <1>2, <2>1
<1>4. NextPage' = n + 2 /\ NextPage = n + 1
  BY <1>1, <1>3 DEF NextPage
<1>5. received' = [i \in 1 .. Len(received') |-> i] /\ Len(received') \in Nat
  BY <1>1, <1>3
<1>6. /\ after' = IF reader = "typed" THEN reply.cursor ELSE MetaCursor(reply)
      /\ phase' = IF endpoint.paged /\ after' # << >> THEN "ready" ELSE "done"
  BY DEF Read
<1>7. CASE reply.cursor = << >> /\ reply.places = {} /\ last = reply.page
  <2>1. after' = << >>
    BY <1>6, <1>7 DEF MetaCursor
  <2>2. phase' = "done"
    BY <1>6, <2>1
  <2>3. last' = n + 1
    BY <1>1, <1>2, <1>4, <1>7 DEF PageInv
  <2>4. DoneMeansComplete'
    <3> HIDE DEF n
    <3>1. received' = [i \in 1 .. last' |-> i] /\ last' > 0
      BY <1>1, <1>3, <2>3
    <3> QED
      BY <3>1 DEF DoneMeansComplete
  <2> QED
    BY <1>5, <2>2, <2>4 DEF WalkInv
<1>8. CASE /\ reply.page < Len(cursors) /\ reply.cursor = cursors[reply.page + 1]
           /\ endpoint.reply.cursor # "none"
  <2> DEFINE next == cursors[n + 2]
  <2>1. n + 2 \in 1 .. Len(cursors) /\ reply.cursor = next
    <3> HIDE DEF n
    <3> QED
      BY <1>1, <1>4, <1>8 DEF PageInv
  <2>2. next # << >> /\ PercentEncode(next) # << >>
    <3> HIDE DEF n
    <3>1. n + 2 # 1
      BY <1>1
    <3> QED
      BY <1>1, <2>1, <3>1, CollectionFacts
  <2> HIDE DEF next
  <2>3. endpoint.paged
    BY <1>8 DEF Inv, SettingInv, WellFormed
  <2>4. \/ after' = next
        \/ reader = "json" /\ after' = PercentEncode(next)
        \/ after' = << >> /\ reader = "json" /\ endpoint.reply.cursor \in {"data", "text"}
    <3>1. CASE reader = "typed"
      BY <1>6, <2>1, <3>1
    <3>2. CASE reader = "json"
      <4>1. after' = MetaCursor(reply)
        BY <1>6, <3>2
      <4>2. \/ MetaCursor(reply) = next
            \/ MetaCursor(reply) = PercentEncode(next)
            \/ MetaCursor(reply) = << >> /\ endpoint.reply.cursor # "reply"
        BY <2>1 DEF MetaCursor, CursorFromLink
      <4>3. endpoint.reply.cursor \in {"reply", "data", "text"}
        BY <1>8 DEF Inv, SettingInv, WellFormed
      <4> QED
        BY <3>2, <4>1, <4>2, <4>3
    <3> QED
      BY <3>1, <3>2 DEF Inv, SettingInv
  <2>5. CASE after' # << >>
    <3>1. phase' = "ready"
      BY <1>6, <2>3, <2>5
    <3>2. Heading'
      <4>1. cursors'[NextPage'] = next /\ NextPage' <= Len(cursors')
        BY <1>2, <1>4, <2>1 DEF next
      <4> QED
        BY <1>2, <2>4, <2>5, <4>1 DEF Heading
    <3> QED
      BY <1>5, <3>1, <3>2 DEF WalkInv, DoneMeansComplete
  <2>6. CASE after' = << >>
    <3>1. phase' = "done"
      BY <1>6, <2>6
    <3>2. DoneMeansComplete'
      BY <1>2, <2>2, <2>4, <2>6 DEF DoneMeansComplete
    <3> QED
      BY <1>5, <3>1, <3>2 DEF WalkInv
  <2> QED
    BY <2>5, <2>6
<1> QED
  BY <1>1, <1>7, <1>8 DEF PageInv

\* The other steps leave the pages, the cursors and the cursor to send alone.
LEMMA HeadingStays ==
    ASSUME Inv, UNCHANGED <<setting, after, received>>, phase # "done"
    PROVE  /\ Heading' /\ NextPage' = NextPage
           /\ received' = [i \in 1 .. Len(received') |-> i] /\ Len(received') \in Nat
  BY DEF Inv, WalkInv, Heading, NextPage, setting

LEMMA StopSafe == Inv /\ Stop => WalkInv'
<1> SUFFICES ASSUME Inv, Stop PROVE WalkInv'
  OBVIOUS
<1>1. phase' = "stopped" /\ MissingScopes(endpoint, granted)' # {}
  BY DEF Stop, setting, MissingScopes
<1> QED
  BY <1>1, HeadingStays DEF Stop, WalkInv, DoneMeansComplete

LEMMA PrepareFailsSafe == Inv /\ PrepareFails => WalkInv'
<1> SUFFICES ASSUME Inv, PrepareFails PROVE WalkInv'
  OBVIOUS
<1>1. phase' = "failed" /\ ~Prepares'
  BY DEF PrepareFails, setting, Prepares
<1> QED
  BY <1>1, HeadingStays DEF PrepareFails, WalkInv, FailedInv, DoneMeansComplete

LEMMA SendSafe == Inv /\ Send => WalkInv'
<1> SUFFICES ASSUME Inv, Send PROVE WalkInv'
  OBVIOUS
<1>1. phase' = "sent" /\ query' = PercentEncode(after)'
  BY DEF Send
<1> QED
  BY <1>1, HeadingStays DEF Send, WalkInv, DoneMeansComplete

LEMMA TroubleSafe == Inv /\ Trouble => WalkInv'
<1> SUFFICES ASSUME Inv, Trouble PROVE WalkInv'
  OBVIOUS
<1>1. phase' = "failed" /\ troubled'
  BY DEF Trouble
<1> QED
  BY <1>1, HeadingStays DEF Trouble, WalkInv, FailedInv, DoneMeansComplete

LEMMA ReadFailsSafe == Inv /\ ReadFails => WalkInv'
<1> SUFFICES ASSUME Inv, ReadFails PROVE WalkInv'
  OBVIOUS
<1>1. /\ UNCHANGED <<endpoint, reader, held, granted, cursors, after, received, reply, last>>
      /\ phase = "answered" /\ phase' = "failed"
  BY DEF ReadFails, setting
<1>2. ~IF reader = "typed" THEN ParsesTyped(reply)' ELSE ParsesJson(reply)'
  BY <1>1 DEF ReadFails, ParsesTyped, ParsesJson
<1>3. NextPage' = NextPage /\ (Entitled' <=> Entitled)
  BY <1>1 DEF NextPage, Entitled, Granted
<1>4. PageInv => PageInv'
  BY <1>1, <1>3 DEF PageInv
<1>5. \/ reply = Refusal /\ (~Entitled \/ after # cursors[NextPage])
      \/ PageInv
  BY <1>1 DEF Inv, WalkInv
<1>6. FailedInv'
  BY <1>1, <1>2, <1>3, <1>4, <1>5 DEF FailedInv, Refusal
<1> QED
  BY <1>1, <1>6, HeadingStays DEF ReadFails, WalkInv, DoneMeansComplete

----------------------------------------------------------------------------
LEMMA InvInit == Init => Inv
  BY SettingInit, WalkInit DEF Inv

LEMMA InvStep == Inv /\ [Next]_vars => Inv'
<1> SUFFICES ASSUME Inv, [Next]_vars PROVE WalkInv'
  BY SettingStays DEF Inv
<1>1. CASE UNCHANGED vars
  <2>1. UNCHANGED <<endpoint, reader, held, granted, cursors, phase, after, query,
                    reply, received, last, troubled>>
    BY <1>1 DEF vars, setting
  <2>2. /\ NextPage' = NextPage /\ Heading' = Heading /\ Refusal' = Refusal
        /\ MissingScopes(endpoint, granted)' = MissingScopes(endpoint, granted)
        /\ PercentEncode(after)' = PercentEncode(after)
    BY <2>1 DEF NextPage, Heading, Refusal, MissingScopes
  <2>3. PageInv' = PageInv /\ Prepares' = Prepares /\ Entitled' = Entitled
    BY <2>1, <2>2 DEF PageInv, Prepares, Entitled, Granted
  <2>4. ParsesTyped(reply)' = ParsesTyped(reply) /\ ParsesJson(reply)' = ParsesJson(reply)
    BY <2>1 DEF ParsesTyped, ParsesJson
  <2>5. FailedInv' = FailedInv
    BY <2>1, <2>2, <2>3, <2>4 DEF FailedInv
  <2>6. DoneMeansComplete' = DoneMeansComplete
    BY <2>1 DEF DoneMeansComplete
  <2> QED
    BY <2>1, <2>2, <2>3, <2>5, <2>6 DEF Inv, WalkInv
<1> QED
  BY <1>1, StopSafe, PrepareFailsSafe, SendSafe, ServeSafe, RefuseSafe, TroubleSafe,
     ReadSafe, ReadFailsSafe DEF Next

\* A walk that ends well has read every page once and in order, but for the two
\* endpoints whose cursor HttpResponse::meta does not look for.
THEOREM CompleteTheorem == Spec => []DoneMeansComplete
<1>1. Inv => DoneMeansComplete
  BY DEF Inv, WalkInv
<1> QED
  BY <1>1, InvInit, InvStep, PTL DEF Spec

\* An entitled caller fails in the known ways only, whatever the endpoint.
THEOREM FailureTheorem == Spec => []FailsOnlyAsKnown
<1>1. ASSUME Inv PROVE FailsOnlyAsKnown
  <2> SUFFICES ASSUME phase \in {"stopped", "failed"}, ~troubled, Prepares, Granted
               PROVE  \/ phase = "stopped" /\ \E s, t \in endpoint.scopes : s # t
                      \/ endpoint.auth = "None" /\ "token" \notin held
                      \/ reader = "json" /\ endpoint.reply.typed = "text"
                      \/ reader = "typed" /\ (reply.null \/ endpoint.reply.cursor = "text")
                      \/ /\ reader = "json" /\ after = CursorFromLink(NextCursor)
                         /\ after # NextCursor
    BY DEF FailsOnlyAsKnown
  <2>1. CASE phase = "stopped"
    <3>1. granted \subseteq endpoint.scopes
      BY <1>1 DEF Inv, SettingInv
    <3>2. PICK s \in endpoint.scopes : s \notin granted
      BY <1>1, <2>1 DEF Inv, WalkInv, MissingScopes
    <3>3. PICK t \in granted : t \notin BotScopes
      BY <3>2 DEF Granted
    <3> QED
      BY <2>1, <3>1, <3>2, <3>3
  <2>2. CASE phase = "failed"
    <3>1. FailedInv /\ Heading /\ SettingInv /\ WellFormed(endpoint)
      BY <1>1, <2>2 DEF Inv, WalkInv, SettingInv
    <3>2. CASE ~Entitled
      <4>1. "token" \notin held /\ endpoint.auth \notin NeedsToken /\ endpoint.scopes # {}
        BY <3>2 DEF Entitled, Prepares
      <4> QED
        BY <3>1, <4>1 DEF WellFormed
    <3>3. CASE after # cursors[NextPage]
      BY <3>1, <3>3 DEF Heading, NextPage, NextCursor, CursorFromLink
    <3>4. CASE PageInv /\ ~IF reader = "typed" THEN ParsesTyped(reply) ELSE ParsesJson(reply)
      <4>1. CASE reader = "typed"
        BY <3>4, <4>1 DEF PageInv, ParsesTyped
      <4>2. CASE reader = "json"
        BY <3>1, <3>4, <4>2 DEF PageInv, ParsesJson, WellFormed
      <4> QED
        BY <3>1, <4>1, <4>2 DEF SettingInv
    <3> QED
      BY <3>1, <3>2, <3>3, <3>4 DEF FailedInv
  <2> QED
    BY <2>1, <2>2
<1> QED
  BY <1>1, InvInit, InvStep, PTL DEF Spec

============================================================================
