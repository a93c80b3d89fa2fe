------------------------------ MODULE DuLexeme ------------------------------
(***************************************************************************)
(* merged.dict, the dictionary of a DU run: decode_du_lexeme and the line  *)
(* splitting of load_du_dict (src/lib.rs).  A text is a sequence of        *)
(* characters, given by their code points; a lexeme is a byte string.      *)
(*                                                                         *)
(* A result is a set: the one value there is, or no value, where the code  *)
(* returns an error.                                                       *)
(***************************************************************************)
EXTENDS Spans, SequencesExt

CONSTANT MaxCount  \* the largest count of repeated spaces: usize::MAX

ASSUME MaxCountAssumption == MaxCount \in Nat

\* The characters with a meaning of their own; the rest stand for themselves.
NUL == 0
TabMark == 1
SpacesMark == 2
NewlineMark == 3
Base64Mark == 4
Base64End == 5
Pad == 61
LF == 10
CR == 13

Digits == 48..57
UpperCase == 65..90
LowerCase == 97..122

\* The bytes of a character, up to four.
Utf8(char) ==
  LET rest(unit) == 128 + ((char \div unit) % 64)
  IN  CASE char < 128            -> <<char>>
        [] char \in 128..2047    -> <<192 + (char \div 64), rest(1)>>
        [] char \in 2048..65535  -> <<224 + (char \div 4096), rest(64), rest(1)>>
        [] OTHER                 -> <<240 + (char \div 262144), rest(4096), rest(64), rest(1)>>

\* A code point that is no surrogate, and the one that some bytes would encode.
IsCharacter(char) == char \in 0..1114111 /\ char \notin 55296..57343

CodePoint(bytes) ==
  LET first == bytes[1] % (IF Len(bytes) = 1 THEN 128 ELSE 2^(7 - Len(bytes)))
  IN  FoldLeft(LAMBDA n, byte : 64 * n + (byte % 64), first, Tail(bytes))

\* The bytes of characters, each in its one encoding.
IsUtf8(bytes) ==
  LET upTo[n \in 0..Len(bytes)] ==
        n = 0 \/ \E k \in 1..Min({4, n}) :
                   LET last == SubSeq(bytes, n - k + 1, n)
                   IN  /\ IsCharacter(CodePoint(last))
                       /\ Utf8(CodePoint(last)) = last
                       /\ upTo[n - k]
  IN  upTo[Len(bytes)]

\* base64_value.
Base64Value(char) ==
  CASE char \in UpperCase -> {char - 65}
    [] char \in LowerCase -> {char - 97 + 26}
    [] char \in Digits    -> {char - 48 + 52}
    [] char = 43          -> {62}
    [] char = 47          -> {63}
    [] OTHER              -> {}

\* Mutated: the bits behind the last byte are not looked at.
AnyTail(b, c, padding) == TRUE

\* The bits of the last characters that no byte takes are zero.
ZeroTail(b, c, padding) ==
  /\ padding = 2 => b % 16 = 0
  /\ padding = 1 => c % 4 = 0

\* The bytes of the values of four characters, of which the last `padding` are
\* padding.  Bytes have 8 bits: what is shifted out on the left is lost.
Quantum(v, padding) ==
  LET three == <<((v[1] * 4) % 256) + (v[2] \div 16), ((v[2] * 16) % 256) + (v[3] \div 4),
                 ((v[3] * 64) % 256) + v[4]>>
  IN  IF ZeroTail(v[2], v[3], padding) THEN {SubSeq(three, 1, 3 - padding)} ELSE {}

\* How many characters complete the last four of n.
Filling(n) == (4 - (n % 4)) % 4

Joined(fronts, backs) == {front \o back : front \in fronts, back \in backs}

\* decode_base64_unpadded_or_padded.
DecodeBase64(encoded) ==
  LET clean   == encoded \o [k \in 1..Filling(Len(encoded)) |-> Pad]
      padding == Len(clean) - Max({0} \cup {k \in 1..Len(clean) : clean[k] # Pad})
      value(k) == IF k > Len(clean) - padding THEN {0} ELSE Base64Value(clean[k])
      upTo[q \in 0..(Len(clean) \div 4)] ==
        IF q = 0 THEN {<<>>}
        ELSE LET k == 4 * q - 3
                 pad == IF 4 * q = Len(clean) THEN padding ELSE 0
                 values == value(k) \X value(k + 1) \X value(k + 2) \X value(k + 3)
             IN  Joined(upTo[q - 1], UNION {Quantum(v, pad) : v \in values})
  IN  IF encoded = <<>> \/ Len(encoded) % 4 = 1 \/ padding > 2 THEN {}
      ELSE upTo[Len(clean) \div 4]

Number(digits) == FoldLeft(LAMBDA n, digit : 10 * n + (digit - 48), 0, digits)

\* What a marked section stands for, given the characters between its marks.
Section(char, inside) ==
  IF char = Base64Mark THEN {bytes \in DecodeBase64(inside) : IsUtf8(bytes)}
  ELSE {[k \in 1..n |-> 32] : n \in {m \in {Number(inside)} \cap 0..MaxCount :
          inside # <<>> /\ Range(inside) \subseteq Digits}}

Single(char) ==
  CASE char = NewlineMark -> {<<LF>>}
    [] char = TabMark     -> {<<9>>}
    [] char = NUL         -> {}
    [] OTHER              -> {Utf8(char)}

\* decode_du_lexeme: from each position on, the bytes of the rest of the text.
DecodeDuLexeme(text) ==
  LET from[i \in 1..(Len(text) + 1)] ==
        IF i > Len(text) THEN {<<>>}
        ELSE IF text[i] \in {Base64Mark, SpacesMark} THEN
          LET close == IF text[i] = Base64Mark THEN Base64End ELSE SpacesMark
              closes == {k \in (i + 1)..Len(text) : text[k] = close}
          IN  IF closes = {} THEN {}
              ELSE Joined(Section(text[i], SubSeq(text, i + 1, Min(closes) - 1)),
                          from[Min(closes) + 1])
        ELSE Joined(Single(text[i]), from[i + 1])
  IN  from[1]

\* The lines of a dictionary: a text is cut at its line feeds, and what is behind
\* the last of them is a line unless it is empty.
DictLines(text) ==
  LET upTo[n \in 0..Len(text)] ==
        IF n = 0 THEN << <<>> >>
        ELSE IF text[n] = LF THEN Append(upTo[n - 1], <<>>)
        ELSE Append(Front(upTo[n - 1]), Append(Last(upTo[n - 1]), text[n]))
      pieces == upTo[Len(text)]
  IN  IF Last(pieces) = <<>> THEN Front(pieces) ELSE pieces

StripCr(line) == IF line # <<>> /\ Last(line) = CR THEN Front(line) ELSE line
-----------------------------------------------------------------------------
(***************************************************************************)
(* What a text means, said without scanning it: base64 by the encoding it  *)
(* is the inverse of, and a lexeme by all ways to cut it into units.       *)
(***************************************************************************)

\* Of a list of numbers of `width` bits each, the `n` bits behind `offset`: they
\* lie in two numbers that follow each other, and behind the last there are zeros.
BitsAt(list, width, offset, n) ==
  LET at   == (offset \div width) + 1
      both == list[at] * 2^width + (IF at < Len(list) THEN list[at + 1] ELSE 0)
  IN  (both \div 2^(2 * width - n - (offset % width))) % 2^n

Sextets(bytes) ==
  [k \in 1..((8 * Len(bytes) + 5) \div 6) |-> BitsAt(bytes, 8, 6 * (k - 1), 6)]

Octets(values) ==
  [k \in 1..((6 * Len(values)) \div 8) |-> BitsAt(values, 6, 8 * (k - 1), 8)]

\* The first m characters have a value each, and at most the padding is behind.
Padded(encoded, m) ==
  /\ \A k \in 1..m : Base64Value(encoded[k]) # {}
  /\ \A k \in (m + 1)..Len(encoded) : encoded[k] = Pad
  /\ Len(encoded) - m <= Filling(m)

\* The bytes whose base64 encoding is `encoded`, with its padding, without, or
\* with a part of it.
Base64Denotes(encoded) ==
  LET values(m) == [k \in 1..m |-> CHOOSE v \in Base64Value(encoded[k]) : TRUE]
  IN  {Octets(values(m)) :
         m \in {n \in 1..Len(encoded) : /\ Padded(encoded, n)
                                        /\ Sextets(Octets(values(n))) = values(n)}}

\* The meaning of one unit: a character, spaces, or a base64 section.
UnitDenotes(unit) ==
  LET inside == SubSeq(unit, 2, Len(unit) - 1)
      marked(open, close) == Len(unit) > 1 /\ Head(unit) = open /\ Last(unit) = close
  IN  CASE Len(unit) = 1 /\ Head(unit) \notin {NUL, TabMark, SpacesMark, NewlineMark, Base64Mark} ->
             {Utf8(Head(unit))}
        [] unit = <<TabMark>> -> {<<9>>}
        [] unit = <<NewlineMark>> -> {<<10>>}
        [] marked(SpacesMark, SpacesMark) /\ inside # <<>> /\ Range(inside) \subseteq Digits ->
             {[k \in 1..n |-> 32] : n \in {Number(inside)} \cap 0..MaxCount}
        [] marked(Base64Mark, Base64End) /\ Base64End \notin Range(inside) ->
             {bytes \in Base64Denotes(inside) : IsUtf8(bytes)}
        [] OTHER -> {}

\* Every byte string that some way of cutting the text into units gives it.
LexemeDenotes(text) ==
  LET upTo[n \in 0..Len(text)] ==
        IF n = 0 THEN {<<>>}
        ELSE UNION {Joined(upTo[k], UnitDenotes(SubSeq(text, k + 1, n))) : k \in 0..(n - 1)}
  IN  upTo[Len(text)]
=============================================================================
