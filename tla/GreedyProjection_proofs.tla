----------------------- MODULE GreedyProjection_proofs -----------------------
(***************************************************************************)
(* Proofs about the map from DU lexemes to target IDs (DuTargetMap) and    *)
(* about the projection of a raw input (GreedyProjection): for every       *)
(* target vocabulary, dictionary and input, the walks along the trie give  *)
(* the greedy segmentation that TargetVocab defines without one.           *)
(*                                                                         *)
(* The invariant says what the trie holds of the tokens inserted so far    *)
(* (TrieOK), that what is segmented is the beginning of the greedy         *)
(* segmentation and stands for the bytes passed (Segmenting), and that the *)
(* packed array holds the expansions of the lexemes before the current one *)
(* at their offsets (PackOK).                                              *)
(***************************************************************************)
EXTENDS GreedyProjection, SpanLemmas

\* What the trie knows of the tokens inserted so far: the paths to its nodes
\* are their nonempty beginnings, and a terminal node has the first of the
\* tokens that are the path to it.
TrieOK ==
  /\ id \in 0..Len(tokens)
  /\ nodes = UNION {{Slice(TokenBytes(tokens, i), 0, n) : n \in 1..Len(TokenBytes(tokens, i))} :
                      i \in 0..(id - 1)}
  /\ DOMAIN terminal = {TokenBytes(tokens, i) : i \in 0..(id - 1)} \ {<<>>}
  /\ \A i \in 0..(id - 1) :
       LET token == TokenBytes(tokens, i)
       IN  token # <<>> => terminal[token] \in 0..i /\ TokenBytes(tokens, terminal[token]) = token

\* A text is segmented up to `at`: the IDs so far stand for the bytes passed,
\* and with the greedy ones from there on they are the greedy ones.
Segmented(vocab, text, at, sofar) ==
  /\ at \in 0..Len(text)
  /\ sofar \in Seq(IdsOf(vocab))
  /\ Decode(vocab, sofar) = Slice(text, 0, at)
  /\ GreedyIds(vocab, text) = sofar \o GreedyFrom(vocab, text)[at]
-----------------------------------------------------------------------------
\* The bytes of a slice.
LEMMA SliceBytes ==
  ASSUME NEW text \in Bytes, NEW a \in Nat, NEW b \in Nat, a <= b, b <= Len(text)
  PROVE  /\ Slice(text, a, b) \in Bytes /\ Len(Slice(text, a, b)) = b - a
         /\ \A k \in 1..(b - a) : Slice(text, a, b)[k] = text[a + k]
BY DEF Slice, Bytes

\* The bytes of a slice of a given length.
LEMMA SliceFrom ==
  ASSUME NEW text \in Bytes, NEW at \in Nat, NEW n \in Nat, at + n <= Len(text)
  PROVE  /\ Slice(text, at, at + n) \in Bytes /\ Len(Slice(text, at, at + n)) = n
         /\ \A k \in 1..n : Slice(text, at, at + n)[k] = text[at + k]
<1> DEFINE end == at + n
<1>1. end \in Nat /\ at <= end /\ end - at = n /\ end <= Len(text)
  OBVIOUS
<1> HIDE DEF end
<1>2. /\ Slice(text, at, end) \in Bytes /\ Len(Slice(text, at, end)) = n
      /\ \A k \in 1..n : Slice(text, at, end)[k] = text[at + k]
  BY <1>1, SliceBytes
<1> QED
  BY <1>2 DEF end

\* The beginning of a slice is a slice, and a slice of no other length.
LEMMA FrontOfSlice ==
  ASSUME NEW text \in Bytes, NEW at \in Nat, NEW n \in Nat, at + n <= Len(text)
  PROVE  /\ Slice(text, at, at + n) \in Bytes /\ Len(Slice(text, at, at + n)) = n
         /\ \A m \in 0..n : Slice(Slice(text, at, at + n), 0, m) = Slice(text, at, at + m)
<1> DEFINE whole == Slice(text, at, at + n)
<1>1. whole \in Bytes /\ Len(whole) = n /\ \A k \in 1..n : whole[k] = text[at + k]
  BY SliceFrom
<1>2. ASSUME NEW m \in 0..n
      PROVE  Slice(whole, 0, m) = Slice(text, at, at + m)
  <2> DEFINE part == Slice(text, at, at + m)
             front == Slice(whole, 0, m)
  <2>1. front \in Bytes /\ Len(front) = m /\ \A k \in 1..m : front[k] = whole[k]
    <3> HIDE DEF whole
    <3> QED
      BY <1>1, SliceFacts
  <2>2. part \in Bytes /\ Len(part) = m /\ \A k \in 1..m : part[k] = text[at + k]
    <3>1. Len(text) \in Nat
      BY DEF Bytes
    <3>2. m \in Nat /\ at + m <= Len(text)
      BY <3>1
    <3> QED
      BY <3>2, SliceFrom
  <2> HIDE DEF front, part, whole
  <2>3. \A k \in 1..Len(front) : front[k] = part[k]
    BY <1>1, <2>1, <2>2
  <2>4. front = part
    BY <2>1, <2>2, <2>3, SeqEqual DEF Bytes
  <2> QED
    BY <2>4 DEF front, part
<1> QED
  BY <1>1, <1>2

\* The token texts of a vocabulary, and where one of them matches.
LEMMA MatchFacts ==
  ASSUME NEW vocab \in Seq(Bytes), NEW text \in Bytes, NEW at \in 0..Len(text)
  PROVE  /\ \A i \in IdsOf(vocab) : TokenBytes(vocab, i) \in Bytes
         /\ \A i : i \in MatchesAt(vocab, text, at) <=>
              /\ i \in IdsOf(vocab)
              /\ Len(TokenBytes(vocab, i)) \in 1..(Len(text) - at)
              /\ Slice(text, at, at + Len(TokenBytes(vocab, i))) = TokenBytes(vocab, i)
<1>1. \A i \in IdsOf(vocab) : TokenBytes(vocab, i) \in Bytes
  BY DecodeFacts
<1>2. \A i \in IdsOf(vocab) : /\ Len(TokenBytes(vocab, i)) \in Nat
                              /\ TokenBytes(vocab, i) # <<>> <=> Len(TokenBytes(vocab, i)) # 0
  BY <1>1, EmptySeq DEF Bytes
<1>3. Len(text) \in Nat
  BY DEF Bytes
<1>4. ASSUME NEW i
      PROVE  i \in MatchesAt(vocab, text, at) <=>
              /\ i \in IdsOf(vocab)
              /\ Len(TokenBytes(vocab, i)) \in 1..(Len(text) - at)
              /\ Slice(text, at, at + Len(TokenBytes(vocab, i))) = TokenBytes(vocab, i)
  <2>1. i \in MatchesAt(vocab, text, at) <=>
          /\ i \in IdsOf(vocab)
          /\ TokenBytes(vocab, i) # <<>>
          /\ at + Len(TokenBytes(vocab, i)) <= Len(text)
          /\ Slice(text, at, at + Len(TokenBytes(vocab, i))) = TokenBytes(vocab, i)
    BY DEF MatchesAt, IdsOf
  <2> QED
    BY <1>2, <1>3, <2>1
<1> QED
  BY <1>1, <1>4

\* The greedy choice among the matches: the longest, and of equal ones the first.
LEMMA GreedyChoice ==
  ASSUME NEW vocab \in Seq(Bytes), NEW text \in Bytes, NEW at \in 0..Len(text),
         MatchesAt(vocab, text, at) # {}
  PROVE  LET best == LongestToken(vocab, text, at)
         IN  /\ best \in MatchesAt(vocab, text, at)
             /\ \A i \in MatchesAt(vocab, text, at) :
                  /\ Len(TokenBytes(vocab, i)) <= Len(TokenBytes(vocab, best))
                  /\ TokenBytes(vocab, i) = TokenBytes(vocab, best) => best <= i
<1> DEFINE matches == MatchesAt(vocab, text, at)
           size(i) == Len(TokenBytes(vocab, i))
           longest == {i \in matches : \A other \in matches : size(other) <= size(i)}
           best == LongestToken(vocab, text, at)
<1>1. best \in matches
  <2>1. at \in Nat
    BY DEF Bytes
  <2> QED
    BY <2>1, LongestTokenMatches
<1>2. best = Min(longest)
  BY DEF LongestToken
<1>3. \A i \in matches : i \in Nat
  BY DEF MatchesAt
<1>4. longest # {}
  <2> DEFINE rests == {Len(text) - size(i) : i \in matches}
  <2>1. \A i \in matches : Len(text) - size(i) \in Nat /\ size(i) \in Nat /\ Len(text) \in Nat
    BY MatchFacts DEF Bytes
  <2> HIDE DEF matches, size
  <2>2. rests \in SUBSET Nat /\ rests # {}
    BY <1>1, <2>1
  <2>3. PICK m \in rests : \A k \in rests : m <= k
    <3> HIDE DEF rests
    <3> QED
      BY <2>2, LeastNatural
  <2>4. PICK i \in matches : m = Len(text) - size(i)
    BY <2>3
  <2>5. \A other \in matches : size(other) <= size(i)
    <3> SUFFICES ASSUME NEW other \in matches PROVE size(other) <= size(i)
      OBVIOUS
    <3>1. Len(text) - size(i) <= Len(text) - size(other)
      BY <2>3, <2>4
    <3> QED
      BY <2>1, <3>1
  <2> QED
    BY <2>4, <2>5
<1>5. best \in longest /\ \A i \in longest : best <= i
  <2>1. longest \in SUBSET Nat
    BY <1>3
  <2> HIDE DEF longest, best
  <2> QED
    BY <1>2, <1>4, <2>1, MinFacts
<1>6. ASSUME NEW i \in matches, TokenBytes(vocab, i) = TokenBytes(vocab, best)
      PROVE  i \in longest
  <2>1. size(i) = size(best)
    BY <1>6
  <2> QED
    BY <1>5, <1>6, <2>1
<1> QED
  BY <1>1, <1>5, <1>6
-----------------------------------------------------------------------------
\* The largest number of a set.
LEMMA MaxIs ==
  ASSUME NEW S \in SUBSET Nat, NEW m \in S, \A x \in S : x <= m
  PROVE  Max(S) = m
<1>1. Max(S) \in S /\ \A x \in S : x <= Max(S)
  <2>1. \E y \in S : \A x \in S : x <= y
    OBVIOUS
  <2> QED
    BY <2>1, Zenon DEF Max
<1> DEFINE largest == Max(S)
<1>2. largest \in Nat /\ m \in Nat /\ largest <= m /\ m <= largest
  BY <1>1
<1> HIDE DEF largest
<1>3. largest = m
  BY <1>2
<1> QED
  BY <1>3 DEF largest

\* The walk along the trie of the whole vocabulary finds the greedy choice and
\* its ID, and finds nothing where no token matches.
LEMMA TrieMatches ==
  ASSUME tokens \in Seq(Bytes), TrieOK, id = Len(tokens),
         NEW text \in Bytes, NEW at \in 0..Len(text)
  PROVE  LET best == LongestToken(tokens, text, at)
         IN  /\ MatchesAt(tokens, text, at) = {} => LongestMatch(text, at) = {}
             /\ MatchesAt(tokens, text, at) # {} =>
                  /\ LongestMatch(text, at) = {TokenBytes(tokens, best)}
                  /\ terminal[TokenBytes(tokens, best)] = best
<1> DEFINE size(i) == Len(TokenBytes(tokens, i))
           rest == Len(text) - at
           upto(n) == Slice(text, at, at + n)
           terminals == {n \in {k \in 1..rest : \A m \in 1..k : upto(m) \in nodes} :
                           upto(n) \in DOMAIN terminal}
           matches == MatchesAt(tokens, text, at)
           best == LongestToken(tokens, text, at)
<1>1. Len(text) \in Nat /\ rest \in Nat /\ at \in Nat
  BY DEF Bytes
<1>2. LongestMatch(text, at) = IF terminals = {} THEN {} ELSE {upto(Max(terminals))}
  BY DEF LongestMatch
<1>3. \A i \in IdsOf(tokens) : TokenBytes(tokens, i) \in Bytes /\ size(i) \in Nat
  BY MatchFacts DEF Bytes
<1>4. ASSUME NEW i
      PROVE  i \in matches <=>
               i \in IdsOf(tokens) /\ size(i) \in 1..rest /\ upto(size(i)) = TokenBytes(tokens, i)
  BY MatchFacts
<1>5. ASSUME NEW n \in 1..rest
      PROVE  upto(n) \in Bytes /\ Len(upto(n)) = n
             /\ \A m \in 0..n : Slice(upto(n), 0, m) = upto(m)
  <2>1. n \in Nat /\ at + n <= Len(text)
    BY <1>1
  <2> QED
    BY <1>1, <2>1, FrontOfSlice
<1>6. DOMAIN terminal = {TokenBytes(tokens, i) : i \in IdsOf(tokens)} \ {<<>>}
  BY DEF TrieOK, IdsOf
<1>7. nodes = UNION {{Slice(TokenBytes(tokens, i), 0, n) : n \in 1..size(i)} : i \in IdsOf(tokens)}
  BY DEF TrieOK, IdsOf
<1>8. ASSUME NEW i \in IdsOf(tokens), TokenBytes(tokens, i) # <<>>
      PROVE  /\ terminal[TokenBytes(tokens, i)] \in IdsOf(tokens)
             /\ TokenBytes(tokens, terminal[TokenBytes(tokens, i)]) = TokenBytes(tokens, i)
  BY <1>8 DEF TrieOK, IdsOf
<1> HIDE DEF upto, size, matches, best
<1>9. ASSUME NEW n \in terminals PROVE \E i \in matches : size(i) = n
  <2>1. PICK i \in IdsOf(tokens) : TokenBytes(tokens, i) = upto(n)
    BY <1>6
  <2>2. size(i) = n
    BY <1>5, <2>1 DEF size
  <2> QED
    BY <1>4, <2>1, <2>2
<1>10. ASSUME NEW i \in matches PROVE size(i) \in terminals
  <2>1. i \in IdsOf(tokens) /\ size(i) \in 1..rest /\ upto(size(i)) = TokenBytes(tokens, i)
    BY <1>4
  <2>2. ASSUME NEW m \in 1..size(i) PROVE upto(m) \in nodes
    <3>1. upto(m) = Slice(TokenBytes(tokens, i), 0, m)
      BY <1>5, <2>1
    <3> QED
      BY <1>7, <2>1, <3>1
  <2>3. TokenBytes(tokens, i) # <<>>
    BY <1>3, <2>1, EmptySeq DEF Bytes, size
  <2>4. upto(size(i)) \in DOMAIN terminal
    BY <1>6, <2>1, <2>3
  <2> QED
    BY <2>1, <2>2, <2>4
<1> HIDE DEF terminals
<1>11. matches = {} => LongestMatch(text, at) = {}
  BY <1>2, <1>9
<1>12. ASSUME matches # {}
       PROVE  LongestMatch(text, at) = {TokenBytes(tokens, best)}
              /\ terminal[TokenBytes(tokens, best)] = best
  <2>1. /\ best \in matches
        /\ \A i \in matches :
             /\ size(i) <= size(best)
             /\ TokenBytes(tokens, i) = TokenBytes(tokens, best) => best <= i
    BY <1>12, GreedyChoice DEF best, matches, size
  <2>2. best \in IdsOf(tokens) /\ size(best) \in 1..rest
        /\ upto(size(best)) = TokenBytes(tokens, best)
    BY <1>4, <2>1
  <2>3. size(best) \in terminals /\ \A n \in terminals : n <= size(best)
    BY <1>9, <1>10, <2>1
  <2>4. terminals \in SUBSET Nat
    BY DEF terminals
  <2>5. Max(terminals) = size(best)
    BY <2>3, <2>4, MaxIs
  <2>6. LongestMatch(text, at) = {TokenBytes(tokens, best)}
    BY <1>2, <2>2, <2>3, <2>5
  <2>7. TokenBytes(tokens, best) # <<>>
    BY <1>3, <2>2, EmptySeq DEF Bytes, size
  <2> DEFINE found == terminal[TokenBytes(tokens, best)]
  <2>8. found \in IdsOf(tokens) /\ TokenBytes(tokens, found) = TokenBytes(tokens, best)
    BY <1>8, <2>2, <2>7
  <2>9. found \in matches
    BY <1>4, <2>2, <2>8 DEF size
  <2>10. best <= found
    BY <2>1, <2>8, <2>9
  <2>11. found \in 0..best
    BY <2>2, <2>7 DEF TrieOK, IdsOf
  <2>12. found = best
    BY <2>2, <2>10, <2>11 DEF IdsOf
  <2> QED
    BY <2>6, <2>12
<1> QED
  BY <1>11, <1>12 DEF matches, best

\* Inserting a token keeps what the trie says.
LEMMA InsertKeepsTrie ==
  ASSUME tokens \in Seq(Bytes), TrieOK, InsertToken
  PROVE  TrieOK'
<1> DEFINE text(i) == TokenBytes(tokens, i)
           paths(i) == {Slice(text(i), 0, n) : n \in 1..Len(text(i))}
<1>1. id \in Nat /\ id < Len(tokens) /\ Len(tokens) \in Nat /\ id' = id + 1 /\ tokens' = tokens
  BY DEF InsertToken, TrieOK, tokens
<1>2. id \in IdsOf(tokens) /\ text(id) \in Bytes
  <2>1. id \in IdsOf(tokens)
    BY <1>1 DEF IdsOf
  <2> QED
    BY <2>1, DecodeFacts
<1>3. \A i : i \in 0..(id' - 1) <=> i \in 0..(id - 1) \/ i = id
  BY <1>1
<1>4. /\ nodes' = nodes \cup paths(id)
      /\ terminal' = IF text(id) = <<>> THEN terminal ELSE WithTerminal(text(id), id)
  <2>1. CASE text(id) = <<>>
    <3>1. paths(id) = {}
      BY <2>1
    <3> QED
      BY <2>1, <3>1 DEF InsertToken
  <2>2. CASE text(id) # <<>>
    BY <2>2 DEF InsertToken
  <2> QED
    BY <2>1, <2>2
<1> HIDE DEF text
<1>5. /\ nodes = UNION {paths(i) : i \in 0..(id - 1)}
      /\ DOMAIN terminal = {text(i) : i \in 0..(id - 1)} \ {<<>>}
      /\ \A i \in 0..(id - 1) : text(i) # <<>> =>
           terminal[text(i)] \in 0..i /\ text(terminal[text(i)]) = text(i)
  BY DEF TrieOK, text
<1>6. nodes' = UNION {paths(i) : i \in 0..(id' - 1)}
  <2> HIDE DEF paths
  <2> QED
    BY <1>3, <1>4, <1>5
<1>7. text(id) \in DOMAIN terminal => terminal[text(id)] \in 0..(id - 1)
                                       /\ text(terminal[text(id)]) = text(id)
  <2> SUFFICES ASSUME text(id) \in DOMAIN terminal
               PROVE  terminal[text(id)] \in 0..(id - 1) /\ text(terminal[text(id)]) = text(id)
    OBVIOUS
  <2>1. PICK i \in 0..(id - 1) : text(i) = text(id) /\ text(id) # <<>>
    BY <1>5
  <2>2. terminal[text(id)] \in 0..i /\ text(terminal[text(id)]) = text(id)
    BY <1>5, <2>1
  <2> QED
    BY <1>1, <2>1, <2>2
<1>8. terminal' = IF text(id) = <<>> \/ text(id) \in DOMAIN terminal THEN terminal
                  ELSE [n \in DOMAIN terminal \cup {text(id)} |->
                          IF n = text(id) THEN id ELSE terminal[n]]
  <2>1. text(id) \in DOMAIN terminal => terminal[text(id)] <= id
    BY <1>1, <1>7
  <2>2. CASE text(id) = <<>> \/ text(id) \in DOMAIN terminal
    BY <1>4, <2>1, <2>2 DEF WithTerminal
  <2>3. CASE ~(text(id) = <<>> \/ text(id) \in DOMAIN terminal)
    BY <1>4, <2>3 DEF WithTerminal
  <2> QED
    BY <2>2, <2>3
<1>9. DOMAIN terminal' = {text(i) : i \in 0..(id' - 1)} \ {<<>>}
  <2>1. DOMAIN terminal' = DOMAIN terminal \cup ({text(id)} \ {<<>>})
    <3>1. CASE text(id) = <<>> \/ text(id) \in DOMAIN terminal
      BY <1>8, <3>1
    <3>2. CASE ~(text(id) = <<>> \/ text(id) \in DOMAIN terminal)
      BY <1>8, <3>2
    <3> QED
      BY <3>1, <3>2
  <2> QED
    BY <1>3, <1>5, <2>1
<1>10. ASSUME NEW i \in 0..(id' - 1), text(i) # <<>>
       PROVE  terminal'[text(i)] \in 0..i /\ text(terminal'[text(i)]) = text(i)
  <2>1. CASE i \in 0..(id - 1)
    <3>1. text(i) \in DOMAIN terminal
      BY <1>5, <1>10, <2>1
    <3>2. terminal'[text(i)] = terminal[text(i)]
      BY <1>8, <3>1
    <3> QED
      BY <1>5, <1>10, <2>1, <3>2
  <2>2. CASE i = id /\ text(id) \in DOMAIN terminal
    BY <1>1, <1>7, <1>8, <2>2
  <2>3. CASE i = id /\ text(id) \notin DOMAIN terminal
    <3>1. terminal'[text(id)] = id
      BY <1>8, <1>10, <2>3
    <3> QED
      BY <1>1, <2>3, <3>1
  <2> QED
    BY <1>3, <2>1, <2>2, <2>3
<1>11. id' \in 0..Len(tokens)
  BY <1>1
<1> QED
  BY <1>1, <1>6, <1>9, <1>10, <1>11 DEF TrieOK, text
\* Before its first match a text is segmented up to 0.
LEMMA SegmentedStart ==
  ASSUME NEW vocab \in Seq(Bytes), NEW text \in Bytes
  PROVE  Segmented(vocab, text, 0, <<>>)
<1> DEFINE from == GreedyFrom(vocab, text)
<1>1. 0 \in 0..Len(text)
  BY DEF Bytes
<1>2. GreedyIds(vocab, text) = from[0] /\ from[0] \in Seq(IdsOf(vocab))
  BY <1>1, GreedyFromFacts
<1>3. <<>> \o from[0] = from[0]
  BY <1>2
<1>4. Decode(vocab, <<>>) = <<>>
  BY DecodeFacts
<1>5. Slice(text, 0, 0) = <<>>
  BY DEF Slice
<1> HIDE DEF from
<1>6. <<>> \in Seq(IdsOf(vocab))
  OBVIOUS
<1> QED
  BY <1>1, <1>2, <1>3, <1>4, <1>5, <1>6 DEF Segmented, from

\* The greedy choice continues a segmentation.
LEMMA SegmentedStep ==
  ASSUME NEW vocab \in Seq(Bytes), NEW text \in Bytes, NEW at, NEW sofar,
         Segmented(vocab, text, at, sofar), MatchesAt(vocab, text, at) # {}
  PROVE  LET best == LongestToken(vocab, text, at)
         IN  Segmented(vocab, text, at + Len(TokenBytes(vocab, best)), Append(sofar, best))
<1> DEFINE best == LongestToken(vocab, text, at)
           next == at + Len(TokenBytes(vocab, best))
           from == GreedyFrom(vocab, text)
<1>1. at \in 0..Len(text) /\ sofar \in Seq(IdsOf(vocab))
      /\ Decode(vocab, sofar) = Slice(text, 0, at)
      /\ GreedyIds(vocab, text) = sofar \o from[at]
  BY DEF Segmented
<1>2. best \in IdsOf(vocab) /\ next \in (at + 1)..Len(text) /\ from[at] = <<best>> \o from[next]
  BY <1>1, GreedyFromFacts
<1>3. best \in MatchesAt(vocab, text, at)
  BY <1>1, GreedyChoice
<1>4. Slice(text, at, next) = TokenBytes(vocab, best)
  BY <1>1, <1>3, MatchFacts
<1> HIDE DEF best, from, next
<1>5. Len(text) \in Nat
  BY DEF Bytes
<1>6. next \in 0..Len(text) /\ at \in Nat /\ next \in Nat /\ at <= next
  BY <1>1, <1>2, <1>5
<1>7. Append(sofar, best) \in Seq(IdsOf(vocab))
  BY <1>1, <1>2
<1>8. Decode(vocab, Append(sofar, best)) = Slice(text, 0, next)
  <2>1. Decode(vocab, Append(sofar, best)) = Decode(vocab, sofar) \o TokenBytes(vocab, best)
    BY <1>1, <1>2, DecodeFacts
  <2>2. Slice(text, 0, at) \o Slice(text, at, next) = Slice(text, 0, next)
    BY <1>6, SlicesMeet
  <2> QED
    BY <1>1, <1>4, <2>1, <2>2
<1>9. GreedyIds(vocab, text) = Append(sofar, best) \o from[next]
  <2>1. from[next] \in Seq(IdsOf(vocab))
    BY <1>6, GreedyFromFacts DEF from
  <2>2. sofar \o (<<best>> \o from[next]) = Append(sofar, best) \o from[next]
    <3> DEFINE S == IdsOf(vocab)
    <3> HIDE DEF S
    <3>1. \A a, c \in Seq(S), e \in S : a \o (<<e>> \o c) = Append(a, e) \o c
      OBVIOUS
    <3> QED
      BY <1>1, <1>2, <2>1, <3>1 DEF S
  <2> QED
    BY <1>1, <1>2, <2>2
<1> QED
  BY <1>6, <1>7, <1>8, <1>9 DEF Segmented, best, next, from

\* A segmentation that goes no further is the whole greedy one; it covers the
\* text exactly if it came to its end.
LEMMA SegmentedEnd ==
  ASSUME NEW vocab \in Seq(Bytes), NEW text \in Bytes, NEW at, NEW sofar,
         Segmented(vocab, text, at, sofar),
         at >= Len(text) \/ MatchesAt(vocab, text, at) = {}
  PROVE  /\ GreedyIds(vocab, text) = sofar
         /\ Mappable(vocab, text) <=> at = Len(text)
<1>1. at \in 0..Len(text) /\ sofar \in Seq(IdsOf(vocab)) /\ Len(text) \in Nat
      /\ Decode(vocab, sofar) = Slice(text, 0, at)
      /\ GreedyIds(vocab, text) = sofar \o GreedyFrom(vocab, text)[at]
  BY DEF Segmented, Bytes
<1>2. MatchesAt(vocab, text, at) = {}
  <2>1. SUFFICES ASSUME at >= Len(text), NEW i \in MatchesAt(vocab, text, at) PROVE FALSE
    OBVIOUS
  <2>2. Len(TokenBytes(vocab, i)) \in 1..(Len(text) - at)
    BY <1>1, <2>1, MatchFacts
  <2> QED
    BY <1>1, <2>1, <2>2
<1>3. GreedyFrom(vocab, text)[at] = <<>>
  BY <1>1, <1>2, GreedyFromFacts
<1>4. GreedyIds(vocab, text) = sofar
  BY <1>1, <1>3
<1>5. Len(Slice(text, 0, at)) = at
  BY <1>1, SliceFacts
<1>6. Mappable(vocab, text) <=> Slice(text, 0, at) = text
  BY <1>1, <1>4 DEF Mappable
<1>7. Slice(text, 0, Len(text)) = text
  BY SliceWhole
<1> QED
  BY <1>4, <1>5, <1>6, <1>7

\* A match continues the segmentation, and without one it ends.
LEMMA MatchSegments ==
  ASSUME tokens \in Seq(Bytes), TrieOK, id = Len(tokens),
         NEW text \in Bytes, Segmented(tokens, text, offset, expansion),
         MatchNext(text)
  PROVE  \/ /\ MatchesAt(tokens, text, offset) = {}
            /\ pc' = "failed" /\ error' = "no_token" /\ UNCHANGED <<offset, expansion>>
         \/ /\ UNCHANGED <<pc, error>>
            /\ Segmented(tokens, text, offset', expansion')
<1> DEFINE best == LongestToken(tokens, text, offset)
<1>1. offset \in 0..Len(text)
  BY DEF Segmented
<1>2. /\ MatchesAt(tokens, text, offset) = {} => LongestMatch(text, offset) = {}
      /\ MatchesAt(tokens, text, offset) # {} =>
           /\ LongestMatch(text, offset) = {TokenBytes(tokens, best)}
           /\ terminal[TokenBytes(tokens, best)] = best
  BY <1>1, TrieMatches
<1>3. CASE MatchesAt(tokens, text, offset) = {}
  BY <1>2, <1>3 DEF MatchNext, Fail
<1>4. CASE MatchesAt(tokens, text, offset) # {}
  <2>1. Segmented(tokens, text, offset + Len(TokenBytes(tokens, best)), Append(expansion, best))
    BY <1>4, SegmentedStep
  <2> HIDE DEF best
  <2>2. /\ expansion' = Append(expansion, best)
        /\ offset' = offset + Len(TokenBytes(tokens, best))
        /\ UNCHANGED <<pc, error>>
    BY <1>2, <1>4 DEF MatchNext
  <2> QED
    BY <2>1, <2>2
<1> QED
  BY <1>3, <1>4
-----------------------------------------------------------------------------
\* What is packed stays where it is when more is packed behind it.
LEMMA SliceOfJoin ==
  ASSUME NEW first \in Bytes, NEW second \in Bytes
  PROVE  /\ \A a, b \in Nat : a <= b /\ b <= Len(first) =>
              Slice(first \o second, a, b) = Slice(first, a, b)
         /\ Slice(first \o second, Len(first), Len(first) + Len(second)) = second
<1>1. ASSUME NEW a \in Nat, NEW b \in Nat, a <= b, b <= Len(first)
      PROVE  Slice(first \o second, a, b) = Slice(first, a, b)
  BY <1>1 DEF Slice, Bytes
<1>2. Slice(first \o second, Len(first), Len(first) + Len(second)) = second
  BY DEF Slice, Bytes
<1> QED
  BY <1>1, <1>2

\* The packed array holds the greedy expansions of the lexemes before the
\* current one, each between its offset and the next.
PackOK ==
  /\ offsets \in Seq(Nat) /\ Len(offsets) \in 1..(Len(input.du_vocab) + 1)
  /\ ids \in Bytes
  /\ offsets[1] = 0 /\ offsets[Len(offsets)] = Len(ids)
  /\ \A k \in 1..gid : offsets[k] <= offsets[k + 1] /\ offsets[k + 1] <= Len(ids)
  /\ \A g \in 0..(gid - 1) : /\ Lookup(g) = GreedyIds(tokens, input.du_vocab[g + 1])
                             /\ Mappable(tokens, input.du_vocab[g + 1])

\* What every state of the build satisfies: of the trie, of the lexeme at hand,
\* and of the array.
MapInv ==
  /\ input \in Cases
  /\ pc \in {"insert", "encode", "built", "failed"}
  /\ TrieOK /\ PackOK
  /\ pc # "insert" => id = Len(tokens)
  /\ pc = "insert" => offset = 0 /\ expansion = <<>>
  /\ pc # "failed" => error = "none"
  /\ pc \in {"encode", "failed"} /\ gid < Len(input.du_vocab) =>
       Segmented(tokens, lexeme, offset, expansion)
  /\ pc = "built" => gid = Len(input.du_vocab)
  /\ pc = "failed" => /\ error = "no_token" /\ gid < Len(input.du_vocab)
                      /\ offset < Len(lexeme) /\ MatchesAt(tokens, lexeme, offset) = {}

LEMMA InputTypes ==
  ASSUME input \in Cases
  PROVE  /\ tokens \in Seq(Bytes) /\ Len(tokens) \in Nat
         /\ input.du_vocab \in Seq(Bytes) /\ Len(input.du_vocab) \in Nat
<1>1. input \in [du_vocab : Seq(Bytes), tokens : Seq(Bytes)]
  BY CasesAssumption
<1> QED
  BY <1>1 DEF tokens

LEMMA MapInit == Init => MapInv
<1> SUFFICES ASSUME Init PROVE MapInv
  OBVIOUS
<1>1. tokens \in Seq(Bytes) /\ Len(tokens) \in Nat /\ Len(input.du_vocab) \in Nat
  BY InputTypes DEF Init
<1>2. id = 0 /\ nodes = {} /\ terminal = <<>> /\ offsets = <<0>> /\ ids = <<>> /\ gid = 0
  BY DEF Init, gid
<1>3. TrieOK
  <2>1. 0..(id - 1) = {}
    BY <1>2
  <2>2. DOMAIN terminal = {}
    BY <1>2
  <2> QED
    BY <1>1, <1>2, <2>1, <2>2 DEF TrieOK
<1>4. PackOK
  <2>1. offsets \in Seq(Nat) /\ Len(offsets) = 1 /\ offsets[1] = 0 /\ ids \in Bytes /\ Len(ids) = 0
    BY <1>2 DEF Bytes
  <2> QED
    BY <1>1, <1>2, <2>1 DEF PackOK
<1> QED
  BY <1>3, <1>4 DEF MapInv, Init

\* What a lexeme is made of, while there is one.
LEMMA LexemeType ==
  ASSUME input \in Cases, PackOK, gid < Len(input.du_vocab)
  PROVE  gid \in Nat /\ lexeme \in Bytes /\ lexeme = input.du_vocab[gid + 1]
<1>1. input.du_vocab \in Seq(Bytes) /\ Len(input.du_vocab) \in Nat
  BY InputTypes
<1>2. gid \in Nat /\ gid + 1 \in 1..Len(input.du_vocab)
  BY <1>1 DEF PackOK, gid
<1> QED
  BY <1>1, <1>2 DEF lexeme

\* Packing the expansion of a lexeme.
LEMMA PackKeepsPack ==
  ASSUME MapInv, PackLexeme
  PROVE  /\ PackOK' /\ UNCHANGED <<pc, error, input, trie>>
         /\ gid' = gid + 1 /\ offset' = 0 /\ expansion' = <<>>
<1> DEFINE voc == input.du_vocab
<1>1. /\ input \in Cases /\ TrieOK /\ PackOK /\ id = Len(tokens) /\ pc = "encode"
      /\ gid < Len(voc) /\ offset >= Len(lexeme)
      /\ Segmented(tokens, lexeme, offset, expansion)
  BY DEF MapInv, PackLexeme, Encoding
<1>2. tokens \in Seq(Bytes) /\ voc \in Seq(Bytes) /\ Len(voc) \in Nat
  BY <1>1, InputTypes
<1>3. gid \in Nat /\ lexeme \in Bytes /\ lexeme = voc[gid + 1]
  BY <1>1, LexemeType
<1>4. GreedyIds(tokens, lexeme) = expansion /\ (Mappable(tokens, lexeme) <=> offset = Len(lexeme))
  BY <1>1, <1>2, <1>3, SegmentedEnd
<1>5. offset = Len(lexeme)
  BY <1>1, <1>3 DEF Segmented, Bytes
<1>6. Decode(tokens, expansion) = lexeme
  BY <1>4, <1>5 DEF Mappable
<1>7. /\ ids' = ids \o expansion /\ offsets' = Append(offsets, Len(ids) + Len(expansion))
      /\ offset' = 0 /\ expansion' = <<>> /\ UNCHANGED <<pc, error, input, trie>>
  BY <1>6 DEF PackLexeme, NextOffset
<1>8. expansion \in Bytes /\ ids \in Bytes /\ Len(ids) \in Nat /\ Len(expansion) \in Nat
  <2>1. expansion \in Seq(IdsOf(tokens)) /\ IdsOf(tokens) \subseteq Nat
    BY <1>1 DEF Segmented, IdsOf
  <2>2. expansion \in Seq(Nat)
    BY <2>1
  <2> QED
    BY <1>1, <2>2 DEF PackOK, Bytes
<1> DEFINE n == Len(offsets)
<1>9. /\ offsets \in Seq(Nat) /\ n \in 1..Len(voc) /\ n = gid + 1 /\ n \in Nat
      /\ offsets[1] = 0 /\ offsets[n] = Len(ids)
      /\ \A k \in 1..gid : offsets[k] <= offsets[k + 1] /\ offsets[k + 1] <= Len(ids)
  BY <1>1, <1>2, <1>3 DEF PackOK, gid
<1>16. \A k \in 1..n : offsets[k] \in Nat
  BY <1>9
<1>10. /\ offsets' \in Seq(Nat) /\ Len(offsets') = n + 1 /\ offsets'[n + 1] = Len(ids) + Len(expansion)
       /\ \A k \in 1..n : offsets'[k] = offsets[k]
  BY <1>7, <1>8, <1>9
<1>11. gid' = gid + 1
  BY <1>9, <1>10 DEF gid
<1>12. ids' \in Bytes /\ Len(ids') = Len(ids) + Len(expansion)
  BY <1>7, <1>8 DEF Bytes
<1> HIDE DEF n
<1>13. \A k \in 1..gid' : offsets'[k] <= offsets'[k + 1] /\ offsets'[k + 1] <= Len(ids')
  <2> SUFFICES ASSUME NEW k \in 1..gid'
               PROVE  offsets'[k] <= offsets'[k + 1] /\ offsets'[k + 1] <= Len(ids')
    OBVIOUS
  <2>1. CASE k = n
    <3>1. offsets'[n] = Len(ids) /\ offsets'[n + 1] = Len(ids')
      BY <1>3, <1>9, <1>10, <1>12
    <3> QED
      BY <1>8, <1>12, <2>1, <3>1
  <2>2. CASE k \in 1..gid
    <3>1. /\ offsets'[k] = offsets[k] /\ offsets'[k + 1] = offsets[k + 1]
          /\ offsets[k] <= offsets[k + 1] /\ offsets[k + 1] <= Len(ids)
          /\ offsets[k] \in Nat /\ offsets[k + 1] \in Nat
      <4>1. k \in 1..n /\ k + 1 \in 1..n
        BY <1>3, <1>9, <2>2
      <4> QED
        BY <1>9, <1>10, <1>16, <2>2, <4>1
    <3> QED
      BY <1>8, <1>12, <3>1
  <2> QED
    BY <1>3, <1>9, <1>11, <2>1, <2>2
<1>14. \A g \in 0..(gid' - 1) : /\ Lookup(g)' = GreedyIds(tokens, voc[g + 1])
                                /\ Mappable(tokens, voc[g + 1])
  <2> SUFFICES ASSUME NEW g \in 0..(gid' - 1)
               PROVE  Lookup(g)' = GreedyIds(tokens, voc[g + 1]) /\ Mappable(tokens, voc[g + 1])
    OBVIOUS
  <2>1. CASE g = gid
    <3>1. Lookup(g)' = Slice(ids \o expansion, Len(ids), Len(ids) + Len(expansion))
      BY <1>3, <1>7, <1>9, <1>10, <2>1 DEF Lookup
    <3>2. Lookup(g)' = expansion
      BY <1>8, <3>1, SliceOfJoin
    <3> QED
      BY <1>3, <1>4, <1>5, <2>1, <3>2
  <2>2. CASE g \in 0..(gid - 1)
    <3>1. /\ offsets'[g + 1] = offsets[g + 1] /\ offsets'[g + 2] = offsets[g + 2]
          /\ offsets[g + 1] \in Nat /\ offsets[g + 2] \in Nat
          /\ offsets[g + 1] <= offsets[g + 2] /\ offsets[g + 2] <= Len(ids)
      <4>1. g + 1 \in 1..gid /\ (g + 1) + 1 = g + 2 /\ g + 1 \in 1..n /\ g + 2 \in 1..n
        BY <1>3, <1>9, <2>2
      <4> QED
        BY <1>9, <1>10, <1>16, <4>1
    <3>2. Slice(ids \o expansion, offsets[g + 1], offsets[g + 2])
            = Slice(ids, offsets[g + 1], offsets[g + 2])
      BY <1>8, <3>1, SliceOfJoin
    <3>3. Lookup(g)' = Slice(ids \o expansion, offsets[g + 1], offsets[g + 2])
      BY <1>7, <3>1 DEF Lookup
    <3> QED
      BY <1>1, <2>2, <3>2, <3>3 DEF PackOK, Lookup
  <2> QED
    BY <1>3, <1>11, <2>1, <2>2
<1>15. PackOK'
  <2>1. input' = input /\ tokens' = tokens
    BY <1>7 DEF tokens
  <2>2. Len(offsets') \in 1..(Len(voc) + 1)
    BY <1>2, <1>9, <1>10
  <2>3. offsets'[1] = 0
    BY <1>9, <1>10
  <2>4. offsets'[Len(offsets')] = Len(ids')
    BY <1>10, <1>12
  <2> QED
    BY <1>10, <1>12, <1>13, <1>14, <2>1, <2>2, <2>3, <2>4 DEF PackOK
<1> QED
  BY <1>7, <1>11, <1>15
\* The build's invariant survives a step of the build.
LEMMA MapNext == MapInv /\ [Next \/ Terminated]_vars => MapInv'
<1> SUFFICES ASSUME MapInv, [Next \/ Terminated]_vars PROVE MapInv'
  OBVIOUS
<1>1. tokens \in Seq(Bytes) /\ Len(tokens) \in Nat
      /\ input.du_vocab \in Seq(Bytes) /\ Len(input.du_vocab) \in Nat
  BY InputTypes DEF MapInv
<1>2. CASE InsertToken
  <2>1. TrieOK'
    BY <1>1, <1>2, InsertKeepsTrie DEF MapInv
  <2>2. PackOK' /\ pc = "insert" /\ pc' = pc
    BY <1>2 DEF InsertToken, MapInv, map, PackOK, gid, Lookup, tokens
  <2> QED
    BY <1>2, <2>1, <2>2 DEF InsertToken, MapInv
<1>3. ASSUME UNCHANGED <<input, trie, map>>
      PROVE  /\ TrieOK' /\ PackOK' /\ id' = id /\ tokens' = tokens /\ lexeme' = lexeme
             /\ gid' = gid /\ input' = input
  BY <1>3 DEF MapInv, trie, map, TrieOK, PackOK, gid, Lookup, tokens, lexeme
<1>4. CASE VocabReady
  <2>1. id = Len(tokens)
    BY <1>1, <1>4 DEF VocabReady, MapInv, TrieOK
  <2>2. gid < Len(input.du_vocab) => Segmented(tokens, lexeme, 0, <<>>)
    BY <1>1, LexemeType, SegmentedStart DEF MapInv
  <2> QED
    BY <1>3, <1>4, <2>1, <2>2 DEF VocabReady, MapInv
<1>5. CASE MatchToken
  <2>1. lexeme \in Bytes /\ gid < Len(input.du_vocab) /\ pc = "encode" /\ id = Len(tokens)
    BY <1>5, LexemeType DEF MatchToken, Encoding, MapInv
  <2>2. \/ /\ MatchesAt(tokens, lexeme, offset) = {}
           /\ pc' = "failed" /\ error' = "no_token" /\ UNCHANGED <<offset, expansion>>
        \/ /\ UNCHANGED <<pc, error>>
           /\ Segmented(tokens, lexeme, offset', expansion')
    BY <1>1, <1>5, <2>1, MatchSegments DEF MatchToken, MapInv
  <2> QED
    BY <1>3, <1>5, <2>1, <2>2 DEF MatchToken, MapInv
<1>6. CASE PackLexeme
  <2>1. /\ PackOK' /\ UNCHANGED <<pc, error, input, trie>>
        /\ gid' = gid + 1 /\ offset' = 0 /\ expansion' = <<>>
    BY <1>6, PackKeepsPack
  <2>2. TrieOK' /\ tokens' = tokens /\ id' = id /\ input' = input
    BY <2>1 DEF MapInv, trie, TrieOK, tokens
  <2>3. (gid < Len(input.du_vocab))' => Segmented(tokens, lexeme', 0, <<>>)
    <3>1. (gid < Len(input.du_vocab))' => lexeme' \in Bytes
      <4>1. (input \in Cases /\ PackOK /\ gid < Len(input.du_vocab) => lexeme \in Bytes)'
        BY LexemeType, PTL
      <4> QED
        BY <2>1, <2>2, <4>1 DEF MapInv
    <3> QED
      BY <1>1, <3>1, SegmentedStart
  <2>4. pc = "encode"
    BY <1>6 DEF PackLexeme, Encoding
  <2> QED
    BY <2>1, <2>2, <2>3, <2>4 DEF MapInv
<1>7. CASE Finish
  <2>1. PackOK /\ pc = "encode" /\ gid >= Len(input.du_vocab)
    BY <1>7 DEF Finish, MapInv
  <2>2. gid = Len(input.du_vocab) /\ Len(offsets) = gid + 1
    BY <1>1, <2>1 DEF PackOK, gid
  <2>3. PackedValid
    <3>1. Last(offsets) = offsets[Len(offsets)]
      BY DEF Last
    <3> QED
      BY <2>1, <2>2, <3>1 DEF PackOK, PackedValid
  <2> QED
    BY <1>3, <1>7, <2>1, <2>2, <2>3 DEF Finish, MapInv
<1>8. CASE UNCHANGED vars
  BY <1>3, <1>8 DEF vars, MapInv
<1> QED
  BY <1>2, <1>4, <1>5, <1>6, <1>7, <1>8 DEF Next, Terminated

\* The build's invariant gives what the map promises.
LEMMA MapInvImplies == MapInv => MapIsGreedy
<1> SUFFICES ASSUME MapInv PROVE MapIsGreedy
  OBVIOUS
<1>1. tokens \in Seq(Bytes) /\ Len(input.du_vocab) \in Nat
  BY InputTypes DEF MapInv
<1>2. error = "no_token" /\ gid < Len(input.du_vocab) =>
       /\ MatchesAt(tokens, lexeme, offset) = {}
       /\ expansion = GreedyIds(tokens, lexeme)
       /\ ~Mappable(tokens, lexeme)
  <2> SUFFICES ASSUME error = "no_token", gid < Len(input.du_vocab)
               PROVE  /\ MatchesAt(tokens, lexeme, offset) = {}
                      /\ expansion = GreedyIds(tokens, lexeme)
                      /\ ~Mappable(tokens, lexeme)
    OBVIOUS
  <2>1. lexeme \in Bytes /\ pc = "failed"
    BY LexemeType DEF MapInv
  <2>2. /\ Segmented(tokens, lexeme, offset, expansion) /\ MatchesAt(tokens, lexeme, offset) = {}
        /\ offset < Len(lexeme)
    BY <2>1 DEF MapInv
  <2>3. offset # Len(lexeme)
    BY <2>1, <2>2 DEF Segmented, Bytes
  <2> QED
    BY <1>1, <2>1, <2>2, <2>3, SegmentedEnd
<1>3. pc = "built" => \A g \in 1..Len(input.du_vocab) : Mappable(tokens, input.du_vocab[g])
  <2> SUFFICES ASSUME pc = "built", NEW g \in 1..Len(input.du_vocab)
               PROVE  Mappable(tokens, input.du_vocab[g])
    OBVIOUS
  <2>1. g - 1 \in 0..(gid - 1) /\ (g - 1) + 1 = g
    BY <1>1 DEF MapInv
  <2> QED
    BY <2>1 DEF MapInv, PackOK
<1>4. error \notin {"changed_bytes", "packed"}
  BY DEF MapInv
<1> QED
  BY <1>2, <1>3, <1>4 DEF MapIsGreedy, MapInv, PackOK

\* Whatever the vocabulary and the dictionary: the map built is the greedy one,
\* and it is built exactly if greedy segmentation covers every lexeme.
THEOREM MapAlwaysGreedy == Spec => []MapIsGreedy
<1>1. Spec => []MapInv
  BY MapInit, MapNext, PTL DEF Spec
<1> QED
  BY <1>1, MapInvImplies, PTL
-----------------------------------------------------------------------------
\* The files of a projection: untouched until the IDs are verified, then first
\* the ID file, if one was asked for, and only then the receipt.
FilesInOrder ==
  /\ pc \in {"insert", "project", "verify", "create_ids"} =>
       receipt \in {Absent, Older} /\ id_file = receipt
  /\ pc \in {"create_ids", "write_ids"} => job.id_output
  /\ pc = "write_ids" => receipt \in {Absent, Older}
  /\ pc \in {"create_receipt", "write_receipt", "projected"} =>
       IF job.id_output THEN id_file = [file |-> "complete", ids |-> last_ids]
                        ELSE id_file \in {Absent, Older}
  /\ pc # "projected" => receipt \in {Absent, Older, Torn}
  /\ pc = "projected" =>
       receipt = [file |-> "complete", input_sha256 |-> Sha256(source),
                  decoded_sha256 |-> Sha256(Decode(tokens, last_ids)),
                  emitted_target_ids |-> Len(last_ids), target_ids_sha256 |-> last_ids]

AfterPasses == {"verify", "create_ids", "write_ids", "create_receipt", "write_receipt",
                "projected", "crashed"}

\* What every state of a projection satisfies: the passes over so far covered
\* the input, and the last measured one gave its greedy IDs.
ProjectInv ==
  /\ input \in Cases /\ input.du_vocab = <<>> /\ offsets = <<0>>
  /\ job \in Jobs
  /\ pc \in {"insert", "project", "failed"} \cup AfterPasses
  /\ TrieOK
  /\ pc \in {"project"} \cup AfterPasses => id = Len(tokens) /\ job.repeats # 0
  /\ pc = "insert" => passes = 0 /\ offset = 0 /\ expansion = <<>>
  /\ pc = "project" => /\ Segmented(tokens, source, offset, expansion)
                       /\ passes < job.warmups + job.repeats
  /\ pc \in AfterPasses => passes = job.warmups + job.repeats
  /\ passes \in Nat
  /\ passes > 0 => Mappable(tokens, source)
  /\ passes > job.warmups => last_ids = GreedyIds(tokens, source)
  /\ FilesInOrder
  /\ pc # "failed" => error = "none"
  /\ error \in {"none", "no_repeats", "empty_input", "file", "no_token"}
  /\ error = "no_token" => /\ ~Mappable(tokens, source)
                           /\ passes = 0 /\ receipt \in {Absent, Older} /\ id_file = receipt

ProjectionInv == IF Projecting THEN ProjectInv ELSE MapInv /\ receipt = Absent

\* The part of the input that is projected.
LEMMA SourceType ==
  ASSUME job \in Jobs
  PROVE  /\ source \in Bytes
         /\ job.warmups \in Nat /\ job.repeats \in Nat /\ job.id_output \in BOOLEAN
<1>1. job \in [raw : Bytes, max_bytes : Nat, warmups : Nat, repeats : Nat, id_output : BOOLEAN]
  BY JobsAssumption
<1>2. job.raw \in Bytes /\ job.max_bytes \in Nat /\ Len(job.raw) \in Nat
  BY <1>1 DEF Bytes
<1> DEFINE least == Min({job.max_bytes, Len(job.raw)})
<1>3. least \in Nat /\ least <= Len(job.raw)
  <2>1. {job.max_bytes, Len(job.raw)} \in SUBSET Nat /\ {job.max_bytes, Len(job.raw)} # {}
    BY <1>2
  <2> QED
    BY <1>2, <2>1, MinFacts
<1> HIDE DEF least
<1>4. source = Slice(job.raw, 0, IF job.max_bytes = 0 THEN Len(job.raw) ELSE least)
  BY DEF source, least
<1>5. source \in Bytes
  BY <1>2, <1>3, <1>4, SliceFacts
<1> QED
  BY <1>1, <1>5

LEMMA ProjectionStarts == ProjectionInit => ProjectionInv
<1> SUFFICES ASSUME ProjectionInit PROVE ProjectionInv
  OBVIOUS
<1>1. MapInv
  BY MapInit DEF ProjectionInit
<1>2. CASE Projecting
  <2>1. job \in Jobs /\ input.du_vocab = <<>>
    BY <1>2 DEF ProjectionInit, Projecting
  <2>2. job.warmups \in Nat
    BY <2>1, SourceType
  <2>3. /\ pc = "insert" /\ offset = 0 /\ expansion = <<>> /\ offsets = <<0>> /\ error = "none"
        /\ passes = 0 /\ id_file \in {Absent, Older} /\ receipt = id_file
    BY <1>2 DEF ProjectionInit, Init
  <2>4. FilesInOrder
    BY <2>3 DEF FilesInOrder
  <2> QED
    BY <1>1, <1>2, <2>1, <2>2, <2>3, <2>4 DEF ProjectionInv, ProjectInv, MapInv, AfterPasses
<1>3. CASE ~Projecting
  BY <1>1, <1>3 DEF ProjectionInv, ProjectionInit
<1> QED
  BY <1>2, <1>3

\* What no step of a projection changes.
LEMMA JobKept ==
  ASSUME ProjectInv, UNCHANGED <<input, job, offsets>>
  PROVE  /\ tokens' = tokens /\ source' = source /\ input' = input /\ job' = job
         /\ input' \in Cases /\ input'.du_vocab = <<>> /\ offsets' = <<0>> /\ job' \in Jobs
         /\ UNCHANGED trie => TrieOK'
<1>1. tokens' = tokens
  BY DEF tokens
<1>2. source' = source
  BY DEF source
<1>3. UNCHANGED trie => TrieOK'
  BY <1>1 DEF ProjectInv, trie, TrieOK
<1> QED
  BY <1>1, <1>2, <1>3 DEF ProjectInv

\* An error that is not a missing match leaves what was shown.
LEMMA FailingKeeps ==
  ASSUME ProjectInv, pc # "failed", pc # "projected",
         pc' = "failed", error' \in {"no_repeats", "empty_input", "file"},
         UNCHANGED <<input, trie, offset, expansion, map, job, passes, result>>
  PROVE  ProjectInv'
<1>1. /\ tokens' = tokens /\ source' = source /\ TrieOK'
      /\ input' \in Cases /\ input'.du_vocab = <<>> /\ offsets' = <<0>> /\ job' \in Jobs
  BY JobKept DEF map
<1>2. /\ job' = job /\ passes' = passes
      /\ last_ids' = last_ids /\ id_file' = id_file /\ receipt' = receipt
  BY DEF result
<1>3. FilesInOrder'
  BY <1>2 DEF ProjectInv, FilesInOrder
<1> QED
  BY <1>1, <1>2, <1>3 DEF ProjectInv, AfterPasses

LEMMA ProjectTokenKeeps == ProjectInv /\ ProjectToken => ProjectInv'
<1> SUFFICES ASSUME ProjectInv, ProjectToken PROVE ProjectInv'
  OBVIOUS
<1>1. /\ tokens' = tokens /\ source' = source /\ TrieOK' /\ id' = id
      /\ input' \in Cases /\ input'.du_vocab = <<>> /\ offsets' = <<0>> /\ job' \in Jobs
  BY JobKept DEF ProjectToken, map, trie
<1>2. tokens \in Seq(Bytes) /\ source \in Bytes
  BY InputTypes, SourceType DEF ProjectInv
<1>3. /\ pc = "project" /\ offset < Len(source) /\ id = Len(tokens)
      /\ Segmented(tokens, source, offset, expansion)
  BY DEF ProjectToken, ProjectInv
<1>4. \/ /\ MatchesAt(tokens, source, offset) = {}
         /\ pc' = "failed" /\ error' = "no_token" /\ UNCHANGED <<offset, expansion>>
      \/ /\ UNCHANGED <<pc, error>>
         /\ Segmented(tokens, source, offset', expansion')
  BY <1>2, <1>3, MatchSegments DEF ProjectToken, ProjectInv
<1>5. /\ job' = job /\ passes' = passes
      /\ last_ids' = last_ids /\ id_file' = id_file /\ receipt' = receipt
  BY DEF ProjectToken, result
<1>6. CASE pc' = "failed" /\ error' = "no_token" /\ MatchesAt(tokens, source, offset) = {}
  <2>1. ~Mappable(tokens, source)
    <3>1. offset # Len(source)
      BY <1>2, <1>3 DEF Segmented, Bytes
    <3> QED
      BY <1>2, <1>3, <1>6, <3>1, SegmentedEnd
  <2>2. passes = 0
    BY <2>1 DEF ProjectInv
  <2>3. receipt \in {Absent, Older} /\ id_file = receipt
    BY <1>3 DEF ProjectInv, FilesInOrder
  <2>4. FilesInOrder'
    BY <1>5, <1>6, <2>3 DEF FilesInOrder
  <2> QED
    BY <1>1, <1>5, <1>6, <2>1, <2>2, <2>3, <2>4 DEF ProjectInv, AfterPasses
<1>7. CASE UNCHANGED <<pc, error>> /\ Segmented(tokens, source, offset', expansion')
  <2>1. FilesInOrder'
    BY <1>3, <1>5, <1>7 DEF ProjectInv, FilesInOrder
  <2> QED
    BY <1>1, <1>3, <1>5, <1>7, <2>1 DEF ProjectInv, AfterPasses
<1> QED
  BY <1>4, <1>6, <1>7

LEMMA EndPassKeeps == ProjectInv /\ EndPass => ProjectInv'
<1> SUFFICES ASSUME ProjectInv, EndPass PROVE ProjectInv'
  OBVIOUS
<1>1. /\ tokens' = tokens /\ source' = source /\ TrieOK' /\ id' = id
      /\ input' \in Cases /\ input'.du_vocab = <<>> /\ offsets' = <<0>> /\ job' \in Jobs
  BY JobKept DEF EndPass, map, trie
<1>2. tokens \in Seq(Bytes) /\ source \in Bytes /\ job.warmups \in Nat /\ job.repeats \in Nat
  BY InputTypes, SourceType DEF ProjectInv
<1>3. /\ pc = "project" /\ offset >= Len(source) /\ id = Len(tokens) /\ job.repeats # 0
      /\ Segmented(tokens, source, offset, expansion)
      /\ passes \in Nat /\ passes < job.warmups + job.repeats /\ error = "none"
      /\ passes > job.warmups => last_ids = GreedyIds(tokens, source)
  BY DEF EndPass, ProjectInv, AfterPasses
<1>4. GreedyIds(tokens, source) = expansion /\ Mappable(tokens, source)
  <2>1. offset = Len(source)
    BY <1>2, <1>3 DEF Segmented, Bytes
  <2> QED
    BY <1>2, <1>3, <2>1, SegmentedEnd
<1>5. /\ last_ids' = (IF Measured THEN expansion ELSE last_ids)
      /\ offset' = 0 /\ expansion' = <<>> /\ passes' = passes + 1
      /\ pc' = (IF passes' = job.warmups + job.repeats THEN "verify" ELSE pc)
      /\ job' = job /\ error' = error /\ id_file' = id_file /\ receipt' = receipt
  BY <1>3, <1>4 DEF EndPass
<1>6. passes' > job.warmups => last_ids' = GreedyIds(tokens, source)
  BY <1>2, <1>3, <1>4, <1>5 DEF Measured
<1>7. receipt \in {Absent, Older} /\ id_file = receipt
  BY <1>3 DEF ProjectInv, FilesInOrder
<1>8. FilesInOrder'
  BY <1>3, <1>5, <1>7 DEF FilesInOrder
<1>9. pc' = "project" => Segmented(tokens, source, offset', expansion')
                         /\ passes' < job.warmups + job.repeats
  BY <1>2, <1>3, <1>5, SegmentedStart
<1>10. pc' \in {"project", "verify"} /\ (pc' = "verify" => passes' = job.warmups + job.repeats)
  BY <1>3, <1>5
<1>11. passes' \in Nat
  BY <1>3, <1>5
<1> QED
  BY <1>1, <1>3, <1>4, <1>5, <1>6, <1>8, <1>9, <1>10, <1>11 DEF ProjectInv, AfterPasses
\* Verifying the last IDs, and writing the files, one call after another.
LEMMA FinishingKeeps ==
  ProjectInv /\ (VerifyProjection \/ CreateIds \/ WriteIds \/ CreateReceipt \/ WriteReceipt \/ Crash)
    => ProjectInv'
<1> SUFFICES ASSUME ProjectInv, VerifyProjection \/ CreateIds \/ WriteIds \/ CreateReceipt
                                \/ WriteReceipt \/ Crash
             PROVE  ProjectInv'
  OBVIOUS
<1>1. UNCHANGED <<input, trie, map, job, passes>>
  BY DEF VerifyProjection, CreateIds, WriteIds, CreateReceipt, WriteReceipt, Crash, result
<1>2. /\ tokens' = tokens /\ source' = source /\ TrieOK' /\ id' = id
      /\ input' \in Cases /\ input'.du_vocab = <<>> /\ offsets' = <<0>> /\ job' \in Jobs
      /\ job' = job /\ passes' = passes
  BY <1>1, JobKept DEF map, trie
<1>3. job.warmups \in Nat /\ job.repeats \in Nat /\ job.id_output \in BOOLEAN
  BY SourceType DEF ProjectInv
<1>4. pc \in AfterPasses /\ pc \notin {"insert", "project", "failed", "projected", "crashed"}
  BY DEF VerifyProjection, CreateIds, WriteIds, CreateReceipt, WriteReceipt, Crash, AfterPasses
<1>5. /\ passes > 0 /\ passes > job.warmups /\ Mappable(tokens, source)
      /\ last_ids = GreedyIds(tokens, source)
  BY <1>3, <1>4 DEF ProjectInv
<1>6. Decode(tokens, last_ids) = source
  BY <1>5 DEF Mappable
<1>7. pc' \in AfterPasses /\ error' = error /\ last_ids' = last_ids
  BY <1>6 DEF VerifyProjection, CreateIds, WriteIds, CreateReceipt, WriteReceipt, Crash, AfterPasses,
              result
<1>8. FilesInOrder'
  <2>1. CASE VerifyProjection
    BY <1>2, <1>3, <1>6, <2>1 DEF VerifyProjection, ProjectInv, FilesInOrder, result
  <2>2. CASE CreateIds
    BY <1>2, <2>2 DEF CreateIds, ProjectInv, FilesInOrder
  <2>3. CASE WriteIds
    BY <1>2, <2>3 DEF WriteIds, ProjectInv, FilesInOrder
  <2>4. CASE CreateReceipt
    BY <1>2, <2>4 DEF CreateReceipt, ProjectInv, FilesInOrder
  <2>5. CASE WriteReceipt
    BY <1>2, <2>5 DEF WriteReceipt, ProjectInv, FilesInOrder
  <2>6. CASE Crash
    BY <1>2, <2>6 DEF Crash, ProjectInv, FilesInOrder, result
  <2> QED
    BY <2>1, <2>2, <2>3, <2>4, <2>5, <2>6
<1>9. error = "none"
  BY <1>4 DEF ProjectInv
<1> QED
  BY <1>2, <1>4, <1>5, <1>7, <1>8, <1>9 DEF ProjectInv, AfterPasses

\* The invariant survives every step, of a build and of a projection.
LEMMA ProjectionKeeps ==
  ProjectionInv /\ [ProjectionNext \/ ProjectionTerminated]_projectionVars => ProjectionInv'
<1> SUFFICES ASSUME ProjectionInv, [ProjectionNext \/ ProjectionTerminated]_projectionVars
             PROVE  ProjectionInv'
  OBVIOUS
<1>1. job' = job /\ Projecting' = Projecting
  BY DEF ProjectionNext, ProjectionTerminated, projectionVars, CheckRepeats, LoadInput, FileFails,
         ProjectToken, EndPass, VerifyProjection, CreateIds, WriteIds, CreateReceipt, WriteReceipt,
         Crash, Projecting
<1>2. CASE ~Projecting
  <2>1. MapInv /\ receipt = Absent /\ pc \in {"insert", "encode", "built", "failed"}
    BY <1>2 DEF ProjectionInv, MapInv
  <2>2. [Next \/ Terminated]_vars /\ receipt' = receipt
    BY <1>2, <2>1
       DEF ProjectionNext, ProjectionTerminated, projectionVars, CheckRepeats, LoadInput, FileFails,
           ProjectToken, EndPass, VerifyProjection, CreateIds, WriteIds, CreateReceipt, WriteReceipt,
           Crash, result
  <2> QED
    BY <1>1, <1>2, <2>1, <2>2, MapNext DEF ProjectionInv
<1>3. CASE Projecting
  <2> SUFFICES ProjectInv'
    BY <1>1, <1>3 DEF ProjectionInv
  <2>1. ProjectInv
    BY <1>3 DEF ProjectionInv
  <2>2. tokens \in Seq(Bytes) /\ Len(tokens) \in Nat
    BY <2>1, InputTypes DEF ProjectInv
  <2>3. ASSUME InsertToken, UNCHANGED <<job, passes, result>> PROVE ProjectInv'
    <3>1. /\ tokens' = tokens /\ source' = source
          /\ input' \in Cases /\ input'.du_vocab = <<>> /\ offsets' = <<0>> /\ job' \in Jobs
      BY <2>1, <2>3, JobKept DEF InsertToken, map
    <3>2. TrieOK'
      BY <2>1, <2>2, <2>3, InsertKeepsTrie DEF ProjectInv
    <3>3. pc = "insert" /\ UNCHANGED <<pc, offset, expansion, error, passes, last_ids, id_file, receipt>>
      BY <2>3 DEF InsertToken, result
    <3>4. FilesInOrder'
      BY <2>1, <3>3 DEF ProjectInv, FilesInOrder
    <3> QED
      BY <1>1, <2>1, <3>1, <3>2, <3>3, <3>4 DEF ProjectInv, AfterPasses
  <2>4. CASE CheckRepeats
    BY <2>1, <2>4, FailingKeeps DEF CheckRepeats, Fail
  <2>5. CASE LoadInput
    <3>1. CASE source = <<>>
      BY <2>1, <2>5, <3>1, FailingKeeps DEF LoadInput, Fail
    <3>2. CASE source # <<>>
      <4>1. /\ pc = "insert" /\ pc' = "project" /\ error' = error /\ job.repeats # 0
            /\ UNCHANGED <<input, trie, offset, expansion, map, job, passes, last_ids, id_file, receipt>>
            /\ id >= Len(tokens)
        BY <2>5, <3>2 DEF LoadInput, result
      <4>2. /\ tokens' = tokens /\ source' = source /\ TrieOK' /\ id' = id
            /\ input' \in Cases /\ input'.du_vocab = <<>> /\ offsets' = <<0>> /\ job' \in Jobs
        BY <2>1, <4>1, JobKept DEF map, trie
      <4>3. id = Len(tokens)
        BY <2>1, <2>2, <4>1 DEF ProjectInv, TrieOK
      <4>4. source \in Bytes /\ job.warmups \in Nat /\ job.repeats \in Nat
        BY <2>1, SourceType DEF ProjectInv
      <4>5. offset = 0 /\ expansion = <<>> /\ passes = 0 /\ error = "none"
        BY <2>1, <4>1 DEF ProjectInv
      <4>6. Segmented(tokens, source, offset', expansion') /\ passes < job.warmups + job.repeats
        BY <2>2, <4>1, <4>4, <4>5, SegmentedStart
      <4>7. FilesInOrder'
        BY <2>1, <4>1 DEF ProjectInv, FilesInOrder
      <4> QED
        BY <2>1, <4>1, <4>2, <4>3, <4>4, <4>5, <4>6, <4>7 DEF ProjectInv, AfterPasses
    <3> QED
      BY <3>1, <3>2
  <2>6. CASE FileFails
    BY <2>1, <2>6, FailingKeeps DEF FileFails, Fail
  <2>7. CASE UNCHANGED projectionVars
    <3>1. UNCHANGED <<input, trie, job, offsets, pc, offset, expansion, error, passes, last_ids, id_file,
                      receipt>>
      BY <2>7 DEF projectionVars, vars, map, result
    <3>2. /\ tokens' = tokens /\ source' = source /\ TrieOK' /\ id' = id
          /\ input' \in Cases /\ input'.du_vocab = <<>> /\ offsets' = <<0>> /\ job' \in Jobs
      BY <2>1, <3>1, JobKept DEF trie
    <3>3. FilesInOrder'
      BY <1>1, <2>1, <3>1, <3>2 DEF ProjectInv, FilesInOrder
    <3> QED
      BY <1>1, <2>1, <3>1, <3>2, <3>3 DEF ProjectInv
  <2> QED
    BY <1>3, <2>1, <2>3, <2>4, <2>5, <2>6, <2>7, ProjectTokenKeeps, EndPassKeeps, FinishingKeeps
       DEF ProjectionNext, ProjectionTerminated
<1> QED
  BY <1>2, <1>3

\* The invariant gives what the map and the receipt promise.
LEMMA ProjectionInvImplies == ProjectionInv => MapIsGreedy /\ ReceiptNamesIds
<1> SUFFICES ASSUME ProjectionInv PROVE MapIsGreedy /\ ReceiptNamesIds
  OBVIOUS
<1>1. CASE ~Projecting
  <2>1. MapIsGreedy
    BY <1>1, MapInvImplies DEF ProjectionInv
  <2>2. receipt.file = "absent"
    BY <1>1 DEF ProjectionInv, Absent
  <2> QED
    BY <1>1, <2>1, <2>2 DEF ReceiptNamesIds
<1>2. CASE Projecting
  <2>1. ProjectInv
    BY <1>2 DEF ProjectionInv
  <2>2. gid = 0 /\ Len(input.du_vocab) = 0
    BY <2>1 DEF ProjectInv, gid
  <2>3. MapIsGreedy
    BY <2>1, <2>2 DEF ProjectInv, AfterPasses, MapIsGreedy
  <2>4. ASSUME receipt.file = "complete"
        PROVE  /\ receipt.target_ids_sha256 = GreedyIds(tokens, source)
               /\ receipt.decoded_sha256 = source /\ receipt.input_sha256 = source
               /\ job.id_output => id_file = [file |-> "complete", ids |-> receipt.target_ids_sha256]
               /\ ~job.id_output => id_file \in {Absent, Older}
    <3>1. receipt \notin {Absent, Older, Torn}
      BY <2>4 DEF Absent, Older, Torn
    <3>2. pc = "projected"
      BY <2>1, <3>1 DEF ProjectInv, FilesInOrder
    <3>3. job.warmups \in Nat /\ job.repeats \in Nat
      BY <2>1, SourceType DEF ProjectInv
    <3>4. passes > 0 /\ passes > job.warmups
      BY <2>1, <3>2, <3>3 DEF ProjectInv, AfterPasses
    <3>5. Decode(tokens, last_ids) = source /\ last_ids = GreedyIds(tokens, source)
      BY <2>1, <3>4 DEF ProjectInv, Mappable
    <3>6. receipt.target_ids_sha256 = last_ids /\ receipt.decoded_sha256 = Decode(tokens, last_ids)
          /\ receipt.input_sha256 = source
      BY <2>1, <3>2 DEF ProjectInv, FilesInOrder, Sha256
    <3> QED
      BY <2>1, <3>2, <3>5, <3>6 DEF ProjectInv, FilesInOrder
  <2> QED
    BY <2>1, <2>3, <2>4 DEF ProjectInv, ReceiptNamesIds
<1> QED
  BY <1>1, <1>2

\* The same of a process that may project as well: building a map is not
\* disturbed by it, and no projection fails the map's closing checks.
THEOREM MapGreedyAmongProjections == ProjectionSpec => []MapIsGreedy
<1>1. ProjectionSpec => []ProjectionInv
  BY ProjectionStarts, ProjectionKeeps, PTL DEF ProjectionSpec
<1> QED
  BY <1>1, ProjectionInvImplies, PTL

\* Whatever the input, the vocabulary and the passes: a complete receipt names
\* the greedy IDs of the input, and the ID file has them.
THEOREM ReceiptAlwaysNamesIds == ProjectionSpec => []ReceiptNamesIds
<1>1. ProjectionSpec => []ProjectionInv
  BY ProjectionStarts, ProjectionKeeps, PTL DEF ProjectionSpec
<1> QED
  BY <1>1, ProjectionInvImplies, PTL
=============================================================================
