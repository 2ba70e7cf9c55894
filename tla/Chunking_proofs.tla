---------------------------- MODULE Chunking_proofs ----------------------------
(***************************************************************************)
(* Proofs that chunks make up the document, for every text and all sizes.  *)
(*                                                                         *)
(* Nothing here is about steps: the one invariant of the specification is  *)
(* the type of the text, and the properties hold of every such text.  What *)
(* is inductive are the loops: each recursive function is first unfolded   *)
(* into the turns of its loop, and what is known after n turns is shown to *)
(* be known after n + 1.                                                   *)
(***************************************************************************)
EXTENDS Chunking, Lists_proofs

-----------------------------------------------------------------------------
(* Where sentences are, and what is between them.                          *)

\* The lengths of sentences add up, with one position after each.
LEMMA LengthsAdd ==
  ASSUME ChunkingTypeOK
  PROVE  /\ Len(text) \in Nat
         /\ \A k \in 1..Len(text) : text[k].length \in Nat /\ text[k].length >= 1
         /\ LengthUpTo(0) = 0
         /\ \A k \in 0..Len(text) : LengthUpTo(k) \in Nat
         /\ \A k \in 1..Len(text) : LengthUpTo(k) = LengthUpTo(k - 1) + text[k].length + 1
<1> DEFINE upTo(k) == [i \in 1..k |-> text[i].length + 1]
<1>1. Len(text) \in Nat /\ \A k \in 1..Len(text) : text[k].length \in Nat \ {0}
  <2> DEFINE R == [length : SentenceLengths, starts : Starts, turns : BOOLEAN]
  <2>1. text \in Seq(R)
    BY DEF ChunkingTypeOK
  <2>2. \A r \in R : r.length \in Nat \ {0}
    BY ChunkingAssumption
  <2> HIDE DEF R
  <2>3. Len(text) \in Nat /\ \A k \in 1..Len(text) : text[k] \in R
    BY <2>1
  <2> QED BY <2>2, <2>3
<1>2. \A k \in 1..Len(text) : text[k].length \in Nat /\ text[k].length >= 1
  BY <1>1
<1>3. ASSUME NEW k \in 0..Len(text)
      PROVE  upTo(k) \in Seq(Nat) /\ Len(upTo(k)) = k
  <2>1. k \in Nat /\ \A i \in 1..k : text[i].length + 1 \in Nat
    BY <1>1, <1>2
  <2> QED BY <2>1
<1>4. LengthUpTo(0) = 0
  <2>1. upTo(0) \in Seq(Nat) /\ Len(upTo(0)) = 0
    BY <1>1, <1>3
  <2> HIDE DEF upTo
  <2>2. Added(upTo(0)) = 0
    BY <2>1, AddedShort
  <2> QED BY <2>2 DEF LengthUpTo, upTo
<1>5. ASSUME NEW k \in 1..Len(text)
      PROVE  LengthUpTo(k) = LengthUpTo(k - 1) + text[k].length + 1
  <2>1. k - 1 \in 0..Len(text) /\ k \in 0..Len(text) /\ k \in Nat /\ k - 1 \in Nat
    BY <1>1
  <2> DEFINE s == upTo(k - 1)
             t == upTo(k)
             x == text[k].length + 1
  <2>2. s \in Seq(Nat) /\ Len(s) = k - 1 /\ t \in Seq(Nat) /\ Len(t) = k /\ x \in Nat
    BY <1>2, <1>3, <2>1
  <2>3. t = Append(s, x)
    <3>1. /\ Append(s, x) \in Seq(Nat) /\ Len(Append(s, x)) = k
          /\ Append(s, x)[k] = x /\ \A i \in 1..(k - 1) : Append(s, x)[i] = s[i]
      <4> HIDE DEF s, x
      <4> QED BY <2>1, <2>2, AppendProperties
    <3>2. \A i \in 1..k : t[i] = Append(s, x)[i]
      <4> SUFFICES ASSUME NEW i \in 1..k PROVE t[i] = Append(s, x)[i]
        OBVIOUS
      <4>1. CASE i = k
        BY <3>1, <4>1
      <4>2. CASE i \in 1..(k - 1)
        BY <3>1, <4>2
      <4> QED BY <2>1, <4>1, <4>2
    <3> HIDE DEF s, t, x
    <3> QED BY <2>2, <3>1, <3>2, SeqEqual
  <2>4. Added(Append(s, x)) = Added(s) + x
    <3> HIDE DEF s, x
    <3> QED BY <2>2, AddedAppend
  <2>5. Added(s) \in Nat
    <3> HIDE DEF s
    <3> QED BY <2>2, AddedShort
  <2>6. LengthUpTo(k) = Added(t) /\ LengthUpTo(k - 1) = Added(s)
    BY DEF LengthUpTo
  <2>7. x = text[k].length + 1 /\ text[k].length \in Nat
    BY <1>2
  <2> HIDE DEF s, t, x
  <2> QED BY <2>3, <2>4, <2>5, <2>6, <2>7
<1>6. ASSUME NEW k \in 0..Len(text) PROVE LengthUpTo(k) \in Nat
  <2>1. upTo(k) \in Seq(Nat)
    BY <1>3
  <2> HIDE DEF upTo
  <2>2. Added(upTo(k)) \in Nat
    BY <2>1, AddedShort
  <2> QED BY <2>2 DEF LengthUpTo, upTo
<1> QED BY <1>1, <1>2, <1>4, <1>5, <1>6

\* Sentences follow each other, with one separator between two of them.
LEMMA Places ==
  ASSUME ChunkingTypeOK
  PROVE  /\ Len(text) \in Nat
         /\ \A k \in 1..Len(text) :
              /\ Start(k) \in Nat /\ End(k) \in Nat /\ 1 <= Start(k) /\ Start(k) <= End(k)
              /\ text[k].length \in Nat /\ End(k) - Start(k) + 1 = text[k].length
         /\ Len(text) > 0 => Start(1) = 1 /\ LastPosition = End(Len(text))
         /\ \A k \in 1..(Len(text) - 1) : Start(k + 1) = End(k) + 2
         /\ \A j, k \in 1..Len(text) : j < k => End(j) + 2 <= Start(k)
<1> DEFINE N == Len(text)
           L(k) == LengthUpTo(k)
<1>1. /\ N \in Nat /\ L(0) = 0
      /\ \A k \in 1..N : text[k].length \in Nat /\ text[k].length >= 1
      /\ \A k \in 0..N : L(k) \in Nat
      /\ \A k \in 1..N : L(k) = L(k - 1) + text[k].length + 1
  BY LengthsAdd
<1>2. \A k : Start(k) = L(k - 1) + 1 /\ End(k) = L(k) - 1
  BY DEF Start, End
<1>3. LastPosition = End(N)
  BY DEF LastPosition, End
<1> HIDE DEF N, L
<1>4. ASSUME NEW k \in 1..N
      PROVE  /\ Start(k) \in Nat /\ End(k) \in Nat /\ 1 <= Start(k) /\ Start(k) <= End(k)
             /\ text[k].length \in Nat /\ End(k) - Start(k) + 1 = text[k].length
  <2>1. k - 1 \in 0..N /\ k \in 0..N
    BY <1>1
  <2>2. L(k - 1) \in Nat /\ L(k) \in Nat /\ L(k) = L(k - 1) + text[k].length + 1
        /\ text[k].length \in Nat /\ text[k].length >= 1
    BY <1>1, <2>1
  <2> QED BY <1>2, <2>2
<1>5. N > 0 => Start(1) = 1
  BY <1>1, <1>2
<1>6. ASSUME NEW k \in 1..(N - 1) PROVE Start(k + 1) = End(k) + 2
  <2>1. k \in 0..N /\ (k + 1) - 1 = k
    BY <1>1
  <2>2. L(k) \in Nat
    BY <1>1, <2>1
  <2> QED BY <1>2, <2>1, <2>2
<1>7. ASSUME NEW j \in 1..N PROVE \A k \in 1..N : j < k => End(j) + 2 <= Start(k)
  <2> DEFINE S == {k \in Nat : j < k => End(j) + 2 <= Start(k)}
  <2>1. 0 \in S
    BY <1>1
  <2>2. ASSUME NEW k \in 0..(N - 1), k \in S PROVE k + 1 \in S
    <3> SUFFICES ASSUME j < k + 1 PROVE End(j) + 2 <= Start(k + 1)
      OBVIOUS
    <3>1. j = k \/ j < k
      BY <1>1
    <3>2. k \in 1..(N - 1) /\ k \in 1..N
      BY <1>1, <3>1
    <3>3. Start(k + 1) = End(k) + 2
      BY <1>6, <3>2
    <3>4. Start(k) \in Nat /\ End(k) \in Nat /\ Start(k) <= End(k) /\ End(j) \in Nat
      BY <1>4, <3>2
    <3>5. CASE j = k
      BY <3>3, <3>4, <3>5
    <3>6. CASE j < k
      <4>1. End(j) + 2 <= Start(k)
        BY <2>2, <3>6
      <4> QED BY <3>3, <3>4, <4>1
    <3> QED BY <3>1, <3>5, <3>6
  <2> HIDE DEF S
  <2>3. \A k \in 0..N : k \in S
    BY <1>1, <2>1, <2>2, UpTo
  <2> QED BY <2>3 DEF S
<1> QED BY <1>1, <1>3, <1>4, <1>5, <1>6, <1>7 DEF N

\* The separators are the positions between sentences.
LEMMA Between ==
  ASSUME ChunkingTypeOK, text # <<>>
  PROVE  /\ LastPosition \in Nat /\ LastPosition >= 1
         /\ Separators \subseteq Nat
         /\ \A p \in Separators : 1 < p /\ p < LastPosition /\ p - 1 \notin Separators /\ p + 1 \notin Separators
         /\ \A k \in 1..Len(text) :
              /\ End(k) <= LastPosition
              /\ \A p \in Start(k)..End(k) : p \notin Separators
         /\ \A k \in 1..(Len(text) - 1) : End(k) + 1 \in Separators
         /\ \A p \in 1..LastPosition \ Separators :
              \E k \in 1..Len(text) : Start(k) <= p /\ p <= End(k)
<1> DEFINE N == Len(text)
<1>1. /\ N \in Nat /\ N > 0
      /\ Start(1) = 1 /\ LastPosition = End(N)
      /\ \A k \in 1..N : Start(k) \in Nat /\ End(k) \in Nat /\ 1 <= Start(k) /\ Start(k) <= End(k)
      /\ \A k \in 1..(N - 1) : Start(k + 1) = End(k) + 2
      /\ \A j, k \in 1..N : j < k => End(j) + 2 <= Start(k)
  <2>1. N > 0
    BY EmptySeq DEF ChunkingTypeOK
  <2> QED BY <2>1, Places
<1>2. Separators = {End(k) + 1 : k \in 1..(N - 1)}
  BY DEF Separators
<1> HIDE DEF N
<1>3. LastPosition \in Nat /\ LastPosition >= 1
  <2>1. N \in 1..N
    BY <1>1
  <2> QED BY <1>1, <2>1
<1>4. \A k \in 1..(N - 1) : k \in 1..N /\ k + 1 \in 1..N /\ N \in 1..N
  BY <1>1
<1>5. ASSUME NEW k \in 1..N PROVE End(k) <= LastPosition
  <2>1. CASE k = N
    BY <1>1, <1>3, <2>1
  <2>2. CASE k < N
    <3>1. k \in 1..N /\ N \in 1..N
      BY <1>1
    <3>2. End(k) + 2 <= Start(N) /\ Start(N) <= End(N) /\ End(k) \in Nat /\ Start(N) \in Nat /\ End(N) \in Nat
      BY <1>1, <2>2, <3>1
    <3> QED BY <1>1, <3>2
  <2> QED BY <1>1, <2>1, <2>2
<1>6. ASSUME NEW k \in 1..N, NEW p \in Start(k)..End(k) PROVE p \notin Separators
  <2> SUFFICES ASSUME NEW j \in 1..(N - 1), p = End(j) + 1 PROVE FALSE
    BY <1>2
  <2>1. j \in 1..N /\ j + 1 \in 1..N
    BY <1>4
  <2>2. /\ Start(k) \in Nat /\ End(k) \in Nat /\ Start(j) \in Nat /\ End(j) \in Nat
        /\ Start(j) <= End(j) /\ p \in Nat /\ Start(k) <= p /\ p <= End(k)
    BY <1>1, <2>1
  <2>3. CASE k = j
    BY <2>2, <2>3
  <2>4. CASE j < k
    BY <1>1, <2>1, <2>2, <2>4
  <2>5. CASE k < j
    BY <1>1, <2>1, <2>2, <2>5
  <2> QED BY <1>1, <2>1, <2>3, <2>4, <2>5
<1>7. ASSUME NEW k \in 1..(N - 1)
      PROVE  /\ End(k) + 1 \in Nat /\ 1 < End(k) + 1 /\ End(k) + 1 < LastPosition
             /\ (End(k) + 1) - 1 \notin Separators /\ (End(k) + 1) + 1 \notin Separators
             /\ End(k) + 1 \in Separators
  <2>1. k \in 1..N /\ k + 1 \in 1..N
    BY <1>4
  <2>2. /\ Start(k + 1) = End(k) + 2 /\ End(k) \in Nat /\ Start(k) \in Nat /\ 1 <= Start(k)
        /\ Start(k) <= End(k) /\ Start(k + 1) <= End(k + 1) /\ End(k + 1) \in Nat
    BY <1>1, <2>1
  <2>3. End(k + 1) <= LastPosition
    BY <1>5, <2>1
  <2>4. End(k) \in Start(k)..End(k) /\ Start(k + 1) \in Start(k + 1)..End(k + 1)
    BY <2>2
  <2>5. End(k) \notin Separators /\ Start(k + 1) \notin Separators
    BY <1>6, <2>1, <2>4
  <2>6. (End(k) + 1) - 1 = End(k) /\ (End(k) + 1) + 1 = Start(k + 1)
    BY <2>2
  <2>7. End(k) + 1 \in Nat /\ 1 < End(k) + 1 /\ End(k) + 1 < LastPosition
    BY <1>3, <2>2, <2>3
  <2> QED BY <1>2, <2>5, <2>6, <2>7
<1>8. ASSUME NEW p \in 1..LastPosition, p \notin Separators
      PROVE  \E k \in 1..N : Start(k) <= p /\ p <= End(k)
  <2> DEFINE T == {k \in Nat : k \in 1..N /\ p <= End(k)}
  <2>1. N \in T
    BY <1>1, <1>3
  <2>2. PICK k \in T : \A j \in T : k <= j
    BY <2>1, LeastMember
  <2>3. k \in 1..N /\ p <= End(k) /\ p \in Nat
    BY <1>3, <2>2
  <2>4. CASE k = 1
    BY <1>1, <2>3, <2>4
  <2>5. CASE k > 1
    <3>1. PICK j \in 1..(N - 1) : k = j + 1
      <4>1. k - 1 \in 1..(N - 1) /\ k = (k - 1) + 1
        BY <1>1, <2>3, <2>5
      <4> QED BY <4>1
    <3>2. j \in 1..N /\ j \in Nat /\ ~(k <= j)
      BY <1>1, <1>4, <3>1
    <3>3. ~(p <= End(j))
      BY <2>2, <3>2
    <3>4. End(j) \in Nat /\ Start(k) = End(j) + 2 /\ p # End(j) + 1
      BY <1>1, <1>2, <1>8, <3>1, <3>2
    <3>5. Start(k) <= p
      BY <2>3, <3>3, <3>4
    <3> QED BY <2>3, <3>5
  <2> QED BY <1>1, <2>3, <2>4, <2>5
<1> QED
  <2>1. \A p \in Separators : \E k \in 1..(N - 1) : p = End(k) + 1
    BY <1>2
  <2>2. \A p \in Separators : p \in Nat /\ 1 < p /\ p < LastPosition /\ p - 1 \notin Separators /\ p + 1 \notin Separators
    <3> TAKE p \in Separators
    <3>1. PICK k \in 1..(N - 1) : p = End(k) + 1
      BY <2>1
    <3> QED BY <1>7, <3>1
  <2>3. \A k \in 1..N : End(k) <= LastPosition /\ \A p \in Start(k)..End(k) : p \notin Separators
    BY <1>5, <1>6
  <2>4. \A k \in 1..(N - 1) : End(k) + 1 \in Separators
    BY <1>7
  <2>5. \A p \in 1..LastPosition \ Separators : \E k \in 1..N : Start(k) <= p /\ p <= End(k)
    BY <1>8
  <2>6. Separators \subseteq Nat
    BY <2>2
  <2> QED BY <1>3, <2>2, <2>3, <2>4, <2>5, <2>6 DEF N

-----------------------------------------------------------------------------
(* Pieces: groups of whole sentences, with one separator between two groups.*)

\* c begins with a sentence and ends with one.
Whole(c) == \E j, k \in 1..Len(text) : j <= k /\ c = <<Start(j), End(k)>>

\* s is what is between lo and hi, in pieces between which there is a separator.
Pieces(s, lo, hi) ==
  /\ s \in Seq(Nat \X Nat) /\ Len(s) > 0
  /\ s[1][1] = lo /\ s[Len(s)][2] = hi
  /\ \A i \in 1..Len(s) : Whole(s[i])
  /\ \A i \in 1..(Len(s) - 1) : s[i + 1][1] = s[i][2] + 2 /\ s[i][2] + 1 \in Separators

\* Whole sentences are an interval of the text without separators at its ends.
LEMMA WholeHolds ==
  ASSUME ChunkingTypeOK, NEW c, Whole(c)
  PROVE  /\ c \in Nat \X Nat
         /\ 1 <= c[1] /\ c[1] <= c[2] /\ c[2] <= LastPosition
         /\ c[1] \notin Separators /\ c[2] \notin Separators
<1>1. PICK j, k \in 1..Len(text) : j <= k /\ c = <<Start(j), End(k)>>
  BY DEF Whole
<1>2. Len(text) \in Nat /\ text # <<>>
  <2>1. Len(text) \in Nat
    BY Places
  <2>2. Len(<<>>) = 0
    OBVIOUS
  <2> QED BY <1>1, <2>1, <2>2
<1>3. /\ Start(j) \in Nat /\ End(j) \in Nat /\ Start(k) \in Nat /\ End(k) \in Nat
      /\ 1 <= Start(j) /\ Start(j) <= End(j) /\ Start(k) <= End(k)
      /\ j < k => End(j) + 2 <= Start(k)
  BY Places
<1>4. /\ End(k) <= LastPosition
      /\ \A p \in Start(j)..End(j) : p \notin Separators
      /\ \A p \in Start(k)..End(k) : p \notin Separators
  BY <1>2, Between
<1>5. Start(j) \in Start(j)..End(j) /\ End(k) \in Start(k)..End(k)
  BY <1>3
<1>6. Start(j) <= End(k)
  <2>1. CASE j = k
    BY <1>3, <2>1
  <2>2. CASE j < k
    BY <1>3, <2>2
  <2> QED BY <1>1, <1>2, <2>1, <2>2
<1> QED BY <1>1, <1>3, <1>4, <1>5, <1>6

\* Going on changes the end of the last interval, and nothing else.
LEMMA GoOnHolds ==
  ASSUME NEW v \in Seq(Nat \X Nat), NEW hi \in Nat
  PROVE  /\ GoOn(v, hi) \in Seq(Nat \X Nat) /\ Len(GoOn(v, hi)) = Len(v)
         /\ \A i \in 1..Len(v) : GoOn(v, hi)[i] = IF i = Len(v) THEN <<v[i][1], hi>> ELSE v[i]
<1> DEFINE w == GoOn(v, hi)
<1>1. Len(v) \in Nat /\ DOMAIN v = 1..Len(v) /\ \A i \in 1..Len(v) : v[i] \in Nat \X Nat
  OBVIOUS
<1>2. w = [i \in 1..Len(v) |-> IF i = Len(v) THEN <<v[i][1], hi>> ELSE v[i]]
  BY <1>1 DEF GoOn
<1> HIDE DEF w
<1>3. \A i \in 1..Len(v) : w[i] \in Nat \X Nat
  BY <1>1, <1>2
<1>4. w \in Seq(Nat \X Nat) /\ Len(w) = Len(v)
  <2> DEFINE n == Len(v)
  <2>1. w \in [1..n -> Nat \X Nat] /\ n \in Nat
    BY <1>1, <1>2, <1>3
  <2> HIDE DEF n
  <2>2. w \in Seq(Nat \X Nat) /\ Len(w) = n
    BY <2>1
  <2> QED BY <2>2 DEF n
<1> QED BY <1>2, <1>4 DEF w

\* Whole sentences are one piece.
LEMMA OnePiece ==
  ASSUME ChunkingTypeOK, NEW c, Whole(c)
  PROVE  Pieces(<<c>>, c[1], c[2])
<1>1. c \in Nat \X Nat
  BY WholeHolds
<1>2. <<c>> \in Seq(Nat \X Nat) /\ Len(<<c>>) = 1 /\ <<c>>[1] = c
  BY <1>1
<1> QED BY <1>2 DEF Pieces

\* Pieces followed by whole sentences after one separator are pieces.
LEMMA NextPiece ==
  ASSUME ChunkingTypeOK, NEW s, NEW lo, NEW hi \in Nat, Pieces(s, lo, hi),
         NEW c, Whole(c), c[1] = hi + 2, hi + 1 \in Separators
  PROVE  Pieces(Append(s, c), lo, c[2])
<1> DEFINE t == Append(s, c)
<1>1. s \in Seq(Nat \X Nat) /\ Len(s) > 0 /\ Len(s) \in Nat /\ c \in Nat \X Nat
  BY WholeHolds DEF Pieces
<1>2. /\ t \in Seq(Nat \X Nat) /\ Len(t) = Len(s) + 1
      /\ t[Len(s) + 1] = c /\ \A i \in 1..Len(s) : t[i] = s[i]
  BY <1>1, AppendProperties
<1> HIDE DEF t
<1>3. t[1][1] = lo /\ t[Len(t)][2] = c[2]
  <2>1. 1 \in 1..Len(s)
    BY <1>1
  <2>2. t[1] = s[1] /\ t[Len(t)] = c
    BY <1>2, <2>1
  <2> QED BY <2>2 DEF Pieces
<1>4. ASSUME NEW i \in 1..Len(t) PROVE Whole(t[i])
  <2>1. CASE i \in 1..Len(s)
    BY <1>2, <2>1 DEF Pieces
  <2>2. CASE i = Len(s) + 1
    BY <1>2, <2>2
  <2> QED BY <1>1, <1>2, <2>1, <2>2
<1>5. ASSUME NEW i \in 1..(Len(t) - 1)
      PROVE  t[i + 1][1] = t[i][2] + 2 /\ t[i][2] + 1 \in Separators
  <2>1. CASE i \in 1..(Len(s) - 1)
    <3>1. t[i] = s[i] /\ t[i + 1] = s[i + 1]
      BY <1>1, <1>2, <2>1
    <3> QED BY <2>1, <3>1 DEF Pieces
  <2>2. CASE i = Len(s)
    <3>1. t[i] = s[Len(s)] /\ t[i + 1] = c
      BY <1>1, <1>2, <2>2
    <3> QED BY <3>1 DEF Pieces
  <2> QED BY <1>1, <1>2, <2>1, <2>2
<1>6. t \in Seq(Nat \X Nat) /\ Len(t) > 0
  BY <1>1, <1>2
<1>7. Pieces(t, lo, c[2])
  BY <1>3, <1>4, <1>5, <1>6 DEF Pieces
<1> QED BY <1>7 DEF t

\* Pieces whose last one takes one more sentence are pieces.
LEMMA LongerPiece ==
  ASSUME ChunkingTypeOK, NEW s, NEW lo, NEW n \in 1..(Len(text) - 1), Pieces(s, lo, End(n))
  PROVE  Pieces(GoOn(s, End(n + 1)), lo, End(n + 1))
<1> DEFINE t == GoOn(s, End(n + 1))
<1>0. Len(text) \in Nat
  BY Places
<1>1. n \in 1..Len(text) /\ n + 1 \in 1..Len(text)
  BY <1>0
<1>2. /\ End(n) \in Nat /\ End(n + 1) \in Nat /\ Start(n + 1) \in Nat
      /\ Start(n + 1) = End(n) + 2 /\ Start(n + 1) <= End(n + 1)
  BY <1>1, Places
<1>3. s \in Seq(Nat \X Nat) /\ Len(s) > 0 /\ Len(s) \in Nat
  BY DEF Pieces
<1>4. /\ t \in Seq(Nat \X Nat) /\ Len(t) = Len(s)
      /\ \A i \in 1..Len(s) : t[i] = IF i = Len(s) THEN <<s[i][1], End(n + 1)>> ELSE s[i]
  BY <1>2, <1>3, GoOnHolds
<1> HIDE DEF t
<1>5. t[1][1] = lo /\ t[Len(t)][2] = End(n + 1)
  <2>1. 1 \in 1..Len(s) /\ Len(s) \in 1..Len(s)
    BY <1>3
  <2>2. t[1][1] = s[1][1]
    <3>1. t[1] = IF 1 = Len(s) THEN <<s[1][1], End(n + 1)>> ELSE s[1]
      BY <1>4, <2>1
    <3> QED BY <3>1
  <2>3. t[Len(t)] = <<s[Len(s)][1], End(n + 1)>>
    BY <1>4, <2>1
  <2> QED BY <2>2, <2>3 DEF Pieces
<1>6. PICK j, k \in 1..Len(text) : j <= k /\ s[Len(s)] = <<Start(j), End(k)>>
  <2>1. Len(s) \in 1..Len(s)
    BY <1>3
  <2>2. Whole(s[Len(s)])
    BY <2>1 DEF Pieces
  <2> QED BY <2>2 DEF Whole
<1>7. j <= n + 1
  <2> SUFFICES ASSUME n + 1 < j PROVE FALSE
    BY <1>0
  <2>1. End(n + 1) + 2 <= Start(j) /\ Start(j) \in Nat
    BY <1>1, Places
  <2>2. End(k) = End(n)
    BY <1>6 DEF Pieces
  <2>3. Whole(s[Len(s)])
    BY <1>6 DEF Whole
  <2>4. Start(j) <= End(k)
    BY <1>6, <2>3, WholeHolds
  <2> QED BY <1>2, <2>1, <2>2, <2>4
<1>8. Whole(<<s[Len(s)][1], End(n + 1)>>)
  BY <1>1, <1>6, <1>7 DEF Whole
<1>9. ASSUME NEW i \in 1..Len(t) PROVE Whole(t[i])
  BY <1>4, <1>8 DEF Pieces
<1>10. ASSUME NEW i \in 1..(Len(t) - 1)
      PROVE  t[i + 1][1] = t[i][2] + 2 /\ t[i][2] + 1 \in Separators
  <2>0. i \in 1..(Len(s) - 1)
    BY <1>4
  <2>1. i \in 1..Len(s) /\ i + 1 \in 1..Len(s) /\ i # Len(s)
    BY <1>3, <2>0
  <2>2. t[i] = s[i] /\ t[i + 1][1] = s[i + 1][1]
    <3>1. t[i] = s[i]
      BY <1>4, <2>1
    <3>2. t[i + 1] = IF i + 1 = Len(s) THEN <<s[i + 1][1], End(n + 1)>> ELSE s[i + 1]
      BY <1>4, <2>1
    <3> QED BY <3>1, <3>2
  <2> QED BY <2>0, <2>2 DEF Pieces
<1>11. t \in Seq(Nat \X Nat) /\ Len(t) > 0
  BY <1>3, <1>4
<1>12. Pieces(t, lo, End(n + 1))
  BY <1>5, <1>9, <1>10, <1>11 DEF Pieces
<1> QED BY <1>12 DEF t

\* The definition of Grouped.
LEMMA GroupedUnfold ==
  ASSUME ChunkingTypeOK, NEW Breaks
  PROVE  \E g :
           /\ Grouped(Breaks) = g[Len(text)]
           /\ g[0] = <<>>
           /\ \A n \in 1..Len(text) :
                /\ g[n - 1] \in Seq(Nat \X Nat)
                /\ g[n] = IF n = 1 \/ n \in Breaks THEN Append(g[n - 1], <<Start(n), End(n)>>)
                          ELSE GoOn(g[n - 1], End(n))
<1> DEFINE N == Len(text)
           V == Seq(Nat \X Nat)
           Body(g) == [n \in 0..N |->
             IF n = 0 THEN <<>>
             ELSE IF n = 1 \/ n \in Breaks THEN Append(g[n - 1], <<Start(n), End(n)>>)
             ELSE GoOn(g[n - 1], End(n))]
           f == CHOOSE g : g = Body(g)
           G == [n \in 1..N |-> [v \in V |->
             IF n = 1 \/ n \in Breaks THEN Append(v, <<Start(n), End(n)>>) ELSE GoOn(v, End(n))]]
<1>1. Grouped(Breaks) = f[N]
  BY DEF Grouped
<1>2. N \in Nat /\ \A n \in 1..N : Start(n) \in Nat /\ End(n) \in Nat
  BY Places
<1>3. G \in [1..N -> [V -> V]] /\ <<>> \in V
  <2>1. \A n \in 1..N, v \in V : Append(v, <<Start(n), End(n)>>) \in V /\ GoOn(v, End(n)) \in V
    BY <1>2, AppendProperties, GoOnHolds
  <2>2. <<>> \in V
    OBVIOUS
  <2> HIDE DEF V, N
  <2> QED BY <2>1, <2>2
<1> HIDE DEF N, V
<1>4. PICK h \in [0..N -> V] : Recurs(h, N, <<>>, G)
  <2> HIDE DEF G
  <2> QED BY <1>2, <1>3, Recursion, Zenon
<1>5. h = Body(h)
  <2>1. ASSUME NEW n \in 0..N, n # 0
        PROVE  h[n] = IF n = 1 \/ n \in Breaks THEN Append(h[n - 1], <<Start(n), End(n)>>)
                      ELSE GoOn(h[n - 1], End(n))
    <3>1. n \in 1..N /\ n - 1 \in 0..N
      BY <1>2, <2>1
    <3> QED BY <1>4, <3>1 DEF Recurs
  <2> QED BY <1>4, <2>1 DEF Recurs
<1>6. f = Body(f)
  <2> HIDE DEF Body
  <2> QED BY <1>5
<1> HIDE DEF f
<1>7. /\ f[0] = <<>>
      /\ \A n \in 1..N :
           f[n] = IF n = 1 \/ n \in Breaks THEN Append(f[n - 1], <<Start(n), End(n)>>)
                  ELSE GoOn(f[n - 1], End(n))
  <2>1. 0 \in 0..N /\ \A n \in 1..N : n \in 0..N /\ n # 0
    BY <1>2
  <2> QED BY <1>6, <2>1
<1>8. ASSUME NEW n \in 1..N, f[n - 1] \in V PROVE f[n] \in V
  <2>1. <<Start(n), End(n)>> \in Nat \X Nat /\ End(n) \in Nat
    BY <1>2
  <2>2. Append(f[n - 1], <<Start(n), End(n)>>) \in V
    BY <1>8, <2>1, AppendProperties DEF V
  <2>3. GoOn(f[n - 1], End(n)) \in V
    BY <1>8, <2>1, GoOnHolds DEF V
  <2> QED BY <1>7, <2>2, <2>3
<1>9. \A n \in 0..N : f[n] \in V
  <2>1. f[0] \in V
    BY <1>3, <1>7
  <2> QED BY <1>2, <1>8, <2>1, StaysIn, Zenon
<1>10. \A n \in 1..N : f[n - 1] \in V
  BY <1>2, <1>9
<1> QED BY <1>1, <1>7, <1>10 DEF N, V

\* The groups are pieces of the text.
LEMMA GroupsArePieces ==
  ASSUME ChunkingTypeOK, text # <<>>, NEW Breaks
  PROVE  Pieces(Grouped(Breaks), 1, LastPosition) /\ Len(Grouped(Breaks)) <= Len(text)
<1>1. PICK g :
        /\ Grouped(Breaks) = g[Len(text)]
        /\ g[0] = <<>>
        /\ \A n \in 1..Len(text) :
             /\ g[n - 1] \in Seq(Nat \X Nat)
             /\ g[n] = IF n = 1 \/ n \in Breaks THEN Append(g[n - 1], <<Start(n), End(n)>>)
                       ELSE GoOn(g[n - 1], End(n))
  BY GroupedUnfold
<1>2. Len(text) \in Nat /\ Len(text) > 0
  BY EmptySeq DEF ChunkingTypeOK
<1>3. Start(1) = 1 /\ LastPosition = End(Len(text))
  BY <1>2, Places
<1> DEFINE S == {n \in Nat : Pieces(g[n], 1, End(n)) /\ Len(g[n]) <= n}
<1>4. 1 \in S
  <2>0. 1 \in 1..Len(text) /\ 1 - 1 = 0
    BY <1>2
  <2>1. g[1] = Append(g[1 - 1], <<Start(1), End(1)>>)
    BY <1>1, <2>0
  <2> DEFINE c == <<Start(1), End(1)>>
  <2>2. g[1] = <<c>>
    <3> HIDE DEF c
    <3>1. g[1] = Append(<<>>, c)
      BY <1>1, <2>0, <2>1 DEF c
    <3> QED BY <3>1
  <2>3. Whole(c) /\ c[1] = 1 /\ c[2] = End(1)
    BY <1>3, <2>0 DEF Whole
  <2> HIDE DEF c
  <2>4. Pieces(g[1], 1, End(1))
    BY <2>2, <2>3, OnePiece
  <2>5. 1 \in Nat /\ Len(g[1]) <= 1
    BY <2>2
  <2> QED BY <2>4, <2>5
<1>5. ASSUME NEW n \in 1..(Len(text) - 1), n \in S PROVE n + 1 \in S
  <2>1. /\ n + 1 \in 1..Len(text) /\ n \in 1..Len(text) /\ (n + 1) - 1 = n /\ n + 1 # 1
        /\ n + 1 \in Nat
    BY <1>2
  <2>2. /\ g[n] \in Seq(Nat \X Nat)
        /\ g[n + 1] = IF n + 1 \in Breaks THEN Append(g[n], <<Start(n + 1), End(n + 1)>>)
                      ELSE GoOn(g[n], End(n + 1))
    BY <1>1, <2>1
  <2>3. Pieces(g[n], 1, End(n)) /\ Len(g[n]) <= n
    BY <1>5
  <2>4. End(n) \in Nat /\ End(n + 1) \in Nat /\ Start(n + 1) = End(n) + 2 /\ Start(n + 1) \in Nat
    BY <2>1, Places
  <2>5. CASE n + 1 \in Breaks
    <3> DEFINE c == <<Start(n + 1), End(n + 1)>>
    <3>1. Whole(c)
      BY <1>2, <2>1 DEF Whole
    <3>2. End(n) + 1 \in Separators
      BY Between
    <3>3. c \in Nat \X Nat /\ c[1] = End(n) + 2 /\ c[2] = End(n + 1)
      BY <2>4
    <3> HIDE DEF c
    <3>4. Pieces(Append(g[n], c), 1, End(n + 1))
      BY <2>3, <2>4, <3>1, <3>2, <3>3, NextPiece
    <3>5. Len(Append(g[n], c)) = Len(g[n]) + 1 /\ Len(g[n]) \in Nat
      BY <2>2, <3>3, AppendProperties
    <3>6. g[n + 1] = Append(g[n], c)
      BY <2>2, <2>5 DEF c
    <3>7. Len(g[n]) + 1 <= n + 1
      BY <2>3, <3>5
    <3>8. n + 1 \in Nat
      BY <2>1
    <3> QED BY <3>4, <3>5, <3>6, <3>7, <3>8
  <2>6. CASE ~(n + 1 \in Breaks)
    <3>1. Pieces(GoOn(g[n], End(n + 1)), 1, End(n + 1))
      BY <2>3, LongerPiece
    <3>2. Len(GoOn(g[n], End(n + 1))) = Len(g[n]) /\ Len(g[n]) \in Nat
      BY <2>2, <2>4, GoOnHolds
    <3>3. g[n + 1] = GoOn(g[n], End(n + 1)) /\ Len(g[n]) <= n + 1
      BY <2>2, <2>3, <2>6, <3>2
    <3> QED BY <3>1, <3>2, <3>3
  <2>7. Pieces(g[n + 1], 1, End(n + 1)) /\ Len(g[n + 1]) <= n + 1
    BY <2>5, <2>6
  <2> QED BY <2>1, <2>7
<1> HIDE DEF S
<1>6. \A n \in 1..Len(text) : n \in S
  BY <1>2, <1>4, <1>5, FromOne
<1>7. Len(text) \in S
  BY <1>2, <1>6
<1> QED BY <1>1, <1>3, <1>7 DEF S

\* So are the sentences,
LEMMA SentencesArePieces ==
  ASSUME ChunkingTypeOK
  PROVE  /\ Sentences \in Seq(Nat \X Nat) /\ Len(Sentences) = Len(text)
         /\ \A k \in 1..Len(text) : Sentences[k] = <<Start(k), End(k)>>
         /\ text # <<>> => Pieces(Sentences, 1, LastPosition)
<1>1. Len(text) \in Nat /\ DOMAIN text = 1..Len(text)
  BY Places DEF ChunkingTypeOK
<1>2. \A k \in 1..Len(text) : <<Start(k), End(k)>> \in Nat \X Nat
  BY Places
<1>3. Sentences = [k \in 1..Len(text) |-> <<Start(k), End(k)>>]
  BY <1>1 DEF Sentences
<1>4. Sentences \in Seq(Nat \X Nat) /\ Len(Sentences) = Len(text)
  BY <1>1, <1>2, <1>3
<1>5. \A k \in 1..Len(text) : Sentences[k] = <<Start(k), End(k)>>
  BY <1>3
<1>6. ASSUME text # <<>> PROVE Pieces(Sentences, 1, LastPosition)
  <2>1. Len(text) > 0
    BY <1>6, EmptySeq DEF ChunkingTypeOK
  <2>2. Start(1) = 1 /\ LastPosition = End(Len(text))
    BY <2>1, Places
  <2>3. Sentences[1][1] = 1 /\ Sentences[Len(text)][2] = LastPosition
    BY <1>1, <1>5, <2>1, <2>2
  <2>4. \A k \in 1..Len(text) : Whole(Sentences[k])
    BY <1>1, <1>5 DEF Whole
  <2>5. ASSUME NEW i \in 1..(Len(text) - 1)
        PROVE  Sentences[i + 1][1] = Sentences[i][2] + 2 /\ Sentences[i][2] + 1 \in Separators
    <3>1. i \in 1..Len(text) /\ i + 1 \in 1..Len(text)
      BY <1>1
    <3>2. Start(i + 1) = End(i) + 2 /\ End(i) + 1 \in Separators
      BY <1>6, Places, Between
    <3> QED BY <1>5, <3>1, <3>2
  <2> QED BY <1>4, <2>1, <2>3, <2>4, <2>5 DEF Pieces
<1> QED BY <1>4, <1>5, <1>6

\* and those of them that lie in something whole.
LEMMA SentencesWithin ==
  ASSUME ChunkingTypeOK, text # <<>>, NEW c, Whole(c)
  PROVE  Pieces(Those(Sentences, {s \in Int \X Int : c[1] <= s[1] /\ s[2] <= c[2]}), c[1], c[2])
<1> DEFINE T == {s \in Int \X Int : c[1] <= s[1] /\ s[2] <= c[2]}
           N == Len(text)
<1>1. PICK a, b \in 1..N : a <= b /\ c = <<Start(a), End(b)>>
  BY DEF Whole
<1>2. /\ N \in Nat /\ Sentences \in Seq(Nat \X Nat) /\ Len(Sentences) = N
      /\ \A k \in 1..N : Sentences[k] = <<Start(k), End(k)>>
  BY SentencesArePieces, Places
<1>3. PICK f \in [0..N -> Seq(Nat \X Nat)] : UnfoldsThose(f, Sentences, T)
  <2> HIDE DEF T
  <2> QED BY <1>2, ThoseUnfold
<1>4. /\ \A k \in 1..N : Start(k) \in Nat /\ End(k) \in Nat /\ Start(k) <= End(k)
      /\ \A j, k \in 1..N : j < k => End(j) + 2 <= Start(k)
  BY Places
<1>5. ASSUME NEW k \in 1..N PROVE Sentences[k] \in T <=> a <= k /\ k <= b
  <2>1. Sentences[k] = <<Start(k), End(k)>> /\ Start(k) \in Int /\ End(k) \in Int
    <3>1. Start(k) \in Nat /\ End(k) \in Nat
      BY <1>4
    <3> QED BY <1>2, <3>1
  <2>2. Sentences[k] \in T <=> Start(a) <= Start(k) /\ End(k) <= End(b)
    BY <1>1, <2>1
  <2>3. CASE k < a
    BY <1>4, <2>2, <2>3
  <2>4. CASE b < k
    BY <1>4, <2>2, <2>4
  <2>5. CASE a <= k /\ k <= b
    <3>1. Start(a) <= Start(k)
      <4>1. CASE a = k
        BY <1>4, <4>1
      <4>2. CASE a < k
        <5>1. End(a) + 2 <= Start(k) /\ Start(a) <= End(a)
          BY <1>4, <4>2
        <5> QED BY <1>4, <5>1
      <4> QED BY <1>2, <2>5, <4>1, <4>2
    <3>2. End(k) <= End(b)
      <4>1. CASE b = k
        BY <1>4, <4>1
      <4>2. CASE k < b
        <5>1. End(k) + 2 <= Start(b) /\ Start(b) <= End(b)
          BY <1>4, <4>2
        <5> QED BY <1>4, <5>1
      <4> QED BY <1>2, <2>5, <4>1, <4>2
    <3> QED BY <2>2, <2>5, <3>1, <3>2
  <2> QED BY <1>2, <2>3, <2>4, <2>5
<1>6. f[0] = <<>> /\ \A n \in 1..N :
        f[n] = IF a <= n /\ n <= b THEN Append(f[n - 1], <<Start(n), End(n)>>) ELSE f[n - 1]
  BY <1>2, <1>3, <1>5 DEF UnfoldsThose
<1> HIDE DEF T
<1> DEFINE S == {n \in Nat :
             /\ n < a => f[n] = <<>>
             /\ a <= n /\ n <= b => Pieces(f[n], Start(a), End(n))
             /\ b < n => Pieces(f[n], Start(a), End(b))}
<1>7. 0 \in S
  BY <1>1, <1>2, <1>6
<1>8. ASSUME NEW n \in 0..(N - 1), n \in S PROVE n + 1 \in S
  <2>1. n + 1 \in 1..N /\ (n + 1) - 1 = n /\ n + 1 \in Nat
    BY <1>2
  <2>2. f[n + 1] = IF a <= n + 1 /\ n + 1 <= b THEN Append(f[n], <<Start(n + 1), End(n + 1)>>)
                   ELSE f[n]
    BY <1>6, <2>1
  <2> DEFINE d == <<Start(n + 1), End(n + 1)>>
  <2>3. Whole(d) /\ d[1] = Start(n + 1) /\ d[2] = End(n + 1)
    BY <2>1 DEF Whole
  <2> HIDE DEF d
  <2>4. CASE n + 1 < a
    BY <1>1, <1>2, <1>8, <2>1, <2>2, <2>4
  <2>5. CASE n + 1 = a
    <3>1. f[n] = <<>>
      BY <1>2, <1>8, <2>1, <2>5
    <3>2. f[n + 1] = <<d>>
      BY <1>1, <2>2, <2>5, <3>1 DEF d
    <3>3. Pieces(f[n + 1], Start(a), End(n + 1))
      BY <2>3, <2>5, <3>2, OnePiece
    <3>4. ~(n + 1 < a) /\ ~(b < n + 1)
      <4>1. a \in Nat /\ b \in Nat /\ a <= b
        BY <1>1, <1>2
      <4> QED BY <2>1, <2>5, <4>1
    <3> QED BY <2>1, <3>3, <3>4
  <2>6. CASE a < n + 1 /\ n + 1 <= b
    <3>0. a \in Nat /\ b \in Nat /\ 1 <= a /\ b <= N /\ n \in Nat
      BY <1>1, <1>2
    <3>1. a <= n /\ n <= b /\ n \in 1..(N - 1) /\ n \in 1..N /\ ~(b < n + 1) /\ ~(n + 1 < a)
          /\ a <= n + 1
      BY <1>2, <2>6, <3>0
    <3>2. Pieces(f[n], Start(a), End(n))
      BY <1>8, <3>1
    <3>3. Start(n + 1) = End(n) + 2 /\ End(n) + 1 \in Separators /\ End(n) \in Nat
      BY <1>4, <3>1, Places, Between
    <3>4. Pieces(Append(f[n], d), Start(a), d[2])
      BY <2>3, <3>2, <3>3, NextPiece
    <3>5. f[n + 1] = Append(f[n], d)
      BY <2>2, <2>6, <3>1 DEF d
    <3> QED BY <2>1, <2>3, <3>1, <3>4, <3>5
  <2>7. CASE b < n + 1
    <3>1. f[n + 1] = f[n] /\ ~(n + 1 < a) /\ ~(n + 1 <= b)
      BY <1>1, <1>2, <2>1, <2>2, <2>7
    <3>2. Pieces(f[n], Start(a), End(b))
      <4>1. CASE n = b
        BY <1>1, <1>8, <4>1
      <4>2. CASE b < n
        BY <1>8, <4>2
      <4> QED BY <1>2, <2>7, <4>1, <4>2
    <3> QED BY <2>1, <3>1, <3>2
  <2> QED BY <1>2, <2>1, <2>4, <2>5, <2>6, <2>7
<1> HIDE DEF S
<1>9. \A n \in 0..N : n \in S
  BY <1>2, <1>7, <1>8, UpTo
<1>10. N \in S /\ (N = b \/ b < N) /\ a <= b
  BY <1>1, <1>2, <1>9
<1>11. Pieces(f[N], Start(a), End(b))
  BY <1>1, <1>2, <1>10 DEF S
<1>12. Those(Sentences, T) = f[N] /\ c[1] = Start(a) /\ c[2] = End(b)
  BY <1>1, <1>2, <1>3 DEF UnfoldsThose
<1> QED BY <1>11, <1>12 DEF T

-----------------------------------------------------------------------------
(* Filling a buffer piece by piece.                                        *)

\* Every word between lo and hi is in some chunk.
Covers(chunks, lo, hi) ==
  \A p \in lo..hi : p \notin Separators =>
    \E i \in 1..Len(chunks) : chunks[i][1] <= p /\ p <= chunks[i][2]

\* d is c without the separators at its ends.
StripsTo(c, d) ==
  /\ d \in Nat \X Nat
  /\ c[1] <= d[1] /\ d[1] <= c[1] + 1
  /\ c[2] - 1 <= d[2] /\ d[2] <= c[2]
  /\ c[1] \notin Separators => d[1] = c[1]
  /\ c[2] \notin Separators => d[2] = c[2]
  /\ c[2] \in Separators => d[2] = c[2] - 1
  /\ Extent(d) <= Extent(c) /\ Extent(c) \in Int
  /\ \A p \in c[1]..c[2] : p \notin Separators => d[1] <= p /\ p <= d[2]

\* strip() takes at most one position from each end, and no word.
LEMMA StripHolds ==
  ASSUME ChunkingTypeOK, text # <<>>, NEW c \in Nat \X Nat
  PROVE  StripsTo(c, Strip(c))
<1>1. \A p \in Separators : p \in Nat /\ 1 < p
  BY Between
<1>2. c[1] \in Nat /\ c[2] \in Nat
  OBVIOUS
<1> DEFINE lo == IF c[1] \in Separators THEN c[1] + 1 ELSE c[1]
           hi == IF c[2] \in Separators THEN c[2] - 1 ELSE c[2]
<1>3. Strip(c) = <<lo, hi>>
  BY DEF Strip
<1>4. /\ lo \in Nat /\ c[1] <= lo /\ lo <= c[1] + 1
      /\ c[1] \notin Separators => lo = c[1]
      /\ c[1] \in Separators => lo = c[1] + 1
  BY <1>2
<1>5. /\ hi \in Nat /\ c[2] - 1 <= hi /\ hi <= c[2]
      /\ c[2] \notin Separators => hi = c[2]
      /\ c[2] \in Separators => hi = c[2] - 1
  BY <1>1, <1>2
<1> HIDE DEF lo, hi
<1>6. Strip(c) \in Nat \X Nat /\ Strip(c)[1] = lo /\ Strip(c)[2] = hi
  BY <1>3, <1>4, <1>5
<1>7. Extent(c) = c[2] - c[1] + 1 /\ Extent(Strip(c)) = hi - lo + 1
  BY <1>6 DEF Extent
<1>8. Extent(Strip(c)) <= Extent(c) /\ Extent(c) \in Int
  BY <1>2, <1>4, <1>5, <1>7
<1>9. ASSUME NEW p \in c[1]..c[2], p \notin Separators PROVE lo <= p /\ p <= hi
  BY <1>2, <1>4, <1>5, <1>9
<1> QED BY <1>4, <1>5, <1>6, <1>8, <1>9 DEF StripsTo

\* From the start of whole sentences to the end of later ones: whole sentences.
LEMMA WholeTogether ==
  ASSUME ChunkingTypeOK, NEW c, NEW d, Whole(c), Whole(d), c[1] <= d[2]
  PROVE  Whole(<<c[1], d[2]>>)
<1>1. PICK j, k \in 1..Len(text) : j <= k /\ c = <<Start(j), End(k)>>
  BY DEF Whole
<1>2. PICK l, m \in 1..Len(text) : l <= m /\ d = <<Start(l), End(m)>>
  BY DEF Whole
<1>3. Len(text) \in Nat /\ Start(j) \in Nat /\ End(m) \in Nat
  BY Places
<1>4. m < j => End(m) + 2 <= Start(j)
  BY Places
<1>5. j <= m
  BY <1>1, <1>2, <1>3, <1>4
<1> QED BY <1>1, <1>2, <1>5 DEF Whole

\* What the loop of Fill keeps.
FillStates == [done : Seq(Nat \X Nat), buffer : (Nat \X Nat) \cup {<<>>}]

\* A turn of the loop keeps a list of chunks and a buffer.
LEMMA FillPieceType ==
  ASSUME NEW f \in FillStates, NEW piece \in Nat \X Nat, NEW size \in Nat, NEW overlap \in Nat
  PROVE  FillPiece(f, piece, size, overlap) \in FillStates
<1>1. f.done \in Seq(Nat \X Nat) /\ f.buffer \in (Nat \X Nat) \cup {<<>>}
      /\ f = [done |-> f.done, buffer |-> f.buffer]
  BY DEF FillStates
<1>2. piece[1] \in Nat /\ piece[2] \in Nat /\ piece \in Nat \X Nat
  OBVIOUS
<1>3. CASE f.buffer = <<>>
  <2>1. FillPiece(f, piece, size, overlap) = [done |-> f.done, buffer |-> piece]
    BY <1>1, <1>3 DEF FillPiece
  <2> QED BY <1>1, <1>2, <2>1 DEF FillStates
<1>4. CASE f.buffer # <<>>
  <2>1. f.buffer \in Nat \X Nat /\ f.buffer[1] \in Nat /\ f.buffer[2] \in Nat
    BY <1>1, <1>4
  <2>2. TailOf(f.buffer, overlap, piece) \in Nat
    BY <1>2, <2>1 DEF TailOf, Greater
  <2>3. Append(f.done, f.buffer) \in Seq(Nat \X Nat)
    BY <1>1, <2>1, AppendProperties
  <2>4. <<TailOf(f.buffer, overlap, piece), piece[2]>> \in Nat \X Nat
        /\ <<f.buffer[1], piece[2]>> \in Nat \X Nat
    BY <1>2, <2>1, <2>2
  <2>6. CASE piece[2] - f.buffer[1] + 1 > size
    <3>1. FillPiece(f, piece, size, overlap) =
            [done |-> Append(f.done, f.buffer),
             buffer |-> <<TailOf(f.buffer, overlap, piece), piece[2]>>]
      BY <1>4, <2>6 DEF FillPiece
    <3> QED BY <2>3, <2>4, <3>1 DEF FillStates
  <2>7. CASE ~(piece[2] - f.buffer[1] + 1 > size)
    <3>1. FillPiece(f, piece, size, overlap) =
            [done |-> f.done, buffer |-> <<f.buffer[1], piece[2]>>]
      BY <1>1, <1>4, <2>7 DEF FillPiece
    <3> QED BY <1>1, <2>4, <3>1 DEF FillStates
  <2> QED BY <2>6, <2>7
<1> QED BY <1>3, <1>4

\* g are the states of Fill.
Fills(g, s, size, overlap) ==
  /\ g[0] = [done |-> <<>>, buffer |-> <<>>]
  /\ \A n \in 1..Len(s) : g[n] = FillPiece(g[n - 1], s[n], size, overlap)
  /\ \A n \in 0..Len(s) : g[n] \in FillStates
  /\ Fill(s, size, overlap) =
       [i \in DOMAIN Close(g[Len(s)]) |-> Strip(Close(g[Len(s)])[i])]

\* Fill takes the pieces one by one.
LEMMA FillUnfold ==
  ASSUME NEW s \in Seq(Nat \X Nat), NEW size \in Nat, NEW overlap \in Nat
  PROVE  \E g : Fills(g, s, size, overlap)
<1> DEFINE N == Len(s)
           a == [done |-> <<>>, buffer |-> <<>>]
           Body(g) == [n \in 0..N |->
             IF n = 0 THEN a ELSE FillPiece(g[n - 1], s[n], size, overlap)]
           f == CHOOSE g : g = Body(g)
           G == [n \in 1..N |-> [v \in FillStates |-> FillPiece(v, s[n], size, overlap)]]
<1>1. Fill(s, size, overlap) = [i \in DOMAIN Close(f[N]) |-> Strip(Close(f[N])[i])]
  BY DEF Fill
<1>2. N \in Nat /\ \A n \in 1..N : s[n] \in Nat \X Nat
  OBVIOUS
<1> HIDE DEF N
<1>3. G \in [1..N -> [FillStates -> FillStates]]
  BY <1>2, FillPieceType
<1>4. a \in FillStates
  BY DEF FillStates
<1> HIDE DEF a
<1>5. PICK h \in [0..N -> FillStates] : Recurs(h, N, a, G)
  <2> HIDE DEF G
  <2> QED BY <1>2, <1>3, <1>4, Recursion, Zenon
<1>6. h = Body(h)
  <2>1. ASSUME NEW n \in 0..N, n # 0
        PROVE  h[n] = FillPiece(h[n - 1], s[n], size, overlap)
    <3>1. n \in 1..N /\ n - 1 \in 0..N
      BY <1>2, <2>1
    <3> QED BY <1>5, <3>1 DEF Recurs
  <2> QED BY <1>5, <2>1 DEF Recurs
<1>7. f = Body(f)
  <2> HIDE DEF Body
  <2> QED BY <1>6
<1> HIDE DEF f
<1>8. f[0] = a /\ \A n \in 1..N : f[n] = FillPiece(f[n - 1], s[n], size, overlap)
  <2>1. 0 \in 0..N /\ \A n \in 1..N : n \in 0..N /\ n # 0
    BY <1>2
  <2> QED BY <1>7, <2>1
<1>9. ASSUME NEW n \in 1..N, f[n - 1] \in FillStates PROVE f[n] \in FillStates
  <2>1. s[n] \in Nat \X Nat
    BY <1>2
  <2>2. FillPiece(f[n - 1], s[n], size, overlap) \in FillStates
    BY <1>9, <2>1, FillPieceType
  <2> QED BY <1>8, <2>2
<1>10. \A n \in 0..N : f[n] \in FillStates
  <2>1. f[0] \in FillStates
    BY <1>4, <1>8
  <2> QED BY <1>2, <1>9, <2>1, StaysIn, Zenon
<1>11. Fills(f, s, size, overlap)
  BY <1>1, <1>8, <1>10 DEF Fills, N, a
<1> QED BY <1>11

\* What is so of the buffers filled with the pieces from lo to at, none of them
\* longer than M.
ChunkFits(c, lo, at, bound, overlap) ==
  /\ c \in Nat \X Nat
  /\ lo <= c[1] /\ c[1] <= c[2] /\ c[2] <= at /\ c[2] \notin Separators
  /\ Extent(c) <= bound
  /\ overlap = 0 => Whole(c)

FilledUpTo(f, lo, at, bound, overlap) ==
  /\ f.buffer # <<>> /\ f.buffer[2] = at
  /\ ChunkFits(f.buffer, lo, at, bound, overlap)
  /\ \A i \in 1..Len(f.done) : ChunkFits(f.done[i], lo, at, bound, overlap)
  /\ \A p \in lo..at : p \notin Separators =>
       \/ f.buffer[1] <= p
       \/ \E i \in 1..Len(f.done) : f.done[i][1] <= p /\ p <= f.done[i][2]

\* A piece that follows what is filled leaves everything covered and bounded.
LEMMA FillPieceFits ==
  ASSUME ChunkingTypeOK, text # <<>>, NEW f \in FillStates, NEW lo \in Nat, NEW at \in Nat,
         NEW size \in Nat, NEW overlap \in Nat, NEW M \in Nat, NEW piece, Whole(piece),
         piece[1] = at + 2, at + 1 \in Separators, Extent(piece) <= M,
         FilledUpTo(f, lo, at, Greater(size, overlap + 1 + M), overlap)
  PROVE  FilledUpTo(FillPiece(f, piece, size, overlap), lo, piece[2],
                    Greater(size, overlap + 1 + M), overlap)
<1> DEFINE B == Greater(size, overlap + 1 + M)
           b == f.buffer
           g == FillPiece(f, piece, size, overlap)
<1>1. /\ piece \in Nat \X Nat /\ piece[1] \in Nat /\ piece[2] \in Nat
      /\ piece[1] <= piece[2] /\ piece[2] \notin Separators
  <2>1. piece \in Nat \X Nat /\ piece[1] <= piece[2] /\ piece[2] \notin Separators
    BY WholeHolds
  <2> QED BY <2>1
<1>2. B \in Nat /\ size <= B /\ overlap + 1 + M <= B
  BY DEF Greater
<1>3. /\ b # <<>> /\ b[2] = at /\ ChunkFits(b, lo, at, B, overlap)
      /\ \A i \in 1..Len(f.done) : ChunkFits(f.done[i], lo, at, B, overlap)
      /\ \A p \in lo..at : p \notin Separators =>
           \/ b[1] <= p
           \/ \E i \in 1..Len(f.done) : f.done[i][1] <= p /\ p <= f.done[i][2]
  BY DEF FilledUpTo
<1>4. /\ f.done \in Seq(Nat \X Nat) /\ f = [done |-> f.done, buffer |-> b]
  BY DEF FillStates
<1> HIDE DEF B
<1>5. /\ b \in Nat \X Nat /\ b[1] \in Nat /\ b[2] \in Nat /\ lo <= b[1] /\ b[1] <= b[2]
      /\ overlap = 0 => Whole(b)
  BY <1>3 DEF ChunkFits
<1>6. at < piece[2] /\ Extent(piece) = piece[2] - piece[1] + 1
  BY <1>1 DEF Extent
<1>7. \A c : ChunkFits(c, lo, at, B, overlap) => ChunkFits(c, lo, piece[2], B, overlap)
  <2> TAKE c
  <2> HAVE ChunkFits(c, lo, at, B, overlap)
  <2>1. c \in Nat \X Nat /\ c[1] \in Nat /\ c[2] \in Nat /\ c[2] <= at
    BY DEF ChunkFits
  <2>2. c[2] <= piece[2]
    BY <1>1, <1>6, <2>1
  <2> QED BY <2>2 DEF ChunkFits
<1>8. CASE piece[2] - b[1] + 1 > size
  <2> DEFINE t == TailOf(b, overlap, piece)
             done == Append(f.done, b)
  <2>1. g = [done |-> done, buffer |-> <<t, piece[2]>>]
    BY <1>3, <1>8 DEF FillPiece
  <2>2. /\ t \in Nat /\ lo <= t /\ t <= piece[1]
        /\ piece[2] - t + 1 <= B
        /\ overlap = 0 => t = piece[1]
        /\ t <= at + 2
    <3>1. CASE overlap = 0
      <4>1. t = piece[1]
        BY <3>1 DEF TailOf
      <4> QED BY <1>1, <1>2, <1>3, <1>5, <1>6, <3>1, <4>1
    <3>2. CASE overlap # 0
      <4>1. t = IF b[1] > b[2] - overlap + 1 THEN b[1] ELSE b[2] - overlap + 1
        BY <3>2 DEF TailOf, Greater
      <4>2. t \in Nat /\ lo <= t /\ t <= b[2] /\ b[2] - overlap + 1 <= t
        <5> DEFINE a == b[1]
                   e == b[2]
        <5>1. a \in Nat /\ e \in Nat /\ lo <= a /\ a <= e
          BY <1>5
        <5>2. t = IF a > e - overlap + 1 THEN a ELSE e - overlap + 1
          BY <4>1
        <5>3. overlap \in Nat /\ overlap >= 1 /\ lo \in Nat
          BY <3>2
        <5> HIDE DEF t, a, e
        <5>4. t \in Nat /\ lo <= t /\ t <= e /\ e - overlap + 1 <= t
          BY <5>1, <5>2, <5>3
        <5> QED BY <5>4 DEF e
      <4> QED BY <1>1, <1>2, <1>3, <1>6, <3>2, <4>2
    <3> QED BY <3>1, <3>2
  <2> HIDE DEF t
  <2>3. /\ done \in Seq(Nat \X Nat) /\ Len(done) = Len(f.done) + 1
        /\ done[Len(f.done) + 1] = b /\ \A i \in 1..Len(f.done) : done[i] = f.done[i]
        /\ Len(f.done) \in Nat
    BY <1>4, <1>5, AppendProperties
  <2> HIDE DEF done
  <2>11. \A i : i \in 1..Len(done) <=> i \in 1..Len(f.done) \/ i = Len(f.done) + 1
    <3>1. PICK k \in Nat : k = Len(f.done) /\ Len(done) = k + 1
      BY <2>3
    <3>2. \A i : i \in 1..(k + 1) <=> i \in 1..k \/ i = k + 1
      OBVIOUS
    <3> QED BY <3>1, <3>2
  <2> DEFINE n == <<t, piece[2]>>
  <2>4. n \in Nat \X Nat /\ n[1] = t /\ n[2] = piece[2] /\ Extent(n) = piece[2] - t + 1
    BY <1>1, <2>2 DEF Extent
  <2>5. overlap = 0 => n = piece
    BY <1>1, <2>2
  <2> HIDE DEF n
  <2>6. ChunkFits(n, lo, piece[2], B, overlap)
    <3>1. n[1] <= n[2]
      BY <1>1, <2>2, <2>4
    <3> QED BY <1>1, <2>2, <2>4, <2>5, <3>1 DEF ChunkFits
  <2>7. ASSUME NEW i \in 1..Len(done) PROVE ChunkFits(done[i], lo, piece[2], B, overlap)
    <3>1. CASE i \in 1..Len(f.done)
      BY <1>3, <1>7, <2>3, <3>1
    <3>2. CASE i = Len(f.done) + 1
      <4>1. done[i] = b
        BY <2>3, <3>2
      <4> QED BY <1>3, <1>7, <4>1
    <3> QED BY <2>11, <3>1, <3>2
  <2>8. ASSUME NEW p \in lo..piece[2], p \notin Separators
        PROVE  n[1] <= p \/ \E i \in 1..Len(done) : done[i][1] <= p /\ p <= done[i][2]
    <3>0. p \in Nat /\ lo <= p /\ p <= piece[2]
      BY <1>1
    <3>1. CASE p <= at
      <4>1. p \in lo..at
        BY <3>0, <3>1
      <4>2. CASE b[1] <= p
        <5>1. Len(f.done) + 1 \in 1..Len(done)
          BY <2>11
        <5> QED BY <1>3, <2>3, <3>1, <4>2, <5>1
      <4>3. CASE \E i \in 1..Len(f.done) : f.done[i][1] <= p /\ p <= f.done[i][2]
        <5>1. PICK i \in 1..Len(f.done) : f.done[i][1] <= p /\ p <= f.done[i][2]
          BY <4>3
        <5>2. i \in 1..Len(done)
          BY <2>11
        <5>3. done[i] = f.done[i]
          BY <2>3
        <5> QED BY <5>1, <5>2, <5>3
      <4> QED BY <1>3, <2>8, <4>1, <4>2, <4>3
    <3>2. CASE at < p
      <4>1. p # at + 1
        BY <2>8
      <4> QED BY <2>2, <2>4, <3>0, <3>2, <4>1
    <3> QED BY <3>0, <3>1, <3>2
  <2>9. g.buffer = n /\ g.done = done
    BY <2>1 DEF n
  <2>10. n # <<>>
    BY DEF n
  <2> HIDE DEF g
  <2> QED BY <2>4, <2>6, <2>7, <2>8, <2>9, <2>10 DEF FilledUpTo, g, B
<1>9. CASE ~(piece[2] - b[1] + 1 > size)
  <2> DEFINE n == <<b[1], piece[2]>>
  <2>1. g.buffer = n /\ g.done = f.done
    BY <1>3, <1>4, <1>9 DEF FillPiece
  <2>2. n \in Nat \X Nat /\ n[1] = b[1] /\ n[2] = piece[2] /\ Extent(n) = piece[2] - b[1] + 1
    BY <1>1, <1>5 DEF Extent
  <2>3. b[1] <= piece[2]
    BY <1>1, <1>3, <1>5, <1>6
  <2>4. overlap = 0 => Whole(n)
    BY <1>5, <2>3, WholeTogether
  <2> HIDE DEF n
  <2>5. ChunkFits(n, lo, piece[2], B, overlap)
    <3>1. Extent(n) <= B
      BY <1>1, <1>2, <1>5, <1>9, <2>2
    <3> QED BY <1>1, <1>5, <2>2, <2>3, <2>4, <3>1 DEF ChunkFits
  <2>6. \A i \in 1..Len(f.done) : ChunkFits(f.done[i], lo, piece[2], B, overlap)
    BY <1>3, <1>7
  <2>7. ASSUME NEW p \in lo..piece[2], p \notin Separators
        PROVE  n[1] <= p \/ \E i \in 1..Len(f.done) : f.done[i][1] <= p /\ p <= f.done[i][2]
    <3>0. p \in Nat /\ lo <= p /\ p <= piece[2]
      BY <1>1
    <3>1. CASE p <= at
      <4>1. p \in lo..at
        BY <3>0, <3>1
      <4> QED BY <1>3, <2>2, <2>7, <4>1
    <3>2. CASE at < p
      BY <1>3, <1>5, <2>2, <3>0, <3>2
    <3> QED BY <3>0, <3>1, <3>2
  <2>8. n # <<>>
    BY DEF n
  <2> HIDE DEF g
  <2> QED BY <2>1, <2>2, <2>5, <2>6, <2>7, <2>8 DEF FilledUpTo, g, B
<1> QED BY <1>8, <1>9

\* Pieces filled into buffers are all there, within the pieces, and bounded.
LEMMA FillHolds ==
  ASSUME ChunkingTypeOK, text # <<>>, NEW s, NEW lo \in Nat, NEW hi \in Nat, Pieces(s, lo, hi),
         NEW size \in Nat, NEW overlap \in Nat, NEW M \in Nat,
         \A i \in 1..Len(s) : Extent(s[i]) <= M
  PROVE  /\ Fill(s, size, overlap) \in Seq(Nat \X Nat)
         /\ Covers(Fill(s, size, overlap), lo, hi)
         /\ \A i \in 1..Len(Fill(s, size, overlap)) :
              ChunkFits(Fill(s, size, overlap)[i], lo, hi, Greater(size, overlap + 1 + M), overlap)
<1> DEFINE N == Len(s)
           B == Greater(size, overlap + 1 + M)
<1>1. s \in Seq(Nat \X Nat) /\ N \in Nat /\ N > 0 /\ s[1][1] = lo /\ s[N][2] = hi
  BY DEF Pieces
<1>2. \A i \in 1..N : Whole(s[i]) /\ s[i] \in Nat \X Nat
  BY <1>1 DEF Pieces
<1>3. \A i \in 1..(N - 1) : s[i + 1][1] = s[i][2] + 2 /\ s[i][2] + 1 \in Separators
  BY DEF Pieces
<1>4. PICK g : Fills(g, s, size, overlap)
  BY <1>1, FillUnfold
<1>5. /\ g[0] = [done |-> <<>>, buffer |-> <<>>]
      /\ \A n \in 1..N : g[n] = FillPiece(g[n - 1], s[n], size, overlap)
      /\ \A n \in 0..N : g[n] \in FillStates
  BY <1>4 DEF Fills
<1>6. B \in Nat /\ overlap + 1 + M <= B /\ M <= B
  BY DEF Greater
<1>7. \A i \in 1..N : Extent(s[i]) <= M
  OBVIOUS
<1> HIDE DEF N
<1> DEFINE S == {n \in Nat : FilledUpTo(g[n], lo, s[n][2], B, overlap)}
<1>8. 1 \in S
  <2>1. 1 \in 1..N /\ 1 - 1 = 0
    BY <1>1
  <2>2. g[1] = FillPiece([done |-> <<>>, buffer |-> <<>>], s[1], size, overlap)
    BY <1>5, <2>1
  <2>3. g[1] = [done |-> <<>>, buffer |-> s[1]]
    BY <2>2 DEF FillPiece
  <2> DEFINE c == s[1]
  <2>4. c \in Nat \X Nat /\ Whole(c) /\ Extent(c) <= M /\ c[1] = lo
    BY <1>1, <1>2, <1>7, <2>1
  <2> HIDE DEF c
  <2>5. c[1] <= c[2] /\ c[2] \notin Separators /\ c[1] \in Nat /\ c[2] \in Nat
    BY <2>4, WholeHolds
  <2>6. Extent(c) \in Int
    BY <2>5 DEF Extent
  <2>7. ChunkFits(c, lo, c[2], B, overlap)
    BY <1>6, <2>4, <2>5, <2>6 DEF ChunkFits
  <2>8. c # <<>>
    <3>1. c = <<c[1], c[2]>>
      BY <2>4
    <3>2. <<c[1], c[2]>> # <<>>
      OBVIOUS
    <3> QED BY <3>1, <3>2
  <2>9. g[1].buffer = c /\ g[1].done = <<>> /\ Len(<<>>) = 0
    BY <2>3 DEF c
  <2>10. \A p \in lo..c[2] : c[1] <= p
    BY <2>4, <2>5
  <2>11. FilledUpTo(g[1], lo, c[2], B, overlap)
    <3>1. \A i \in 1..Len(g[1].done) : FALSE
      BY <2>9
    <3> QED BY <2>7, <2>8, <2>9, <2>10, <3>1 DEF FilledUpTo
  <2>12. 1 \in Nat
    OBVIOUS
  <2> QED BY <2>11, <2>12 DEF c
<1>9. ASSUME NEW n \in 1..(N - 1), n \in S PROVE n + 1 \in S
  <2>1. /\ n + 1 \in 1..N /\ n \in 1..N /\ n \in 0..N /\ (n + 1) - 1 = n /\ n + 1 \in Nat
    BY <1>1
  <2> DEFINE f == g[n]
             piece == s[n + 1]
             at == s[n][2]
  <2>2. g[n + 1] = FillPiece(f, piece, size, overlap) /\ f \in FillStates
    BY <1>5, <2>1
  <2>3. Whole(piece) /\ Extent(piece) <= M /\ at \in Nat
    BY <1>2, <1>7, <2>1
  <2>4. piece[1] = at + 2 /\ at + 1 \in Separators
    BY <1>3
  <2>5. FilledUpTo(f, lo, at, B, overlap)
    BY <1>9
  <2> HIDE DEF f, piece, at
  <2>6. FilledUpTo(FillPiece(f, piece, size, overlap), lo, piece[2], B, overlap)
    BY <2>2, <2>3, <2>4, <2>5, FillPieceFits
  <2>7. FilledUpTo(g[n + 1], lo, s[n + 1][2], B, overlap)
    BY <2>2, <2>6 DEF piece
  <2> QED BY <2>1, <2>7
<1> HIDE DEF S
<1>10. \A n \in 1..N : n \in S
  BY <1>1, <1>8, <1>9, FromOne
<1> DEFINE f == g[N]
           chunks == Close(f)
<1>11. FilledUpTo(f, lo, hi, B, overlap) /\ f \in FillStates
  <2>1. N \in 1..N /\ N \in 0..N
    BY <1>1
  <2> QED BY <1>1, <1>5, <1>10, <2>1 DEF S
<1>12. Fill(s, size, overlap) = [i \in DOMAIN chunks |-> Strip(chunks[i])]
  BY <1>4 DEF Fills, N
<1> HIDE DEF f
<1>13. /\ f.buffer # <<>> /\ f.buffer[2] = hi
       /\ ChunkFits(f.buffer, lo, hi, B, overlap)
       /\ \A i \in 1..Len(f.done) : ChunkFits(f.done[i], lo, hi, B, overlap)
       /\ \A p \in lo..hi : p \notin Separators =>
            \/ f.buffer[1] <= p
            \/ \E i \in 1..Len(f.done) : f.done[i][1] <= p /\ p <= f.done[i][2]
  BY <1>11 DEF FilledUpTo
<1>14. chunks = Append(f.done, f.buffer)
  BY <1>13 DEF Close
<1>15. f.done \in Seq(Nat \X Nat) /\ Len(f.done) \in Nat /\ f.buffer \in Nat \X Nat
  <2>1. f.done \in Seq(Nat \X Nat)
    BY <1>11 DEF FillStates
  <2>2. f.buffer \in Nat \X Nat
    BY <1>13 DEF ChunkFits
  <2> QED BY <2>1, <2>2
<1>16. /\ chunks \in Seq(Nat \X Nat) /\ Len(chunks) = Len(f.done) + 1
       /\ chunks[Len(f.done) + 1] = f.buffer
       /\ \A i \in 1..Len(f.done) : chunks[i] = f.done[i]
  BY <1>14, <1>15, AppendProperties
<1> HIDE DEF chunks
<1>17. ASSUME NEW i \in 1..Len(chunks) PROVE ChunkFits(chunks[i], lo, hi, B, overlap)
  <2>1. CASE i \in 1..Len(f.done)
    BY <1>13, <1>16, <2>1
  <2>2. CASE i = Len(f.done) + 1
    <3>1. chunks[i] = f.buffer
      BY <1>16, <2>2
    <3> QED BY <1>13, <3>1
  <2>3. i \in 1..Len(f.done) \/ i = Len(f.done) + 1
    BY <1>15, <1>16
  <2> QED BY <2>1, <2>2, <2>3
<1>18. Covers(chunks, lo, hi)
  <2> SUFFICES ASSUME NEW p \in lo..hi, p \notin Separators
               PROVE  \E i \in 1..Len(chunks) : chunks[i][1] <= p /\ p <= chunks[i][2]
    BY DEF Covers
  <2>1. CASE f.buffer[1] <= p
    <3>1. Len(f.done) + 1 \in 1..Len(chunks) /\ p <= hi
      BY <1>15, <1>16
    <3> QED BY <1>13, <1>16, <2>1, <3>1
  <2>2. CASE \E i \in 1..Len(f.done) : f.done[i][1] <= p /\ p <= f.done[i][2]
    <3>1. PICK i \in 1..Len(f.done) : f.done[i][1] <= p /\ p <= f.done[i][2]
      BY <2>2
    <3>2. i \in 1..Len(chunks) /\ chunks[i] = f.done[i]
      BY <1>15, <1>16
    <3> QED BY <3>1, <3>2
  <2> QED BY <1>13, <2>1, <2>2
<1> DEFINE t == Fill(s, size, overlap)
           K == Len(chunks)
<1>19. K \in Nat /\ DOMAIN chunks = 1..K /\ \A i \in 1..K : chunks[i] \in Nat \X Nat
  BY <1>16
<1> HIDE DEF K
<1>20. t = [i \in 1..K |-> Strip(chunks[i])]
  BY <1>12, <1>19
<1> HIDE DEF t
<1>21. \A i \in 1..K : Strip(chunks[i]) \in Nat \X Nat
  BY <1>19, StripHolds DEF StripsTo
<1>22. t \in Seq(Nat \X Nat) /\ Len(t) = K
  BY <1>19, <1>20, <1>21
<1>23. ASSUME NEW i \in 1..K PROVE ChunkFits(t[i], lo, hi, B, overlap)
  <2> DEFINE c == chunks[i]
  <2>1. ChunkFits(c, lo, hi, B, overlap)
    BY <1>17 DEF K
  <2>2. t[i] = Strip(c)
    BY <1>20
  <2> HIDE DEF c
  <2>3. /\ c \in Nat \X Nat /\ lo <= c[1] /\ c[1] <= c[2] /\ c[2] <= hi /\ c[2] \notin Separators
        /\ Extent(c) <= B
        /\ overlap = 0 => Whole(c)
    BY <2>1 DEF ChunkFits
  <2>4. c[1] \in Nat /\ c[2] \in Nat
    BY <2>3
  <2> DEFINE d == Strip(c)
  <2>5. /\ d \in Nat \X Nat /\ c[1] <= d[1] /\ d[1] <= c[1] + 1 /\ d[2] = c[2]
        /\ c[1] \notin Separators => d[1] = c[1]
        /\ Extent(d) <= Extent(c) /\ Extent(c) \in Int
    BY <2>3, StripHolds DEF StripsTo
  <2>6. d[1] \in Nat /\ d[2] \in Nat /\ d = <<d[1], d[2]>> /\ Extent(d) = d[2] - d[1] + 1
    BY <2>5 DEF Extent
  <2> HIDE DEF d
  <2>7. d[1] <= d[2]
    <3>1. CASE c[1] \in Separators
      <4>1. c[1] # c[2]
        BY <2>3, <3>1
      <4> QED BY <2>3, <2>4, <2>5, <2>6, <4>1
    <3>2. CASE c[1] \notin Separators
      BY <2>3, <2>5, <3>2
    <3> QED BY <3>1, <3>2
  <2>8. overlap = 0 => Whole(d)
    <3> SUFFICES ASSUME overlap = 0 PROVE Whole(d)
      OBVIOUS
    <3>1. Whole(c)
      BY <2>3
    <3>2. c[1] \notin Separators
      BY <3>1, WholeHolds
    <3>3. d = c
      BY <2>3, <2>5, <2>6, <3>2
    <3> QED BY <3>1, <3>3
  <2>9. lo <= d[1] /\ Extent(d) <= B
    BY <1>6, <2>3, <2>4, <2>5, <2>6
  <2>10. ChunkFits(d, lo, hi, B, overlap)
    BY <2>3, <2>5, <2>7, <2>8, <2>9 DEF ChunkFits
  <2> QED BY <2>2, <2>10 DEF d
<1>24. Covers(t, lo, hi)
  <2> SUFFICES ASSUME NEW p \in lo..hi, p \notin Separators
               PROVE  \E i \in 1..K : t[i][1] <= p /\ p <= t[i][2]
    BY <1>22 DEF Covers
  <2>1. PICK i \in 1..K : chunks[i][1] <= p /\ p <= chunks[i][2]
    BY <1>18 DEF Covers, K
  <2> DEFINE c == chunks[i]
  <2>2. c \in Nat \X Nat /\ t[i] = Strip(c) /\ c[1] <= p /\ p <= c[2]
    BY <1>19, <1>20, <2>1
  <2> HIDE DEF c
  <2>3. p \in c[1]..c[2]
    BY <2>2
  <2>4. Strip(c)[1] <= p /\ p <= Strip(c)[2]
    BY <2>2, <2>3, StripHolds DEF StripsTo
  <2> QED BY <2>2, <2>4
<1> QED BY <1>22, <1>23, <1>24 DEF t, B

\* Extents of the pieces are bounded by the text.
LEMMA PiecesAreBounded ==
  ASSUME ChunkingTypeOK, text # <<>>, NEW s, NEW lo, NEW hi, Pieces(s, lo, hi)
  PROVE  /\ lo \in Nat /\ hi \in Nat /\ 1 <= lo /\ hi <= LastPosition
         /\ LastPosition \in Nat
         /\ \A i \in 1..Len(s) : Extent(s[i]) <= LastPosition
<1>1. s \in Seq(Nat \X Nat) /\ Len(s) \in Nat /\ Len(s) > 0
  BY DEF Pieces
<1>2. LastPosition \in Nat
  BY Between
<1>3. ASSUME NEW i \in 1..Len(s)
      PROVE  /\ s[i][1] \in Nat /\ s[i][2] \in Nat /\ 1 <= s[i][1] /\ s[i][2] <= LastPosition
             /\ Extent(s[i]) <= LastPosition
  <2> DEFINE c == s[i]
  <2>1. Whole(c)
    BY DEF Pieces
  <2> HIDE DEF c
  <2>2. c \in Nat \X Nat /\ 1 <= c[1] /\ c[2] <= LastPosition
    BY <2>1, WholeHolds
  <2>3. c[1] \in Nat /\ c[2] \in Nat
    BY <2>2
  <2>4. Extent(c) <= LastPosition
    BY <1>2, <2>2, <2>3 DEF Extent
  <2> QED BY <2>2, <2>3, <2>4 DEF c
<1>4. 1 \in 1..Len(s) /\ Len(s) \in 1..Len(s)
  BY <1>1
<1> QED BY <1>2, <1>3, <1>4 DEF Pieces

-----------------------------------------------------------------------------
(* Cutting what is too long.                                               *)

\* Where a cut takes a piece of the text and where it goes on.
CutsWell(upTo, next) ==
  /\ upTo \in [1..LastPosition -> Nat] /\ next \in [1..LastPosition -> Nat]
  /\ \A p \in 1..LastPosition : p \notin Separators /\ p + ChunkSize <= LastPosition =>
       /\ p <= upTo[p] /\ upTo[p] <= p + ChunkSize - 1
       /\ p < next[p] /\ next[p] \notin Separators
       /\ next[p] <= upTo[p] + 1 \/ (next[p] = upTo[p] + 2 /\ upTo[p] + 1 \in Separators)

\* What a cut at p gives: the chunk d, and the rest from r on.
CutGives(p, hi, d, r) ==
  /\ d \in Nat \X Nat /\ d[1] = p /\ p <= d[2] /\ d[2] <= hi /\ Extent(d) <= ChunkSize
  /\ r \in Nat /\ p < r /\ r <= hi /\ r \notin Separators
  /\ r <= d[2] + 2
  /\ \A q \in p..(r - 1) : q \notin Separators => q <= d[2]

\* A cut is bounded, gets further, and no word is between it and the rest.
LEMMA OneCut ==
  ASSUME ChunkingTypeOK, text # <<>>, NEW upTo, NEW next, CutsWell(upTo, next),
         NEW hi \in Nat, hi <= LastPosition, hi \notin Separators,
         NEW p \in 1..hi, p \notin Separators, ~(hi - p + 1 <= ChunkSize)
  PROVE  CutGives(p, hi, Strip(<<p, upTo[p]>>), next[p])
<1> DEFINE d == Strip(<<p, upTo[p]>>)
<1>1. ChunkSize \in Nat /\ LastPosition \in Nat
  BY Between, ChunkingAssumption
<1>2. p \in Nat /\ p \in 1..LastPosition /\ p + ChunkSize <= hi /\ p + ChunkSize <= LastPosition
  BY <1>1
<1> DEFINE u == upTo[p]
           r == next[p]
<1>3. /\ u \in Nat /\ r \in Nat
      /\ p <= u /\ u <= p + ChunkSize - 1
      /\ p < r /\ r \notin Separators
      /\ r <= u + 1 \/ (r = u + 2 /\ u + 1 \in Separators)
  BY <1>2 DEF CutsWell
<1> DEFINE c == <<p, u>>
<1>4. c \in Nat \X Nat /\ c[1] = p /\ c[2] = u /\ d = Strip(c) /\ Extent(c) = u - p + 1
  BY <1>2, <1>3 DEF Extent
<1> HIDE DEF c, d, u, r
<1>5. /\ d \in Nat \X Nat /\ d[1] = p
      /\ u - 1 <= d[2] /\ d[2] <= u
      /\ u \notin Separators => d[2] = u
      /\ u \in Separators => d[2] = u - 1
      /\ Extent(d) <= Extent(c) /\ Extent(c) \in Int
      /\ \A q \in p..u : q \notin Separators => q <= d[2]
  <2>1. StripsTo(c, d)
    BY <1>4, StripHolds
  <2>2. /\ d \in Nat \X Nat
        /\ p \notin Separators => d[1] = p
        /\ u - 1 <= d[2] /\ d[2] <= u
        /\ u \notin Separators => d[2] = u
        /\ u \in Separators => d[2] = u - 1
        /\ Extent(d) <= Extent(c) /\ Extent(c) \in Int
    BY <1>4, <2>1 DEF StripsTo
  <2>3. \A q \in p..u : q \notin Separators => q <= d[2]
    BY <1>4, <2>1 DEF StripsTo
  <2> QED BY <2>2, <2>3
<1>6. d[2] \in Nat /\ Extent(d) = d[2] - p + 1
  BY <1>5 DEF Extent
<1>7. p <= d[2]
  <2>1. CASE u \in Separators
    BY <1>2, <1>3, <1>5, <2>1
  <2>2. CASE u \notin Separators
    BY <1>3, <1>5, <2>2
  <2> QED BY <2>1, <2>2
<1>8. d[2] <= hi /\ Extent(d) <= ChunkSize
  BY <1>1, <1>2, <1>3, <1>4, <1>5, <1>6
<1>9. r <= hi
  <2>1. CASE r <= u + 1
    BY <1>1, <1>2, <1>3, <2>1
  <2>2. CASE r = u + 2 /\ u + 1 \in Separators
    <3>1. u + 1 <= hi /\ u + 1 # hi
      BY <1>1, <1>2, <1>3, <2>2
    <3> QED BY <1>3, <2>2, <3>1
  <2> QED BY <1>3, <2>1, <2>2
<1>10. r <= d[2] + 2
  <2>1. CASE u \in Separators
    <3>1. u + 1 \notin Separators
      BY <2>1, Between
    <3> QED BY <1>3, <1>5, <1>6, <2>1, <3>1
  <2>2. CASE u \notin Separators
    BY <1>3, <1>5, <2>2
  <2> QED BY <2>1, <2>2
<1>11. ASSUME NEW q \in p..(r - 1), q \notin Separators PROVE q <= d[2]
  <2>1. q \in Nat /\ p <= q /\ q <= r - 1
    BY <1>2, <1>3
  <2>2. q <= u
    <3>1. CASE r <= u + 1
      BY <1>3, <2>1, <3>1
    <3>2. CASE r = u + 2 /\ u + 1 \in Separators
      <4>1. q # u + 1
        BY <1>11, <3>2
      <4> QED BY <1>3, <2>1, <3>2, <4>1
    <3> QED BY <1>3, <3>1, <3>2
  <2>3. q \in p..u
    BY <1>2, <1>3, <2>1, <2>2
  <2> QED BY <1>5, <1>11, <2>3
<1>12. CutGives(p, hi, d, r)
  BY <1>3, <1>5, <1>7, <1>8, <1>9, <1>10, <1>11 DEF CutGives
<1> QED BY <1>12 DEF d, u, r

\* The turns of the loop in Cuts.
CutStates(s) == {v \in [done : Seq(Nat \X Nat), rest : s[1]..s[2]] : v.rest \notin Separators}

CutAgain(v, s, upTo, next) ==
  IF s[2] - v.rest + 1 <= ChunkSize THEN v
  ELSE [done |-> Append(v.done, Strip(<<v.rest, upTo[v.rest]>>)), rest |-> next[v.rest]]

CutTurns(g, s, upTo, next) ==
  /\ g[0] = [done |-> <<>>, rest |-> s[1]]
  /\ \A n \in 1..Extent(s) : g[n] = CutAgain(g[n - 1], s, upTo, next)
  /\ \A n \in 0..Extent(s) : g[n] \in CutStates(s)
  /\ Cuts(s, upTo, next) = Append(g[Extent(s)].done, <<g[Extent(s)].rest, s[2]>>)

\* Cuts goes on cut by cut.
LEMMA CutsUnfold ==
  ASSUME ChunkingTypeOK, text # <<>>, NEW s, Whole(s), NEW upTo, NEW next, CutsWell(upTo, next)
  PROVE  \E g : CutTurns(g, s, upTo, next)
<1> DEFINE N == Extent(s)
           V == CutStates(s)
           a == [done |-> <<>>, rest |-> s[1]]
           Body(g) == [n \in 0..N |->
             IF n = 0 THEN a
             ELSE IF s[2] - g[n - 1].rest + 1 <= ChunkSize THEN g[n - 1]
             ELSE [done |-> Append(g[n - 1].done, Strip(<<g[n - 1].rest, upTo[g[n - 1].rest]>>)),
                   rest |-> next[g[n - 1].rest]]]
           f == CHOOSE g : g = Body(g)
           G == [n \in 1..N |-> [v \in V |-> CutAgain(v, s, upTo, next)]]
<1>1. Cuts(s, upTo, next) = Append(f[N].done, <<f[N].rest, s[2]>>)
  BY DEF Cuts
<1>2. /\ s[1] \in Nat /\ s[2] \in Nat /\ 1 <= s[1] /\ s[1] <= s[2] /\ s[2] <= LastPosition
      /\ s[1] \notin Separators /\ s[2] \notin Separators
  <2>1. s \in Nat \X Nat
    BY WholeHolds
  <2> QED BY <2>1, WholeHolds
<1>3. N \in Nat
  BY <1>2 DEF Extent
<1> HIDE DEF N
<1>4. ASSUME NEW v \in V PROVE CutAgain(v, s, upTo, next) \in V
  <2>1. v.done \in Seq(Nat \X Nat) /\ v.rest \in s[1]..s[2] /\ v.rest \notin Separators
    BY DEF CutStates
  <2>2. CASE s[2] - v.rest + 1 <= ChunkSize
    BY <2>2 DEF CutAgain
  <2>3. CASE ~(s[2] - v.rest + 1 <= ChunkSize)
    <3> DEFINE p == v.rest
               d == Strip(<<p, upTo[p]>>)
               r == next[p]
               t == Append(v.done, d)
    <3>1. CutAgain(v, s, upTo, next) = [done |-> t, rest |-> r]
      BY <2>3 DEF CutAgain
    <3>2. d \in Nat \X Nat /\ r \in Nat /\ p < r /\ r <= s[2] /\ r \notin Separators
      <4> HIDE DEF p
      <4>1. p \in 1..s[2] /\ p \notin Separators /\ ~(s[2] - p + 1 <= ChunkSize)
        BY <1>2, <2>1, <2>3 DEF p
      <4>2. CutGives(p, s[2], d, r)
        BY <1>2, <4>1, OneCut
      <4> HIDE DEF d, r
      <4> QED BY <4>2 DEF CutGives
    <3>3. t \in Seq(Nat \X Nat)
      <4> HIDE DEF d
      <4> QED BY <2>1, <3>2, AppendProperties
    <3>4. r \in s[1]..s[2]
      BY <1>2, <2>1, <3>2
    <3> HIDE DEF t, r
    <3> QED BY <3>1, <3>2, <3>3, <3>4 DEF CutStates
  <2> QED BY <2>2, <2>3
<1>5. G \in [1..N -> [V -> V]]
  <2> HIDE DEF V
  <2> QED BY <1>4
<1>6. a \in V
  BY <1>2 DEF CutStates
<1> HIDE DEF a, V
<1>7. PICK h \in [0..N -> V] : Recurs(h, N, a, G)
  <2> HIDE DEF G
  <2> QED BY <1>3, <1>5, <1>6, Recursion, Zenon
<1>8. h = Body(h)
  <2>1. ASSUME NEW n \in 0..N, n # 0
        PROVE  h[n] = CutAgain(h[n - 1], s, upTo, next)
    <3>1. n \in 1..N /\ n - 1 \in 0..N
      BY <1>3, <2>1
    <3> QED BY <1>7, <3>1 DEF Recurs
  <2> QED BY <1>7, <2>1 DEF Recurs, CutAgain
<1>9. f = Body(f)
  <2> HIDE DEF Body
  <2> QED BY <1>8
<1> HIDE DEF f
<1>10. f[0] = a /\ \A n \in 1..N : f[n] = CutAgain(f[n - 1], s, upTo, next)
  <2>1. 0 \in 0..N /\ \A n \in 1..N : n \in 0..N /\ n # 0
    BY <1>3
  <2> QED BY <1>9, <2>1 DEF CutAgain
<1>11. \A n \in 1..N : f[n - 1] \in V => f[n] \in V
  BY <1>4, <1>10
<1>12. \A n \in 0..N : f[n] \in V
  <2>1. f[0] \in V
    BY <1>6, <1>10
  <2> QED BY <1>3, <1>11, <2>1, StaysIn, Zenon
<1>13. CutTurns(f, s, upTo, next)
  BY <1>1, <1>10, <1>12 DEF CutTurns, N, a, V
<1> QED BY <1>13

\* What is so after n turns.
CutSoFar(f, s, n) ==
  /\ s[2] - f.rest + 1 <= ChunkSize \/ s[1] + n <= f.rest
  /\ Len(f.done) = 0 => f.rest = s[1]
  /\ Len(f.done) > 0 =>
       /\ f.done[1][1] = s[1]
       /\ f.done[Len(f.done)][1] <= f.rest /\ f.rest <= f.done[Len(f.done)][2] + 2
  /\ \A i \in 1..Len(f.done) :
       /\ Extent(f.done[i]) <= ChunkSize
       /\ f.done[i][1] <= f.done[i][2] /\ f.done[i][2] <= s[2]
  /\ Covers(f.done, s[1], f.rest - 1)

\* After one more cut what is done still covers all before the rest.
LEMMA CutAgainHolds ==
  ASSUME ChunkingTypeOK, text # <<>>, NEW s, Whole(s), NEW upTo, NEW next, CutsWell(upTo, next),
         NEW n \in Nat, NEW f \in CutStates(s), CutSoFar(f, s, n)
  PROVE  CutSoFar(CutAgain(f, s, upTo, next), s, n + 1)
<1>1. CASE s[2] - f.rest + 1 <= ChunkSize
  BY <1>1 DEF CutAgain, CutSoFar
<1>2. CASE ~(s[2] - f.rest + 1 <= ChunkSize)
  <2> DEFINE p == f.rest
             d == Strip(<<p, upTo[p]>>)
             r == next[p]
             t == Append(f.done, d)
             g == CutAgain(f, s, upTo, next)
             K == Len(f.done)
  <2>1. g = [done |-> t, rest |-> r]
    BY <1>2 DEF CutAgain
  <2>2. g.done = t /\ g.rest = r
    BY <2>1
  <2>3. /\ s[1] \in Nat /\ s[2] \in Nat /\ 1 <= s[1] /\ s[1] <= s[2] /\ s[2] <= LastPosition
        /\ s[2] \notin Separators
    <3>1. s \in Nat \X Nat
      BY WholeHolds
    <3> QED BY <3>1, WholeHolds
  <2>4. f.done \in Seq(Nat \X Nat) /\ p \in s[1]..s[2] /\ p \notin Separators /\ p \in Nat
    BY <2>3 DEF CutStates
  <2>5. /\ s[1] + n <= p
        /\ K = 0 => p = s[1]
        /\ K > 0 => f.done[1][1] = s[1]
        /\ \A i \in 1..K :
             /\ Extent(f.done[i]) <= ChunkSize
             /\ f.done[i][1] <= f.done[i][2] /\ f.done[i][2] <= s[2]
        /\ Covers(f.done, s[1], p - 1)
    BY <1>2 DEF CutSoFar
  <2>6. ~(s[2] - p + 1 <= ChunkSize)
    BY <1>2
  <2> HIDE DEF g, p
  <2>7. /\ d \in Nat \X Nat /\ d[1] = p /\ p <= d[2] /\ d[2] <= s[2] /\ Extent(d) <= ChunkSize
        /\ r \in Nat /\ p < r /\ r <= d[2] + 2
        /\ \A q \in p..(r - 1) : q \notin Separators => q <= d[2]
    <3>1. p \in 1..s[2]
      BY <2>3, <2>4
    <3>2. CutGives(p, s[2], d, r)
      BY <2>3, <2>4, <2>6, <3>1, OneCut
    <3> HIDE DEF d, r
    <3> QED BY <3>2 DEF CutGives
  <2> HIDE DEF d, r
  <2>8. /\ t \in Seq(Nat \X Nat) /\ Len(t) = K + 1 /\ K \in Nat
        /\ t[K + 1] = d /\ \A i \in 1..K : t[i] = f.done[i]
    BY <2>4, <2>7, AppendProperties
  <2> HIDE DEF t, K
  <2>9. s[1] + (n + 1) <= r
    BY <2>3, <2>4, <2>5, <2>7
  <2>10. /\ t[1][1] = s[1]
         /\ t[Len(t)][1] <= r /\ r <= t[Len(t)][2] + 2 /\ Len(t) > 0
    <3>1. t[Len(t)] = d /\ Len(t) > 0
      BY <2>8
    <3>2. CASE K = 0
      <4>1. t[1] = d
        BY <2>8, <3>2
      <4> QED BY <2>4, <2>5, <2>7, <3>1, <3>2, <4>1
    <3>3. CASE K > 0
      <4>1. t[1] = f.done[1]
        BY <2>8, <3>3
      <4> QED BY <2>4, <2>5, <2>7, <3>1, <3>3, <4>1
    <3> QED BY <2>8, <3>2, <3>3
  <2>11. ASSUME NEW i \in 1..Len(t)
         PROVE  Extent(t[i]) <= ChunkSize /\ t[i][1] <= t[i][2] /\ t[i][2] <= s[2]
    <3>1. CASE i \in 1..K
      BY <2>5, <2>8, <3>1
    <3>2. CASE i = K + 1
      BY <2>7, <2>8, <3>2
    <3>3. i \in 1..K \/ i = K + 1
      BY <2>8
    <3> QED BY <3>1, <3>2, <3>3
  <2>12. Covers(t, s[1], r - 1)
    <3> SUFFICES ASSUME NEW q \in s[1]..(r - 1), q \notin Separators
                 PROVE  \E i \in 1..Len(t) : t[i][1] <= q /\ q <= t[i][2]
      BY DEF Covers
    <3>0. q \in Nat /\ s[1] <= q /\ q <= r - 1
      BY <2>3, <2>7
    <3>1. CASE q <= p - 1
      <4>1. q \in s[1]..(p - 1)
        BY <2>3, <2>4, <3>0, <3>1
      <4>2. PICK i \in 1..K : f.done[i][1] <= q /\ q <= f.done[i][2]
        BY <2>5, <4>1 DEF Covers, K
      <4>3. i \in 1..Len(t) /\ t[i] = f.done[i]
        BY <2>8
      <4> QED BY <4>2, <4>3
    <3>2. CASE p <= q
      <4>1. q \in p..(r - 1)
        BY <2>4, <2>7, <3>0, <3>2
      <4>2. q <= d[2]
        BY <2>7, <4>1
      <4>3. K + 1 \in 1..Len(t) /\ t[K + 1] = d
        BY <2>8
      <4> QED BY <2>7, <3>2, <4>2, <4>3
    <3> QED BY <2>4, <3>0, <3>1, <3>2
  <2>13. CutSoFar(g, s, n + 1)
    BY <2>2, <2>9, <2>10, <2>11, <2>12 DEF CutSoFar
  <2> QED BY <2>13 DEF g
<1> QED BY <1>1, <1>2

\* The chunks cut from s are all of it, none longer than the size.
CutUp(c, s) ==
  /\ c \in Seq(Nat \X Nat) /\ Len(c) > 0
  /\ c[1][1] = s[1] /\ c[Len(c)][2] = s[2]
  /\ Len(c) > 1 =>
       c[Len(c) - 1][1] <= c[Len(c)][1] /\ c[Len(c)][1] <= c[Len(c) - 1][2] + 2
  /\ \A i \in 1..Len(c) :
       Extent(c[i]) <= ChunkSize /\ c[i][1] <= c[i][2] /\ c[i][2] <= s[2]
  /\ Covers(c, s[1], s[2])

\* Cuts cover their section in chunks of the size.
LEMMA CutsHold ==
  ASSUME ChunkingTypeOK, text # <<>>, NEW s, Whole(s), NEW upTo, NEW next, CutsWell(upTo, next)
  PROVE  CutUp(Cuts(s, upTo, next), s)
<1> DEFINE N == Extent(s)
<1>1. PICK g : CutTurns(g, s, upTo, next)
  BY CutsUnfold
<1>2. /\ g[0] = [done |-> <<>>, rest |-> s[1]]
      /\ \A n \in 1..N : g[n] = CutAgain(g[n - 1], s, upTo, next)
      /\ \A n \in 0..N : g[n] \in CutStates(s)
      /\ Cuts(s, upTo, next) = Append(g[N].done, <<g[N].rest, s[2]>>)
  BY <1>1 DEF CutTurns
<1>3. s[1] \in Nat /\ s[2] \in Nat /\ s[1] <= s[2]
  <2>1. s \in Nat \X Nat
    BY WholeHolds
  <2> QED BY <2>1, WholeHolds
<1>4. N \in Nat /\ N = s[2] - s[1] + 1 /\ ChunkSize \in Nat
  BY <1>3, ChunkingAssumption DEF Extent
<1> HIDE DEF N
<1> DEFINE S == {n \in Nat : CutSoFar(g[n], s, n)}
<1>5. 0 \in S
  <2>1. g[0].done = <<>> /\ g[0].rest = s[1] /\ Len(<<>>) = 0
    BY <1>2
  <2>2. Covers(g[0].done, s[1], s[1] - 1)
    BY <1>3 DEF Covers
  <2>3. CutSoFar(g[0], s, 0)
    BY <1>3, <2>1, <2>2 DEF CutSoFar
  <2>4. 0 \in Nat
    OBVIOUS
  <2> QED BY <2>3, <2>4
<1>6. ASSUME NEW n \in 0..(N - 1), n \in S PROVE n + 1 \in S
  <2>1. n + 1 \in 1..N /\ (n + 1) - 1 = n /\ n \in 0..N /\ n \in Nat /\ n + 1 \in Nat
    BY <1>4
  <2>2. g[n + 1] = CutAgain(g[n], s, upTo, next) /\ g[n] \in CutStates(s)
    BY <1>2, <2>1
  <2>3. CutSoFar(g[n], s, n)
    BY <1>6
  <2>4. CutSoFar(g[n + 1], s, n + 1)
    BY <2>1, <2>2, <2>3, CutAgainHolds
  <2> QED BY <2>1, <2>4
<1> HIDE DEF S
<1>7. \A n \in 0..N : n \in S
  BY <1>4, <1>5, <1>6, UpTo
<1> DEFINE f == g[N]
<1>8. CutSoFar(f, s, N) /\ f \in CutStates(s)
  <2>1. N \in 0..N
    BY <1>4
  <2> QED BY <1>2, <1>7, <2>1 DEF S
<1> HIDE DEF f
<1> DEFINE done == f.done
           p == f.rest
           c == Append(done, <<p, s[2]>>)
           K == Len(done)
<1>9. done \in Seq(Nat \X Nat) /\ p \in s[1]..s[2] /\ p \in Nat /\ K \in Nat
  BY <1>3, <1>8 DEF CutStates
<1>10. /\ s[2] - p + 1 <= ChunkSize \/ s[1] + N <= p
       /\ K = 0 => p = s[1]
       /\ K > 0 => done[1][1] = s[1] /\ done[K][1] <= p /\ p <= done[K][2] + 2
       /\ \A i \in 1..K :
            Extent(done[i]) <= ChunkSize /\ done[i][1] <= done[i][2] /\ done[i][2] <= s[2]
       /\ Covers(done, s[1], p - 1)
  BY <1>8 DEF CutSoFar
<1> HIDE DEF done, p
<1>11. s[2] - p + 1 <= ChunkSize
  <2>1. ~(s[1] + N <= p)
    BY <1>3, <1>4, <1>9
  <2> QED BY <1>10, <2>1
<1>12. <<p, s[2]>> \in Nat \X Nat /\ Extent(<<p, s[2]>>) <= ChunkSize
  BY <1>3, <1>9, <1>11 DEF Extent
<1>13. /\ c \in Seq(Nat \X Nat) /\ Len(c) = K + 1
       /\ c[K + 1] = <<p, s[2]>> /\ \A i \in 1..K : c[i] = done[i]
  BY <1>9, <1>12, AppendProperties
<1> HIDE DEF c, K
<1>14. c[1][1] = s[1] /\ c[Len(c)][2] = s[2] /\ Len(c) > 0
  <2>1. CASE K = 0
    BY <1>10, <1>13, <2>1
  <2>2. CASE K > 0
    <3>1. 1 \in 1..K
      BY <1>9, <2>2
    <3> QED BY <1>9, <1>10, <1>13, <2>2, <3>1
  <2> QED BY <1>9, <2>1, <2>2
<1>15. ASSUME Len(c) > 1
       PROVE  c[Len(c) - 1][1] <= c[Len(c)][1] /\ c[Len(c)][1] <= c[Len(c) - 1][2] + 2
  <2>1. K > 0 /\ Len(c) - 1 = K /\ K \in 1..K
    BY <1>9, <1>13, <1>15
  <2>2. c[Len(c) - 1] = done[K] /\ c[Len(c)] = <<p, s[2]>>
    BY <1>13, <2>1
  <2> QED BY <1>10, <2>1, <2>2
<1>16. ASSUME NEW i \in 1..Len(c)
       PROVE  Extent(c[i]) <= ChunkSize /\ c[i][1] <= c[i][2] /\ c[i][2] <= s[2]
  <2>1. CASE i \in 1..K
    BY <1>10, <1>13, <2>1
  <2>2. CASE i = K + 1
    <3>1. p <= s[2]
      BY <1>3, <1>9
    <3>2. c[i] = <<p, s[2]>>
      BY <1>13, <2>2
    <3> QED BY <1>3, <1>12, <3>1, <3>2
  <2>3. i \in 1..K \/ i = K + 1
    BY <1>9, <1>13
  <2> QED BY <2>1, <2>2, <2>3
<1>17. Covers(c, s[1], s[2])
  <2> SUFFICES ASSUME NEW q \in s[1]..s[2], q \notin Separators
               PROVE  \E i \in 1..Len(c) : c[i][1] <= q /\ q <= c[i][2]
    BY DEF Covers
  <2>1. CASE q <= p - 1
    <3>1. q \in s[1]..(p - 1)
      BY <1>3, <1>9, <2>1
    <3>2. PICK i \in 1..K : done[i][1] <= q /\ q <= done[i][2]
      BY <1>10, <3>1 DEF Covers, K
    <3>3. i \in 1..Len(c) /\ c[i] = done[i]
      BY <1>9, <1>13
    <3> QED BY <3>2, <3>3
  <2>2. CASE p <= q
    <3>1. K + 1 \in 1..Len(c) /\ c[K + 1][1] = p /\ c[K + 1][2] = s[2]
      BY <1>9, <1>13
    <3>2. q <= s[2]
      BY <1>3
    <3> QED BY <2>2, <3>1, <3>2
  <2> QED BY <1>3, <1>9, <2>1, <2>2
<1>18. Cuts(s, upTo, next) = c
  BY <1>2 DEF c, done, p, f
<1>19. CutUp(c, s)
  BY <1>13, <1>14, <1>15, <1>16, <1>17 DEF CutUp
<1> QED BY <1>18, <1>19

-----------------------------------------------------------------------------
(* The splitter of datasheets.                                             *)

\* What the configured sizes have in common (settings.yaml:184-191; CHUNK_SIZE,
\* CHUNK_OVERLAP and the 50 of documents.py:38-39,370): the overlap is at most half of
\* the chunk, so that a cut of a section, which is after its first half, gets
\* further; and it is more than MinBody, so that the last window of a page is kept.
Sized == Overlap <= ChunkSize \div 2 /\ MinBody < Overlap

\* Pieces cover what they are pieces of.
LEMMA PiecesCover ==
  ASSUME ChunkingTypeOK, text # <<>>, NEW s, NEW lo, NEW hi, Pieces(s, lo, hi)
  PROVE  Covers(s, lo, hi)
<1>1. s \in Seq(Nat \X Nat) /\ Len(s) \in Nat /\ Len(s) > 0 /\ s[1][1] = lo /\ s[Len(s)][2] = hi
  BY DEF Pieces
<1>2. lo \in Nat /\ hi \in Nat
  BY PiecesAreBounded
<1>3. \A i \in 1..Len(s) : s[i][1] \in Nat /\ s[i][2] \in Nat
  BY <1>1
<1> SUFFICES ASSUME NEW p \in lo..hi, p \notin Separators
             PROVE  \E i \in 1..Len(s) : s[i][1] <= p /\ p <= s[i][2]
  BY DEF Covers
<1> DEFINE T == {i \in Nat : i \in 1..Len(s) /\ p <= s[i][2]}
<1>4. Len(s) \in T
  BY <1>1, <1>2
<1>5. PICK i \in T : \A j \in T : i <= j
  BY <1>4, LeastMember
<1>6. i \in 1..Len(s) /\ p <= s[i][2] /\ p \in Nat
  BY <1>2, <1>5
<1>7. CASE i = 1
  BY <1>1, <1>2, <1>6, <1>7
<1>8. CASE i > 1
  <2>1. PICK j \in 1..(Len(s) - 1) : i = j + 1
    <3>1. i - 1 \in 1..(Len(s) - 1) /\ i = (i - 1) + 1
      BY <1>1, <1>6, <1>8
    <3> QED BY <3>1
  <2>2. j \in 1..Len(s) /\ j \in Nat /\ ~(i <= j)
    <3>1. PICK k \in Nat : k = Len(s)
      BY <1>1
    <3>2. j \in 1..(k - 1) /\ i = j + 1
      BY <2>1, <3>1
    <3> QED BY <3>1, <3>2
  <2>3. ~(p <= s[j][2])
    BY <1>5, <2>2
  <2>4. s[i][1] = s[j][2] + 2 /\ p # s[j][2] + 1
    BY <2>1 DEF Pieces
  <2>5. s[j][2] \in Nat
    BY <1>3, <2>2
  <2> QED BY <1>6, <2>3, <2>4, <2>5
<1> QED BY <1>1, <1>6, <1>7, <1>8

\* A cut of at most ChunkSize whose rest begins after it, but not beyond it, is a good one.
LEMMA CutAt ==
  ASSUME ChunkingTypeOK, text # <<>>, NEW p \in Nat, NEW w \in Nat, 1 <= w, w <= ChunkSize,
         NEW q \in Nat, p < q, q <= p + w
  PROVE  /\ p + w - 1 \in Nat /\ Lead(q) \in Nat
         /\ p <= p + w - 1 /\ p + w - 1 <= p + ChunkSize - 1
         /\ p < Lead(q) /\ Lead(q) \notin Separators
         /\ \/ Lead(q) <= (p + w - 1) + 1
            \/ Lead(q) = (p + w - 1) + 2 /\ (p + w - 1) + 1 \in Separators
<1>1. ChunkSize \in Nat
  BY ChunkingAssumption
<1>2. Lead(q) = IF q \in Separators THEN q + 1 ELSE q
  BY DEF Lead
<1>3. q \in Separators => q + 1 \notin Separators
  BY Between
<1>4. p + w - 1 \in Nat /\ p <= p + w - 1 /\ p + w - 1 <= p + ChunkSize - 1
  BY <1>1
<1>5. CASE q \in Separators
  <2>1. Lead(q) = q + 1
    BY <1>2, <1>5
  <2>2. CASE q = p + w
    <3>1. (p + w - 1) + 1 = q
      BY <2>2
    <3> QED BY <1>3, <1>4, <1>5, <2>1, <3>1
  <2>3. CASE q < p + w
    BY <1>3, <1>4, <1>5, <2>1, <2>3
  <2> QED BY <2>2, <2>3
<1>6. CASE q \notin Separators
  <2>1. Lead(q) = q /\ q <= (p + w - 1) + 1
    BY <1>2, <1>6
  <2> QED BY <1>4, <1>6, <2>1
<1> QED BY <1>5, <1>6

\* Both chunkers cut after one position at least, and within the chunk size.
LEMMA SplitPointHolds ==
  ASSUME ChunkingTypeOK, Overlap <= ChunkSize \div 2, NEW p \in Nat
  PROVE  /\ SplitPoint(p) \in Nat /\ 1 <= SplitPoint(p) /\ SplitPoint(p) <= ChunkSize
         /\ Overlap < SplitPoint(p)
<1> DEFINE E == {n \in {End(k) - p : k \in DOMAIN text} : n >= ChunkSize \div 2 /\ n + 2 <= ChunkSize}
<1>1. ChunkSize \in Nat /\ ChunkSize >= 1 /\ Overlap \in Nat /\ Overlap < ChunkSize
      /\ ChunkSize \div 2 \in Nat
  BY ChunkingAssumption
<1>2. SplitPoint(p) = IF E = {} THEN ChunkSize ELSE 2 + CHOOSE n \in E : \A m \in E : m <= n
  BY DEF SplitPoint
<1>3. CASE E = {}
  BY <1>1, <1>2, <1>3
<1>4. CASE E # {}
  <2>1. DOMAIN text = 1..Len(text)
    BY DEF ChunkingTypeOK
  <2>2. \A n \in E : n \in Int /\ n >= ChunkSize \div 2 /\ n + 2 <= ChunkSize
    BY <2>1, Places
  <2> HIDE DEF E
  <2>3. E \in SUBSET 0..ChunkSize
    BY <1>1, <2>2
  <2>4. \E n \in E : \A m \in E : m <= n
    BY <1>1, <1>4, <2>3, GreatestMember
  <2> DEFINE c == CHOOSE n \in E : \A m \in E : m <= n
  <2>5. c \in E
    BY <2>4
  <2>6. SplitPoint(p) = 2 + c
    BY <1>2, <1>4
  <2> HIDE DEF c
  <2>7. c \in Int /\ c >= ChunkSize \div 2 /\ c + 2 <= ChunkSize
    BY <2>2, <2>5
  <2> HIDE DEF E
  <2>8. PICK half \in Nat : half = ChunkSize \div 2
    BY <1>1
  <2>9. c >= half /\ Overlap <= half
    BY <2>7, <2>8
  <2> QED BY <1>1, <2>6, <2>7, <2>9
<1> QED BY <1>3, <1>4

\* The cut point of a segment is a length between 1 and ChunkSize.
LEMMA CutPointHolds ==
  ASSUME ChunkingTypeOK, NEW p \in Nat
  PROVE  CutPoint(p) \in Nat /\ 1 <= CutPoint(p) /\ CutPoint(p) <= ChunkSize
<1> DEFINE E == {n \in {End(k) - p : k \in DOMAIN text} : n >= 0 /\ n + 2 <= ChunkSize}
<1>1. ChunkSize \in Nat /\ ChunkSize >= 1
  BY ChunkingAssumption
<1>2. CutPoint(p) = IF E = {} THEN ChunkSize ELSE 2 + CHOOSE n \in E : \A m \in E : m <= n
  BY DEF CutPoint
<1>3. CASE E = {}
  BY <1>1, <1>2, <1>3
<1>4. CASE E # {}
  <2>1. DOMAIN text = 1..Len(text)
    BY DEF ChunkingTypeOK
  <2>2. \A n \in E : n \in Int /\ n >= 0 /\ n + 2 <= ChunkSize
    BY <2>1, Places
  <2> HIDE DEF E
  <2>3. E \in SUBSET 0..ChunkSize
    BY <1>1, <2>2
  <2>4. \E n \in E : \A m \in E : m <= n
    BY <1>1, <1>4, <2>3, GreatestMember
  <2> DEFINE c == CHOOSE n \in E : \A m \in E : m <= n
  <2>5. c \in E
    BY <2>4
  <2>6. CutPoint(p) = 2 + c
    BY <1>2, <1>4
  <2> HIDE DEF c
  <2> QED BY <1>1, <2>2, <2>5, <2>6
<1> QED BY <1>3, <1>4

\* The chunks of a section cover it.
LEMMA SectionChunksHold ==
  ASSUME ChunkingTypeOK, text # <<>>, Overlap <= ChunkSize \div 2, NEW s, Whole(s)
  PROVE  CutUp(SectionChunks(s), s)
<1> DEFINE upTo == [p \in 1..LastPosition |-> p + SplitPoint(p) - 1]
           next == [p \in 1..LastPosition |-> NextStart(p)]
<1>1. LastPosition \in Nat /\ Overlap \in Nat
  BY Between, ChunkingAssumption
<1>2. ASSUME NEW p \in 1..LastPosition
      PROVE  /\ upTo[p] \in Nat /\ next[p] \in Nat
             /\ p <= upTo[p] /\ upTo[p] <= p + ChunkSize - 1
             /\ p < next[p] /\ next[p] \notin Separators
             /\ next[p] <= upTo[p] + 1 \/ (next[p] = upTo[p] + 2 /\ upTo[p] + 1 \in Separators)
  <2> DEFINE w == SplitPoint(p)
             q == p + Greater(0, w - Overlap)
  <2>1. p \in Nat
    BY <1>1
  <2>2. w \in Nat /\ 1 <= w /\ w <= ChunkSize /\ Overlap < w
    BY <2>1, SplitPointHolds
  <2>3. upTo[p] = p + w - 1 /\ next[p] = Lead(q)
    BY DEF NextStart
  <2> HIDE DEF w
  <2>4. q = p + (w - Overlap)
    BY <1>1, <2>2 DEF Greater
  <2>5. q \in Nat /\ p < q /\ q <= p + w
    BY <1>1, <2>1, <2>2, <2>4
  <2> HIDE DEF q, upTo, next
  <2>6. /\ p + w - 1 \in Nat /\ Lead(q) \in Nat
        /\ p <= p + w - 1 /\ p + w - 1 <= p + ChunkSize - 1
        /\ p < Lead(q) /\ Lead(q) \notin Separators
        /\ \/ Lead(q) <= (p + w - 1) + 1
           \/ Lead(q) = (p + w - 1) + 2 /\ (p + w - 1) + 1 \in Separators
    BY <2>1, <2>2, <2>5, CutAt
  <2> QED BY <2>3, <2>6
<1>3. upTo \in [1..LastPosition -> Nat] /\ next \in [1..LastPosition -> Nat]
  BY <1>2
<1> HIDE DEF upTo, next
<1>4. CutsWell(upTo, next)
  BY <1>2, <1>3 DEF CutsWell
<1>5. CutUp(Cuts(s, upTo, next), s)
  BY <1>4, CutsHold
<1> QED BY <1>5 DEF SectionChunks, upTo, next

\* The cuts of a segment cover it.
LEMMA CutSegmentHolds ==
  ASSUME ChunkingTypeOK, text # <<>>, NEW s, Whole(s)
  PROVE  CutUp(CutSegment(s), s)
<1> DEFINE upTo == [p \in 1..LastPosition |-> p + CutPoint(p) - 1]
           next == [p \in 1..LastPosition |-> Lead(p + CutPoint(p))]
<1>1. LastPosition \in Nat
  BY Between
<1>2. ASSUME NEW p \in 1..LastPosition
      PROVE  /\ upTo[p] \in Nat /\ next[p] \in Nat
             /\ p <= upTo[p] /\ upTo[p] <= p + ChunkSize - 1
             /\ p < next[p] /\ next[p] \notin Separators
             /\ next[p] <= upTo[p] + 1 \/ (next[p] = upTo[p] + 2 /\ upTo[p] + 1 \in Separators)
  <2> DEFINE w == CutPoint(p)
             q == p + w
  <2>1. p \in Nat
    BY <1>1
  <2>2. w \in Nat /\ 1 <= w /\ w <= ChunkSize
    BY <2>1, CutPointHolds
  <2>3. upTo[p] = p + w - 1 /\ next[p] = Lead(q)
    OBVIOUS
  <2> HIDE DEF w
  <2>4. q \in Nat /\ p < q /\ q <= p + w
    BY <2>1, <2>2
  <2> HIDE DEF q, upTo, next
  <2>5. /\ p + w - 1 \in Nat /\ Lead(q) \in Nat
        /\ p <= p + w - 1 /\ p + w - 1 <= p + ChunkSize - 1
        /\ p < Lead(q) /\ Lead(q) \notin Separators
        /\ \/ Lead(q) <= (p + w - 1) + 1
           \/ Lead(q) = (p + w - 1) + 2 /\ (p + w - 1) + 1 \in Separators
    BY <2>1, <2>2, <2>4, CutAt
  <2> QED BY <2>3, <2>5
<1>3. upTo \in [1..LastPosition -> Nat] /\ next \in [1..LastPosition -> Nat]
  BY <1>2
<1> HIDE DEF upTo, next
<1>4. CutsWell(upTo, next)
  BY <1>2, <1>3 DEF CutsWell
<1>5. CutUp(Cuts(s, upTo, next), s)
  BY <1>4, CutsHold
<1> QED BY <1>5 DEF CutSegment, upTo, next

\* Each cut gets further.
LEMMA Progress ==
  ASSUME ChunkingTypeOK, Overlap <= ChunkSize \div 2
  PROVE  SplitMakesProgress
<1> SUFFICES ASSUME NEW p \in 1..(LastPosition - ChunkSize)
             PROVE  NextStart(p) > p
  BY DEF SplitMakesProgress
<1>1. ChunkSize \in Nat /\ Overlap \in Nat /\ LastPosition \in Int
  <2>1. LengthUpTo(Len(text)) \in Nat
    BY LengthsAdd
  <2> QED BY <2>1, ChunkingAssumption DEF LastPosition
<1>2. p \in Nat
  BY <1>1
<1>3. SplitPoint(p) \in Nat /\ Overlap < SplitPoint(p)
  BY <1>2, SplitPointHolds
<1> DEFINE q == p + Greater(0, SplitPoint(p) - Overlap)
<1>4. q \in Int /\ q > p
  BY <1>1, <1>2, <1>3 DEF Greater
<1>5. NextStart(p) = IF q \in Separators THEN q + 1 ELSE q
  BY DEF NextStart, Lead
<1> HIDE DEF q
<1> QED BY <1>2, <1>4, <1>5

\* The splitter of datasheets.
LEMMA DatasheetHolds ==
  ASSUME ChunkingTypeOK, text # <<>>, Overlap <= ChunkSize \div 2
  PROVE  /\ DatasheetChunks \in Seq(Nat \X Nat)
         /\ Covers(DatasheetChunks, 1, LastPosition)
         /\ \A i \in 1..Len(DatasheetChunks) : Extent(DatasheetChunks[i]) <= ChunkSize
<1> DEFINE s == Sections
           N == Len(s)
           ss == [i \in DOMAIN s |-> SectionChunks(s[i])]
           t == Flat(ss)
<1>1. Pieces(s, 1, LastPosition)
  BY GroupsArePieces DEF Sections
<1> HIDE DEF s
<1>2. s \in Seq(Nat \X Nat) /\ N \in Nat /\ DOMAIN s = 1..N
  BY <1>1 DEF Pieces
<1>3. \A i \in 1..N : Whole(s[i])
  BY <1>1 DEF Pieces
<1> HIDE DEF N
<1>4. \A i \in 1..N : ss[i] = SectionChunks(s[i]) /\ CutUp(ss[i], s[i])
  BY <1>2, <1>3, SectionChunksHold
<1>5. ss \in Seq(Seq(Nat \X Nat)) /\ Len(ss) = N
  <2>1. \A i \in 1..N : SectionChunks(s[i]) \in Seq(Nat \X Nat)
    BY <1>4 DEF CutUp
  <2>2. ss = [i \in 1..N |-> SectionChunks(s[i])]
    BY <1>2
  <2> HIDE DEF ss
  <2> QED BY <1>2, <2>1, <2>2
<1> HIDE DEF ss
<1>6. t \in Seq(Nat \X Nat) /\ ToSet(t) = UNION {ToSet(ss[i]) : i \in 1..N}
  BY <1>5, FlatHolds
<1> HIDE DEF t
<1>7. ASSUME NEW i \in 1..Len(t) PROVE Extent(t[i]) <= ChunkSize
  <2>1. t[i] \in ToSet(t)
    BY <1>6, Listed
  <2>2. PICK j \in 1..N : t[i] \in ToSet(ss[j])
    BY <1>6, <2>1
  <2>3. ss[j] \in Seq(Nat \X Nat)
    BY <1>5
  <2>4. PICK k \in 1..Len(ss[j]) : t[i] = ss[j][k]
    BY <2>2, <2>3, Listed
  <2> QED BY <1>4, <2>4 DEF CutUp
<1>8. Covers(t, 1, LastPosition)
  <2> SUFFICES ASSUME NEW p \in 1..LastPosition, p \notin Separators
               PROVE  \E i \in 1..Len(t) : t[i][1] <= p /\ p <= t[i][2]
    BY DEF Covers
  <2>1. PICK j \in 1..N : s[j][1] <= p /\ p <= s[j][2]
    BY <1>1, PiecesCover DEF Covers, N
  <2>2. p \in s[j][1]..s[j][2]
    <3>1. s[j][1] \in Nat /\ s[j][2] \in Nat /\ LastPosition \in Nat
      BY <1>2, Between
    <3> QED BY <2>1, <3>1
  <2>3. ss[j] \in Seq(Nat \X Nat)
    BY <1>5
  <2>4. PICK k \in 1..Len(ss[j]) : ss[j][k][1] <= p /\ p <= ss[j][k][2]
    BY <1>4, <2>2 DEF CutUp, Covers
  <2>5. ss[j][k] \in ToSet(ss[j])
    BY <2>3, Listed
  <2>6. ss[j][k] \in ToSet(t)
    BY <1>6, <2>5
  <2>7. PICK i \in 1..Len(t) : t[i] = ss[j][k]
    BY <1>6, <2>6, Listed
  <2> QED BY <2>4, <2>7
<1>9. DatasheetChunks = t
  BY DEF DatasheetChunks, t, ss, s
<1> QED BY <1>6, <1>7, <1>8, <1>9

-----------------------------------------------------------------------------
(* The semantic chunker.                                                   *)

\* The chunks so far end at `at`, are bounded, and hold every word up to there.
Joined(v, at, B) ==
  /\ v \in Seq(Nat \X Nat) /\ Len(v) > 0
  /\ v[Len(v)][1] <= at /\ v[Len(v)][2] = at
  /\ \A i \in 1..Len(v) : Extent(v[i]) <= B
  /\ Covers(v, 1, at)

\* A last piece next to the chunks before it, with which it holds every word.
NextTo(v, s, B) ==
  /\ v \in Seq(Nat \X Nat) /\ s \in Nat \X Nat /\ s[1] <= s[2] /\ Extent(s) <= B
  /\ Len(v) > 0 =>
       /\ v[Len(v)][1] <= s[1] /\ s[1] <= v[Len(v)][2] + 2 /\ v[Len(v)][2] <= s[2]
  /\ \A i \in 1..Len(v) : Extent(v[i]) <= B
  /\ \A p \in 1..s[2] : p \notin Separators =>
       s[1] <= p \/ \E i \in 1..Len(v) : v[i][1] <= p /\ p <= v[i][2]

\* Joined to the chunk before it or not, the last piece adds at most MinSize.
LEMMA JoinSmallHolds ==
  ASSUME NEW v, NEW s, NEW B \in Nat, NextTo(v, s, B)
  PROVE  Joined(JoinSmall(v, s), s[2], B + MinSize)
<1>1. MinSize \in Nat
  BY ChunkingAssumption
<1>2. /\ v \in Seq(Nat \X Nat) /\ Len(v) \in Nat /\ s \in Nat \X Nat
      /\ s[1] \in Nat /\ s[2] \in Nat /\ s[1] <= s[2] /\ Extent(s) <= B
      /\ Extent(s) = s[2] - s[1] + 1
  BY DEF NextTo, Extent
<1>3. \A i \in 1..Len(v) : /\ v[i] \in Nat \X Nat /\ v[i][1] \in Nat /\ v[i][2] \in Nat
                         /\ Extent(v[i]) \in Int /\ Extent(v[i]) <= B
  <2> TAKE i \in 1..Len(v)
  <2>1. v[i] \in Nat \X Nat
    BY <1>2
  <2>2. v[i][1] \in Nat /\ v[i][2] \in Nat
    BY <2>1
  <2>3. Extent(v[i]) \in Int
    BY <2>2 DEF Extent
  <2>4. Extent(v[i]) <= B
    BY DEF NextTo
  <2> QED BY <2>1, <2>2, <2>3, <2>4
<1>4. CASE v # <<>> /\ Extent(s) < MinSize
  <2>1. PICK n \in 1..Len(v) : n = Len(v)
    BY <1>2, <1>4
  <2> DEFINE w == GoOn(v, s[2])
  <2>2. JoinSmall(v, s) = w
    BY <1>4 DEF JoinSmall
  <2>3. w \in Seq(Nat \X Nat) /\ Len(w) = Len(v)
    BY <1>2, GoOnHolds
  <2>4. \A i \in 1..n : w[i] = IF i = n THEN <<v[i][1], s[2]>> ELSE v[i]
    BY <1>2, <2>1, GoOnHolds
  <2> HIDE DEF w
  <2>5. w[n][1] = v[n][1] /\ w[n][2] = s[2]
    <3>1. w[n] = <<v[n][1], s[2]>>
      BY <2>1, <2>4
    <3> QED BY <3>1
  <2>6. v[n][1] <= s[1] /\ s[1] <= v[n][2] + 2 /\ v[n][2] <= s[2]
    BY <2>1 DEF NextTo
  <2>7. Extent(w[n]) <= B + MinSize
    <3>1. Extent(w[n]) = s[2] - v[n][1] + 1 /\ Extent(v[n]) = v[n][2] - v[n][1] + 1
      BY <2>5 DEF Extent
    <3>2. v[n][1] \in Nat /\ v[n][2] \in Nat /\ Extent(v[n]) <= B
      BY <1>3, <2>1
    <3> DEFINE a == v[n][1]
               b == v[n][2]
    <3>3. a \in Nat /\ b \in Nat /\ b - a + 1 <= B /\ s[1] <= b + 2
      BY <2>6, <3>1, <3>2
    <3>4. s[2] - s[1] + 1 < MinSize /\ s[1] \in Nat /\ s[2] \in Nat
      BY <1>2, <1>4
    <3> HIDE DEF a, b
    <3>5. s[2] - a + 1 <= B + MinSize
      BY <1>1, <3>3, <3>4
    <3> QED BY <3>1, <3>5 DEF a
  <2>8. ASSUME NEW i \in 1..n PROVE Extent(w[i]) <= B + MinSize
    <3>1. CASE i = n
      BY <2>7, <3>1
    <3>2. CASE i # n
      <4>1. w[i] = v[i] /\ Extent(v[i]) \in Int /\ Extent(v[i]) <= B
        BY <1>3, <2>1, <2>4, <3>2
      <4> QED BY <1>1, <4>1
    <3> QED BY <3>1, <3>2
  <2>9. ASSUME NEW p \in 1..s[2], p \notin Separators
        PROVE  \E i \in 1..n : w[i][1] <= p /\ p <= w[i][2]
    <3>1. v[n][1] \in Nat /\ p \in Int /\ p <= s[2]
      BY <1>2, <1>3, <2>1
    <3>2. CASE s[1] <= p
      <4>1. w[n][1] <= p /\ p <= w[n][2]
        BY <1>2, <2>5, <2>6, <3>1, <3>2
      <4> QED BY <2>1, <4>1
    <3>3. CASE \E i \in 1..n : v[i][1] <= p /\ p <= v[i][2]
      <4>1. PICK i \in 1..n : v[i][1] <= p /\ p <= v[i][2]
        BY <3>3
      <4>2. w[i][1] = v[i][1] /\ (w[i][2] = v[i][2] \/ w[i][2] = s[2])
        <5>1. CASE i = n
          BY <2>5, <5>1
        <5>2. CASE i # n
          BY <2>4, <5>2
        <5> QED BY <5>1, <5>2
      <4> QED BY <3>1, <4>1, <4>2
    <3> QED BY <2>1, <2>9, <3>2, <3>3 DEF NextTo
  <2>10. w[n][1] <= s[2]
    BY <1>2, <1>3, <2>1, <2>5, <2>6
  <2> QED BY <2>1, <2>2, <2>3, <2>5, <2>8, <2>9, <2>10 DEF Joined, Covers
<1>5. CASE ~(v # <<>> /\ Extent(s) < MinSize)
  <2> DEFINE w == Append(v, s)
             n == Len(v) + 1
  <2>1. JoinSmall(v, s) = w
    BY <1>5 DEF JoinSmall
  <2>2. /\ w \in Seq(Nat \X Nat) /\ Len(w) = n /\ n \in 1..n /\ w[n] = s
        /\ \A i \in 1..Len(v) : w[i] = v[i] /\ i \in 1..n
        /\ \A i \in 1..n : i \in 1..Len(v) \/ i = n
    BY <1>2, AppendProperties
  <2> HIDE DEF w, n
  <2>3. ASSUME NEW i \in 1..n PROVE Extent(w[i]) <= B + MinSize
    <3>1. CASE i = n
      BY <1>1, <1>2, <2>2, <3>1
    <3>2. CASE i \in 1..Len(v)
      <4>1. w[i] = v[i] /\ Extent(v[i]) \in Int /\ Extent(v[i]) <= B
        BY <1>3, <2>2, <3>2
      <4> QED BY <1>1, <4>1
    <3> QED BY <2>2, <3>1, <3>2
  <2>4. ASSUME NEW p \in 1..s[2], p \notin Separators
        PROVE  \E i \in 1..n : w[i][1] <= p /\ p <= w[i][2]
    <3>1. CASE s[1] <= p
      <4>1. w[n][1] <= p /\ p <= w[n][2]
        BY <2>2, <3>1
      <4> QED BY <2>2, <4>1
    <3>2. CASE \E i \in 1..Len(v) : v[i][1] <= p /\ p <= v[i][2]
      BY <2>2, <3>2
    <3> QED BY <2>4, <3>1, <3>2 DEF NextTo
  <2> QED BY <1>2, <2>1, <2>2, <2>3, <2>4 DEF Joined, Covers
<1> QED BY <1>4, <1>5

\* The chunks of a segment after those of the segments before it.
JoinCut(v, c) == JoinSmall(v \o AllButLastN(c, 1), c[Len(c)])

\* Joining the chunks of a segment gives a list of chunks.
LEMMA JoinCutType ==
  ASSUME NEW v \in Seq(Nat \X Nat), NEW c \in Seq(Nat \X Nat), Len(c) > 0
  PROVE  JoinCut(v, c) \in Seq(Nat \X Nat)
<1> DEFINE a == AllButLastN(c, 1)
           s == c[Len(c)]
<1>1. a \in Seq(Nat \X Nat)
  BY AllButLastNElements
<1>2. s \in Nat \X Nat /\ s[2] \in Nat
  OBVIOUS
<1> HIDE DEF a, s
<1> DEFINE w == v \o a
<1>3. w \in Seq(Nat \X Nat)
  BY <1>1
<1> HIDE DEF w
<1>4. GoOn(w, s[2]) \in Seq(Nat \X Nat) /\ Append(w, s) \in Seq(Nat \X Nat)
  BY <1>2, <1>3, GoOnHolds, AppendProperties
<1>5. JoinCut(v, c) = JoinSmall(w, s)
  BY DEF JoinCut, w, a, s
<1> QED BY <1>4, <1>5 DEF JoinSmall

\* After the chunks up to the end of a segment, or at the start of the text,
\* those of the next segment are next to them.
After(v, at, B) == (v = <<>> /\ at = -1) \/ Joined(v, at, B)

\* After the chunks of one more segment, all is covered up to its end, and the
\* bound grows by MinSize.
LEMMA JoinCutHolds ==
  ASSUME ChunkingTypeOK, text # <<>>, NEW v, NEW at \in Int, NEW B \in Nat, ChunkSize <= B,
         After(v, at, B), NEW s, Whole(s), s[1] = at + 2,
         at = -1 \/ at + 1 \in Separators, NEW c, CutUp(c, s)
  PROVE  Joined(JoinCut(v, c), s[2], B + MinSize)
<1> DEFINE a == AllButLastN(c, 1)
           N == Len(c)
           e == c[N]
           K == Len(v)
<1>1. /\ c \in Seq(Nat \X Nat) /\ N \in Nat /\ N > 0
      /\ c[1][1] = s[1] /\ e[2] = s[2]
      /\ N > 1 => c[N - 1][1] <= e[1] /\ e[1] <= c[N - 1][2] + 2
  BY DEF CutUp
<1>2. ChunkSize \in Nat
  BY ChunkingAssumption
<1>3. s[1] \in Nat /\ s[2] \in Nat /\ 1 <= s[1] /\ s[1] <= s[2]
  BY WholeHolds
<1>4. \A i \in 1..N : /\ c[i] \in Nat \X Nat /\ c[i][1] \in Nat /\ c[i][2] \in Nat
                      /\ Extent(c[i]) \in Int /\ Extent(c[i]) <= B
                      /\ c[i][1] <= c[i][2] /\ c[i][2] <= s[2]
  <2>1. \A i \in 1..N : c[i] \in Nat \X Nat /\ Extent(c[i]) <= ChunkSize /\ c[i][1] <= c[i][2] /\ c[i][2] <= s[2]
    BY <1>1 DEF CutUp
  <2>2. \A i \in 1..N : c[i][1] \in Nat /\ c[i][2] \in Nat /\ Extent(c[i]) \in Int
    BY <2>1 DEF Extent
  <2> QED BY <1>2, <2>1, <2>2
<1>5. a \in Seq(Nat \X Nat) /\ Len(a) = N - 1 /\ \A i \in 1..(N - 1) : a[i] = c[i]
  <2>1. /\ AllButLastN(c, 1) \in Seq(Nat \X Nat)
        /\ Len(AllButLastN(c, 1)) = IF N > 1 THEN N - 1 ELSE 0
        /\ \A i \in 1..Len(AllButLastN(c, 1)) : AllButLastN(c, 1)[i] = c[i]
    <3>1. 1 \in Nat
      OBVIOUS
    <3> QED BY <1>1, <3>1, AllButLastNElements
  <2>2. N - 1 = IF N > 1 THEN N - 1 ELSE 0
    <3>1. N \in Nat /\ N > 0
      BY <1>1
    <3> HIDE DEF N, a, e
    <3> QED BY <3>1
  <2> QED BY <2>1, <2>2 DEF a
<1>6. v \in Seq(Nat \X Nat) /\ K \in Nat
  <2>1. v \in Seq(Nat \X Nat)
    <3>1. <<>> \in Seq(Nat \X Nat)
      OBVIOUS
    <3> QED BY <3>1 DEF After, Joined
  <2> QED BY <2>1
<1>7. Covers(c, s[1], s[2])
  BY DEF CutUp
<1>8. JoinCut(v, c) = JoinSmall(v \o a, e)
  BY DEF JoinCut
<1> HIDE DEF a, N, e, K
<1> DEFINE w == v \o a
           M == Len(w)
<1>9. /\ w \in Seq(Nat \X Nat) /\ M = K + N - 1 /\ M \in Nat
      /\ \A i \in 1..K : w[i] = v[i] /\ i \in 1..M
      /\ \A i \in 1..(N - 1) : w[K + i] = a[i] /\ K + i \in 1..M
  <2>1. w \in Seq(Nat \X Nat) /\ M = K + Len(a)
    <3>1. v \in Seq(Nat \X Nat) /\ a \in Seq(Nat \X Nat)
      BY <1>5, <1>6
    <3>2. v \o a \in Seq(Nat \X Nat) /\ Len(v \o a) = Len(v) + Len(a)
      BY <3>1, ConcatProperties
    <3> QED BY <3>2 DEF K
  <2>2. \A i \in 1..(K + Len(a)) : w[i] = IF i <= K THEN v[i] ELSE a[i - K]
    BY <1>5, <1>6 DEF K
  <2>3. M = K + N - 1 /\ M \in Nat
    BY <1>1, <1>5, <1>6, <2>1
  <2>4. ASSUME NEW i \in 1..K PROVE w[i] = v[i] /\ i \in 1..M
    <3>1. i <= K /\ i \in 1..(K + Len(a)) /\ i \in 1..M
      BY <1>1, <1>5, <1>6, <2>3
    <3> HIDE DEF w, M
    <3> QED BY <2>2, <3>1
  <2>5. ASSUME NEW i \in 1..(N - 1) PROVE w[K + i] = a[i] /\ K + i \in 1..M
    <3>1. ~(K + i <= K) /\ K + i \in 1..(K + Len(a)) /\ K + i \in 1..M /\ (K + i) - K = i
      BY <1>1, <1>5, <1>6, <2>3
    <3> HIDE DEF w, M
    <3> QED BY <2>2, <3>1
  <2> HIDE DEF w, M
  <2> QED BY <2>1, <2>3, <2>4, <2>5
<1> HIDE DEF w, M
<1>10. \A i \in 1..(N - 1) : w[K + i] = c[i]
  BY <1>5, <1>9
<1>11. ASSUME NEW i \in 1..M PROVE i \in 1..K \/ \E j \in 1..(N - 1) : i = K + j
  <2>1. CASE i <= K
    BY <1>6, <2>1
  <2>2. CASE ~(i <= K)
    <3>1. i - K \in 1..(N - 1) /\ i = K + (i - K)
      BY <1>1, <1>6, <1>9, <2>2
    <3> QED BY <3>1
  <2> QED BY <2>1, <2>2
<1>12. N \in 1..N /\ e = c[N]
  BY <1>1 DEF e
<1>13. ASSUME NEW i \in 1..M PROVE Extent(w[i]) <= B
  <2>1. CASE i \in 1..K
    <3>1. v # <<>>
      BY <1>6, <2>1 DEF K
    <3>2. Extent(v[i]) <= B
      BY <2>1, <3>1 DEF After, Joined, K
    <3> QED BY <1>9, <2>1, <3>2
  <2>2. CASE \E j \in 1..(N - 1) : i = K + j
    <3>1. PICK j \in 1..(N - 1) : i = K + j
      BY <2>2
    <3>2. j \in 1..N
      BY <1>1
    <3> QED BY <1>4, <1>10, <3>1, <3>2
  <2> QED BY <1>11, <2>1, <2>2
<1>14. ASSUME M > 0
       PROVE  w[M][1] <= e[1] /\ e[1] <= w[M][2] + 2 /\ w[M][2] <= e[2]
  <2>1. CASE N > 1
    <3>1. N - 1 \in 1..(N - 1) /\ M = K + (N - 1) /\ N - 1 \in 1..N
      BY <1>1, <1>6, <1>9, <2>1
    <3>2. w[M] = c[N - 1]
      BY <1>10, <3>1
    <3> QED BY <1>1, <1>4, <2>1, <3>1, <3>2
  <2>2. CASE N = 1
    <3>1. K > 0 /\ M = K /\ K \in 1..K
      BY <1>1, <1>6, <1>9, <1>14, <2>2
    <3>2. w[M] = v[K] /\ v # <<>>
      BY <1>6, <1>9, <3>1 DEF K
    <3>3. v[K][1] <= at /\ v[K][2] = at
      BY <3>2 DEF After, Joined, K
    <3>4. e[1] = s[1]
      BY <1>1, <1>12, <2>2
    <3>5. v[K][1] \in Nat
      <4>1. v[K] \in Nat \X Nat
        BY <1>6, <3>1 DEF K
      <4> QED BY <4>1
    <3> QED BY <1>1, <1>3, <3>2, <3>3, <3>4, <3>5
  <2> QED BY <1>1, <2>1, <2>2
<1>15. ASSUME NEW p \in 1..s[2], p \notin Separators
       PROVE  e[1] <= p \/ \E i \in 1..M : w[i][1] <= p /\ p <= w[i][2]
  <2>1. CASE s[1] <= p
    <3>1. p \in s[1]..s[2]
      BY <1>3, <2>1
    <3>2. PICK j \in 1..N : c[j][1] <= p /\ p <= c[j][2]
      BY <1>7, <1>15, <3>1 DEF Covers, N
    <3>3. CASE j = N
      BY <1>12, <3>2, <3>3
    <3>4. CASE j \in 1..(N - 1)
      BY <1>9, <1>10, <3>2, <3>4
    <3> QED BY <1>1, <3>3, <3>4
  <2>2. CASE ~(s[1] <= p)
    <3>1. p <= at + 1 /\ at # -1
      BY <1>3, <2>2
    <3>2. p <= at
      BY <1>15, <3>1
    <3>3. Joined(v, at, B) /\ p \in 1..at
      BY <3>1, <3>2 DEF After
    <3>4. PICK i \in 1..K : v[i][1] <= p /\ p <= v[i][2]
      BY <1>15, <3>3 DEF Joined, Covers, K
    <3> QED BY <1>9, <3>4
  <2> QED BY <2>1, <2>2
<1>16. NextTo(w, e, B)
  <2>1. e \in Nat \X Nat /\ e[1] <= e[2] /\ Extent(e) <= B
    BY <1>4, <1>12
  <2>2. \A i \in 1..Len(w) : Extent(w[i]) <= B
    BY <1>13 DEF M
  <2>3. Len(w) > 0 => w[Len(w)][1] <= e[1] /\ e[1] <= w[Len(w)][2] + 2 /\ w[Len(w)][2] <= e[2]
    BY <1>14 DEF M
  <2>4. \A p \in 1..e[2] : p \notin Separators =>
          e[1] <= p \/ \E i \in 1..Len(w) : w[i][1] <= p /\ p <= w[i][2]
    BY <1>1, <1>15 DEF M
  <2> QED BY <1>9, <2>1, <2>2, <2>3, <2>4 DEF NextTo
<1>17. Joined(JoinSmall(w, e), e[2], B + MinSize)
  BY <1>16, JoinSmallHolds
<1> QED BY <1>1, <1>8, <1>17 DEF w

\* SemanticChunks takes the segments one by one.
JoinTurns(g) ==
  /\ SemanticChunks = g[Len(Segments)]
  /\ g[0] = <<>>
  /\ \A n \in 1..Len(Segments) : g[n] = JoinCut(g[n - 1], CutSegment(Segments[n]))

\* The semantic chunker goes on segment by segment.
LEMMA SemanticUnfold ==
  ASSUME ChunkingTypeOK, text # <<>>
  PROVE  \E g : JoinTurns(g)
<1> DEFINE N == Len(Segments)
           V == Seq(Nat \X Nat)
           C(n) == CutSegment(Segments[n])
           Body(g) == [n \in 0..N |-> IF n = 0 THEN <<>> ELSE JoinCut(g[n - 1], C(n))]
           f == CHOOSE g : g = Body(g)
           G == [n \in 1..N |-> [v \in V |-> JoinCut(v, C(n))]]
<1>1. SemanticChunks = f[N]
  BY DEF SemanticChunks, JoinCut
<1>2. Pieces(Segments, 1, LastPosition)
  BY GroupsArePieces DEF Segments
<1>3. N \in Nat /\ \A n \in 1..N : C(n) \in V /\ Len(C(n)) > 0
  <2>1. N \in Nat /\ \A n \in 1..N : Whole(Segments[n])
    BY <1>2 DEF Pieces
  <2>2. \A n \in 1..N : CutUp(C(n), Segments[n])
    BY <2>1, CutSegmentHolds
  <2> QED BY <2>1, <2>2 DEF CutUp
<1> HIDE DEF C
<1>4. G \in [1..N -> [V -> V]] /\ <<>> \in V
  <2>1. \A n \in 1..N, v \in V : JoinCut(v, C(n)) \in V
    BY <1>3, JoinCutType
  <2>2. <<>> \in V
    OBVIOUS
  <2> HIDE DEF V, N
  <2> QED BY <2>1, <2>2
<1> HIDE DEF N, V
<1>5. PICK h \in [0..N -> V] : Recurs(h, N, <<>>, G)
  <2> HIDE DEF G
  <2> QED BY <1>3, <1>4, Recursion, Zenon
<1>6. h = Body(h)
  <2>1. ASSUME NEW n \in 0..N, n # 0
        PROVE  h[n] = JoinCut(h[n - 1], C(n))
    <3>1. n \in 1..N /\ n - 1 \in 0..N
      BY <1>3, <2>1
    <3> QED BY <1>5, <3>1 DEF Recurs
  <2> QED BY <1>5, <2>1 DEF Recurs
<1>7. f = Body(f)
  <2> HIDE DEF Body
  <2> QED BY <1>6
<1> HIDE DEF f
<1>8. f[0] = <<>> /\ \A n \in 1..N : f[n] = JoinCut(f[n - 1], C(n))
  <2>1. 0 \in 0..N /\ \A n \in 1..N : n \in 0..N /\ n # 0
    BY <1>3
  <2> QED BY <1>7, <2>1
<1> QED BY <1>1, <1>8 DEF JoinTurns, N, C

\* The semantic chunker.
LEMMA SemanticHolds ==
  ASSUME ChunkingTypeOK, text # <<>>
  PROVE  /\ SemanticChunks \in Seq(Nat \X Nat)
         /\ Covers(SemanticChunks, 1, LastPosition)
         /\ \A i \in 1..Len(SemanticChunks) :
              Extent(SemanticChunks[i]) <= ChunkSize + Len(text) * MinSize
<1> DEFINE s == Segments
           N == Len(s)
           B(n) == ChunkSize + n * MinSize
<1>1. Pieces(s, 1, LastPosition) /\ N <= Len(text)
  BY GroupsArePieces DEF Segments
<1>2. PICK g : JoinTurns(g)
  BY SemanticUnfold
<1>3. /\ SemanticChunks = g[N] /\ g[0] = <<>>
      /\ \A n \in 1..N : g[n] = JoinCut(g[n - 1], CutSegment(s[n]))
  BY <1>2 DEF JoinTurns
<1> HIDE DEF s
<1>4. /\ s \in Seq(Nat \X Nat) /\ N \in Nat /\ N > 0
      /\ s[1][1] = 1 /\ s[N][2] = LastPosition
      /\ \A i \in 1..N : Whole(s[i])
      /\ \A i \in 1..(N - 1) : s[i + 1][1] = s[i][2] + 2 /\ s[i][2] + 1 \in Separators
  BY <1>1 DEF Pieces
<1>5. \A i \in 1..N : s[i][2] \in Nat
  BY <1>4, WholeHolds
<1> HIDE DEF N
<1>6. ChunkSize \in Nat /\ MinSize \in Nat /\ Len(text) \in Nat
  BY ChunkingAssumption DEF ChunkingTypeOK
<1>7. \A n \in Nat : B(n) \in Nat /\ ChunkSize <= B(n) /\ B(n + 1) = B(n) + MinSize
  <2>1. ASSUME NEW n \in Nat PROVE n * MinSize \in Nat /\ (n + 1) * MinSize = n * MinSize + MinSize
    BY <1>6
  <2> QED BY <1>6, <2>1
<1> HIDE DEF B
<1>8. \A i \in 1..N : CutUp(CutSegment(s[i]), s[i])
  BY <1>4, CutSegmentHolds
<1> DEFINE S == {n \in Nat : Joined(g[n], s[n][2], B(n))}
<1>9. 1 \in S
  <2>1. 1 \in 1..N /\ 1 - 1 = 0 /\ 0 \in Nat /\ 1 \in Nat /\ 0 + 1 = 1 /\ -1 \in Int /\ 1 = -1 + 2
    BY <1>4
  <2>2. After(g[0], -1, B(0)) /\ B(0) \in Nat /\ ChunkSize <= B(0) /\ B(1) = B(0) + MinSize
    <3>1. B(0) \in Nat /\ ChunkSize <= B(0) /\ B(0 + 1) = B(0) + MinSize
      BY <1>7, <2>1
    <3> QED BY <1>3, <2>1, <3>1 DEF After
  <2>3. g[1] = JoinCut(g[0], CutSegment(s[1])) /\ Whole(s[1]) /\ s[1][1] = -1 + 2
    BY <1>3, <1>4, <2>1
  <2>4. CutUp(CutSegment(s[1]), s[1])
    BY <1>8, <2>1
  <2>5. Joined(JoinCut(g[0], CutSegment(s[1])), s[1][2], B(0) + MinSize)
    BY <2>1, <2>2, <2>3, <2>4, JoinCutHolds
  <2>6. Joined(g[1], s[1][2], B(1))
    BY <2>2, <2>3, <2>5
  <2> QED BY <2>1, <2>6
<1>10. ASSUME NEW n \in 1..(N - 1), n \in S PROVE n + 1 \in S
  <2>1. /\ n \in 1..N /\ n + 1 \in 1..N /\ n \in Nat /\ n + 1 \in Nat /\ (n + 1) - 1 = n
        /\ Joined(g[n], s[n][2], B(n))
    <3>1. Joined(g[n], s[n][2], B(n))
      BY <1>10
    <3>2. n \in 1..N /\ n + 1 \in 1..N /\ n \in Nat /\ n + 1 \in Nat /\ (n + 1) - 1 = n
      <4> HIDE DEF S
      <4>1. N \in Nat /\ n \in 1..(N - 1)
        BY <1>4
      <4> QED BY <4>1
    <3> QED BY <3>1, <3>2
  <2> HIDE DEF S
  <2> DEFINE at == s[n][2]
             c == CutSegment(s[n + 1])
  <2>2. at \in Int /\ s[n + 1][1] = at + 2 /\ at + 1 \in Separators /\ Whole(s[n + 1])
    BY <1>4, <1>5, <2>1
  <2>3. CutUp(c, s[n + 1]) /\ g[n + 1] = JoinCut(g[n], c)
    <3>1. g[n + 1] = JoinCut(g[(n + 1) - 1], CutSegment(s[n + 1]))
      BY <1>3, <2>1
    <3> QED BY <1>8, <2>1, <3>1
  <2>4. After(g[n], at, B(n)) /\ B(n) \in Nat /\ ChunkSize <= B(n) /\ B(n + 1) = B(n) + MinSize
    BY <1>7, <2>1 DEF After
  <2> HIDE DEF at, c
  <2>5. Joined(JoinCut(g[n], c), s[n + 1][2], B(n) + MinSize)
    BY <2>2, <2>3, <2>4, JoinCutHolds
  <2>6. Joined(g[n + 1], s[n + 1][2], B(n + 1))
    BY <2>3, <2>4, <2>5
  <2> QED BY <2>1, <2>6 DEF S
<1> HIDE DEF S
<1>11. N \in S
  <2>1. \A n \in 1..N : n \in S
    BY <1>4, <1>9, <1>10, FromOne
  <2> QED BY <1>4, <2>1
<1>12. Joined(SemanticChunks, LastPosition, B(N))
  BY <1>3, <1>4, <1>11 DEF S
<1>13. B(N) <= ChunkSize + Len(text) * MinSize
  <2>1. PICK k \in Nat : Len(text) = N + k
    <3>1. Len(text) - N \in Nat /\ Len(text) = N + (Len(text) - N)
      BY <1>1, <1>4, <1>6
    <3> QED BY <3>1
  <2>2. Len(text) * MinSize = N * MinSize + k * MinSize /\ k * MinSize \in Nat /\ N * MinSize \in Nat
    BY <1>4, <1>6, <2>1
  <2> QED BY <1>6, <2>2 DEF B
<1> DEFINE c == SemanticChunks
<1>14. /\ c \in Seq(Nat \X Nat) /\ Covers(c, 1, LastPosition)
       /\ \A i \in 1..Len(c) : Extent(c[i]) <= B(N)
  BY <1>12 DEF Joined
<1> HIDE DEF c
<1>15. ASSUME NEW i \in 1..Len(c) PROVE Extent(c[i]) <= ChunkSize + Len(text) * MinSize
  <2>1. c[i] \in Nat \X Nat
    BY <1>14
  <2>2. Extent(c[i]) \in Int
    BY <2>1 DEF Extent
  <2>3. B(N) \in Nat /\ Len(text) * MinSize \in Nat
    <3>1. B(N) \in Nat
      BY <1>4, <1>7
    <3>2. Len(text) * MinSize \in Nat
      BY <1>6
    <3> QED BY <3>1, <3>2
  <2> QED BY <1>6, <1>13, <1>14, <2>2, <2>3
<1> QED BY <1>14, <1>15 DEF c

-----------------------------------------------------------------------------
(* The windows of a page.                                                  *)

\* Where a window begins, and how far it would go on a page without end.
From(n) == 1 + (n - 1) * WindowStep
UpToOf(n) == (n - 1) * WindowStep + ChunkSize

\* A window begins before the one before it ends, and each reaches further.
LEMMA WindowStepHolds ==
  /\ WindowStep \in Nat /\ WindowStep >= 1 /\ WindowStep <= ChunkSize
  /\ ChunkSize \in Nat /\ ChunkSize >= 1 /\ Overlap \in Nat /\ WindowStep = ChunkSize - Overlap
  /\ \A n \in Nat : n >= 1 =>
       /\ From(n) \in Nat /\ From(n) >= 1 /\ UpToOf(n) \in Nat
       /\ UpToOf(n) = From(n) + ChunkSize - 1 /\ UpToOf(n) >= n
       /\ From(n + 1) = UpToOf(n) + 1 - Overlap
<1>1. /\ WindowStep \in Nat /\ WindowStep >= 1 /\ WindowStep <= ChunkSize
      /\ ChunkSize \in Nat /\ ChunkSize >= 1 /\ Overlap \in Nat /\ WindowStep = ChunkSize - Overlap
  BY ChunkingAssumption DEF WindowStep
<1>2. ASSUME NEW n \in Nat, n >= 1
      PROVE  /\ From(n) \in Nat /\ From(n) >= 1 /\ UpToOf(n) \in Nat
             /\ UpToOf(n) = From(n) + ChunkSize - 1 /\ UpToOf(n) >= n
             /\ From(n + 1) = UpToOf(n) + 1 - Overlap
  <2>1. PICK m \in Nat : n = m + 1
    <3>1. n - 1 \in Nat /\ n = (n - 1) + 1
      BY <1>2
    <3> QED BY <3>1
  <2> DEFINE x == m * WindowStep
  <2>2. x \in Nat /\ (m + 1) * WindowStep = x + WindowStep
    BY <1>1
  <2>3. x >= m
    <3>1. PICK w \in Nat : WindowStep = w + 1
      <4>1. WindowStep - 1 \in Nat /\ WindowStep = (WindowStep - 1) + 1
        BY <1>1
      <4> QED BY <4>1
    <3>2. m * (w + 1) = m * w + m /\ m * w \in Nat
      OBVIOUS
    <3> QED BY <3>1, <3>2
  <2>4. From(n) = 1 + x /\ UpToOf(n) = x + ChunkSize
    <3>1. n - 1 = m
      BY <2>1
    <3> QED BY <3>1 DEF From, UpToOf
  <2>5. From(n + 1) = 1 + x + WindowStep
    <3>1. (n + 1) - 1 = m + 1
      BY <2>1
    <3>2. From(n + 1) = 1 + (m + 1) * WindowStep
      BY <3>1 DEF From
    <3> HIDE DEF x
    <3> QED BY <1>1, <2>2, <3>2
  <2> HIDE DEF x
  <2> QED BY <1>1, <2>1, <2>2, <2>3, <2>4, <2>5
<1> QED BY <1>1, <1>2

\* There is a first window that reaches the end of the page.
Reaches(n) ==
  /\ n \in 1..LastPosition /\ UpToOf(n) >= LastPosition
  /\ \A m \in 1..(n - 1) : UpToOf(m) < LastPosition
  /\ Windows = [i \in 1..n |-> Strip(<<From(i), Lesser(UpToOf(i), LastPosition)>>)]

\* The count of Windows is that of the first window that reaches the end.
LEMMA WindowsReach ==
  ASSUME ChunkingTypeOK, text # <<>>
  PROVE  \E n : Reaches(n)
<1> DEFINE L == LastPosition
           Ends(n) == UpToOf(n) >= L /\ \A m \in 1..(n - 1) : UpToOf(m) < L
           T == {n \in 1..L : UpToOf(n) >= L}
           k == CHOOSE n \in 1..L : Ends(n)
<1>1. L \in Nat /\ L >= 1
  BY Between
<1>2. Windows = [i \in 1..k |-> Strip(<<From(i), Lesser(UpToOf(i), L)>>)]
  BY DEF Windows, From, UpToOf
<1> HIDE DEF L
<1>3. T \in SUBSET Nat /\ T # {}
  <2>1. L \in T
    BY <1>1, WindowStepHolds
  <2>2. 1..L \subseteq Nat
    BY <1>1
  <2> QED BY <2>1, <2>2
<1>4. PICK n \in T : \A m \in T : n <= m
  BY <1>3, LeastMember
<1>5. n \in 1..L /\ UpToOf(n) >= L
  BY <1>4
<1>6. ASSUME NEW m \in 1..(n - 1) PROVE UpToOf(m) < L
  <2>1. m \in 1..L /\ ~(n <= m) /\ m \in Nat /\ m >= 1
    BY <1>1, <1>5
  <2>2. m \notin T
    BY <1>4, <2>1
  <2>3. UpToOf(m) \in Nat
    BY <2>1, WindowStepHolds
  <2> QED BY <1>1, <2>1, <2>2, <2>3
<1>7. Ends(n)
  BY <1>5, <1>6
<1> HIDE DEF Ends
<1>8. k \in 1..L /\ Ends(k)
  BY <1>5, <1>7
<1> HIDE DEF k
<1> QED BY <1>2, <1>8 DEF Reaches, Ends, L

\* A window after strip(): bounded, and, but for that of a short page, long
\* enough to be kept.
WindowFits(c) ==
  /\ c \in Nat \X Nat /\ Extent(c) \in Int /\ Extent(c) <= ChunkSize
  /\ LastPosition >= MinBody + 2 => Extent(c) >= MinBody

\* A window is bounded, long enough to be kept, and holds every word it is over.
LEMMA WindowsFit ==
  ASSUME ChunkingTypeOK, text # <<>>, Sized, NEW n, Reaches(n), NEW i \in 1..n
  PROVE  /\ WindowFits(Windows[i])
         /\ \A p \in From(i)..UpToOf(i) : p \notin Separators /\ p <= LastPosition =>
              Windows[i][1] <= p /\ p <= Windows[i][2]
<1> DEFINE L == LastPosition
           hi == Lesser(UpToOf(i), L)
           c == <<From(i), hi>>
           d == Strip(c)
<1>1. L \in Nat /\ L >= 1 /\ L \notin Separators
  <2>1. L \in Nat /\ L >= 1 /\ \A p \in Separators : p < L
    BY Between
  <2> QED BY <2>1
<1>2. n \in 1..L /\ UpToOf(n) >= L /\ (\A m \in 1..(n - 1) : UpToOf(m) < L) /\ Windows[i] = d
  BY DEF Reaches
<1> HIDE DEF L
<1>3. i \in Nat /\ i >= 1 /\ n \in Nat
  BY <1>1, <1>2
<1>4. /\ From(i) \in Nat /\ From(i) >= 1 /\ UpToOf(i) \in Nat /\ UpToOf(i) = From(i) + ChunkSize - 1
      /\ ChunkSize \in Nat /\ Overlap \in Nat /\ ChunkSize >= 1
  BY <1>3, WindowStepHolds
<1>5. hi \in Nat /\ hi <= L /\ hi <= UpToOf(i)
  BY <1>1, <1>4 DEF Lesser
<1>6. c \in Nat \X Nat /\ c[1] = From(i) /\ c[2] = hi
  BY <1>4, <1>5
<1> HIDE DEF hi
<1>7. StripsTo(c, d)
  BY <1>6, StripHolds
<1> HIDE DEF c, d
<1>8. /\ d \in Nat \X Nat /\ d[1] <= From(i) + 1 /\ hi - 1 <= d[2]
      /\ hi \notin Separators => d[2] = hi
      /\ Extent(d) <= Extent(c)
      /\ \A p \in From(i)..hi : p \notin Separators => d[1] <= p /\ p <= d[2]
  BY <1>6, <1>7 DEF StripsTo
<1>9. /\ d[1] \in Nat /\ d[2] \in Nat /\ Extent(d) = d[2] - d[1] + 1
      /\ Extent(c) = hi - From(i) + 1
  BY <1>6, <1>8 DEF Extent
<1>10. MinBody \in Nat /\ MinBody < Overlap /\ Overlap <= ChunkSize \div 2
  BY ChunkingAssumption DEF Sized
<1>11. Overlap + Overlap <= ChunkSize
  BY <1>4, <1>10
<1>12. ASSUME L >= MinBody + 2 PROVE Extent(d) >= MinBody
  <2>1. CASE i < n
    <3>1. i \in 1..(n - 1)
      BY <1>3, <2>1
    <3>2. UpToOf(i) < L
      BY <1>2, <3>1
    <3>3. hi = UpToOf(i)
      BY <1>1, <1>4, <3>2 DEF hi, Lesser
    <3> QED BY <1>4, <1>8, <1>9, <1>10, <1>11, <3>3
  <2>2. CASE i = n
    <3>1. hi = L
      BY <1>1, <1>2, <1>4, <2>2 DEF hi, Lesser
    <3>2. d[2] = L
      BY <1>1, <1>8, <3>1
    <3>3. CASE n = 1
      <4>1. From(i) = 1
        BY <2>2, <3>3, WindowStepHolds DEF From
      <4> QED BY <1>1, <1>8, <1>9, <1>10, <1>12, <3>2, <4>1
    <3>4. CASE n # 1
      <4>1. PICK m \in Nat : m >= 1 /\ n = m + 1 /\ m \in 1..(n - 1)
        <5>1. n - 1 \in Nat /\ n - 1 >= 1 /\ n = (n - 1) + 1 /\ n - 1 \in 1..(n - 1)
          BY <1>2, <1>3, <3>4
        <5> QED BY <5>1
      <4>2. From(n) = UpToOf(m) + 1 - Overlap /\ UpToOf(m) \in Nat
        BY <4>1, WindowStepHolds
      <4>3. UpToOf(m) < L
        BY <1>2, <4>1
      <4> QED BY <1>1, <1>4, <1>8, <1>9, <1>10, <2>2, <3>2, <4>2, <4>3
    <3> QED BY <3>3, <3>4
  <2> QED BY <1>3, <2>1, <2>2
<1>13. Extent(d) <= ChunkSize /\ Extent(d) \in Int
  BY <1>4, <1>5, <1>8, <1>9
<1>14. ASSUME NEW p \in From(i)..UpToOf(i), p \notin Separators, p <= L
       PROVE  d[1] <= p /\ p <= d[2]
  <2>1. p \in From(i)..hi
    BY <1>1, <1>4, <1>14 DEF hi, Lesser
  <2> QED BY <1>8, <1>14, <2>1
<1> QED BY <1>2, <1>8, <1>12, <1>13, <1>14 DEF WindowFits, L

\* The windows of a page.
LEMMA PageHolds ==
  ASSUME ChunkingTypeOK, text # <<>>, Sized
  PROVE  /\ PageChunks \in Seq(Nat \X Nat)
         /\ LastPosition >= MinBody + 2 => Covers(PageChunks, 1, LastPosition)
         /\ \A i \in 1..Len(PageChunks) : Extent(PageChunks[i]) <= ChunkSize
<1> DEFINE L == LastPosition
           w == Windows
           T == {c \in Int \X Int : Extent(c) >= MinBody}
           pc == Those(w, T)
<1>1. L \in Nat /\ L >= 1
  BY Between
<1>2. PICK n : Reaches(n)
  BY WindowsReach
<1>3. n \in 1..L /\ UpToOf(n) >= L /\ Len(w) = n /\ DOMAIN w = 1..n
  <2>1. n \in 1..L /\ UpToOf(n) >= L
    BY <1>2 DEF Reaches
  <2>2. w = [i \in 1..n |-> Strip(<<From(i), Lesser(UpToOf(i), L)>>)]
    BY <1>2 DEF Reaches
  <2>3. n \in Nat
    BY <1>1, <2>1
  <2> HIDE DEF L, w
  <2> QED BY <2>1, <2>2, <2>3
<1>4. \A i \in 1..n : /\ WindowFits(w[i])
                      /\ \A p \in From(i)..UpToOf(i) : p \notin Separators /\ p <= L =>
                           w[i][1] <= p /\ p <= w[i][2]
  BY <1>2, WindowsFit
<1>5. PageChunks = pc
  BY DEF PageChunks
<1>6. w \in Seq(Nat \X Nat)
  <2>1. \A i \in 1..n : w[i] \in Nat \X Nat
    BY <1>4 DEF WindowFits
  <2>2. w = [i \in 1..n |-> w[i]] /\ n \in Nat
    <3>1. w = [i \in 1..n |-> Strip(<<From(i), Lesser(UpToOf(i), L)>>)]
      BY <1>2 DEF Reaches
    <3>2. n \in Nat
      BY <1>1, <1>3
    <3> HIDE DEF w
    <3> QED BY <3>1, <3>2
  <2> HIDE DEF w
  <2> QED BY <2>1, <2>2
<1> HIDE DEF L, w
<1>7. pc \in Seq(Nat \X Nat) /\ ToSet(pc) = ToSet(w) \cap T
  BY <1>6, ThoseHold
<1> HIDE DEF pc
<1>8. ASSUME NEW i \in 1..Len(pc) PROVE Extent(pc[i]) <= ChunkSize
  <2>1. pc[i] \in ToSet(w)
    BY <1>7, Listed
  <2>2. PICK j \in 1..n : w[j] = pc[i]
    BY <1>3, <1>6, <2>1, Listed
  <2> QED BY <1>4, <2>2 DEF WindowFits
<1>9. ASSUME L >= MinBody + 2 PROVE Covers(pc, 1, L)
  <2> SUFFICES ASSUME NEW p \in 1..L, p \notin Separators
               PROVE  \E i \in 1..Len(pc) : pc[i][1] <= p /\ p <= pc[i][2]
    BY DEF Covers
  <2>1. PICK j \in 1..n : From(j) <= p /\ p <= UpToOf(j)
    <3> DEFINE S == {m \in 1..n : UpToOf(m) >= p}
    <3>1. S \in SUBSET Nat /\ S # {}
      <4>1. n \in S
        <5>1. UpToOf(n) \in Nat
          BY <1>1, <1>3, WindowStepHolds
        <5> QED BY <1>1, <1>3, <5>1
      <4>2. 1..n \subseteq Nat
        BY <1>1, <1>3
      <4> QED BY <4>1, <4>2
    <3>2. PICK j \in S : \A m \in S : j <= m
      BY <3>1, LeastMember
    <3>3. j \in 1..n /\ j \in Nat /\ j >= 1 /\ p <= UpToOf(j)
      BY <1>1, <1>3, <3>2, WindowStepHolds
    <3>4. From(j) <= p
      <4>1. CASE j = 1
        <5>1. From(1) = 1
          BY WindowStepHolds DEF From
        <5> QED BY <1>1, <4>1, <5>1
      <4>2. CASE j # 1
        <5>1. PICK m \in Nat : m >= 1 /\ j = m + 1
          <6>1. j - 1 \in Nat /\ j - 1 >= 1 /\ j = (j - 1) + 1
            BY <3>3, <4>2
          <6> QED BY <6>1
        <5>2. m \in 1..n /\ ~(j <= m)
          BY <1>1, <1>3, <3>3, <5>1
        <5>3. ~(UpToOf(m) >= p)
          BY <3>2, <5>2
        <5>4. From(j) = UpToOf(m) + 1 - Overlap /\ UpToOf(m) \in Nat /\ Overlap \in Nat
          BY <5>1, WindowStepHolds
        <5> HIDE DEF S
        <5> QED BY <1>1, <5>3, <5>4
      <4> QED BY <4>1, <4>2
    <3> HIDE DEF S
    <3> QED BY <3>3, <3>4
  <2>2. p \in From(j)..UpToOf(j) /\ p <= L
    <3>1. j \in Nat /\ j >= 1
      BY <1>1, <1>3
    <3>2. From(j) \in Nat /\ UpToOf(j) \in Nat
      BY <3>1, WindowStepHolds
    <3> QED BY <1>1, <2>1, <3>2
  <2>3. w[j][1] <= p /\ p <= w[j][2] /\ WindowFits(w[j])
    BY <1>4, <2>2
  <2>4. w[j] \in Int \X Int /\ Extent(w[j]) >= MinBody
    BY <1>9, <2>3 DEF WindowFits, L
  <2>5. w[j] \in ToSet(w)
    BY <1>3, <1>6, Listed
  <2>6. w[j] \in ToSet(pc)
    BY <1>7, <2>4, <2>5
  <2>7. PICK i \in 1..Len(pc) : pc[i] = w[j]
    BY <1>7, <2>6, Listed
  <2> QED BY <2>3, <2>7
<1> QED BY <1>5, <1>7, <1>8, <1>9 DEF L

-----------------------------------------------------------------------------
(* The rows of a table.                                                    *)

\* The rows of the table go to the groups one by one.
GroupStates == Seq(Seq(Nat))

RowTurns(g) ==
  /\ g[0] = <<>>
  /\ \A n \in 1..Len(Rows) : g[n] = AddRow(g[n - 1], Rows[n])
  /\ \A n \in 0..Len(Rows) : g[n] \in GroupStates
  /\ TableGroups = IF text = <<>> THEN <<>> ELSE IF FitsTable(Rows) THEN <<Rows>> ELSE g[Len(Rows)]

\* A row is added at the end.
LEMMA AddRowHolds ==
  ASSUME NEW v \in GroupStates, NEW k \in Nat
  PROVE  AddRow(v, k) \in GroupStates /\ Flat(AddRow(v, k)) = Append(Flat(v), k)
<1> DEFINE N == Len(v)
           one == <<k>>
<1>1. v \in Seq(Seq(Nat)) /\ N \in Nat /\ one \in Seq(Nat) /\ Flat(v) \in Seq(Nat)
  BY FlatHolds DEF GroupStates
<1>2. Append(v, one) \in Seq(Seq(Nat)) /\ Flat(Append(v, one)) = Flat(v) \o one
  BY <1>1, FlatAppend, AppendProperties
<1>3. Flat(v) \o one = Append(Flat(v), k)
  BY <1>1, AppendIsConcat
<1>4. AddRow(v, k) = IF v = <<>> THEN <<one>>
                     ELSE IF FitsTable(Append(v[N], k)) THEN [v EXCEPT ![N] = Append(v[N], k)]
                     ELSE Append(v, one)
  BY DEF AddRow
<1>5. CASE v = <<>>
  <2>1. <<one>> = Append(v, one)
    BY <1>5
  <2> QED BY <1>2, <1>3, <1>4, <1>5, <2>1 DEF GroupStates
<1>6. CASE v # <<>>
  <2>1. PICK a \in Seq(Seq(Nat)), e \in Seq(Nat) : v = Append(a, e)
    BY <1>1, <1>6, SequenceEmptyOrAppend
  <2>2. /\ N = Len(a) + 1 /\ v[N] = e /\ N \in 1..N /\ Len(a) \in Nat
        /\ \A i \in 1..Len(a) : v[i] = a[i]
    <3>1. /\ Len(v) = Len(a) + 1 /\ v[Len(a) + 1] = e
          /\ \A i \in 1..Len(a) : v[i] = a[i]
      BY <2>1, AppendProperties
    <3>2. Len(a) \in Nat
      BY <2>1
    <3> QED BY <1>1, <3>1, <3>2
  <2> DEFINE f == Append(e, k)
             x == [v EXCEPT ![N] = f]
             y == Append(a, f)
  <2>3. f \in Seq(Nat) /\ f = e \o one
    BY AppendProperties, AppendIsConcat
  <2>4. y \in Seq(Seq(Nat)) /\ Len(y) = N /\ y[N] = f /\ \A i \in 1..Len(a) : y[i] = a[i]
    <3> HIDE DEF f
    <3>1. /\ y \in Seq(Seq(Nat)) /\ Len(y) = Len(a) + 1 /\ y[Len(a) + 1] = f
          /\ \A i \in 1..Len(a) : y[i] = a[i]
      BY <2>1, <2>3, AppendProperties
    <3> QED BY <2>2, <3>1
  <2>5. x = y
    <3>1. DOMAIN v = 1..N /\ \A i \in 1..N : v[i] \in Seq(Nat)
      BY <1>1
    <3> HIDE DEF f, y, N
    <3>2. x = [i \in 1..N |-> IF i = N THEN f ELSE v[i]]
      BY <3>1
    <3> HIDE DEF x
    <3>3. x \in Seq(Seq(Nat)) /\ Len(x) = N
      BY <1>1, <2>3, <3>1, <3>2
    <3>4. ASSUME NEW i \in 1..N PROVE x[i] = y[i]
      <4>1. i \in 1..Len(a) \/ i = N
        BY <1>1, <2>2
      <4>2. x[i] = IF i = N THEN f ELSE v[i]
        BY <3>2
      <4>3. i \in 1..Len(a) => i # N
        BY <2>2
      <4> QED BY <2>2, <2>4, <4>1, <4>2, <4>3
    <3> QED BY <2>4, <3>3, <3>4, SeqEqual
  <2>6. Flat(a) \in Seq(Nat) /\ Flat(v) = Flat(a) \o e /\ Flat(y) = Flat(a) \o f
    <3> HIDE DEF f
    <3>1. Flat(a) \in Seq(Nat) /\ Flat(Append(a, e)) = Flat(a) \o e
      BY <2>1, FlatAppend
    <3>2. Flat(Append(a, f)) = Flat(a) \o f
      BY <2>3, FlatAppend
    <3> QED BY <2>1, <3>1, <3>2
  <2>7. Flat(y) = Flat(v) \o one
    <3>1. (Flat(a) \o e) \o one = Flat(a) \o (e \o one)
      BY <1>1, <2>1, <2>6, ConcatAssociative
    <3> HIDE DEF f, y
    <3> QED BY <2>3, <2>6, <3>1
  <2>8. AddRow(v, k) = y \/ AddRow(v, k) = Append(v, one)
    <3>1. AddRow(v, k) = x \/ AddRow(v, k) = Append(v, one)
      BY <1>4, <1>6, <2>2
    <3> QED BY <2>5, <3>1
  <2> HIDE DEF x, y
  <2> QED BY <1>2, <1>3, <2>4, <2>7, <2>8 DEF GroupStates
<1> QED BY <1>5, <1>6

\* TableGroups takes the rows one by one.
LEMMA RowsUnfold ==
  ASSUME ChunkingTypeOK, text # <<>>
  PROVE  \E g : RowTurns(g)
<1> DEFINE N == Len(Rows)
           V == GroupStates
           Body(g) == [n \in 0..N |-> IF n = 0 THEN <<>> ELSE AddRow(g[n - 1], Rows[n])]
           f == CHOOSE g : g = Body(g)
           G == [n \in 1..N |-> [v \in V |-> AddRow(v, Rows[n])]]
<1>1. TableGroups = IF text = <<>> THEN <<>> ELSE IF FitsTable(Rows) THEN <<Rows>> ELSE f[N]
  BY DEF TableGroups
<1>2. N \in Nat /\ \A n \in 1..N : Rows[n] \in Nat
  BY DEF Rows, ChunkingTypeOK
<1>3. G \in [1..N -> [V -> V]] /\ <<>> \in V
  <2>1. \A n \in 1..N, v \in V : AddRow(v, Rows[n]) \in V
    BY <1>2, AddRowHolds
  <2>2. <<>> \in V
    BY DEF GroupStates
  <2> HIDE DEF V, N
  <2> QED BY <2>1, <2>2
<1> HIDE DEF N, V
<1>4. PICK h \in [0..N -> V] : Recurs(h, N, <<>>, G)
  <2> HIDE DEF G
  <2> QED BY <1>2, <1>3, Recursion, Zenon
<1>5. h = Body(h)
  <2>1. ASSUME NEW n \in 0..N, n # 0
        PROVE  h[n] = AddRow(h[n - 1], Rows[n])
    <3>1. n \in 1..N /\ n - 1 \in 0..N
      BY <1>2, <2>1
    <3> QED BY <1>4, <3>1 DEF Recurs
  <2> QED BY <1>4, <2>1 DEF Recurs
<1>6. f = Body(f)
  <2> HIDE DEF Body
  <2> QED BY <1>5
<1> HIDE DEF f
<1>7. f[0] = <<>> /\ \A n \in 1..N : f[n] = AddRow(f[n - 1], Rows[n])
  <2>1. 0 \in 0..N /\ \A n \in 1..N : n \in 0..N /\ n # 0
    BY <1>2
  <2> QED BY <1>6, <2>1
<1>8. f[0] \in V
  BY <1>3, <1>7
<1>9. ASSUME NEW n \in 1..N, f[n - 1] \in V PROVE f[n] \in V
  BY <1>2, <1>7, <1>9, AddRowHolds DEF V
<1>10. \A n \in 0..N : f[n] \in V
  <2> HIDE DEF V
  <2> QED BY <1>2, <1>8, <1>9, StaysIn
<1> QED BY <1>1, <1>7, <1>10 DEF RowTurns, N, V

\* Every row in one group, and in order.
LEMMA RowsHold ==
  ASSUME ChunkingTypeOK
  PROVE  RowsStayInOrder
<1> SUFFICES ASSUME text # <<>> PROVE Flat(TableGroups) = Rows
  BY DEF RowsStayInOrder
<1> DEFINE N == Len(Rows)
<1>1. Rows \in Seq(Nat) /\ N \in Nat
  BY DEF Rows, ChunkingTypeOK
<1>2. PICK g : RowTurns(g)
  BY RowsUnfold
<1>3. /\ g[0] = <<>>
      /\ \A n \in 1..N : g[n] = AddRow(g[n - 1], Rows[n])
      /\ \A n \in 0..N : g[n] \in GroupStates
  BY <1>2 DEF RowTurns
<1> DEFINE S == {n \in Nat : Flat(g[n]) = SubSeq(Rows, 1, n)}
<1>4. Flat(<<>>) = <<>>
  <2>1. <<>> \in Seq(Seq(Nat)) /\ Len(<<>>) = 0
    OBVIOUS
  <2>2. PICK f : UnfoldsFlat(f, <<>>)
    BY <2>1, FlatUnfold
  <2> QED BY <2>1, <2>2 DEF UnfoldsFlat
<1>5. 0 \in S
  <2>1. SubSeq(Rows, 1, 0) = <<>>
    BY <1>1
  <2> QED BY <1>3, <1>4, <2>1
<1>6. ASSUME NEW n \in 0..(N - 1), n \in S PROVE n + 1 \in S
  <2>1. Flat(g[n]) = SubSeq(Rows, 1, n)
    BY <1>6
  <2> HIDE DEF S
  <2>2. n \in 0..N /\ n + 1 \in 1..N /\ (n + 1) - 1 = n /\ n \in Nat /\ n + 1 \in Nat
    BY <1>1
  <2>3. g[n + 1] = AddRow(g[n], Rows[n + 1]) /\ g[n] \in GroupStates /\ Rows[n + 1] \in Nat
    <3>1. g[n + 1] = AddRow(g[(n + 1) - 1], Rows[n + 1])
      BY <1>3, <2>2
    <3>2. g[n] \in GroupStates
      BY <1>3, <2>2
    <3>3. Rows[n + 1] \in Nat
      BY <1>1, <2>2
    <3> QED BY <2>2, <3>1, <3>2, <3>3
  <2>4. Flat(g[n + 1]) = Append(Flat(g[n]), Rows[n + 1])
    BY <2>3, AddRowHolds
  <2>5. SubSeq(Rows, 1, n + 1) = Append(SubSeq(Rows, 1, n), Rows[n + 1])
    BY <1>1, <2>2
  <2> QED BY <2>1, <2>2, <2>4, <2>5 DEF S
<1>7. N \in S
  <2> HIDE DEF S
  <2>1. \A n \in 0..N : n \in S
    BY <1>1, <1>5, <1>6, UpTo
  <2> QED BY <1>1, <2>1
<1>8. Flat(g[N]) = Rows
  <2>1. SubSeq(Rows, 1, N) = Rows
    BY <1>1
  <2> QED BY <1>7, <2>1
<1>9. Flat(<<Rows>>) = Rows
  <2>1. <<Rows>> = Append(<<>>, Rows) /\ <<>> \in Seq(Seq(Nat))
    OBVIOUS
  <2>2. Flat(Append(<<>>, Rows)) = Flat(<<>>) \o Rows
    BY <1>1, <2>1, FlatAppend
  <2>3. <<>> \o Rows = Rows
    BY <1>1
  <2> QED BY <1>4, <2>1, <2>2, <2>3
<1>10. TableGroups = <<Rows>> \/ TableGroups = g[N]
  BY <1>2 DEF RowTurns
<1> QED BY <1>8, <1>9, <1>10

-----------------------------------------------------------------------------
(* All the strategies together.                                            *)

\* Chunks that cover the text hold all its words.
LEMMA WordsCovered ==
  ASSUME NEW c \in Seq(Nat \X Nat), NEW lo, NEW hi, Covers(c, lo, hi)
  PROVE  lo..hi \ Separators \subseteq Covered(c)
<1> SUFFICES ASSUME NEW p \in lo..hi, p \notin Separators
             PROVE  \E i \in DOMAIN c : p \in c[i][1]..c[i][2]
  BY DEF Covered
<1>1. PICK i \in 1..Len(c) : c[i][1] <= p /\ p <= c[i][2]
  BY DEF Covers
<1>2. i \in DOMAIN c /\ c[i] \in Nat \X Nat
  OBVIOUS
<1>3. c[i][1] \in Nat /\ c[i][2] \in Nat
  BY <1>2
<1>4. p \in Int
  OBVIOUS
<1> QED BY <1>1, <1>2, <1>3, <1>4

\* The longest sentence.
LEMMA LongestHolds ==
  ASSUME ChunkingTypeOK, text # <<>>, NEW n, n = Longest({text[k].length : k \in DOMAIN text})
  PROVE  n \in Nat /\ \A k \in 1..Len(text) : Extent(Sentences[k]) <= n
<1> DEFINE T == {text[k].length : k \in DOMAIN text}
           L == LastPosition
           Top(m) == \A x \in T : x <= m
<1>1. L \in Nat
  BY Between
<1>2. DOMAIN text = 1..Len(text) /\ Len(text) \in Nat /\ Len(text) > 0
  BY DEF ChunkingTypeOK
<1>3. \A k \in 1..Len(text) :
        /\ text[k].length \in 0..L /\ Extent(Sentences[k]) = text[k].length
  <2> TAKE k \in 1..Len(text)
  <2>1. /\ Start(k) \in Nat /\ End(k) \in Nat /\ 1 <= Start(k)
        /\ text[k].length \in Nat /\ End(k) - Start(k) + 1 = text[k].length
    BY Places
  <2>2. End(k) <= L
    BY Between
  <2>3. Sentences[k] = <<Start(k), End(k)>>
    BY SentencesArePieces
  <2>4. Extent(Sentences[k]) = End(k) - Start(k) + 1
    BY <2>3 DEF Extent
  <2> HIDE DEF L
  <2> QED BY <1>1, <2>1, <2>2, <2>4
<1> HIDE DEF L
<1>4. T \in SUBSET (0..L) /\ T # {}
  BY <1>2, <1>3
<1>5. \E x \in T : Top(x)
  BY <1>1, <1>4, GreatestMember
<1>6. n = CHOOSE x \in T : Top(x)
  BY DEF Longest
<1> HIDE DEF Top, T
<1>7. n \in T /\ Top(n)
  BY <1>5, <1>6
<1>8. n \in Nat
  BY <1>1, <1>4, <1>7
<1> QED BY <1>2, <1>3, <1>7, <1>8 DEF Top, T

\* A buffer filled with the pieces of the text.
FillsText(c) == c \in Seq(Nat \X Nat) /\ Words \subseteq Covered(c)

\* Pieces of the whole text, filled, hold all its words.
LEMMA FilledTextHolds ==
  ASSUME ChunkingTypeOK, text # <<>>, NEW s, Pieces(s, 1, LastPosition),
         NEW size \in Nat, NEW overlap \in Nat
  PROVE  FillsText(Fill(s, size, overlap))
<1>1. LastPosition \in Nat /\ \A i \in 1..Len(s) : Extent(s[i]) <= LastPosition
  BY PiecesAreBounded
<1>2. /\ Fill(s, size, overlap) \in Seq(Nat \X Nat)
      /\ Covers(Fill(s, size, overlap), 1, LastPosition)
  BY <1>1, FillHolds
<1> QED BY <1>2, WordsCovered DEF FillsText, Words

\* The sizes are numbers.
LEMMA SizesHold ==
  /\ ChunkSize \in Nat /\ ParentSize \in Nat /\ Overlap \in Nat /\ MinBody \in Nat
  /\ MinSize \in Nat
BY ChunkingAssumption

\* No strategy loses a word of the text (NothingIsLost).
LEMMA WordsAreKept ==
  ASSUME ChunkingTypeOK, Sized
  PROVE  NothingIsLost
<1> SUFFICES ASSUME text # <<>>
             PROVE  /\ FillsText(FineChunks) /\ FillsText(CoarseChunks) /\ FillsText(Parents)
                    /\ FillsText(FallbackChunks)
                    /\ FillsText(DatasheetChunks) /\ FillsText(SemanticChunks)
                    /\ LastPosition >= MinBody + 2 => FillsText(PageChunks)
  BY DEF NothingIsLost, FillsText
<1>1. Pieces(Sentences, 1, LastPosition)
  BY SentencesArePieces
<1>2. Pieces(Sections, 1, LastPosition) /\ Pieces(Paragraphs, 1, LastPosition)
  BY GroupsArePieces DEF Sections, Paragraphs
<1>3. 0 \in Nat
  OBVIOUS
<1>4. FillsText(FineChunks) /\ FillsText(FallbackChunks)
  BY <1>1, <1>3, SizesHold, FilledTextHolds DEF FineChunks, FallbackChunks
<1>5. FillsText(CoarseChunks) /\ FillsText(Parents)
  BY <1>2, <1>3, SizesHold, FilledTextHolds DEF CoarseChunks, Parents
<1>6. FillsText(DatasheetChunks)
  BY DatasheetHolds, WordsCovered DEF FillsText, Words, Sized
<1>7. FillsText(SemanticChunks)
  BY SemanticHolds, WordsCovered DEF FillsText, Words
<1>8. LastPosition >= MinBody + 2 => FillsText(PageChunks)
  BY PageHolds, WordsCovered DEF FillsText, Words
<1> QED BY <1>4, <1>5, <1>6, <1>7, <1>8

\* No chunk outgrows its size (ChunksAreBounded).
LEMMA SizesAreKept ==
  ASSUME ChunkingTypeOK, Sized
  PROVE  ChunksAreBounded
<1> DEFINE sentence == Longest({text[k].length : k \in DOMAIN text})
           c == FineChunks
<1> SUFFICES ASSUME text # <<>>
             PROVE  /\ \A i \in DOMAIN c : Extent(c[i]) <= Greater(ChunkSize, Overlap + 1 + sentence)
                    /\ \A i \in DOMAIN DatasheetChunks : Extent(DatasheetChunks[i]) <= ChunkSize
                    /\ \A i \in DOMAIN SemanticChunks :
                         Extent(SemanticChunks[i]) <= ChunkSize + Len(text) * MinSize
                    /\ \A i \in DOMAIN PageChunks : Extent(PageChunks[i]) <= ChunkSize
  BY DEF ChunksAreBounded
<1>1. /\ c \in Seq(Nat \X Nat)
      /\ \A i \in 1..Len(c) : Extent(c[i]) <= Greater(ChunkSize, Overlap + 1 + sentence)
  <2>1. sentence \in Nat /\ \A k \in 1..Len(text) : Extent(Sentences[k]) <= sentence
    BY LongestHolds
  <2> HIDE DEF sentence
  <2>2. Pieces(Sentences, 1, LastPosition) /\ Len(Sentences) = Len(text)
    BY SentencesArePieces
  <2>3. LastPosition \in Nat
    BY Between
  <2>4. /\ Fill(Sentences, ChunkSize, Overlap) \in Seq(Nat \X Nat)
        /\ \A i \in 1..Len(Fill(Sentences, ChunkSize, Overlap)) :
             ChunkFits(Fill(Sentences, ChunkSize, Overlap)[i], 1, LastPosition,
                       Greater(ChunkSize, Overlap + 1 + sentence), Overlap)
    BY <2>1, <2>2, <2>3, SizesHold, FillHolds
  <2> QED BY <2>4 DEF FineChunks, ChunkFits
<1> HIDE DEF c, sentence
<1>2. DOMAIN c = 1..Len(c)
  BY <1>1
<1>3. \A i \in DOMAIN DatasheetChunks : Extent(DatasheetChunks[i]) <= ChunkSize
  <2>1. DOMAIN DatasheetChunks = 1..Len(DatasheetChunks)
    BY DatasheetHolds DEF Sized
  <2> QED BY <2>1, DatasheetHolds DEF Sized
<1>4. \A i \in DOMAIN SemanticChunks : Extent(SemanticChunks[i]) <= ChunkSize + Len(text) * MinSize
  <2>1. DOMAIN SemanticChunks = 1..Len(SemanticChunks)
    BY SemanticHolds
  <2> QED BY <2>1, SemanticHolds
<1>5. \A i \in DOMAIN PageChunks : Extent(PageChunks[i]) <= ChunkSize
  <2>1. DOMAIN PageChunks = 1..Len(PageChunks)
    BY PageHolds
  <2> QED BY <2>1, PageHolds
<1> QED BY <1>1, <1>2, <1>3, <1>4, <1>5

\* A parent is whole sentences, and an empty text has none.
LEMMA ParentsAreWhole ==
  ASSUME ChunkingTypeOK
  PROVE  /\ text = <<>> => DOMAIN Parents = {}
         /\ text # <<>> => \A i \in DOMAIN Parents : Whole(Parents[i])
<1>1. ASSUME text = <<>> PROVE DOMAIN Parents = {}
  <2>1. Paragraphs = <<>>
    <3>1. PICK g : Grouped(Opening({"paragraph", "heading"})) = g[Len(text)] /\ g[0] = <<>>
      BY GroupedUnfold
    <3>2. Len(text) = 0
      BY <1>1
    <3> QED BY <3>1, <3>2 DEF Paragraphs
  <2>2. <<>> \in Seq(Nat \X Nat) /\ 0 \in Nat /\ Len(<<>>) = 0
    OBVIOUS
  <2>3. PICK g : Fills(g, <<>>, ParentSize, 0)
    BY <2>2, SizesHold, FillUnfold
  <2>4. Close(g[0]) = <<>>
    BY <2>3 DEF Fills, Close
  <2>5. Parents = [i \in DOMAIN <<>> |-> Strip(<<>>[i])]
    BY <2>1, <2>2, <2>3, <2>4 DEF Fills, Parents
  <2> QED BY <2>5
<1>2. ASSUME text # <<>> PROVE \A i \in DOMAIN Parents : Whole(Parents[i])
  <2>1. Pieces(Paragraphs, 1, LastPosition)
    BY <1>2, GroupsArePieces DEF Paragraphs
  <2>2. LastPosition \in Nat /\ \A i \in 1..Len(Paragraphs) : Extent(Paragraphs[i]) <= LastPosition
    BY <1>2, <2>1, PiecesAreBounded
  <2> DEFINE c == Fill(Paragraphs, ParentSize, 0)
             B == Greater(ParentSize, 0 + 1 + LastPosition)
  <2>3. c \in Seq(Nat \X Nat) /\ \A i \in 1..Len(c) : ChunkFits(c[i], 1, LastPosition, B, 0)
    <3>1. 0 \in Nat /\ 1 \in Nat
      OBVIOUS
    <3> QED BY <1>2, <2>1, <2>2, <3>1, SizesHold, FillHolds
  <2> HIDE DEF c
  <2>4. DOMAIN c = 1..Len(c)
    BY <2>3
  <2> QED BY <2>3, <2>4 DEF ChunkFits, Parents, c
<1> QED BY <1>1, <1>2

\* A parent is made up of its children (ChildrenMakeUpTheirParent).
LEMMA ParentsAreMadeUp ==
  ASSUME ChunkingTypeOK
  PROVE  ChildrenMakeUpTheirParent
<1> SUFFICES ASSUME NEW i \in DOMAIN Parents
             PROVE  /\ \A j \in DOMAIN Children(Parents[i]) :
                         /\ Parents[i][1] <= Children(Parents[i])[j][1]
                         /\ Children(Parents[i])[j][2] <= Parents[i][2]
                    /\ Parents[i][1]..Parents[i][2] \ Separators \subseteq Covered(Children(Parents[i]))
  BY DEF ChildrenMakeUpTheirParent
<1> DEFINE p == Parents[i]
           s == Those(Sentences, {x \in Int \X Int : p[1] <= x[1] /\ x[2] <= p[2]})
           c == Fill(s, ChunkSize, Overlap)
           B == Greater(ChunkSize, Overlap + 1 + LastPosition)
<1>1. text # <<>> /\ Whole(p)
  BY ParentsAreWhole
<1>2. Children(p) = c
  BY DEF Children
<1> HIDE DEF p
<1>3. Pieces(s, p[1], p[2])
  BY <1>1, SentencesWithin
<1> HIDE DEF s
<1>4. p[1] \in Nat /\ p[2] \in Nat /\ LastPosition \in Nat
      /\ \A k \in 1..Len(s) : Extent(s[k]) <= LastPosition
  BY <1>1, <1>3, PiecesAreBounded
<1>5. /\ c \in Seq(Nat \X Nat) /\ Covers(c, p[1], p[2])
      /\ \A k \in 1..Len(c) : ChunkFits(c[k], p[1], p[2], B, Overlap)
  BY <1>1, <1>3, <1>4, SizesHold, FillHolds
<1> HIDE DEF c
<1>6. DOMAIN c = 1..Len(c)
  BY <1>5
<1>7. \A j \in DOMAIN c : p[1] <= c[j][1] /\ c[j][2] <= p[2]
  BY <1>5, <1>6 DEF ChunkFits
<1>8. p[1]..p[2] \ Separators \subseteq Covered(c)
  BY <1>5, WordsCovered
<1> QED BY <1>2, <1>7, <1>8 DEF p

\* The text is a list of sentences (Extend).
LEMMA TextTyped == ChunkingSpec => []ChunkingTypeOK
<1>1. ChunkingInit => ChunkingTypeOK
  BY ChunkingAssumption DEF ChunkingInit, ChunkingTypeOK
<1>2. ChunkingTypeOK /\ [ChunkingNext]_text => ChunkingTypeOK'
  <2> SUFFICES ASSUME ChunkingTypeOK, [ChunkingNext]_text PROVE ChunkingTypeOK'
    OBVIOUS
  <2>1. CASE UNCHANGED text
    BY <2>1 DEF ChunkingTypeOK
  <2>2. CASE Extend
    <3> DEFINE S == [length : SentenceLengths, starts : Starts, turns : BOOLEAN]
    <3>1. PICK e \in S : text' = Append(text, e) /\ Len(text) < MaxSentences
      BY <2>2 DEF Extend
    <3> HIDE DEF S
    <3>2. text \in Seq(S) /\ Len(text) \in Nat /\ MaxSentences \in Nat
      BY ChunkingAssumption DEF ChunkingTypeOK, S
    <3>3. Append(text, e) \in Seq(S) /\ Len(Append(text, e)) = Len(text) + 1
      BY <3>1, <3>2, AppendProperties
    <3> QED BY <3>1, <3>2, <3>3 DEF ChunkingTypeOK, S
  <2> QED BY <2>1, <2>2 DEF ChunkingNext
<1> QED BY <1>1, <1>2, PTL DEF ChunkingSpec

\* Chunks make up the document (fine_chunker.py:35-62, datasheet_splitter.py:117-175,
\* semantic_chunker.py:80-170, parent_child_chunker.py:68-139, table_chunker.py:61-83,
\* _chunk_pages of documents.py:357-382): for every text, however long, and all sizes
\* such as those configured, no strategy loses a word, puts rows out of order or lets
\* a chunk outgrow its size, children make up their parent, and every cut gets further.
THEOREM ChunksMakeUp ==
  ASSUME Sized
  PROVE  ChunkingSpec => []ChunksMakeUpTheDocument
<1>1. ASSUME ChunkingTypeOK PROVE ChunksMakeUpTheDocument
  <2>1. NothingIsLost /\ ChunksAreBounded
    BY <1>1, WordsAreKept, SizesAreKept
  <2>2. ChildrenMakeUpTheirParent /\ RowsStayInOrder
    BY <1>1, ParentsAreMadeUp, RowsHold
  <2>3. SplitMakesProgress
    BY <1>1, Progress DEF Sized
  <2> QED BY <1>1, <2>1, <2>2, <2>3 DEF ChunksMakeUpTheDocument
<1>2. ChunkingTypeOK => ChunksMakeUpTheDocument
  BY <1>1
<1> QED BY <1>2, TextTyped, PTL
=================================================================================
