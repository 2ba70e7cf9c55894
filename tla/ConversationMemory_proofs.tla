----------------------- MODULE ConversationMemory_proofs -----------------------
(***************************************************************************)
(* A session keeps what was said, once and in order and within its limits, *)
(* for every number of requests that overlap, every length of turns and    *)
(* every setting of the limits.                                            *)
(***************************************************************************)
EXTENDS ConversationMemory, Lists_proofs

-----------------------------------------------------------------------------
(* What is true of every payload *)

Orderly(turns) ==
  \A k \in 2..Len(turns) :
    turns[k].role = "assistant" => turns[k - 1] = UserTurn(turns[k].of)

PinsKept(p) ==
  \A t \in p.compacted \cap Pinned : t \in ToSet(p.pinned) \/ Len(p.pinned) = PinnedLimit

Tidy(p) ==
  /\ p \in Payload
  /\ IsInjective(p.turns)
  /\ Orderly(p.turns)
  /\ ToSet(p.turns) \cap p.compacted = {}
  /\ PinsKept(p)
  /\ Len(p.pinned) <= PinnedLimit
  /\ Len(p.checkpoints) <= CheckpointLimit

\* and of every payload that was compacted.
Trim(p) == Len(p.turns) <= IF Threshold > MaxTurns THEN Threshold ELSE MaxTurns

\* The constants, one fact each.
LEMMA Limits ==
  /\ MaxTurns \in Nat /\ MaxTurns > 0
  /\ Threshold \in Nat /\ Threshold > 0
  /\ SummaryMax \in Nat /\ SummaryMax > 0
  /\ CheckpointLimit \in Nat /\ CheckpointLimit > 0
  /\ PinnedLimit \in Nat /\ PinnedLimit > 0
  /\ CompactionBudget \in Nat
BY LimitsAssumption

\* The fields of a payload, and a payload made of such fields.
LEMMA PayloadFields ==
  ASSUME NEW p \in Payload
  PROVE  /\ p.kind = "payload" /\ p.turns \in Seq(Turn) /\ p.summary \in 0..SummaryMax
         /\ p.compacted \subseteq Turn /\ p.pinned \in Seq(Turn)
         /\ p.checkpoints \in Seq(Nat)
BY DEF Payload

LEMMA PayloadWithTurns ==
  ASSUME NEW p \in Payload, NEW turns \in Seq(Turn)
  PROVE  /\ [p EXCEPT !.turns = turns] \in Payload
         /\ [p EXCEPT !.turns = turns].turns = turns
         /\ [p EXCEPT !.turns = turns].summary = p.summary
         /\ [p EXCEPT !.turns = turns].compacted = p.compacted
         /\ [p EXCEPT !.turns = turns].pinned = p.pinned
         /\ [p EXCEPT !.turns = turns].checkpoints = p.checkpoints
BY DEF Payload

\* What a value tells of, kind by kind.
LEMMA HeldByPayload ==
  ASSUME NEW p, p.kind = "payload"
  PROVE  Held(p) = ToSet(p.turns) \cup p.compacted
BY DEF Held

\* A slice of turns in order is in order.
LEMMA LastNOrderly ==
  ASSUME NEW s \in Seq(Turn), NEW n \in Nat, Orderly(s)
  PROVE  Orderly(LastN(s, n))
<1> DEFINE l == LastN(s, n)
           d == Len(s) - Len(l)
<1>1. /\ Len(s) \in Nat /\ l \in Seq(Turn)
      /\ Len(l) = IF Len(s) > n THEN n ELSE Len(s)
      /\ \A k \in 1..Len(l) : l[k] = s[d + k]
  BY LastNElements
<1>2. Len(l) \in Nat /\ Len(l) <= Len(s)
  BY <1>1
<1> HIDE DEF l
<1>3. d \in Nat /\ d + Len(l) = Len(s)
  BY <1>1, <1>2
<1> HIDE DEF d
<1> SUFFICES ASSUME NEW k \in 2..Len(l), l[k].role = "assistant"
             PROVE  l[k - 1] = UserTurn(l[k].of)
  BY DEF Orderly, l
<1>4. /\ k \in 1..Len(l) /\ k - 1 \in 1..Len(l) /\ d + k \in 2..Len(s)
      /\ d + (k - 1) = (d + k) - 1
  BY <1>2, <1>3
<1>5. l[k] = s[d + k] /\ l[k - 1] = s[(d + k) - 1]
  BY <1>1, <1>4
<1> QED BY <1>4, <1>5 DEF Orderly

-----------------------------------------------------------------------------
(* Compaction *)

LEMMA Half ==
  ASSUME NEW n \in Nat
  PROVE  n \div 2 \in Nat /\ n \div 2 <= n /\ (n > 0 => n \div 2 < n)
OBVIOUS

\* How much is kept, at least one turn.
LEMMA KeepCountType ==
  ASSUME NEW p \in Payload
  PROVE  /\ KeepCount(p) \in Nat /\ KeepCount(p) > 0
         /\ KeepCount(p) <= MaxTurns
<1>1. Len(p.turns) \in Nat
  BY PayloadFields
<1>2. CASE Len(p.turns) <= MaxTurns /\ EstimatedChars(p) > CompactionBudget
  <2>1. PICK h : h = Len(p.turns) \div 2
    OBVIOUS
  <2>2. h \in Nat /\ h <= Len(p.turns)
    BY <1>1, <2>1, Half
  <2>3. KeepCount(p) = IF h < 1 THEN 1 ELSE h
    BY <1>2, <2>1 DEF KeepCount, AtLeastOne
  <2>4. KeepCount(p) = 1 \/ (KeepCount(p) = h /\ h > 0)
    BY <2>2, <2>3
  <2>5. PICK n \in Nat : n = Len(p.turns) /\ n <= MaxTurns
    BY <1>1, <1>2
  <2> QED BY <2>2, <2>4, <2>5, Limits
<1>3. CASE ~(Len(p.turns) <= MaxTurns /\ EstimatedChars(p) > CompactionBudget)
  <2>1. KeepCount(p) = MaxTurns
    BY <1>3 DEF KeepCount
  <2> QED BY <2>1, Limits
<1> QED BY <1>2, <1>3

\* The pins that come out of a compaction: as many as fit, and all of them
\* unless the list is full.
LEMMA MergedPins ==
  ASSUME NEW pinned \in Seq(Turn), NEW old \in Seq(Turn), Len(pinned) <= PinnedLimit
  PROVE  /\ MergePinned(pinned, old) \in Seq(Turn)
         /\ Len(MergePinned(pinned, old)) <= PinnedLimit
         /\ \/ Len(MergePinned(pinned, old)) = PinnedLimit
            \/ ToSet(MergePinned(pinned, old)) = ToSet(pinned) \cup (ToSet(old) \cap Pinned)
         /\ Len(pinned) <= Len(MergePinned(pinned, old))
<1> DEFINE more == Those(old, Pinned \ ToSet(pinned))
           all == pinned \o more
           m == LastN(all, PinnedLimit)
<1>1. more \in Seq(Turn) /\ ToSet(more) = ToSet(old) \cap (Pinned \ ToSet(pinned))
  BY ThoseHold
<1>2. Len(pinned) \in Nat /\ Len(more) \in Nat
  BY <1>1
<1> HIDE DEF more
<1>3. /\ all \in Seq(Turn) /\ Len(all) = Len(pinned) + Len(more)
      /\ \A i \in 1..Len(all) : all[i] = IF i <= Len(pinned) THEN pinned[i]
                                         ELSE more[i - Len(pinned)]
  BY <1>1, ConcatProperties
<1>4. ToSet(all) = ToSet(pinned) \cup ToSet(more)
  BY <1>1, ConcatHolds
<1> HIDE DEF all
<1>5. /\ m \in Seq(Turn) /\ Len(m) = IF Len(all) > PinnedLimit THEN PinnedLimit ELSE Len(all)
      /\ \A k \in 1..Len(m) : m[k] = all[Len(all) - Len(m) + k]
  BY <1>3, Limits, LastNElements
<1>6. MergePinned(pinned, old) = m
  BY DEF MergePinned, m, all, more
<1>7. Len(m) <= PinnedLimit /\ Len(pinned) <= Len(m)
  BY <1>2, <1>3, <1>5, Limits
<1>8. CASE Len(all) > PinnedLimit
  BY <1>5, <1>6, <1>7, <1>8
<1>9. CASE ~(Len(all) > PinnedLimit)
  <2> HIDE DEF m
  <2>1. Len(m) = Len(all)
    BY <1>5, <1>9
  <2>2. m = all
    <3>1. ASSUME NEW k \in 1..Len(m) PROVE m[k] = all[k]
      <4>1. Len(all) \in Nat /\ Len(all) - Len(m) + k = k
        BY <1>2, <1>3, <2>1
      <4>2. m[k] = all[Len(all) - Len(m) + k]
        BY <1>5
      <4> QED BY <4>1, <4>2
    <3> QED BY <1>3, <1>5, <2>1, <3>1, SeqEqual
  <2> QED BY <1>1, <1>4, <1>5, <1>6, <1>7, <2>2
<1> QED BY <1>8, <1>9

\* A compacted payload has its fields, and is a payload.
LEMMA CompactedFields ==
  ASSUME NEW p \in Payload, NEW n \in 0..SummaryMax, Len(p.pinned) <= PinnedLimit,
         NEW q, q = Compacted(p, n), NEW old, old = AllButLastN(p.turns, KeepCount(p))
  PROVE  /\ q \in Payload
         /\ q.turns = LastN(p.turns, KeepCount(p)) /\ q.summary = n
         /\ q.compacted = p.compacted \cup ToSet(old)
         /\ q.pinned = MergePinned(p.pinned, old)
         /\ q.checkpoints = LastN(Append(p.checkpoints, Len(old)), CheckpointLimit)
         /\ old \in Seq(Turn)
<1>1. /\ p.kind = "payload" /\ p.turns \in Seq(Turn) /\ p.compacted \subseteq Turn
      /\ p.pinned \in Seq(Turn) /\ p.checkpoints \in Seq(Nat)
  BY PayloadFields
<1>2. KeepCount(p) \in Nat
  BY KeepCountType
<1>3. old \in Seq(Turn)
  BY <1>1, <1>2, AllButLastNElements
<1>4. LastN(p.turns, KeepCount(p)) \in Seq(Turn)
  BY <1>1, <1>2, LastNElements
<1>5. ToSet(old) \subseteq Turn
  BY <1>3 DEF ToSet
<1>6. MergePinned(p.pinned, old) \in Seq(Turn)
  BY <1>1, <1>3, MergedPins
<1>7. LastN(Append(p.checkpoints, Len(old)), CheckpointLimit) \in Seq(Nat)
  <2>1. Append(p.checkpoints, Len(old)) \in Seq(Nat)
    BY <1>1, <1>3
  <2> QED BY <2>1, LastNElements, Limits
<1>8. PICK a \in Seq(Turn) : a = LastN(p.turns, KeepCount(p))
  BY <1>4
<1>9. PICK c \in SUBSET Turn : c = p.compacted \cup ToSet(old)
  BY <1>1, <1>5
<1>10. PICK d \in Seq(Turn) : d = MergePinned(p.pinned, old)
  BY <1>6
<1>11. PICK e \in Seq(Nat) : e = LastN(Append(p.checkpoints, Len(old)), CheckpointLimit)
  BY <1>7
<1>12. q = [p EXCEPT !.turns = a, !.summary = n, !.compacted = c, !.pinned = d,
                     !.checkpoints = e]
  BY <1>8, <1>9, <1>10, <1>11 DEF Compacted
<1>13. /\ q \in Payload
       /\ q.turns = a /\ q.summary = n /\ q.compacted = c /\ q.pinned = d
       /\ q.checkpoints = e
  BY <1>12 DEF Payload
<1> QED BY <1>3, <1>8, <1>9, <1>10, <1>11, <1>13

\* Compacting a tidy payload leaves a tidy one, with the same turns told of,
\* and no more of them in full than MaxTurns.
LEMMA CompactedTidy ==
  ASSUME NEW p, Tidy(p), NEW n \in 0..SummaryMax, NEW q, q = Compacted(p, n)
  PROVE  Tidy(q) /\ Len(q.turns) <= MaxTurns /\ Held(q) = Held(p)
<1>1. PICK old : old = AllButLastN(p.turns, KeepCount(p))
  OBVIOUS
<1>2. PICK keep \in Nat : keep = KeepCount(p) /\ keep <= MaxTurns
  BY KeepCountType DEF Tidy
<1>3. /\ p \in Payload /\ p.turns \in Seq(Turn) /\ p.compacted \subseteq Turn
      /\ p.pinned \in Seq(Turn) /\ p.checkpoints \in Seq(Nat)
      /\ Len(p.pinned) <= PinnedLimit /\ p.kind = "payload"
  BY PayloadFields DEF Tidy
<1>4. /\ q \in Payload
      /\ q.turns = LastN(p.turns, keep)
      /\ q.compacted = p.compacted \cup ToSet(old)
      /\ q.pinned = MergePinned(p.pinned, old)
      /\ q.checkpoints = LastN(Append(p.checkpoints, Len(old)), CheckpointLimit)
      /\ old \in Seq(Turn)
      /\ q.kind = "payload"
  BY <1>1, <1>2, <1>3, CompactedFields, PayloadFields
<1>5. /\ ToSet(q.turns) \cup ToSet(old) = ToSet(p.turns)
      /\ ToSet(q.turns) \cap ToSet(old) = {}
      /\ IsInjective(q.turns)
  BY <1>1, <1>2, <1>3, <1>4, SlicesHold DEF Tidy
<1>6. Orderly(q.turns)
  BY <1>3, <1>4, LastNOrderly DEF Tidy
<1>7. ToSet(q.turns) \cap q.compacted = {}
  BY <1>4, <1>5 DEF Tidy
<1>8. Len(q.pinned) <= PinnedLimit
  BY <1>3, <1>4, MergedPins
<1>9. PinsKept(q)
  <2> SUFFICES ASSUME NEW t \in q.compacted \cap Pinned, Len(q.pinned) # PinnedLimit
               PROVE  t \in ToSet(q.pinned)
    BY DEF PinsKept
  <2>1. /\ ToSet(q.pinned) = ToSet(p.pinned) \cup (ToSet(old) \cap Pinned)
        /\ Len(p.pinned) <= Len(q.pinned)
    BY <1>3, <1>4, MergedPins
  <2>2. CASE t \in ToSet(old)
    BY <2>1, <2>2
  <2>3. CASE t \in p.compacted
    <3>1. Len(p.pinned) # PinnedLimit
      <4>1. Len(p.pinned) \in Nat /\ Len(q.pinned) \in Nat
        BY <1>3, <1>4, PayloadFields
      <4> QED BY <1>8, <2>1, <4>1, Limits
    <3> QED BY <2>1, <2>3, <3>1 DEF Tidy, PinsKept
  <2> QED BY <1>4, <2>2, <2>3
<1>10. Len(q.checkpoints) <= CheckpointLimit
  <2>1. Append(p.checkpoints, Len(old)) \in Seq(Nat)
    BY <1>3, <1>4
  <2>2. PICK c \in Seq(Nat) : c = Append(p.checkpoints, Len(old))
    BY <2>1
  <2>3. q.checkpoints = LastN(c, CheckpointLimit)
    BY <1>4, <2>2
  <2>4. CheckpointLimit \in Nat /\ Len(c) \in Nat
    BY <2>2, Limits
  <2>5. Len(LastN(c, CheckpointLimit)) =
          IF Len(c) > CheckpointLimit THEN CheckpointLimit ELSE Len(c)
    BY <2>2, <2>4, LastNElements
  <2> QED BY <2>3, <2>4, <2>5
<1>11. Len(q.turns) <= MaxTurns
  <2>1. Len(q.turns) = IF Len(p.turns) > keep THEN keep ELSE Len(p.turns)
    <3>1. p.turns \in Seq(Turn) /\ q.turns = LastN(p.turns, keep)
      BY <1>3, <1>4
    <3>2. Len(LastN(p.turns, keep)) = IF Len(p.turns) > keep THEN keep ELSE Len(p.turns)
      BY <3>1, LastNElements
    <3> QED BY <3>1, <3>2
  <2>2. Len(p.turns) \in Nat
    BY <1>3
  <2> QED BY <1>2, <2>1, <2>2, Limits
<1>12. Held(q) = Held(p)
  <2>1. Held(q) = ToSet(q.turns) \cup q.compacted /\ Held(p) = ToSet(p.turns) \cup p.compacted
    BY <1>3, <1>4, HeldByPayload
  <2> QED BY <1>4, <1>5, <2>1
<1> QED BY <1>4, <1>5, <1>6, <1>7, <1>8, <1>9, <1>10, <1>11, <1>12 DEF Tidy

\* So does _compress_payload, which may leave it alone: it is trim then.
LEMMA CompressTidy ==
  ASSUME NEW p, Tidy(p), NEW q \in Compress(p)
  PROVE  Tidy(q) /\ Trim(q) /\ Held(q) = Held(p)
<1>1. CASE ShouldCompact(p)
  <2>1. PICK n \in 0..SummaryMax : q = Compacted(p, n)
    BY <1>1 DEF Compress
  <2>2. Tidy(q) /\ Len(q.turns) <= MaxTurns /\ Held(q) = Held(p)
    BY <2>1, CompactedTidy
  <2>3. Len(q.turns) \in Nat
    BY <2>2, PayloadFields DEF Tidy
  <2> QED BY <2>2, <2>3, Limits DEF Trim
<1>2. CASE ~ShouldCompact(p)
  <2>1. q = p
    BY <1>2 DEF Compress
  <2>2. Len(p.turns) \in Nat /\ ~(Len(p.turns) > Threshold)
    BY <1>2, PayloadFields DEF Tidy, ShouldCompact
  <2> QED BY <2>1, <2>2, Limits DEF Trim
<1> QED BY <1>1, <1>2

-----------------------------------------------------------------------------
(* Exchanges *)

\* What is stored of an exchange: its question, and its answer if there is one.
LEMMA ExchangeStored ==
  ASSUME NEW r \in Request, NEW e, e = Stored(Exchange(r))
  PROVE  /\ e \in Seq(Turn)
         /\ Len(e) \in {1, 2}
         /\ e[1] = UserTurn(r)
         /\ Len(e) = 2 => e[2] = AssistantTurn(r)
         /\ ToSet(e) \subseteq {UserTurn(r), AssistantTurn(r)}
         /\ Size(AssistantTurn(r)) > 0 => Len(e) = 2
<1> DEFINE T == {t \in Turn : Size(t) > 0}
           x == Exchange(r)
<1>1. /\ UserTurn(r) \in Turn /\ AssistantTurn(r) \in Turn
      /\ UserTurn(r) # AssistantTurn(r)
      /\ UserTurn(r) \in T
  BY RoleAssumption, LengthAssumption DEF UserTurn, AssistantTurn, Turn, Size
<1>2. /\ x \in Seq(Turn) /\ Len(x) = 2 /\ x[1] = UserTurn(r) /\ x[2] = AssistantTurn(r)
  BY <1>1 DEF Exchange
<1>3. ToSet(x) = {UserTurn(r), AssistantTurn(r)}
  <2>1. DOMAIN x = {1, 2}
    BY <1>2
  <2> QED BY <1>2, <2>1 DEF ToSet
<1>4. e = Those(x, T)
  BY DEF Stored
<1> HIDE DEF x, T
<1>5. e \in Seq(Turn) /\ ToSet(e) = ToSet(x) \cap T /\ Len(e) <= 2
  <2>1. x \in Seq(Turn)
    BY <1>2
  <2>2. /\ Those(x, T) \in Seq(Turn) /\ ToSet(Those(x, T)) = ToSet(x) \cap T
        /\ Len(Those(x, T)) <= Len(x)
    BY <2>1, ThoseHold, Zenon
  <2> QED BY <1>2, <1>4, <2>2
<1>6. PICK g : EmbedsIn(g, e, x)
  BY <1>2, <1>4, ThoseInOrder
<1>7. /\ g \in [1..Len(e) -> 1..2]
      /\ \A i, j \in 1..Len(e) : i < j => g[i] < g[j]
      /\ \A i \in 1..Len(e) : e[i] = x[g[i]]
  BY <1>2, <1>6 DEF EmbedsIn
<1>8. Len(e) \in Nat /\ DOMAIN e = 1..Len(e)
  BY <1>5
<1>9. PICK k \in 1..Len(e) : e[k] = UserTurn(r)
  BY <1>1, <1>3, <1>5, <1>8 DEF ToSet
<1>10. Len(e) \in {1, 2}
  BY <1>5, <1>8, <1>9
<1>11. CASE Len(e) = 1
  <2>1. k = 1
    BY <1>9, <1>11
  <2>2. Size(AssistantTurn(r)) > 0 => FALSE
    <3> SUFFICES ASSUME Size(AssistantTurn(r)) > 0 PROVE FALSE
      OBVIOUS
    <3>1. AssistantTurn(r) \in ToSet(e)
      BY <1>1, <1>3, <1>5 DEF T
    <3>2. PICK j \in 1..Len(e) : e[j] = AssistantTurn(r)
      BY <1>8, <3>1 DEF ToSet
    <3>3. j = 1
      BY <1>11, <3>2
    <3> QED BY <1>1, <1>9, <2>1, <3>2, <3>3
  <2> QED BY <1>3, <1>5, <1>9, <1>10, <1>11, <2>1, <2>2
<1>12. CASE Len(e) = 2
  <2>1. 1 \in 1..Len(e) /\ 2 \in 1..Len(e)
    BY <1>12
  <2>2. g[1] \in 1..2 /\ g[2] \in 1..2 /\ g[1] < g[2]
    BY <1>7, <2>1
  <2>3. g[1] = 1 /\ g[2] = 2
    BY <2>2
  <2>4. e[1] = x[1] /\ e[2] = x[2]
    BY <1>7, <2>1, <2>3
  <2> QED BY <1>2, <1>3, <1>5, <1>12, <2>4
<1> QED BY <1>10, <1>11, <1>12

\* A tidy payload stays tidy with an exchange it does not tell of yet.
LEMMA ExchangeTidy ==
  ASSUME NEW p, Tidy(p), NEW r \in Request,
         UserTurn(r) \notin Held(p), AssistantTurn(r) \notin Held(p),
         NEW turns, turns = p.turns \o Stored(Exchange(r))
  PROVE  /\ Tidy([p EXCEPT !.turns = turns])
         /\ Held([p EXCEPT !.turns = turns]) = Held(p) \cup ToSet(Stored(Exchange(r)))
<1>1. PICK e : e = Stored(Exchange(r))
  OBVIOUS
<1>2. PICK q : q = [p EXCEPT !.turns = turns]
  OBVIOUS
<1>3. /\ e \in Seq(Turn) /\ Len(e) \in {1, 2} /\ e[1] = UserTurn(r)
      /\ Len(e) = 2 => e[2] = AssistantTurn(r)
      /\ ToSet(e) \subseteq {UserTurn(r), AssistantTurn(r)}
  BY <1>1, ExchangeStored
<1>4. /\ p \in Payload /\ p.turns \in Seq(Turn) /\ p.kind = "payload"
      /\ Len(p.turns) \in Nat /\ DOMAIN p.turns = 1..Len(p.turns)
  BY PayloadFields DEF Tidy
<1>5. /\ turns \in Seq(Turn) /\ Len(turns) = Len(p.turns) + Len(e)
      /\ \A i \in 1..(Len(p.turns) + Len(e)) : turns[i] =
           IF i <= Len(p.turns) THEN p.turns[i] ELSE e[i - Len(p.turns)]
      /\ ToSet(turns) = ToSet(p.turns) \cup ToSet(e)
  BY <1>1, <1>3, <1>4, ConcatProperties, ConcatHolds
<1>6. /\ q \in Payload /\ q.turns = turns /\ q.compacted = p.compacted
      /\ q.pinned = p.pinned /\ q.checkpoints = p.checkpoints /\ q.kind = "payload"
  BY <1>2, <1>4, <1>5, PayloadWithTurns, PayloadFields
<1>7. /\ Held(p) = ToSet(p.turns) \cup p.compacted
      /\ Held(q) = ToSet(turns) \cup p.compacted
  BY <1>4, <1>6, HeldByPayload
<1>8. ToSet(e) \cap Held(p) = {}
  BY <1>3
<1>9. Len(turns) \in Nat /\ DOMAIN turns = 1..Len(turns) /\ DOMAIN e = 1..Len(e) /\ Len(e) \in Nat
  BY <1>3, <1>4, <1>5
<1>10. ASSUME NEW i \in 1..Len(turns)
       PROVE  /\ i <= Len(p.turns) => /\ i \in 1..Len(p.turns) /\ turns[i] = p.turns[i]
                                      /\ turns[i] \in ToSet(p.turns)
              /\ ~(i <= Len(p.turns)) =>
                   \/ i = Len(p.turns) + 1 /\ turns[i] = UserTurn(r)
                   \/ i = Len(p.turns) + 2 /\ turns[i] = AssistantTurn(r)
  <2>1. i \in 1..(Len(p.turns) + Len(e))
    BY <1>5
  <2>2. CASE i <= Len(p.turns)
    <3>1. i \in 1..Len(p.turns)
      BY <1>4, <2>2
    <3> QED BY <1>4, <1>5, <2>1, <2>2, <3>1 DEF ToSet
  <2>3. CASE ~(i <= Len(p.turns))
    <3>1. turns[i] = e[i - Len(p.turns)] /\ i - Len(p.turns) \in 1..Len(e)
      BY <1>4, <1>5, <1>9, <2>1, <2>3
    <3>2. CASE i - Len(p.turns) = 1
      <4>1. i = Len(p.turns) + 1
        BY <1>4, <3>2
      <4>2. turns[i] = UserTurn(r)
        BY <1>3, <3>1, <3>2
      <4> QED BY <4>1, <4>2
    <3>3. CASE i - Len(p.turns) = 2 /\ Len(e) = 2
      <4>1. i = Len(p.turns) + 2
        BY <1>4, <3>3
      <4>2. turns[i] = AssistantTurn(r)
        BY <1>3, <3>1, <3>3
      <4> QED BY <4>1, <4>2
    <3>4. i - Len(p.turns) = 1 \/ (i - Len(p.turns) = 2 /\ Len(e) = 2)
      <4>1. CASE Len(e) = 1
        BY <3>1, <4>1
      <4>2. CASE Len(e) = 2
        BY <3>1, <4>2
      <4> QED BY <1>3, <4>1, <4>2
    <3> QED BY <3>2, <3>3, <3>4
  <2> QED BY <2>2, <2>3
<1>11. /\ UserTurn(r) # AssistantTurn(r) /\ UserTurn(r).role # "assistant"
       /\ AssistantTurn(r).of = r
  BY DEF UserTurn, AssistantTurn
<1>12. IsInjective(turns)
  <2> SUFFICES ASSUME NEW i \in 1..Len(turns), NEW j \in 1..Len(turns), turns[i] = turns[j]
               PROVE  i = j
    BY <1>9 DEF IsInjective
  <2>1. UserTurn(r) \notin ToSet(p.turns) /\ AssistantTurn(r) \notin ToSet(p.turns)
    BY <1>7
  <2>2. CASE i <= Len(p.turns) /\ j <= Len(p.turns)
    <3>1. /\ i \in DOMAIN p.turns /\ j \in DOMAIN p.turns
          /\ p.turns[i] = p.turns[j]
      BY <1>4, <1>10, <2>2
    <3> QED BY <3>1 DEF Tidy, IsInjective
  <2>3. CASE i <= Len(p.turns) /\ ~(j <= Len(p.turns))
    <3>1. turns[i] \in ToSet(p.turns)
      BY <1>10, <2>3
    <3>2. turns[j] \in {UserTurn(r), AssistantTurn(r)}
      BY <1>10, <2>3
    <3> QED BY <2>1, <3>1, <3>2
  <2>4. CASE ~(i <= Len(p.turns)) /\ j <= Len(p.turns)
    <3>1. turns[j] \in ToSet(p.turns)
      BY <1>10, <2>4
    <3>2. turns[i] \in {UserTurn(r), AssistantTurn(r)}
      BY <1>10, <2>4
    <3> QED BY <2>1, <3>1, <3>2
  <2>5. CASE ~(i <= Len(p.turns)) /\ ~(j <= Len(p.turns))
    BY <1>10, <1>11, <2>5
  <2> QED BY <2>2, <2>3, <2>4, <2>5
<1>13. Orderly(turns)
  <2> SUFFICES ASSUME NEW k \in 2..Len(turns), turns[k].role = "assistant"
               PROVE  turns[k - 1] = UserTurn(turns[k].of)
    BY DEF Orderly
  <2>1. k \in 1..Len(turns) /\ k - 1 \in 1..Len(turns)
    BY <1>9
  <2>2. CASE k <= Len(p.turns)
    <3>1. /\ k \in 2..Len(p.turns) /\ ~(k = Len(p.turns) + 1) /\ ~(k = Len(p.turns) + 2)
          /\ ~(k - 1 = Len(p.turns) + 1) /\ ~(k - 1 = Len(p.turns) + 2)
      BY <1>4, <2>2
    <3>2. turns[k] = p.turns[k] /\ turns[k - 1] = p.turns[k - 1]
      BY <1>10, <2>1, <3>1
    <3> QED BY <3>1, <3>2 DEF Tidy, Orderly
  <2>3. CASE k = Len(p.turns) + 1
    BY <1>4, <1>10, <1>11, <2>1, <2>3
  <2>4. CASE k = Len(p.turns) + 2
    <3>0. /\ ~(k <= Len(p.turns)) /\ ~(k = Len(p.turns) + 1)
          /\ ~(k - 1 <= Len(p.turns)) /\ ~(k - 1 = Len(p.turns) + 2)
      BY <1>4, <2>4
    <3>1. turns[k] = AssistantTurn(r)
      BY <1>10, <2>1, <3>0
    <3>2. turns[k - 1] = UserTurn(r)
      BY <1>10, <2>1, <3>0
    <3> QED BY <1>11, <3>1, <3>2
  <2> QED BY <1>10, <2>1, <2>2, <2>3, <2>4
<1>14. ToSet(turns) \cap p.compacted = {}
  BY <1>5, <1>7, <1>8 DEF Tidy
<1>15. PinsKept(q)
  BY <1>6 DEF Tidy, PinsKept
<1> QED BY <1>1, <1>2, <1>5, <1>6, <1>7, <1>12, <1>13, <1>14, <1>15 DEF Tidy

-----------------------------------------------------------------------------
(* The list of an older version *)

\* Halving, for the positions of questions and answers.
LEMMA OddAndEven ==
  ASSUME NEW L \in Nat, NEW n \in 1..(2 * L)
  PROVE  /\ n % 2 = 1 => (n + 1) \div 2 \in 1..L /\ n = 2 * ((n + 1) \div 2) - 1
         /\ n % 2 # 1 => n \div 2 \in 1..L /\ n = 2 * (n \div 2)
OBVIOUS

\* A value that may be stored.
Sound(v) ==
  \/ v = Nothing
  \/ Tidy(v) /\ Trim(v)
  \/ v \in List /\ IsInjective(v.turns) /\ Orderly(v.turns)

\* The list tells of every past exchange once, answers after their questions.
LEMMA PastIsSound ==
  /\ PastTurns \in Seq(Turn)
  /\ IsInjective(PastTurns)
  /\ Orderly(PastTurns)
  /\ \A t \in ToSet(PastTurns) :
       t.of \in ToSet(Past) /\ UserTurn(t.of) \in ToSet(PastTurns)
<1> DEFINE L == Len(Past)
           x == [n \in 1..(2 * L) |->
                   IF n % 2 = 1 THEN UserTurn(Past[(n + 1) \div 2])
                   ELSE AssistantTurn(Past[n \div 2])]
           T == {t \in Turn : Size(t) > 0}
           y == Those(x, T)
<1>1. /\ L \in Nat /\ Past \in Seq(Request) /\ DOMAIN Past = 1..L
      /\ \A m \in 1..L : Past[m] \in Request
      /\ \A m, k \in 1..L : Past[m] = Past[k] => m = k
  BY PastAssumption DEF IsInjective
<1>2. PastTurns = y
  BY DEF PastTurns, Stored
<1>3. \A r \in Request : /\ UserTurn(r) \in T /\ UserTurn(r) \in Turn /\ AssistantTurn(r) \in Turn
                         /\ UserTurn(r).of = r /\ AssistantTurn(r).of = r
                         /\ UserTurn(r).role = "user" /\ AssistantTurn(r).role = "assistant"
  BY RoleAssumption, LengthAssumption DEF UserTurn, AssistantTurn, Turn, Size
<1> HIDE DEF T, L
<1>4. ASSUME NEW n \in 1..(2 * L)
      PROVE  \E m \in 1..L : \/ n = 2 * m - 1 /\ x[n] = UserTurn(Past[m])
                             \/ n = 2 * m /\ x[n] = AssistantTurn(Past[m])
  <2>1. CASE n % 2 = 1
    <3>1. PICK m : m = (n + 1) \div 2
      OBVIOUS
    <3>2. m \in 1..L /\ n = 2 * m - 1
      BY <1>1, <2>1, <3>1, OddAndEven
    <3>3. x[n] = UserTurn(Past[m])
      BY <2>1, <3>1
    <3> QED BY <3>2, <3>3
  <2>2. CASE n % 2 # 1
    <3>1. PICK m : m = n \div 2
      OBVIOUS
    <3>2. m \in 1..L /\ n = 2 * m
      BY <1>1, <2>2, <3>1, OddAndEven
    <3>3. x[n] = AssistantTurn(Past[m])
      BY <2>2, <3>1
    <3> QED BY <3>2, <3>3
  <2> QED BY <2>1, <2>2
<1>5. 2 * L \in Nat
  BY <1>1
<1>6. x \in [1..(2 * L) -> Turn]
  <2>1. \A n \in 1..(2 * L) : x[n] \in Turn
    <3> HIDE DEF x
    <3> QED BY <1>1, <1>3, <1>4
  <2> QED BY <2>1
<1> HIDE DEF x
<1>7. x \in Seq(Turn) /\ Len(x) = 2 * L
  BY <1>5, <1>6, IsASeq
<1>8. y \in Seq(Turn) /\ ToSet(y) = ToSet(x) \cap T
  BY <1>7, ThoseHold, Zenon
<1>9. PICK g : EmbedsIn(g, y, x)
  BY <1>7, ThoseInOrder, Zenon
<1> HIDE DEF y
<1>10. /\ g \in [1..Len(y) -> 1..(2 * L)]
       /\ \A i, j \in 1..Len(y) : i < j => g[i] < g[j]
       /\ \A i \in 1..Len(y) : y[i] = x[g[i]]
       /\ Len(y) \in Nat /\ DOMAIN y = 1..Len(y) /\ DOMAIN x = 1..(2 * L)
  BY <1>7, <1>8, <1>9 DEF EmbedsIn
<1>11. ASSUME NEW i \in 1..(2 * L), NEW j \in 1..(2 * L), x[i] = x[j]
       PROVE  i = j
  <2>1. PICK m \in 1..L : \/ i = 2 * m - 1 /\ x[i] = UserTurn(Past[m])
                          \/ i = 2 * m /\ x[i] = AssistantTurn(Past[m])
    BY <1>4
  <2>2. PICK k \in 1..L : \/ j = 2 * k - 1 /\ x[j] = UserTurn(Past[k])
                          \/ j = 2 * k /\ x[j] = AssistantTurn(Past[k])
    BY <1>4
  <2>3. /\ UserTurn(Past[m]).of = Past[m] /\ AssistantTurn(Past[m]).of = Past[m]
        /\ UserTurn(Past[k]).of = Past[k] /\ AssistantTurn(Past[k]).of = Past[k]
        /\ UserTurn(Past[m]) # AssistantTurn(Past[k])
        /\ UserTurn(Past[k]) # AssistantTurn(Past[m])
    BY <1>1, <1>3
  <2>4. Past[m] = Past[k]
    BY <1>11, <2>1, <2>2, <2>3
  <2>5. m = k
    BY <1>1, <2>4
  <2> QED BY <1>11, <2>1, <2>2, <2>3, <2>5
<1>12. IsInjective(y)
  <2> SUFFICES ASSUME NEW i \in 1..Len(y), NEW j \in 1..Len(y), y[i] = y[j]
               PROVE  i = j
    BY <1>10 DEF IsInjective
  <2>1. g[i] \in 1..(2 * L) /\ g[j] \in 1..(2 * L)
    BY <1>10
  <2>2. g[i] = g[j]
    BY <1>10, <1>11, <2>1
  <2>3. ~(i < j) /\ ~(j < i)
    BY <1>10, <2>1, <2>2
  <2> QED BY <1>10, <2>3
<1>13. ASSUME NEW m \in 1..L
       PROVE  /\ 2 * m - 1 \in 1..(2 * L) /\ x[2 * m - 1] = UserTurn(Past[m])
              /\ UserTurn(Past[m]) \in ToSet(y)
  <2>1. 2 * m - 1 \in 1..(2 * L)
    BY <1>1
  <2>2. PICK n \in 1..L : \/ 2 * m - 1 = 2 * n - 1 /\ x[2 * m - 1] = UserTurn(Past[n])
                          \/ 2 * m - 1 = 2 * n /\ x[2 * m - 1] = AssistantTurn(Past[n])
    BY <1>4, <2>1
  <2>3. n = m
    BY <2>2
  <2>4. x[2 * m - 1] = UserTurn(Past[m])
    BY <2>2, <2>3
  <2>5. UserTurn(Past[m]) \in ToSet(x)
    BY <1>10, <2>1, <2>4 DEF ToSet
  <2> QED BY <1>1, <1>3, <1>8, <2>1, <2>4, <2>5
<1>14. Orderly(y)
  <2> SUFFICES ASSUME NEW k \in 2..Len(y), y[k].role = "assistant"
               PROVE  y[k - 1] = UserTurn(y[k].of)
    BY DEF Orderly
  <2>1. k \in 1..Len(y) /\ k - 1 \in 1..Len(y) /\ k - 1 < k
    BY <1>10
  <2>2. g[k] \in 1..(2 * L) /\ g[k - 1] \in 1..(2 * L) /\ g[k - 1] < g[k] /\ y[k] = x[g[k]]
    BY <1>10, <2>1
  <2>3. PICK m \in 1..L : \/ g[k] = 2 * m - 1 /\ x[g[k]] = UserTurn(Past[m])
                          \/ g[k] = 2 * m /\ x[g[k]] = AssistantTurn(Past[m])
    BY <1>4, <2>2
  <2>4. Past[m] \in Request
    BY <1>1
  <2>5. g[k] = 2 * m /\ y[k] = AssistantTurn(Past[m])
    BY <1>3, <2>2, <2>3, <2>4
  <2>6. 2 * m - 1 \in 1..(2 * L) /\ x[2 * m - 1] = UserTurn(Past[m])
    BY <1>13
  <2>7. UserTurn(Past[m]) \in ToSet(y)
    BY <1>13
  <2>9. PICK j \in 1..Len(y) : y[j] = UserTurn(Past[m])
    BY <1>10, <2>7 DEF ToSet
  <2>10. g[j] = 2 * m - 1
    <3>1. g[j] \in 1..(2 * L) /\ x[g[j]] = x[2 * m - 1]
      BY <1>10, <2>6, <2>9
    <3> QED BY <1>11, <2>6, <3>1
  <2>11. j = k - 1
    <3>1. ~(j >= k)
      <4>1. j = k \/ k < j \/ ~(j >= k)
        BY <2>1, <1>10
      <4> QED BY <1>10, <2>1, <2>5, <2>10, <4>1
    <3>2. ~(j < k - 1)
      <4>1. j < k - 1 => g[j] < g[k - 1]
        BY <1>10, <2>1
      <4> QED BY <2>2, <2>5, <2>10, <4>1
    <3> QED BY <1>10, <3>1, <3>2
  <2>12. y[k].of = Past[m]
    BY <1>3, <2>4, <2>5
  <2> QED BY <2>9, <2>11, <2>12
<1>15. ASSUME NEW t \in ToSet(y) PROVE t.of \in ToSet(Past) /\ UserTurn(t.of) \in ToSet(y)
  <2>1. PICK n \in 1..(2 * L) : t = x[n]
    BY <1>8, <1>10 DEF ToSet
  <2>2. PICK m \in 1..L : t = UserTurn(Past[m]) \/ t = AssistantTurn(Past[m])
    BY <1>4, <2>1
  <2>3. t.of = Past[m]
    BY <1>1, <1>3, <2>2
  <2> QED BY <1>1, <1>13, <2>3 DEF ToSet
<1> QED BY <1>2, <1>8, <1>12, <1>14, <1>15

-----------------------------------------------------------------------------
(* The inductive invariant: the store and every request's copy of it are    *)
(* sound and tell only of exchanges that are over, and a request that is     *)
(* about to save tells of all that it loaded.                                *)

Over(r) == pc[r] = "done"

TellsOfOver(v) == \A t \in Held(v) : t \in Turn /\ Over(t.of)

Inv ==
  /\ pc \in [Request -> PC]
  /\ base \in [Request -> {Nothing} \cup Payload \cup List]
  /\ local \in [Request -> Payload]
  /\ Sound(store)
  /\ TellsOfOver(store)
  /\ \A r \in Request : Tidy(local[r]) /\ Trim(local[r]) /\ TellsOfOver(local[r])
  /\ \A r \in Request : pc[r] \in {"migrate", "save"} => Held(base[r]) \subseteq Held(local[r])
  /\ kept \subseteq Held(store)

\* A sound value has one of the three kinds, and the type of it.
LEMMA SoundKinds ==
  ASSUME NEW v, Sound(v)
  PROVE  /\ v \in {Nothing} \cup Payload \cup List
         /\ v.kind = "nothing" => v = Nothing /\ Held(v) = {}
         /\ v.kind = "payload" => Tidy(v) /\ Trim(v)
         /\ v.kind = "list" => v \in List /\ IsInjective(v.turns) /\ Orderly(v.turns)
                               /\ v.turns \in Seq(Turn) /\ Held(v) = ToSet(v.turns)
<1>1. Nothing.kind = "nothing"
  BY DEF Nothing
<1>2. \A p \in Payload : p.kind = "payload"
  BY DEF Payload
<1>3. \A p \in List : p.kind = "list" /\ p.turns \in Seq(Turn)
  BY DEF List
<1>4. CASE v = Nothing
  BY <1>1, <1>4 DEF Held
<1>5. CASE Tidy(v) /\ Trim(v)
  <2>1. v.kind = "payload" /\ v \in Payload
    BY <1>2, <1>5 DEF Tidy
  <2> QED BY <1>5, <2>1
<1>6. CASE v \in List /\ IsInjective(v.turns) /\ Orderly(v.turns)
  <2>1. v.kind = "list" /\ v.turns \in Seq(Turn)
    BY <1>3, <1>6
  <2>2. Held(v) = ToSet(v.turns)
    BY <2>1 DEF Held
  <2> QED BY <1>6, <2>1, <2>2
<1> QED BY <1>4, <1>5, <1>6 DEF Sound

\* The payload of a session that has just begun, and one made of a list.
LEMMA EmptyTidy == Tidy(Empty) /\ Trim(Empty) /\ Held(Empty) = {}
<1>1. Empty \in Payload
  BY Limits DEF Empty, Payload
<1>2. /\ Empty.kind = "payload" /\ Empty.turns = <<>> /\ Empty.compacted = {}
      /\ Empty.pinned = <<>> /\ Empty.checkpoints = <<>>
  BY DEF Empty
<1>3. IsInjective(<<>>) /\ Orderly(<<>>) /\ ToSet(<<>>) = {} /\ Len(<<>>) = 0
  BY DEF IsInjective, Orderly, ToSet
<1>4. Held(Empty) = {}
  BY <1>2, <1>3, HeldByPayload
<1> QED BY <1>1, <1>2, <1>3, <1>4, Limits DEF Tidy, Trim, PinsKept

LEMMA MigratedTidy ==
  ASSUME NEW turns \in Seq(Turn), IsInjective(turns), Orderly(turns)
  PROVE  Tidy([Empty EXCEPT !.turns = turns]) /\ Held([Empty EXCEPT !.turns = turns]) = ToSet(turns)
<1> DEFINE p == [Empty EXCEPT !.turns = turns]
<1>1. Empty \in Payload
  BY EmptyTidy DEF Tidy
<1>2. /\ p \in Payload /\ p.turns = turns /\ p.compacted = {} /\ p.pinned = <<>>
      /\ p.checkpoints = <<>>
  BY <1>1, PayloadWithTurns DEF Empty
<1> HIDE DEF p
<1>3. p.kind = "payload"
  BY <1>2, PayloadFields
<1>4. Held(p) = ToSet(turns)
  BY <1>2, <1>3, HeldByPayload
<1>5. Len(<<>>) = 0
  OBVIOUS
<1> QED BY <1>2, <1>4, <1>5, Limits DEF p, Tidy, PinsKept

\* Inv holds at first.
LEMMA InitInv == Init => Inv
<1> SUFFICES ASSUME Init PROVE Inv
  OBVIOUS
<1>1. /\ pc = [r \in Request |-> IF r \in ToSet(Past) THEN "done" ELSE "start"]
      /\ base = [r \in Request |-> Nothing]
      /\ local = [r \in Request |-> Empty]
      /\ kept = Held(store)
  BY DEF Init
<1>2. /\ PastTurns \in Seq(Turn) /\ IsInjective(PastTurns) /\ Orderly(PastTurns)
      /\ \A t \in ToSet(PastTurns) : t.of \in ToSet(Past)
  BY PastIsSound
<1>3. Sound(store)
  <2>1. CASE store = Nothing
    BY <2>1 DEF Sound
  <2>2. CASE store = [kind |-> "list", turns |-> PastTurns]
    <3>1. store \in List /\ store.turns = PastTurns
      BY <1>2, <2>2 DEF List
    <3> QED BY <1>2, <3>1 DEF Sound
  <2> QED BY <2>1, <2>2 DEF Init
<1>4. TellsOfOver(store)
  <2>1. CASE store = Nothing
    <3>1. Held(store) = {}
      BY <2>1 DEF Held, Nothing
    <3> QED BY <3>1 DEF TellsOfOver
  <2>2. CASE store = [kind |-> "list", turns |-> PastTurns]
    <3>1. store.kind = "list" /\ store.turns = PastTurns
      BY <2>2
    <3>2. Held(store) = ToSet(PastTurns)
      BY <3>1 DEF Held
    <3>3. ToSet(PastTurns) \subseteq Turn
      BY <1>2 DEF ToSet
    <3>4. ASSUME NEW t \in ToSet(PastTurns) PROVE t \in Turn /\ Over(t.of)
      <4>1. t \in Turn /\ t.of \in Request /\ t.of \in ToSet(Past)
        BY <1>2, <3>3 DEF Turn
      <4> QED BY <1>1, <4>1 DEF Over
    <3> QED BY <3>2, <3>4 DEF TellsOfOver
  <2> QED BY <2>1, <2>2 DEF Init
<1>5. \A r \in Request : Tidy(local[r]) /\ Trim(local[r]) /\ TellsOfOver(local[r])
  BY <1>1, EmptyTidy DEF TellsOfOver
<1>6. \A r \in Request : pc[r] \notin {"migrate", "save"}
  BY <1>1
<1>7. /\ pc \in [Request -> PC]
      /\ base \in [Request -> {Nothing} \cup Payload \cup List]
      /\ local \in [Request -> Payload]
  BY <1>1, EmptyTidy DEF PC, Tidy
<1> QED BY <1>1, <1>3, <1>4, <1>5, <1>6, <1>7 DEF Inv

\* What is over stays over, and so do the turns that tell of it.
LEMMA OverStays ==
  ASSUME Inv, NEW r \in Request, NEW x \in PC, x = "done" \/ pc[r] # "done",
         pc' = [pc EXCEPT ![r] = x]
  PROVE  /\ pc' \in [Request -> PC]
         /\ pc'[r] = x
         /\ \A q \in Request : q # r => pc'[q] = pc[q]
         /\ \A q \in Request : Over(q) => Over(q)'
         /\ \A v : TellsOfOver(v) => \A t \in Held(v) : t \in Turn /\ Over(t.of)'
<1>1. /\ pc' \in [Request -> PC] /\ pc'[r] = x
      /\ \A q \in Request : q # r => pc'[q] = pc[q]
  BY DEF Inv
<1>2. \A q \in Request : Over(q) => Over(q)'
  BY <1>1 DEF Over
<1>3. \A t \in Turn : t.of \in Request
  BY DEF Turn
<1> QED BY <1>1, <1>2, <1>3 DEF TellsOfOver

\* A load keeps Inv: what it takes into its request is tidy and trim, and
\* tells of all that was stored.
LEMMA LoadKeeps ==
  ASSUME Inv, NEW r \in Request, NEW loaded \in {"answer", "save"}, pc[r] # "done",
         Load(r, loaded)
  PROVE  Inv'
<1>1. PICK x \in {loaded, "migrate"}, p \in Payload :
        /\ pc' = [pc EXCEPT ![r] = x]
        /\ local' = [local EXCEPT ![r] = p]
        /\ Tidy(p) /\ Trim(p) /\ Held(p) = Held(store)
  <2>1. CASE store.kind = "nothing"
    <3>1. Held(store) = {} /\ Held(Empty) = {}
      BY <2>1, SoundKinds, EmptyTidy DEF Inv
    <3> QED BY <2>1, <3>1, EmptyTidy DEF Load, Tidy
  <2>2. CASE store.kind = "payload"
    BY <2>2, SoundKinds DEF Inv, Load, Tidy
  <2>3. CASE store.kind = "list"
    <3>1. /\ store.turns \in Seq(Turn) /\ IsInjective(store.turns) /\ Orderly(store.turns)
          /\ Held(store) = ToSet(store.turns)
      BY <2>3, SoundKinds DEF Inv
    <3>2. PICK q : q = [Empty EXCEPT !.turns = store.turns]
      OBVIOUS
    <3>3. Tidy(q) /\ Held(q) = Held(store)
      BY <3>1, <3>2, MigratedTidy
    <3>4. PICK p \in Compress(q) : local' = [local EXCEPT ![r] = p]
      BY <2>3, <3>2 DEF Load
    <3>5. Tidy(p) /\ Trim(p) /\ Held(p) = Held(store)
      BY <3>3, <3>4, CompressTidy
    <3>6. pc' = [pc EXCEPT ![r] = "migrate"] /\ p \in Payload
      BY <2>3, <3>5 DEF Load, Tidy
    <3> QED BY <3>4, <3>5, <3>6
  <2> QED BY <2>1, <2>2, <2>3 DEF Load
<1>2. base' = [base EXCEPT ![r] = store] /\ store' = store /\ kept' = kept
  BY DEF Load
<1>3. x \in PC
  BY DEF PC
<1>4. /\ pc' \in [Request -> PC] /\ pc'[r] = x
      /\ \A q \in Request : q # r => pc'[q] = pc[q]
      /\ \A q \in Request : Over(q) => Over(q)'
      /\ \A v : TellsOfOver(v) => \A t \in Held(v) : t \in Turn /\ Over(t.of)'
  BY <1>1, <1>3, OverStays
<1>5. /\ base' \in [Request -> {Nothing} \cup Payload \cup List] /\ base'[r] = store
      /\ \A q \in Request : q # r => base'[q] = base[q]
  BY <1>2, SoundKinds DEF Inv
<1>6. /\ local' \in [Request -> Payload] /\ local'[r] = p
      /\ \A q \in Request : q # r => local'[q] = local[q]
  BY <1>1 DEF Inv, Tidy
<1>7. TellsOfOver(store)'
  BY <1>2, <1>4 DEF Inv, TellsOfOver
<1>8. ASSUME NEW q \in Request
      PROVE  /\ Tidy(local'[q]) /\ Trim(local'[q])
             /\ \A t \in Held(local'[q]) : t \in Turn /\ Over(t.of)'
  <2>1. CASE q = r
    BY <1>1, <1>4, <1>6, <2>1 DEF Inv
  <2>2. CASE q # r
    BY <1>4, <1>6, <2>2 DEF Inv
  <2> QED BY <2>1, <2>2
<1>9. ASSUME NEW q \in Request, pc'[q] \in {"migrate", "save"}
      PROVE  Held(base'[q]) \subseteq Held(local'[q])
  <2>1. CASE q = r
    BY <1>1, <1>5, <1>6, <2>1
  <2>2. CASE q # r
    BY <1>4, <1>5, <1>6, <1>9, <2>2 DEF Inv
  <2> QED BY <2>1, <2>2
<1>10. Sound(store)' /\ (kept \subseteq Held(store))'
  BY <1>2 DEF Inv
<1>11. \A q \in Request : (Tidy(local[q]) /\ Trim(local[q]) /\ TellsOfOver(local[q]))'
  BY <1>8 DEF TellsOfOver
<1> QED BY <1>4, <1>5, <1>6, <1>7, <1>9, <1>10, <1>11 DEF Inv

\* So does a save of a payload that tells of all that was loaded, and else
\* only of exchanges that are over.
LEMMA SaveKeeps ==
  ASSUME Inv, NEW r \in Request, NEW x \in {"answer", "done"}, pc[r] # "done",
         pc' = [pc EXCEPT ![r] = x],
         NEW p, Tidy(p), Trim(p), NEW new, Save(r, p, new),
         Held(base[r]) \subseteq Held(p), new \subseteq Held(p),
         \A t \in Held(p) : t \in Turn /\ Over(t.of)'
  PROVE  Inv'
<1>1. /\ store' = p
      /\ base' = [base EXCEPT ![r] = p]
      /\ local' = [local EXCEPT ![r] = p]
      /\ kept' = (kept \ (Held(store) \ Held(base[r]))) \cup new
  BY DEF Save
<1>2. x \in PC
  BY DEF PC
<1>3. /\ pc' \in [Request -> PC] /\ pc'[r] = x
      /\ \A q \in Request : q # r => pc'[q] = pc[q]
      /\ \A q \in Request : Over(q) => Over(q)'
      /\ \A v : TellsOfOver(v) => \A t \in Held(v) : t \in Turn /\ Over(t.of)'
  BY <1>2, OverStays
<1>4. /\ base' \in [Request -> {Nothing} \cup Payload \cup List] /\ base'[r] = p
      /\ \A q \in Request : q # r => base'[q] = base[q]
      /\ local' \in [Request -> Payload] /\ local'[r] = p
      /\ \A q \in Request : q # r => local'[q] = local[q]
  BY <1>1 DEF Inv, Tidy
<1>5. Sound(store)' /\ TellsOfOver(store)'
  BY <1>1 DEF Sound, TellsOfOver
<1>6. (kept \subseteq Held(store))'
  <2>1. kept \subseteq Held(store)
    BY DEF Inv
  <2>2. kept' \subseteq Held(p)
    BY <1>1, <2>1
  <2> QED BY <1>1, <2>2
<1>7. ASSUME NEW q \in Request
      PROVE  /\ Tidy(local'[q]) /\ Trim(local'[q])
             /\ \A t \in Held(local'[q]) : t \in Turn /\ Over(t.of)'
  <2>1. CASE q = r
    BY <1>4, <2>1
  <2>2. CASE q # r
    BY <1>3, <1>4, <2>2 DEF Inv
  <2> QED BY <2>1, <2>2
<1>8. \A q \in Request : (Tidy(local[q]) /\ Trim(local[q]) /\ TellsOfOver(local[q]))'
  BY <1>7 DEF TellsOfOver
<1>9. ASSUME NEW q \in Request, pc'[q] \in {"migrate", "save"}
      PROVE  Held(base'[q]) \subseteq Held(local'[q])
  <2>1. CASE q = r
    BY <1>3, <1>9, <2>1
  <2>2. CASE q # r
    BY <1>3, <1>4, <1>9, <2>2 DEF Inv
  <2> QED BY <2>1, <2>2
<1> QED BY <1>3, <1>4, <1>5, <1>6, <1>8, <1>9 DEF Inv

\* The exchange that append_exchange adds is not told of yet: its request is
\* not over.
LEMMA AppendKeeps ==
  ASSUME Inv, NEW r \in Request, AppendSave(r)
  PROVE  Inv'
<1>1. PICK turns : turns = local[r].turns \o Stored(Exchange(r))
  OBVIOUS
<1>2. PICK q : q = [local[r] EXCEPT !.turns = turns]
  OBVIOUS
<1>3. PICK p \in Compress(q) : Save(r, p, ToSet(Stored(Exchange(r))))
  BY <1>1, <1>2 DEF AppendSave
<1>4. /\ pc[r] = "save" /\ pc[r] # "done" /\ pc' = [pc EXCEPT ![r] = "done"]
      /\ Tidy(local[r]) /\ TellsOfOver(local[r])
      /\ Held(base[r]) \subseteq Held(local[r])
  BY DEF AppendSave, Inv
<1>5. UserTurn(r).of = r /\ AssistantTurn(r).of = r
  BY DEF UserTurn, AssistantTurn
<1>6. UserTurn(r) \notin Held(local[r]) /\ AssistantTurn(r) \notin Held(local[r])
  BY <1>4, <1>5 DEF TellsOfOver, Over
<1>7. Tidy(q) /\ Held(q) = Held(local[r]) \cup ToSet(Stored(Exchange(r)))
  BY <1>1, <1>2, <1>4, <1>6, ExchangeTidy
<1>8. Tidy(p) /\ Trim(p) /\ Held(p) = Held(local[r]) \cup ToSet(Stored(Exchange(r)))
  BY <1>3, <1>7, CompressTidy
<1>9. "done" \in PC
  BY DEF PC
<1>10. /\ pc'[r] = "done"
       /\ \A v : TellsOfOver(v) => \A t \in Held(v) : t \in Turn /\ Over(t.of)'
  BY <1>4, <1>9, OverStays
<1>11. ASSUME NEW t \in Held(p) PROVE t \in Turn /\ Over(t.of)'
  <2>1. CASE t \in Held(local[r])
    BY <1>4, <1>10, <2>1
  <2>2. CASE t \in ToSet(Stored(Exchange(r)))
    <3>1. t \in {UserTurn(r), AssistantTurn(r)}
      BY <2>2, ExchangeStored
    <3>2. t \in Turn
      BY <3>1, RoleAssumption DEF UserTurn, AssistantTurn, Turn
    <3> QED BY <1>5, <1>10, <3>1, <3>2 DEF Over
  <2> QED BY <1>8, <2>1, <2>2
<1>12. Held(base[r]) \subseteq Held(p) /\ ToSet(Stored(Exchange(r))) \subseteq Held(p)
  BY <1>4, <1>8
<1>13. PICK new : new = ToSet(Stored(Exchange(r)))
  OBVIOUS
<1> QED BY <1>3, <1>4, <1>8, <1>11, <1>12, <1>13, SaveKeeps

\* Every step keeps Inv.
LEMMA StepInv == Inv /\ [Next]_vars => Inv'
<1> SUFFICES ASSUME Inv, [Next]_vars PROVE Inv'
  OBVIOUS
<1>1. CASE Expire
  <2>1. store' = Nothing /\ kept' = {} /\ pc' = pc /\ base' = base /\ local' = local
    BY <1>1 DEF Expire
  <2>2. Held(Nothing) = {}
    BY DEF Held, Nothing
  <2> QED BY <2>1, <2>2 DEF Inv, Sound, TellsOfOver, Over
<1>2. ASSUME NEW r \in Request, LoadContext(r) PROVE Inv'
  <2>1. pc[r] # "done" /\ Load(r, "answer") /\ "answer" \in {"answer", "save"}
    BY <1>2 DEF LoadContext
  <2> QED BY <2>1, LoadKeeps
<1>3. ASSUME NEW r \in Request, AppendLoad(r) PROVE Inv'
  <2>1. pc[r] # "done" /\ Load(r, "save") /\ "save" \in {"answer", "save"}
    BY <1>3 DEF AppendLoad
  <2> QED BY <2>1, LoadKeeps
<1>4. ASSUME NEW r \in Request, Migrate(r) PROVE Inv'
  <2>1. /\ pc[r] = "migrate" /\ pc[r] # "done" /\ pc' = [pc EXCEPT ![r] = "answer"]
        /\ Save(r, local[r], {})
    BY <1>4 DEF Migrate
  <2>2. /\ Tidy(local[r]) /\ Trim(local[r]) /\ TellsOfOver(local[r])
        /\ Held(base[r]) \subseteq Held(local[r])
    BY <2>1 DEF Inv
  <2>3. "answer" \in PC
    BY DEF PC
  <2>4. \A t \in Held(local[r]) : t \in Turn /\ Over(t.of)'
    BY <2>1, <2>2, <2>3, OverStays
  <2>5. PICK p, new : p = local[r] /\ new = {}
    OBVIOUS
  <2>6. "answer" \in {"answer", "done"} /\ new \subseteq Held(p)
    BY <2>5
  <2> QED BY <2>1, <2>2, <2>4, <2>5, <2>6, SaveKeeps
<1>5. ASSUME NEW r \in Request, AppendSave(r) PROVE Inv'
  BY <1>5, AppendKeeps
<1>6. ASSUME NEW r \in Request, Abandon(r) PROVE Inv'
  <2>1. /\ pc' = [pc EXCEPT ![r] = "done"] /\ store' = store /\ base' = base
        /\ local' = local /\ kept' = kept
    BY <1>6 DEF Abandon
  <2>2. "done" \in PC
    BY DEF PC
  <2>3. /\ pc' \in [Request -> PC] /\ pc'[r] = "done"
        /\ \A q \in Request : q # r => pc'[q] = pc[q]
        /\ \A v : TellsOfOver(v) => \A t \in Held(v) : t \in Turn /\ Over(t.of)'
    BY <2>1, <2>2, OverStays
  <2>4. TellsOfOver(store)' /\ \A q \in Request : TellsOfOver(local[q])'
    BY <2>1, <2>3 DEF Inv, TellsOfOver
  <2>5. ASSUME NEW q \in Request, pc'[q] \in {"migrate", "save"}
        PROVE  pc[q] \in {"migrate", "save"}
    BY <2>3, <2>5
  <2> QED BY <2>1, <2>3, <2>4, <2>5 DEF Inv
<1>7. CASE UNCHANGED vars
  BY <1>7 DEF vars, Inv, TellsOfOver, Over
<1> QED BY <1>1, <1>2, <1>3, <1>4, <1>5, <1>6, <1>7 DEF Next, Step

LEMMA InvIsInvariant == Spec => []Inv
BY InitInv, StepInv, PTL DEF Spec

-----------------------------------------------------------------------------
(* Compactions take something away *)

\* While a compaction is not asked for before there is anything to remove, and
\* no question alone exceeds the budget.  The defaults are 10 and 10 turns,
\* 8000 characters.
Worthwhile ==
  /\ MaxTurns <= Threshold
  /\ \A r \in Request : Length[r]["user"] <= CompactionBudget

Real(p) ==
  /\ \A n \in DOMAIN p.checkpoints : p.checkpoints[n] > 0
  /\ Len(p.turns) = 0 => p.summary = 0

\* What one turn, and what none, adds to the estimate.
LEMMA EstimateShort ==
  ASSUME NEW p \in Payload
  PROVE  /\ Len(p.turns) = 0 => EstimatedChars(p) = p.summary
         /\ Len(p.turns) = 1 => EstimatedChars(p) = p.summary + Size(p.turns[1])
<1> DEFINE sizes == [n \in DOMAIN p.turns |-> Size(p.turns[n])]
<1>1. /\ p.turns \in Seq(Turn) /\ DOMAIN p.turns = 1..Len(p.turns) /\ Len(p.turns) \in Nat
      /\ p.summary \in Nat
  BY PayloadFields, Limits
<1>2. \A t \in Turn : Size(t) \in Nat
  BY LengthAssumption DEF Turn, Size
<1>3. sizes \in [1..Len(p.turns) -> Nat]
  BY <1>1, <1>2
<1>4. sizes \in Seq(Nat) /\ Len(sizes) = Len(p.turns)
  BY <1>1, <1>3, IsASeq
<1>5. Len(p.turns) = 1 => sizes[1] = Size(p.turns[1])
  BY <1>1
<1>6. EstimatedChars(p) = p.summary + Added(sizes)
  BY DEF EstimatedChars, Total
<1> HIDE DEF sizes
<1>7. /\ Len(sizes) = 0 => Added(sizes) = 0
      /\ Len(sizes) = 1 => Added(sizes) = sizes[1]
  BY <1>4, AddedShort
<1> QED BY <1>1, <1>4, <1>5, <1>6, <1>7

\* A compaction that is asked for keeps less than there is.
LEMMA CompactionRemoves ==
  ASSUME Worthwhile, NEW p \in Payload, ShouldCompact(p),
         Len(p.turns) <= 1 => ~(EstimatedChars(p) > CompactionBudget)
  PROVE  KeepCount(p) < Len(p.turns)
<1>1. PICK n \in Nat : n = Len(p.turns)
  BY PayloadFields
<1>2. MaxTurns \in Nat /\ Threshold \in Nat /\ MaxTurns <= Threshold
  BY Limits DEF Worthwhile
<1>3. CASE n <= MaxTurns
  <2>1. EstimatedChars(p) > CompactionBudget
    BY <1>1, <1>2, <1>3 DEF ShouldCompact
  <2>2. n > 1
    BY <1>1, <2>1
  <2>3. PICK h : h = n \div 2
    OBVIOUS
  <2>4. h \in Nat /\ h < n
    BY <2>2, <2>3, Half
  <2>5. KeepCount(p) = IF h < 1 THEN 1 ELSE h
    BY <1>1, <1>3, <2>1, <2>3 DEF KeepCount, AtLeastOne
  <2> QED BY <1>1, <2>2, <2>4, <2>5
<1>4. CASE ~(n <= MaxTurns)
  <2>1. KeepCount(p) = MaxTurns
    BY <1>1, <1>4 DEF KeepCount
  <2> QED BY <1>1, <1>2, <1>4, <2>1
<1> QED BY <1>3, <1>4

\* So what _compress_payload returns has only checkpoints of turns removed.
LEMMA CompressReal ==
  ASSUME Worthwhile, NEW p, Tidy(p), Real(p), NEW q \in Compress(p),
         Len(p.turns) <= 1 => ~(EstimatedChars(p) > CompactionBudget)
  PROVE  Real(q)
<1>1. CASE ~ShouldCompact(p)
  BY <1>1 DEF Compress
<1>2. CASE ShouldCompact(p)
  <2>1. p \in Payload /\ Len(p.pinned) <= PinnedLimit
    BY DEF Tidy
  <2>2. PICK n \in 0..SummaryMax : q = Compacted(p, n)
    BY <1>2, <2>1, PayloadFields DEF Compress
  <2>3. PICK old : old = AllButLastN(p.turns, KeepCount(p))
    OBVIOUS
  <2>4. /\ q.turns = LastN(p.turns, KeepCount(p))
        /\ q.checkpoints = LastN(Append(p.checkpoints, Len(old)), CheckpointLimit)
        /\ old \in Seq(Turn)
    BY <2>1, <2>2, <2>3, CompactedFields
  <2>5. /\ KeepCount(p) \in Nat /\ KeepCount(p) > 0 /\ KeepCount(p) < Len(p.turns)
        /\ p.turns \in Seq(Turn) /\ Len(p.turns) \in Nat /\ p.checkpoints \in Seq(Nat)
    BY <1>2, <2>1, KeepCountType, CompactionRemoves, PayloadFields
  <2>6. Len(old) = Len(p.turns) - KeepCount(p)
    BY <2>3, <2>5, AllButLastNElements
  <2>7. Len(q.turns) = KeepCount(p)
    BY <2>4, <2>5, LastNElements
  <2>8. PICK k : k = Len(old)
    OBVIOUS
  <2>9. k \in Nat /\ k > 0
    BY <2>5, <2>6, <2>8
  <2>10. PICK c \in Seq(Nat) : c = Append(p.checkpoints, k)
    <3>1. p.checkpoints \in Seq(Nat) /\ k \in Nat
      BY <2>5, <2>9
    <3>2. Append(p.checkpoints, k) \in Seq(Nat)
      BY <3>1, AppendProperties
    <3> QED BY <3>2
  <2>11. ASSUME NEW i \in 1..Len(c) PROVE c[i] > 0
    <3>1. /\ Len(c) = Len(p.checkpoints) + 1 /\ c[Len(p.checkpoints) + 1] = k
          /\ \A j \in 1..Len(p.checkpoints) : c[j] = p.checkpoints[j]
          /\ Len(p.checkpoints) \in Nat /\ DOMAIN p.checkpoints = 1..Len(p.checkpoints)
      BY <2>5, <2>9, <2>10, AppendProperties
    <3>2. CASE i = Len(p.checkpoints) + 1
      BY <2>9, <3>1, <3>2
    <3>3. CASE i \in 1..Len(p.checkpoints)
      BY <3>1, <3>3 DEF Real
    <3> QED BY <3>1, <3>2, <3>3
  <2>12. q.checkpoints = LastN(c, CheckpointLimit)
    BY <2>4, <2>8, <2>10
  <2>13. PICK l : l = q.checkpoints
    OBVIOUS
  <2>14. /\ l \in Seq(Nat) /\ Len(l) = IF Len(c) > CheckpointLimit THEN CheckpointLimit ELSE Len(c)
         /\ \A i \in 1..Len(l) : l[i] = c[Len(c) - Len(l) + i]
    BY <2>12, <2>13, LastNElements, Limits
  <2>15. Len(c) \in Nat /\ Len(l) \in Nat /\ Len(l) <= Len(c) /\ DOMAIN l = 1..Len(l)
    BY <2>14, Limits
  <2>16. ASSUME NEW i \in 1..Len(l) PROVE l[i] > 0
    <3>1. Len(c) - Len(l) + i \in 1..Len(c)
      BY <2>15
    <3> QED BY <2>11, <2>14, <3>1
  <2> QED BY <2>5, <2>7, <2>13, <2>15, <2>16 DEF Real
<1> QED BY <1>1, <1>2

RealInv ==
  /\ store.kind = "payload" => Real(store)
  /\ store.kind = "list" => store.turns = PastTurns
  /\ \A r \in Request : Real(local[r])

\* Empty has no checkpoints, and the list of an older version no summary.
LEMMA EmptyReal ==
  /\ Real(Empty)
  /\ Real([Empty EXCEPT !.turns = PastTurns])
  /\ Worthwhile =>
       LET p == [Empty EXCEPT !.turns = PastTurns]
       IN  Len(p.turns) <= 1 => ~(EstimatedChars(p) > CompactionBudget)
<1>1. Empty \in Payload /\ PastTurns \in Seq(Turn)
  BY EmptyTidy, PastIsSound DEF Tidy
<1>2. PICK p : p = [Empty EXCEPT !.turns = PastTurns]
  OBVIOUS
<1>3. /\ p \in Payload /\ p.turns = PastTurns /\ p.summary = 0 /\ p.checkpoints = <<>>
  BY <1>1, <1>2, PayloadWithTurns DEF Empty
<1>4. DOMAIN <<>> = {}
  OBVIOUS
<1>5. Real(Empty)
  BY <1>4 DEF Real, Empty
<1>6. Real(p)
  BY <1>3, <1>4 DEF Real
<1>7. ASSUME Worthwhile, Len(p.turns) <= 1
      PROVE  ~(EstimatedChars(p) > CompactionBudget)
  <2>1. Len(p.turns) \in Nat /\ CompactionBudget \in Nat
    BY <1>3, PayloadFields, Limits
  <2>2. CASE Len(p.turns) = 0
    BY <1>3, <2>1, <2>2, EstimateShort
  <2>3. CASE Len(p.turns) = 1
    <3>1. PICK t : t = p.turns[1]
      OBVIOUS
    <3>2. DOMAIN PastTurns = {1} /\ t \in Turn
      <4>1. Len(PastTurns) = 1 /\ t = PastTurns[1]
        BY <1>3, <2>3, <3>1
      <4>2. DOMAIN PastTurns = 1..Len(PastTurns) /\ \A i \in 1..Len(PastTurns) : PastTurns[i] \in Turn
        BY <1>1
      <4>3. 1 \in 1..Len(PastTurns) /\ 1..1 = {1}
        BY <4>1
      <4>4. t \in Turn
        BY <4>1, <4>2, <4>3
      <4>5. DOMAIN PastTurns = {1}
        BY <4>1, <4>2, <4>3
      <4> QED BY <4>4, <4>5
    <3>3. ToSet(PastTurns) = {t}
      BY <1>3, <3>1, <3>2 DEF ToSet
    <3>4. t = UserTurn(t.of) /\ t.of \in Request
      BY <3>2, <3>3, PastIsSound DEF Turn
    <3>5. Size(t) = Length[t.of]["user"]
      BY <3>4 DEF Size, UserTurn
    <3>6. Size(t) <= CompactionBudget /\ Size(t) \in Nat
      BY <1>7, <3>4, <3>5, LengthAssumption, RoleAssumption DEF Worthwhile
    <3>7. EstimatedChars(p) = 0 + Size(t)
      BY <1>3, <2>3, <3>1, EstimateShort
    <3> QED BY <2>1, <3>6, <3>7
  <2>4. Len(p.turns) = 0 \/ Len(p.turns) = 1
    <3>1. PICK n \in Nat : n = Len(p.turns)
      BY <2>1
    <3>2. n <= 1
      BY <1>7, <3>1
    <3>3. n = 0 \/ n = 1
      BY <3>2
    <3> QED BY <3>1, <3>3
  <2> QED BY <2>2, <2>3, <2>4
<1> QED BY <1>2, <1>5, <1>6, <1>7

LEMMA LoadReal ==
  ASSUME Worthwhile, Inv, RealInv, NEW r \in Request, NEW loaded, Load(r, loaded)
  PROVE  RealInv'
<1>1. store' = store
  BY DEF Load
<1>2. PICK p : local' = [local EXCEPT ![r] = p] /\ Real(p)
  <2>1. CASE store.kind = "nothing"
    BY <2>1, EmptyReal DEF Load
  <2>2. CASE store.kind = "payload"
    BY <2>2 DEF Load, RealInv
  <2>3. CASE store.kind = "list"
    <3>1. store.turns = PastTurns
      BY <2>3 DEF RealInv
    <3>2. PICK q : q = [Empty EXCEPT !.turns = PastTurns]
      OBVIOUS
    <3>3. Tidy(q) /\ Real(q) /\ (Len(q.turns) <= 1 => ~(EstimatedChars(q) > CompactionBudget))
      BY <3>2, MigratedTidy, PastIsSound, EmptyReal
    <3>4. PICK p \in Compress(q) : local' = [local EXCEPT ![r] = p]
      BY <2>3, <3>1, <3>2 DEF Load
    <3>5. Real(p)
      BY <3>3, <3>4, CompressReal
    <3> QED BY <3>4, <3>5
  <2> QED BY <2>1, <2>2, <2>3 DEF Load
<1>3. \A q \in Request : Real(local'[q])
  BY <1>2 DEF Inv, RealInv
<1> QED BY <1>1, <1>3 DEF RealInv

LEMMA SaveReal ==
  ASSUME Inv, RealInv, NEW r \in Request, NEW p, NEW new, Save(r, p, new), Tidy(p), Real(p)
  PROVE  RealInv'
<1>1. store' = p /\ local' = [local EXCEPT ![r] = p]
  BY DEF Save
<1>2. p.kind = "payload"
  BY PayloadFields DEF Tidy
<1>3. \A q \in Request : Real(local'[q])
  BY <1>1 DEF Inv, RealInv
<1> QED BY <1>1, <1>2, <1>3 DEF RealInv

LEMMA AppendReal ==
  ASSUME Worthwhile, Inv, RealInv, NEW r \in Request, AppendSave(r)
  PROVE  RealInv'
<1>1. PICK e : e = Stored(Exchange(r))
  OBVIOUS
<1>2. PICK turns : turns = local[r].turns \o e
  OBVIOUS
<1>3. PICK q : q = [local[r] EXCEPT !.turns = turns]
  OBVIOUS
<1>4. PICK p \in Compress(q) : Save(r, p, ToSet(e))
  BY <1>1, <1>2, <1>3 DEF AppendSave
<1>5. pc[r] # "done" /\ Tidy(local[r]) /\ TellsOfOver(local[r]) /\ Real(local[r])
  BY DEF AppendSave, Inv, RealInv
<1>6. UserTurn(r) \notin Held(local[r]) /\ AssistantTurn(r) \notin Held(local[r])
  BY <1>5 DEF TellsOfOver, Over, UserTurn, AssistantTurn
<1>7. Tidy(q)
  BY <1>1, <1>2, <1>3, <1>5, <1>6, ExchangeTidy
<1>8. /\ e \in Seq(Turn) /\ Len(e) \in {1, 2} /\ e[1] = UserTurn(r)
  BY <1>1, ExchangeStored
<1>9. /\ local[r] \in Payload /\ local[r].turns \in Seq(Turn) /\ Len(local[r].turns) \in Nat
  BY <1>5, PayloadFields DEF Tidy
<1>10. /\ turns \in Seq(Turn) /\ Len(turns) = Len(local[r].turns) + Len(e)
       /\ \A i \in 1..(Len(local[r].turns) + Len(e)) : turns[i] =
            IF i <= Len(local[r].turns) THEN local[r].turns[i] ELSE e[i - Len(local[r].turns)]
  BY <1>2, <1>8, <1>9, ConcatProperties
<1>11. /\ q \in Payload /\ q.turns = turns /\ q.summary = local[r].summary
       /\ q.checkpoints = local[r].checkpoints
  BY <1>3, <1>9, <1>10, PayloadWithTurns
<1>12. Len(turns) > 0
  BY <1>8, <1>9, <1>10
<1>13. Real(q)
  BY <1>5, <1>11, <1>12 DEF Real
<1>14. ASSUME Len(turns) <= 1
       PROVE  ~(EstimatedChars(q) > CompactionBudget)
  <2>1. Len(local[r].turns) = 0 /\ Len(turns) = 1
    BY <1>8, <1>9, <1>10, <1>14
  <2>2. 1 \in 1..(Len(local[r].turns) + Len(e)) /\ ~(1 <= Len(local[r].turns))
        /\ 1 - Len(local[r].turns) = 1
    BY <1>8, <2>1
  <2>3. turns[1] = UserTurn(r)
    BY <1>8, <1>10, <2>2
  <2>4. q.summary = 0
    BY <1>5, <1>11, <2>1 DEF Real
  <2>5. Size(UserTurn(r)) <= CompactionBudget /\ Size(UserTurn(r)) \in Nat
    BY LengthAssumption, RoleAssumption DEF Worthwhile, Size, UserTurn
  <2>6. EstimatedChars(q) = 0 + Size(UserTurn(r))
    BY <1>11, <2>1, <2>3, <2>4, EstimateShort
  <2> QED BY <2>5, <2>6, Limits
<1>15. Tidy(p) /\ Real(p)
  BY <1>4, <1>7, <1>11, <1>13, <1>14, CompressTidy, CompressReal
<1>16. PICK new : new = ToSet(e)
  OBVIOUS
<1> QED BY <1>4, <1>15, <1>16, SaveReal

LEMMA InitReal == Init => RealInv
<1> SUFFICES ASSUME Init PROVE RealInv
  OBVIOUS
<1>1. store.kind # "payload" /\ (store.kind = "list" => store.turns = PastTurns)
  BY DEF Init, Nothing
<1>2. \A r \in Request : local[r] = Empty
  BY DEF Init
<1> QED BY <1>1, <1>2, EmptyReal DEF RealInv

LEMMA StepReal == Worthwhile /\ Inv /\ RealInv /\ [Next]_vars => RealInv'
<1> SUFFICES ASSUME Worthwhile, Inv, RealInv, [Next]_vars PROVE RealInv'
  OBVIOUS
<1>1. CASE Expire
  <2>1. store' = Nothing /\ local' = local /\ Nothing.kind = "nothing"
    BY <1>1 DEF Expire, Nothing
  <2> QED BY <2>1 DEF RealInv
<1>2. ASSUME NEW r \in Request, LoadContext(r) \/ AppendLoad(r) PROVE RealInv'
  BY <1>2, LoadReal DEF LoadContext, AppendLoad
<1>3. ASSUME NEW r \in Request, Migrate(r) PROVE RealInv'
  <2>1. PICK p, new : p = local[r] /\ new = {}
    OBVIOUS
  <2>2. Save(r, p, new) /\ Tidy(p) /\ Real(p)
    BY <1>3, <2>1 DEF Migrate, Inv, RealInv
  <2> QED BY <2>2, SaveReal
<1>4. ASSUME NEW r \in Request, AppendSave(r) PROVE RealInv'
  BY <1>4, AppendReal
<1>5. ASSUME NEW r \in Request, Abandon(r) PROVE RealInv'
  BY <1>5 DEF Abandon, RealInv
<1>6. CASE UNCHANGED vars
  BY <1>6 DEF vars, RealInv
<1> QED BY <1>1, <1>2, <1>3, <1>4, <1>5, <1>6 DEF Next, Step

-----------------------------------------------------------------------------
(* Theorems *)

\* What Inv says of the stored value.
LEMMA InvImplies ==
  ASSUME Inv
  PROVE  /\ TypeOK /\ OnlyOverlapForgets /\ NothingIsToldTwice /\ PinnedTurnsSurvive
         /\ AnswersFollowQuestions /\ StoredIsBounded
<1>1. Sound(store)
  BY DEF Inv
<1>2. TypeOK
  <2>1. store \in {Nothing} \cup Payload \cup List
    BY <1>1, SoundKinds
  <2>2. kept \subseteq Turn
    BY DEF Inv, TellsOfOver
  <2> QED BY <2>1, <2>2 DEF TypeOK, Inv
<1>3. OnlyOverlapForgets
  BY DEF Inv, OnlyOverlapForgets
<1>4. ASSUME store.kind = "payload" PROVE Tidy(store) /\ Trim(store)
  BY <1>1, <1>4, SoundKinds
<1>5. NothingIsToldTwice
  BY <1>4 DEF NothingIsToldTwice, Tidy
<1>6. PinnedTurnsSurvive
  BY <1>4 DEF PinnedTurnsSurvive, Tidy, PinsKept
<1>7. AnswersFollowQuestions
  BY <1>4 DEF AnswersFollowQuestions, Tidy, Orderly
<1>8. StoredIsBounded
  BY <1>4 DEF StoredIsBounded, Tidy, Trim
<1> QED BY <1>2, <1>3, <1>5, <1>6, <1>7, <1>8

\* Whatever is stored stays within its limits, tells no turn twice, keeps
\* answers after their questions and pinned turns pinned; and what a session
\* forgets, an overlapping request has overwritten.  For every setting of the
\* limits: ConversationManager with concurrent requests of one session.
THEOREM SessionsRemember ==
  Spec => [](/\ TypeOK /\ OnlyOverlapForgets /\ NothingIsToldTwice /\ PinnedTurnsSurvive
             /\ AnswersFollowQuestions /\ StoredIsBounded)
<1>1. Inv => /\ TypeOK /\ OnlyOverlapForgets /\ NothingIsToldTwice /\ PinnedTurnsSurvive
             /\ AnswersFollowQuestions /\ StoredIsBounded
  BY InvImplies
<1> QED BY <1>1, InvIsInvariant, PTL

\* And no compaction is for nothing: with limits like the defaults, all that
\* the run checks of a session holds for any number of requests.
THEOREM SessionsKeepTheirWord ==
  ASSUME Worthwhile
  PROVE  Spec => []SessionsKeepWhatWasSaid
<1>1. Init => RealInv
  BY InitReal
<1>2. Inv /\ RealInv /\ [Next]_vars => RealInv'
  BY StepReal
<1>3. Inv /\ RealInv => SessionsKeepWhatWasSaid
  <2> SUFFICES ASSUME Inv, RealInv PROVE SessionsKeepWhatWasSaid
    OBVIOUS
  <2>1. CompactionsAreReal
    BY DEF RealInv, Real, CompactionsAreReal
  <2> QED BY <2>1, InvImplies DEF SessionsKeepWhatWasSaid
<1> QED BY <1>1, <1>2, <1>3, InvIsInvariant, PTL DEF Spec
=============================================================================
