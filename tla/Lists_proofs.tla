----------------------------- MODULE Lists_proofs ------------------------------
(***************************************************************************)
(* What the list operators return, for every list.  They are recursive, so *)
(* this takes an induction; the one of the library has an operator as a    *)
(* parameter and cannot be used.  The induction here is about a set        *)
(* instead, and rests on the library's fact that < is well-founded.        *)
(***************************************************************************)
EXTENDS Lists, SequencesExt, SequenceTheorems, FiniteSetTheorems, WellFoundedInduction, TLAPS

-----------------------------------------------------------------------------
(* Induction and recursion on the natural numbers *)

\* A set of natural numbers with 0 and every successor of its members is all
\* of them.
LEMMA SetInduction ==
  ASSUME NEW S \in SUBSET Nat, 0 \in S, \A n \in S : n + 1 \in S
  PROVE  S = Nat
<1> DEFINE T == Nat \ S
<1> SUFFICES ASSUME T # {} PROVE FALSE
  OBVIOUS
<1>1. T \subseteq Nat
  OBVIOUS
<1> HIDE DEF T
<1>2. \E x \in T : \A y \in T : ~(<<y, x>> \in OpToRel(<, Nat))
  BY <1>1, WFMin, NatLessThanWellFounded, Zenon
<1>3. PICK x \in T : \A y \in T : ~(y < x)
  BY <1>1, <1>2, Zenon DEF OpToRel
<1>4. x \in Nat /\ x # 0
  BY DEF T
<1>5. x - 1 \in Nat /\ x - 1 < x
  BY <1>4
<1>6. x - 1 \in S
  BY <1>3, <1>5 DEF T
<1> QED BY <1>4, <1>6 DEF T

\* h is the function on 0..L that starts with a and goes on by G.
Recurs(h, L, a, G) == h[0] = a /\ \A n \in 1..L : h[n] = G[n][h[n - 1]]

\* A function can be defined by recursion over 0..L.
LEMMA Recursion ==
  ASSUME NEW L \in Nat, NEW V, NEW a \in V, NEW G \in [1..L -> [V -> V]]
  PROVE  \E h \in [0..L -> V] : Recurs(h, L, a, G)
<1> DEFINE Upto(k) == \E h \in [0..k -> V] :
             h[0] = a /\ \A n \in 1..k : h[n] = G[n][h[n - 1]]
           S == {k \in Nat : k <= L => Upto(k)}
<1>1. Upto(0)
  <2> DEFINE h == [n \in 0..0 |-> a]
  <2>1. h \in [0..0 -> V] /\ h[0] = a
    OBVIOUS
  <2>2. \A n \in 1..0 : h[n] = G[n][h[n - 1]]
    OBVIOUS
  <2> HIDE DEF h
  <2> QED BY <2>1, <2>2
<1>2. ASSUME NEW k \in Nat, k < L, Upto(k)
      PROVE  Upto(k + 1)
  <2>1. PICK h \in [0..k -> V] : h[0] = a /\ \A n \in 1..k : h[n] = G[n][h[n - 1]]
    BY <1>2
  <2> DEFINE g == [n \in 0..(k + 1) |-> IF n <= k THEN h[n] ELSE G[k + 1][h[k]]]
  <2>2. h[k] \in V /\ k + 1 \in 1..L
    BY <1>2, <2>1
  <2>3. G[k + 1][h[k]] \in V
    BY <2>2
  <2>4. g \in [0..(k + 1) -> V]
    BY <2>1, <2>3
  <2>5. g[0] = a
    BY <2>1
  <2>6. ASSUME NEW n \in 1..(k + 1) PROVE g[n] = G[n][g[n - 1]]
    <3>1. CASE n = k + 1
      BY <3>1
    <3>2. CASE n \in 1..k
      BY <3>2, <2>1
    <3> QED BY <3>1, <3>2
  <2> HIDE DEF g
  <2> QED BY <2>4, <2>5, <2>6
<1>3. 0 \in S
  BY <1>1
<1>4. ASSUME NEW n \in S PROVE n + 1 \in S
  <2> HIDE DEF Upto
  <2>1. CASE n < L
    BY <1>2, <2>1
  <2>2. CASE ~(n < L)
    BY <2>2
  <2> QED BY <2>1, <2>2
<1>5. S \in SUBSET Nat
  OBVIOUS
<1> HIDE DEF S
<1>6. S = Nat
  BY <1>3, <1>4, <1>5, SetInduction, Zenon
<1>7. L \in S
  BY <1>6
<1> QED BY <1>7 DEF S, Recurs

-----------------------------------------------------------------------------
(* Those *)

\* f is the function Those is defined by.
UnfoldsThose(f, s, T) ==
  /\ Those(s, T) = f[Len(s)]
  /\ f[0] = <<>>
  /\ \A n \in 1..Len(s) :
       f[n] = IF s[n] \in T THEN Append(f[n - 1], s[n]) ELSE f[n - 1]

\* There is such a function, and all its values are lists.
LEMMA ThoseUnfold ==
  ASSUME NEW X, NEW s \in Seq(X), NEW T
  PROVE  \E f \in [0..Len(s) -> Seq(X)] : UnfoldsThose(f, s, T)
<1> DEFINE Body(f) == [n \in 0..Len(s) |->
             IF n = 0 THEN <<>>
             ELSE IF s[n] \in T THEN Append(f[n - 1], s[n]) ELSE f[n - 1]]
           f == CHOOSE g : g = Body(g)
           G == [n \in 1..Len(s) |-> [v \in Seq(X) |->
             IF s[n] \in T THEN Append(v, s[n]) ELSE v]]
<1>1. Those(s, T) = f[Len(s)]
  BY DEF Those
<1>2. \A n \in 1..Len(s) : s[n] \in X
  OBVIOUS
<1>3. G \in [1..Len(s) -> [Seq(X) -> Seq(X)]]
  BY <1>2
<1>4. <<>> \in Seq(X) /\ Len(s) \in Nat
  OBVIOUS
<1>5. PICK h \in [0..Len(s) -> Seq(X)] : Recurs(h, Len(s), <<>>, G)
  <2> HIDE DEF G
  <2> QED BY <1>3, <1>4, Recursion, Zenon
<1>6. h = Body(h)
  <2>1. ASSUME NEW n \in 0..Len(s), n # 0
        PROVE  h[n] = IF s[n] \in T THEN Append(h[n - 1], s[n]) ELSE h[n - 1]
    <3>1. n \in 1..Len(s) /\ n - 1 \in 0..Len(s)
      BY <2>1
    <3> QED BY <1>5, <3>1 DEF Recurs
  <2> QED BY <1>5, <2>1 DEF Recurs
<1>7. f = Body(f)
  <2> HIDE DEF Body
  <2> QED BY <1>6
<1>8. f[0] = <<>> /\ \A n \in 1..Len(s) :
        f[n] = IF s[n] \in T THEN Append(f[n - 1], s[n]) ELSE f[n - 1]
  <2> HIDE DEF f
  <2>1. 0 \in 0..Len(s) /\ \A n \in 1..Len(s) : n \in 0..Len(s) /\ n # 0
    BY <1>4
  <2>2. f[0] = <<>>
    BY <1>7, <2>1
  <2>3. \A n \in 1..Len(s) :
          f[n] = IF s[n] \in T THEN Append(f[n - 1], s[n]) ELSE f[n - 1]
    BY <1>7, <2>1
  <2> QED BY <2>2, <2>3
<1>9. DOMAIN f = 0..Len(s)
  <2> HIDE DEF f
  <2> QED BY <1>7
<1>10. \A n \in 0..Len(s) : f[n] \in Seq(X)
  <2> DEFINE S == {n \in Nat : n <= Len(s) => f[n] \in Seq(X)}
  <2> HIDE DEF f
  <2>1. 0 \in S
    BY <1>4, <1>8
  <2>2. ASSUME NEW n \in S PROVE n + 1 \in S
    <3>1. CASE n + 1 <= Len(s)
      <4>1. n + 1 \in 1..Len(s) /\ (n + 1) - 1 = n /\ f[n] \in Seq(X)
        BY <3>1, <1>4
      <4>2. f[n + 1] = IF s[n + 1] \in T THEN Append(f[n], s[n + 1]) ELSE f[n]
        BY <4>1, <1>8
      <4>3. s[n + 1] \in X
        BY <4>1, <1>2
      <4>4. Append(f[n], s[n + 1]) \in Seq(X)
        BY <4>1, <4>3, AppendProperties
      <4>5. f[n + 1] \in Seq(X)
        BY <4>1, <4>2, <4>4
      <4> QED BY <4>5
    <3> QED BY <3>1
  <2>3. S \in SUBSET Nat
    OBVIOUS
  <2> HIDE DEF S
  <2>4. S = Nat
    BY <2>1, <2>2, <2>3, SetInduction, Zenon
  <2> QED BY <2>4, <1>4 DEF S
<1>11. f \in [0..Len(s) -> Seq(X)]
  <2>1. f = [n \in 0..Len(s) |-> f[n]]
    <3> HIDE DEF f
    <3> QED BY <1>7
  <2> HIDE DEF f
  <2> QED BY <2>1, <1>10
<1> HIDE DEF f
<1> QED BY <1>1, <1>8, <1>11 DEF UnfoldsThose

\* What a list holds after an append.
LEMMA AppendHolds ==
  ASSUME NEW X, NEW s \in Seq(X), NEW x \in X
  PROVE  ToSet(Append(s, x)) = ToSet(s) \cup {x}
<1> DEFINE t == Append(s, x)
<1>1. /\ Len(t) = Len(s) + 1 /\ t[Len(s) + 1] = x
      /\ \A i \in 1..Len(s) : t[i] = s[i]
      /\ t \in Seq(X)
  BY AppendProperties
<1>2. /\ DOMAIN t = 1..(Len(s) + 1) /\ DOMAIN s = 1..Len(s)
      /\ 1..(Len(s) + 1) = 1..Len(s) \cup {Len(s) + 1}
  BY <1>1
<1> HIDE DEF t
<1>3. ToSet(t) = {t[i] : i \in 1..Len(s)} \cup {x}
  BY <1>1, <1>2 DEF ToSet
<1>4. {t[i] : i \in 1..Len(s)} = {s[i] : i \in 1..Len(s)}
  BY <1>1
<1> QED BY <1>2, <1>3, <1>4 DEF t, ToSet

\* What two lists hold together.
LEMMA ConcatHolds ==
  ASSUME NEW X, NEW s \in Seq(X), NEW t \in Seq(X)
  PROVE  ToSet(s \o t) = ToSet(s) \cup ToSet(t)
<1> DEFINE u == s \o t
<1>1. /\ u \in Seq(X) /\ Len(u) = Len(s) + Len(t)
      /\ \A i \in 1..(Len(s) + Len(t)) : u[i] = IF i <= Len(s) THEN s[i] ELSE t[i - Len(s)]
  BY ConcatProperties
<1>2. /\ DOMAIN u = 1..Len(u) /\ DOMAIN s = 1..Len(s) /\ DOMAIN t = 1..Len(t)
      /\ Len(s) \in Nat /\ Len(t) \in Nat
  BY <1>1
<1> HIDE DEF u
<1>3. ASSUME NEW i \in 1..Len(u) PROVE u[i] \in ToSet(s) \cup ToSet(t)
  <2>1. CASE i <= Len(s)
    <3>1. u[i] = s[i] /\ i \in 1..Len(s)
      BY <1>1, <1>2, <2>1
    <3> QED BY <1>2, <3>1 DEF ToSet
  <2>2. CASE ~(i <= Len(s))
    <3>1. u[i] = t[i - Len(s)] /\ i - Len(s) \in 1..Len(t)
      BY <1>1, <1>2, <2>2
    <3> QED BY <1>2, <3>1 DEF ToSet
  <2> QED BY <2>1, <2>2
<1>4. ASSUME NEW i \in 1..Len(s) PROVE s[i] \in ToSet(u)
  <2>1. i \in 1..Len(u) /\ u[i] = s[i]
    BY <1>1, <1>2
  <2> QED BY <1>2, <2>1 DEF ToSet
<1>5. ASSUME NEW i \in 1..Len(t) PROVE t[i] \in ToSet(u)
  <2>1. Len(s) + i \in 1..Len(u) /\ ~(Len(s) + i <= Len(s)) /\ Len(s) + i - Len(s) = i
    BY <1>1, <1>2
  <2>2. u[Len(s) + i] = t[i]
    BY <1>1, <2>1
  <2> QED BY <1>2, <2>1, <2>2 DEF ToSet
<1>6. ToSet(u) \subseteq ToSet(s) \cup ToSet(t)
  BY <1>2, <1>3 DEF ToSet
<1>7. ToSet(s) \subseteq ToSet(u) /\ ToSet(t) \subseteq ToSet(u)
  BY <1>2, <1>4, <1>5 DEF ToSet
<1> QED BY <1>6, <1>7 DEF u

\* Those has the elements it is asked for, and no others.
LEMMA ThoseHold ==
  ASSUME NEW X, NEW s \in Seq(X), NEW T
  PROVE  /\ Those(s, T) \in Seq(X)
         /\ Len(Those(s, T)) <= Len(s)
         /\ ToSet(Those(s, T)) = ToSet(s) \cap T
<1>1. PICK f \in [0..Len(s) -> Seq(X)] : UnfoldsThose(f, s, T)
  BY ThoseUnfold, Zenon
<1> DEFINE Fits(n) == Len(f[n]) <= n /\ ToSet(f[n]) = {s[i] : i \in 1..n} \cap T
           S == {n \in Nat : n <= Len(s) => Fits(n)}
<1>2. 0 \in S
  <2>1. ToSet(<<>>) = {} /\ Len(<<>>) = 0
    BY DEF ToSet
  <2> QED BY <1>1, <2>1 DEF UnfoldsThose
<1>3. ASSUME NEW n \in S PROVE n + 1 \in S
  <2> SUFFICES ASSUME n + 1 <= Len(s) PROVE Fits(n + 1)
    OBVIOUS
  <2>0. Len(s) \in Nat /\ \A i \in 1..Len(s) : s[i] \in X
    OBVIOUS
  <2>1. /\ n + 1 \in 1..Len(s) /\ (n + 1) - 1 = n /\ n \in 0..Len(s)
        /\ s[n + 1] \in X
        /\ Fits(n)
    BY <2>0
  <2>2. {s[i] : i \in 1..(n + 1)} = {s[i] : i \in 1..n} \cup {s[n + 1]}
    <3>1. 1..(n + 1) = 1..n \cup {n + 1}
      OBVIOUS
    <3> QED BY <3>1
  <2>3. f[n] \in Seq(X) /\ f[n + 1] =
             IF s[n + 1] \in T THEN Append(f[n], s[n + 1]) ELSE f[n]
    BY <1>1, <2>1 DEF UnfoldsThose
  <2>4. CASE s[n + 1] \in T
    <3>1. f[n + 1] = Append(f[n], s[n + 1])
      BY <2>3, <2>4
    <3>2. Len(f[n + 1]) <= n + 1
      BY <2>1, <2>3, <3>1
    <3>3. ToSet(Append(f[n], s[n + 1])) = ToSet(f[n]) \cup {s[n + 1]}
      BY <2>1, <2>3, AppendHolds
    <3> QED BY <2>1, <2>2, <2>4, <3>1, <3>2, <3>3
  <2>5. CASE s[n + 1] \notin T
    <3>1. f[n + 1] = f[n]
      BY <2>3, <2>5
    <3>2. Len(f[n + 1]) <= n + 1
      BY <2>1, <2>3, <3>1
    <3> QED BY <2>1, <2>2, <2>5, <3>1, <3>2
  <2> QED BY <2>4, <2>5
<1>4. S \in SUBSET Nat
  OBVIOUS
<1> HIDE DEF S
<1>5. S = Nat
  BY <1>2, <1>3, <1>4, SetInduction, Zenon
<1>6. Fits(Len(s))
  BY <1>5 DEF S
<1>7. ToSet(s) = {s[i] : i \in 1..Len(s)}
  BY DEF ToSet
<1> QED BY <1>1, <1>6, <1>7 DEF UnfoldsThose

\* What Those leaves out makes the list shorter.
LEMMA ThoseShorten ==
  ASSUME NEW X, NEW s \in Seq(X), NEW T, ~(ToSet(s) \subseteq T)
  PROVE  Len(Those(s, T)) < Len(s)
<1>1. PICK f \in [0..Len(s) -> Seq(X)] : UnfoldsThose(f, s, T)
  BY ThoseUnfold, Zenon
<1> DEFINE Fits(n) == /\ Len(f[n]) <= n
                      /\ Len(f[n]) = n => \A i \in 1..n : s[i] \in T
           S == {n \in Nat : n <= Len(s) => Fits(n)}
<1>2. 0 \in S
  <2>1. Len(<<>>) = 0
    OBVIOUS
  <2> QED BY <1>1, <2>1 DEF UnfoldsThose
<1>3. ASSUME NEW n \in S PROVE n + 1 \in S
  <2> SUFFICES ASSUME n + 1 <= Len(s) PROVE Fits(n + 1)
    OBVIOUS
  <2>1. /\ n + 1 \in 1..Len(s) /\ (n + 1) - 1 = n /\ n \in 0..Len(s)
        /\ Fits(n) /\ Len(s) \in Nat
    OBVIOUS
  <2>2. /\ f[n] \in Seq(X) /\ Len(f[n]) \in Nat
        /\ f[n + 1] = IF s[n + 1] \in T THEN Append(f[n], s[n + 1]) ELSE f[n]
    BY <1>1, <2>1 DEF UnfoldsThose
  <2>3. CASE s[n + 1] \in T
    <3>1. Len(f[n + 1]) = Len(f[n]) + 1
      BY <2>2, <2>3
    <3>2. \A i \in 1..(n + 1) : i \in 1..n \/ i = n + 1
      OBVIOUS
    <3> QED BY <2>1, <2>2, <2>3, <3>1, <3>2
  <2>4. CASE s[n + 1] \notin T
    <3>1. Len(f[n + 1]) = Len(f[n])
      BY <2>2, <2>4
    <3> QED BY <2>1, <2>2, <3>1
  <2> QED BY <2>3, <2>4
<1>4. S \in SUBSET Nat
  OBVIOUS
<1> HIDE DEF S
<1>5. S = Nat
  BY <1>2, <1>3, <1>4, SetInduction, Zenon
<1>6. Fits(Len(s)) /\ Len(s) \in Nat
  BY <1>5 DEF S
<1>7. PICK i \in 1..Len(s) : s[i] \notin T
  BY DEF ToSet
<1>8. Len(f[Len(s)]) \in Nat
  BY <1>1, <1>6
<1> QED BY <1>1, <1>6, <1>7, <1>8 DEF UnfoldsThose

\* What two sets without a common element take from a list.
LEMMA ThoseSplit ==
  ASSUME NEW X, NEW s \in Seq(X), NEW A, NEW B, A \cap B = {}
  PROVE  Len(Those(s, A)) + Len(Those(s, B)) = Len(Those(s, A \cup B))
<1>1. PICK f \in [0..Len(s) -> Seq(X)] : UnfoldsThose(f, s, A)
  BY ThoseUnfold, Zenon
<1>2. PICK g \in [0..Len(s) -> Seq(X)] : UnfoldsThose(g, s, B)
  BY ThoseUnfold, Zenon
<1>3. PICK h \in [0..Len(s) -> Seq(X)] : UnfoldsThose(h, s, A \cup B)
  BY ThoseUnfold, Zenon
<1> DEFINE Fits(n) == Len(f[n]) + Len(g[n]) = Len(h[n])
           S == {n \in Nat : n <= Len(s) => Fits(n)}
<1>4. 0 \in S
  <2>1. Len(<<>>) = 0
    OBVIOUS
  <2> QED BY <1>1, <1>2, <1>3, <2>1 DEF UnfoldsThose
<1>5. ASSUME NEW n \in S PROVE n + 1 \in S
  <2> SUFFICES ASSUME n + 1 <= Len(s) PROVE Fits(n + 1)
    OBVIOUS
  <2>1. /\ n + 1 \in 1..Len(s) /\ (n + 1) - 1 = n /\ n \in 0..Len(s)
        /\ Fits(n) /\ Len(s) \in Nat
    OBVIOUS
  <2>2. /\ f[n] \in Seq(X) /\ g[n] \in Seq(X) /\ h[n] \in Seq(X)
        /\ Len(f[n]) \in Nat /\ Len(g[n]) \in Nat /\ Len(h[n]) \in Nat
    BY <2>1
  <2>3. \A t \in Seq(X) : \A x : Len(Append(t, x)) = Len(t) + 1
    OBVIOUS
  <2>4. /\ f[n + 1] = IF s[n + 1] \in A THEN Append(f[n], s[n + 1]) ELSE f[n]
        /\ g[n + 1] = IF s[n + 1] \in B THEN Append(g[n], s[n + 1]) ELSE g[n]
        /\ h[n + 1] = IF s[n + 1] \in A \cup B THEN Append(h[n], s[n + 1]) ELSE h[n]
    BY <1>1, <1>2, <1>3, <2>1 DEF UnfoldsThose
  <2>5. CASE s[n + 1] \in A
    <3>1. s[n + 1] \notin B
      BY <2>5
    <3> QED BY <2>1, <2>2, <2>3, <2>4, <2>5, <3>1
  <2>6. CASE s[n + 1] \in B
    <3>1. s[n + 1] \notin A
      BY <2>6
    <3> QED BY <2>1, <2>2, <2>3, <2>4, <2>6, <3>1
  <2>7. CASE s[n + 1] \notin A \cup B
    BY <2>1, <2>4, <2>7
  <2> QED BY <2>5, <2>6, <2>7
<1>6. S \in SUBSET Nat
  OBVIOUS
<1> HIDE DEF S
<1>7. S = Nat
  BY <1>4, <1>5, <1>6, SetInduction, Zenon
<1>8. Fits(Len(s))
  BY <1>7 DEF S
<1> QED BY <1>1, <1>2, <1>3, <1>8 DEF UnfoldsThose

\* A set that has all of a list takes all of it.
LEMMA ThoseAll ==
  ASSUME NEW X, NEW s \in Seq(X), NEW T, ToSet(s) \subseteq T
  PROVE  Those(s, T) = s
<1>1. PICK f \in [0..Len(s) -> Seq(X)] : UnfoldsThose(f, s, T)
  BY ThoseUnfold, Zenon
<1> DEFINE Fits(n) == Len(f[n]) = n /\ \A i \in 1..n : f[n][i] = s[i]
           S == {n \in Nat : n <= Len(s) => Fits(n)}
<1>2. 0 \in S
  <2>1. Len(<<>>) = 0
    OBVIOUS
  <2> QED BY <1>1, <2>1 DEF UnfoldsThose
<1>3. ASSUME NEW n \in S PROVE n + 1 \in S
  <2> SUFFICES ASSUME n + 1 <= Len(s) PROVE Fits(n + 1)
    OBVIOUS
  <2>1. /\ n + 1 \in 1..Len(s) /\ (n + 1) - 1 = n /\ n \in 0..Len(s)
        /\ Fits(n) /\ Len(s) \in Nat
    OBVIOUS
  <2>2. s[n + 1] \in T /\ s[n + 1] \in X /\ f[n] \in Seq(X)
    BY <2>1 DEF ToSet
  <2>3. f[n + 1] = Append(f[n], s[n + 1])
    BY <1>1, <2>1, <2>2 DEF UnfoldsThose
  <2>4. /\ Len(Append(f[n], s[n + 1])) = Len(f[n]) + 1
        /\ \A i \in 1..Len(f[n]) : Append(f[n], s[n + 1])[i] = f[n][i]
        /\ Append(f[n], s[n + 1])[Len(f[n]) + 1] = s[n + 1]
    BY <2>2, AppendProperties
  <2>5. \A i \in 1..(n + 1) : i \in 1..n \/ i = n + 1
    BY <2>1
  <2> QED BY <2>1, <2>3, <2>4, <2>5
<1>4. S \in SUBSET Nat
  OBVIOUS
<1> HIDE DEF S
<1>5. S = Nat
  BY <1>2, <1>3, <1>4, SetInduction, Zenon
<1>6. PICK L \in Nat : L = Len(s)
  OBVIOUS
<1>7. Fits(L)
  BY <1>5, <1>6 DEF S
<1>8. f[L] \in Seq(X)
  BY <1>1, <1>6
<1>9. f[L] = s
  BY <1>6, <1>7, <1>8
<1> QED BY <1>1, <1>6, <1>9 DEF UnfoldsThose

\* A set that has fewer of a list's elements takes fewer.
LEMMA ThoseFewer ==
  ASSUME NEW X, NEW s \in Seq(X), NEW A, NEW B, ToSet(s) \cap A \subseteq B
  PROVE  Len(Those(s, A)) <= Len(Those(s, B))
<1>1. Len(Those(s, A \cap B)) + Len(Those(s, A \ B)) = Len(Those(s, A))
  <2>1. (A \cap B) \cap (A \ B) = {} /\ (A \cap B) \cup (A \ B) = A
    OBVIOUS
  <2> QED BY <2>1, ThoseSplit
<1>2. Len(Those(s, A \cap B)) + Len(Those(s, B \ A)) = Len(Those(s, B))
  <2>1. (A \cap B) \cap (B \ A) = {} /\ (A \cap B) \cup (B \ A) = B
    OBVIOUS
  <2> QED BY <2>1, ThoseSplit
<1>3. \A T : Those(s, T) \in Seq(X) /\ Len(Those(s, T)) \in Nat
  <2>1. \A T : Those(s, T) \in Seq(X)
    BY ThoseHold
  <2> QED BY <2>1
<1>4. Len(Those(s, A \ B)) = 0
  <2>1. PICK t \in Seq(X) : t = Those(s, A \ B)
    BY <1>3
  <2>2. ToSet(t) = {}
    BY <2>1, ThoseHold
  <2>3. ~(1 \in DOMAIN t)
    BY <2>2 DEF ToSet
  <2> QED BY <2>1, <2>3
<1> QED BY <1>1, <1>2, <1>3, <1>4

\* g tells where the elements of t stand in s: they keep their order.
EmbedsIn(g, t, s) ==
  /\ g \in [1..Len(t) -> 1..Len(s)]
  /\ \A i, j \in 1..Len(t) : i < j => g[i] < g[j]
  /\ \A i \in 1..Len(t) : t[i] = s[g[i]]

\* Those keeps the order.
LEMMA ThoseInOrder ==
  ASSUME NEW X, NEW s \in Seq(X), NEW T
  PROVE  \E g : EmbedsIn(g, Those(s, T), s)
<1>1. PICK f \in [0..Len(s) -> Seq(X)] : UnfoldsThose(f, s, T)
  BY ThoseUnfold, Zenon
<1>2. Len(s) \in Nat
  OBVIOUS
<1> DEFINE Upto(n) == \E g : /\ g \in [1..Len(f[n]) -> 1..n]
                             /\ \A i, j \in 1..Len(f[n]) : i < j => g[i] < g[j]
                             /\ \A i \in 1..Len(f[n]) : f[n][i] = s[g[i]]
           S == {n \in Nat : n <= Len(s) => Upto(n)}
<1>3. Upto(0)
  <2>1. f[0] = <<>> /\ Len(f[0]) = 0
    BY <1>1 DEF UnfoldsThose
  <2> DEFINE g == [i \in 1..0 |-> i]
  <2>2. g \in [1..0 -> 1..0] /\ 1..0 = {}
    OBVIOUS
  <2> HIDE DEF g
  <2> QED BY <2>1, <2>2
<1>4. ASSUME NEW n \in Nat, n + 1 <= Len(s), Upto(n)
      PROVE  Upto(n + 1)
  <2>1. PICK g : /\ g \in [1..Len(f[n]) -> 1..n]
                 /\ \A i, j \in 1..Len(f[n]) : i < j => g[i] < g[j]
                 /\ \A i \in 1..Len(f[n]) : f[n][i] = s[g[i]]
    BY <1>4
  <2>2. n + 1 \in 1..Len(s) /\ (n + 1) - 1 = n /\ n \in 0..Len(s) /\ s[n + 1] \in X
    BY <1>4, <1>2
  <2>3. /\ f[n] \in Seq(X) /\ Len(f[n]) \in Nat
        /\ f[n + 1] = IF s[n + 1] \in T THEN Append(f[n], s[n + 1]) ELSE f[n]
    BY <1>1, <2>2 DEF UnfoldsThose
  <2>4. CASE s[n + 1] \notin T
    <3>1. f[n + 1] = f[n]
      BY <2>3, <2>4
    <3>2. g \in [1..Len(f[n]) -> 1..(n + 1)]
      BY <2>1
    <3> QED BY <2>1, <3>1, <3>2
  <2>5. CASE s[n + 1] \in T
    <3> DEFINE k == Len(f[n]) + 1
               h == [i \in 1..k |-> IF i = k THEN n + 1 ELSE g[i]]
    <3>1. /\ f[n + 1] = Append(f[n], s[n + 1])
          /\ Len(f[n + 1]) = k
          /\ \A i \in 1..Len(f[n]) : f[n + 1][i] = f[n][i]
          /\ f[n + 1][k] = s[n + 1]
      BY <2>2, <2>3, <2>5, AppendProperties
    <3>2. \A i \in 1..k : i # k => i \in 1..Len(f[n])
      BY <2>3
    <3>3. \A i \in 1..Len(f[n]) : g[i] \in 1..n
      BY <2>1
    <3>4. h \in [1..k -> 1..(n + 1)]
      BY <3>2, <3>3
    <3>5. ASSUME NEW i \in 1..k, NEW j \in 1..k, i < j
          PROVE  h[i] < h[j]
      <4>1. i # k /\ i \in 1..Len(f[n]) /\ h[i] = g[i] /\ g[i] \in 1..n
        BY <2>3, <3>2, <3>3, <3>5
      <4>2. CASE j = k
        BY <4>1, <4>2
      <4>3. CASE j # k
        BY <4>1, <4>3, <2>1, <3>2, <3>5
      <4> QED BY <4>2, <4>3
    <3>6. ASSUME NEW i \in 1..k PROVE f[n + 1][i] = s[h[i]]
      <4>1. CASE i = k
        BY <3>1, <4>1
      <4>2. CASE i # k
        BY <2>1, <3>1, <3>2, <4>2
      <4> QED BY <4>1, <4>2
    <3> HIDE DEF h, k
    <3> QED BY <3>1, <3>4, <3>5, <3>6
  <2> QED BY <2>4, <2>5
<1>5. 0 \in S
  BY <1>3
<1>6. ASSUME NEW n \in S PROVE n + 1 \in S
  <2> HIDE DEF Upto
  <2>1. n \in Nat /\ (n + 1 <= Len(s) => Upto(n))
    BY <1>2
  <2> QED BY <2>1, <1>4
<1>7. S \in SUBSET Nat
  OBVIOUS
<1> HIDE DEF S
<1>8. S = Nat
  BY <1>5, <1>6, <1>7, SetInduction, Zenon
<1>9. Upto(Len(s))
  <2> HIDE DEF Upto
  <2> QED BY <1>2, <1>8 DEF S
<1> QED BY <1>1, <1>9 DEF EmbedsIn, UnfoldsThose

\* Those has nothing twice if the list has not.
LEMMA ThoseInjective ==
  ASSUME NEW X, NEW s \in Seq(X), NEW T, IsInjective(s)
  PROVE  IsInjective(Those(s, T))
<1> DEFINE t == Those(s, T)
<1>1. PICK g : EmbedsIn(g, t, s)
  BY ThoseInOrder
<1>2. t \in Seq(X) /\ DOMAIN t = 1..Len(t) /\ Len(t) \in Nat /\ DOMAIN s = 1..Len(s)
  BY ThoseHold
<1> HIDE DEF t
<1>3. ASSUME NEW i \in 1..Len(t), NEW j \in 1..Len(t), t[i] = t[j], i < j
      PROVE  FALSE
  <2>1. g[i] < g[j] /\ s[g[i]] = s[g[j]] /\ g[i] \in 1..Len(s) /\ g[j] \in 1..Len(s)
    BY <1>1, <1>3 DEF EmbedsIn
  <2>2. g[i] = g[j]
    BY <1>2, <2>1 DEF IsInjective
  <2> QED BY <2>1, <2>2
<1>4. \A i, j \in 1..Len(t) : i = j \/ i < j \/ j < i
  BY <1>2
<1>5. IsInjective(t)
  BY <1>2, <1>3, <1>4 DEF IsInjective
<1> QED BY <1>5 DEF t

\* Two lists with nothing in common, one after the other.
LEMMA ConcatInjective ==
  ASSUME NEW X, NEW s \in Seq(X), NEW t \in Seq(X), IsInjective(s), IsInjective(t),
         ToSet(s) \cap ToSet(t) = {}
  PROVE  IsInjective(s \o t)
<1> DEFINE u == s \o t
<1>1. /\ u \in Seq(X) /\ Len(u) = Len(s) + Len(t)
      /\ \A i \in 1..(Len(s) + Len(t)) : u[i] = IF i <= Len(s) THEN s[i] ELSE t[i - Len(s)]
  BY ConcatProperties
<1>2. /\ DOMAIN u = 1..Len(u) /\ DOMAIN s = 1..Len(s) /\ DOMAIN t = 1..Len(t)
      /\ Len(s) \in Nat /\ Len(t) \in Nat
  BY <1>1
<1> HIDE DEF u
<1>3. ASSUME NEW i \in 1..Len(u), i <= Len(s)
      PROVE  i \in DOMAIN s /\ u[i] = s[i] /\ u[i] \in ToSet(s)
  <2>1. i \in DOMAIN s /\ u[i] = s[i]
    BY <1>1, <1>2, <1>3
  <2> QED BY <2>1 DEF ToSet
<1>4. ASSUME NEW i \in 1..Len(u), ~(i <= Len(s))
      PROVE  i - Len(s) \in DOMAIN t /\ u[i] = t[i - Len(s)] /\ u[i] \in ToSet(t)
  <2>1. i - Len(s) \in DOMAIN t /\ u[i] = t[i - Len(s)]
    BY <1>1, <1>2, <1>4
  <2> QED BY <2>1 DEF ToSet
<1>5. ASSUME NEW i \in 1..Len(u), NEW j \in 1..Len(u), u[i] = u[j]
      PROVE  i = j
  <2>1. CASE i <= Len(s) /\ j <= Len(s)
    BY <1>3, <1>5, <2>1 DEF IsInjective
  <2>2. CASE ~(i <= Len(s)) /\ ~(j <= Len(s))
    <3>1. i - Len(s) = j - Len(s)
      BY <1>4, <1>5, <2>2 DEF IsInjective
    <3> QED BY <1>2, <3>1
  <2> QED BY <1>3, <1>4, <1>5, <2>1, <2>2
<1>6. IsInjective(u)
  BY <1>2, <1>5 DEF IsInjective
<1> QED BY <1>6 DEF u

\* s[:n].
LEMMA PrefixHolds ==
  ASSUME NEW X, NEW s \in Seq(X), NEW n \in Nat, n <= Len(s)
  PROVE  /\ SubSeq(s, 1, n) \in Seq(X) /\ Len(SubSeq(s, 1, n)) = n
         /\ \A i \in 1..n : SubSeq(s, 1, n)[i] = s[i]
         /\ ToSet(SubSeq(s, 1, n)) \subseteq ToSet(s)
         /\ IsInjective(s) => IsInjective(SubSeq(s, 1, n))
<1> DEFINE p == SubSeq(s, 1, n)
<1>1. /\ Len(s) \in Nat /\ DOMAIN s = 1..Len(s)
      /\ \A i \in 1..n : s[i] \in X /\ i \in DOMAIN s
  OBVIOUS
<1>2. /\ p \in Seq(X)
      /\ Len(p) = IF 1 <= n THEN n - 1 + 1 ELSE 0
      /\ \A i \in 1..(n - 1 + 1) : p[i] = s[1 + i - 1]
  BY <1>1, SubSeqProperties
<1> HIDE DEF p
<1>3. Len(p) = n /\ DOMAIN p = 1..n
  BY <1>2
<1>4. ASSUME NEW i \in 1..n PROVE p[i] = s[i]
  <2>1. i \in 1..(n - 1 + 1) /\ 1 + i - 1 = i
    OBVIOUS
  <2> QED BY <1>2, <2>1
<1>5. ToSet(p) \subseteq ToSet(s)
  BY <1>1, <1>3, <1>4 DEF ToSet
<1>6. IsInjective(s) => IsInjective(p)
  BY <1>1, <1>3, <1>4 DEF IsInjective
<1> QED BY <1>2, <1>3, <1>4, <1>5, <1>6 DEF p

\* Where the elements in T stand afterwards.
KeptIn(g, s, T, t) ==
  /\ g \in [{i \in 1..Len(s) : s[i] \in T} -> 1..Len(t)]
  /\ \A i, j \in DOMAIN g : g[i] = g[j] => i = j
  /\ \A i \in DOMAIN g : t[g[i]] = s[i]

\* Those keeps every occurrence of what it keeps.
LEMMA ThoseKeep ==
  ASSUME NEW X, NEW s \in Seq(X), NEW T
  PROVE  \E g : KeptIn(g, s, T, Those(s, T))
<1>1. PICK f \in [0..Len(s) -> Seq(X)] : UnfoldsThose(f, s, T)
  BY ThoseUnfold, Zenon
<1>2. Len(s) \in Nat
  OBVIOUS
<1> DEFINE K(n) == {i \in 1..n : s[i] \in T}
           Upto(n) == \E g : /\ g \in [K(n) -> 1..Len(f[n])]
                             /\ \A i, j \in K(n) : g[i] = g[j] => i = j
                             /\ \A i \in K(n) : f[n][g[i]] = s[i]
           S == {n \in Nat : n <= Len(s) => Upto(n)}
<1>3. Upto(0)
  <2> DEFINE g == [i \in {} |-> i]
  <2>1. K(0) = {} /\ g \in [{} -> 1..Len(f[0])]
    OBVIOUS
  <2> HIDE DEF g, K
  <2> QED BY <2>1
<1>4. ASSUME NEW n \in Nat, n + 1 <= Len(s), Upto(n)
      PROVE  Upto(n + 1)
  <2>1. PICK g : /\ g \in [K(n) -> 1..Len(f[n])]
                 /\ \A i, j \in K(n) : g[i] = g[j] => i = j
                 /\ \A i \in K(n) : f[n][g[i]] = s[i]
    BY <1>4
  <2>2. n + 1 \in 1..Len(s) /\ (n + 1) - 1 = n /\ n \in 0..Len(s) /\ s[n + 1] \in X
    BY <1>4, <1>2
  <2>3. /\ f[n] \in Seq(X) /\ Len(f[n]) \in Nat
        /\ f[n + 1] = IF s[n + 1] \in T THEN Append(f[n], s[n + 1]) ELSE f[n]
    BY <1>1, <2>2 DEF UnfoldsThose
  <2>4. 1..(n + 1) = 1..n \cup {n + 1} /\ n + 1 \notin 1..n
    BY <1>4
  <2>5. CASE s[n + 1] \notin T
    <3>1. f[n + 1] = f[n] /\ K(n + 1) = K(n)
      BY <2>3, <2>4, <2>5
    <3> HIDE DEF K
    <3> QED BY <2>1, <3>1
  <2>6. CASE s[n + 1] \in T
    <3> DEFINE k == Len(f[n]) + 1
               h == [i \in K(n + 1) |-> IF i = n + 1 THEN k ELSE g[i]]
    <3>1. K(n + 1) = K(n) \cup {n + 1} /\ n + 1 \notin K(n)
      BY <2>4, <2>6
    <3>2. /\ f[n + 1] = Append(f[n], s[n + 1])
          /\ Len(f[n + 1]) = k /\ k \in Nat
          /\ \A i \in 1..Len(f[n]) : f[n + 1][i] = f[n][i]
          /\ f[n + 1][k] = s[n + 1]
      BY <2>2, <2>3, <2>6, AppendProperties
    <3> HIDE DEF K
    <3>3. \A i \in K(n) : g[i] \in 1..Len(f[n]) /\ g[i] \in 1..k /\ g[i] # k
      BY <2>1, <2>3
    <3>4. k \in 1..k
      BY <2>3
    <3>5. h \in [K(n + 1) -> 1..k]
      BY <3>1, <3>3, <3>4
    <3>6. \A i, j \in K(n + 1) : h[i] = h[j] => i = j
      BY <2>1, <3>1, <3>3
    <3>7. \A i \in K(n + 1) : f[n + 1][h[i]] = s[i]
      BY <2>1, <3>1, <3>2, <3>3
    <3> HIDE DEF h, k
    <3> QED BY <3>2, <3>5, <3>6, <3>7
  <2> QED BY <2>5, <2>6
<1>5. 0 \in S
  BY <1>3
<1>6. ASSUME NEW n \in S PROVE n + 1 \in S
  <2> HIDE DEF Upto
  <2>1. n \in Nat /\ (n + 1 <= Len(s) => Upto(n))
    BY <1>2
  <2> QED BY <2>1, <1>4
<1>7. S \in SUBSET Nat
  OBVIOUS
<1> HIDE DEF S
<1>8. S = Nat
  BY <1>5, <1>6, <1>7, SetInduction, Zenon
<1>9. Upto(Len(s))
  <2> HIDE DEF Upto
  <2> QED BY <1>2, <1>8 DEF S
<1>10. PICK g : /\ g \in [K(Len(s)) -> 1..Len(f[Len(s)])]
                /\ \A i, j \in K(Len(s)) : g[i] = g[j] => i = j
                /\ \A i \in K(Len(s)) : f[Len(s)][g[i]] = s[i]
  BY <1>9
<1>11. DOMAIN g = K(Len(s)) /\ f[Len(s)] = Those(s, T)
  BY <1>1, <1>10 DEF UnfoldsThose
<1>12. KeptIn(g, s, T, Those(s, T))
  BY <1>10, <1>11 DEF KeptIn
<1> QED BY <1>12

-----------------------------------------------------------------------------
(* Added *)

\* The definition of Added, for every list of natural numbers.
LEMMA AddedUnfold ==
  ASSUME NEW s \in Seq(Nat)
  PROVE  \E f \in [0..Len(s) -> Nat] :
           /\ Added(s) = f[Len(s)]
           /\ f[0] = 0
           /\ \A n \in 1..Len(s) : f[n] = f[n - 1] + s[n]
<1> DEFINE Body(f) == [n \in 0..Len(s) |-> IF n = 0 THEN 0 ELSE f[n - 1] + s[n]]
           f == CHOOSE g : g = Body(g)
           G == [n \in 1..Len(s) |-> [v \in Nat |-> v + s[n]]]
<1>1. Added(s) = f[Len(s)]
  BY DEF Added
<1>2. Len(s) \in Nat /\ \A n \in 1..Len(s) : s[n] \in Nat
  OBVIOUS
<1>3. G \in [1..Len(s) -> [Nat -> Nat]]
  BY <1>2
<1>4. PICK h \in [0..Len(s) -> Nat] : Recurs(h, Len(s), 0, G)
  <2> HIDE DEF G
  <2>1. 0 \in Nat
    OBVIOUS
  <2> QED BY <1>2, <1>3, <2>1, Recursion, Zenon
<1>5. h = Body(h)
  <2>1. ASSUME NEW n \in 0..Len(s), n # 0
        PROVE  h[n] = h[n - 1] + s[n]
    <3>1. n \in 1..Len(s) /\ n - 1 \in 0..Len(s)
      BY <2>1
    <3> QED BY <1>4, <3>1 DEF Recurs
  <2> QED BY <1>4, <2>1 DEF Recurs
<1>6. f = Body(f)
  <2> HIDE DEF Body
  <2> QED BY <1>5
<1>7. f[0] = 0 /\ \A n \in 1..Len(s) : f[n] = f[n - 1] + s[n]
  <2> HIDE DEF f
  <2>1. 0 \in 0..Len(s) /\ \A n \in 1..Len(s) : n \in 0..Len(s) /\ n # 0
    BY <1>2
  <2> QED BY <1>6, <2>1
<1>8. \A n \in 0..Len(s) : f[n] \in Nat
  <2> DEFINE S == {n \in Nat : n <= Len(s) => f[n] \in Nat}
  <2> HIDE DEF f
  <2>1. 0 \in S
    BY <1>7
  <2>2. ASSUME NEW n \in S PROVE n + 1 \in S
    <3>1. CASE n + 1 <= Len(s)
      <4>1. n + 1 \in 1..Len(s) /\ (n + 1) - 1 = n /\ f[n] \in Nat
        BY <3>1, <1>2
      <4>2. f[n + 1] = f[n] + s[n + 1] /\ s[n + 1] \in Nat
        BY <4>1, <1>2, <1>7
      <4> QED BY <4>1, <4>2
    <3> QED BY <3>1
  <2>3. S \in SUBSET Nat
    OBVIOUS
  <2> HIDE DEF S
  <2>4. S = Nat
    BY <2>1, <2>2, <2>3, SetInduction, Zenon
  <2> QED BY <2>4, <1>2 DEF S
<1>9. f \in [0..Len(s) -> Nat]
  <2>1. f = [n \in 0..Len(s) |-> f[n]]
    <3> HIDE DEF f
    <3> QED BY <1>6
  <2> HIDE DEF f
  <2> QED BY <2>1, <1>8
<1> HIDE DEF f
<1> QED BY <1>1, <1>7, <1>9

\* The sum of nothing, and of one number.
LEMMA AddedShort ==
  ASSUME NEW s \in Seq(Nat)
  PROVE  /\ Added(s) \in Nat
         /\ Len(s) = 0 => Added(s) = 0
         /\ Len(s) = 1 => Added(s) = s[1]
<1>1. PICK f \in [0..Len(s) -> Nat] :
           /\ Added(s) = f[Len(s)]
           /\ f[0] = 0
           /\ \A n \in 1..Len(s) : f[n] = f[n - 1] + s[n]
  BY AddedUnfold
<1>2. Len(s) \in Nat /\ \A n \in 1..Len(s) : s[n] \in Nat
  OBVIOUS
<1>3. Added(s) \in Nat
  BY <1>1, <1>2
<1>4. ASSUME Len(s) = 1 PROVE Added(s) = s[1]
  <2>1. 1 \in 1..Len(s) /\ 1 - 1 = 0
    BY <1>4
  <2> QED BY <1>1, <1>2, <1>4, <2>1
<1> QED BY <1>1, <1>3, <1>4

\* An append adds its number.
LEMMA AddedAppend ==
  ASSUME NEW s \in Seq(Nat), NEW x \in Nat
  PROVE  Added(Append(s, x)) = Added(s) + x
<1> DEFINE t == Append(s, x)
<1>1. /\ t \in Seq(Nat) /\ Len(t) = Len(s) + 1
      /\ t[Len(s) + 1] = x /\ \A n \in 1..Len(s) : t[n] = s[n]
  BY AppendProperties
<1> HIDE DEF t
<1>2. PICK f \in [0..Len(s) -> Nat] :
           /\ Added(s) = f[Len(s)]
           /\ f[0] = 0
           /\ \A n \in 1..Len(s) : f[n] = f[n - 1] + s[n]
  BY AddedUnfold
<1>3. PICK g \in [0..Len(t) -> Nat] :
           /\ Added(t) = g[Len(t)]
           /\ g[0] = 0
           /\ \A n \in 1..Len(t) : g[n] = g[n - 1] + t[n]
  BY <1>1, AddedUnfold
<1>4. PICK L \in Nat : L = Len(s) /\ L + 1 \in 1..Len(t) /\ L + 1 = Len(t)
  BY <1>1
<1> DEFINE S == {n \in Nat : n <= L => g[n] = f[n]}
<1>5. 0 \in S
  BY <1>2, <1>3
<1>6. ASSUME NEW n \in S PROVE n + 1 \in S
  <2> SUFFICES ASSUME n + 1 <= L PROVE g[n + 1] = f[n + 1]
    OBVIOUS
  <2>1. /\ n + 1 \in 1..Len(s) /\ n + 1 \in 1..Len(t) /\ (n + 1) - 1 = n /\ g[n] = f[n]
    BY <1>4
  <2> QED BY <1>1, <1>2, <1>3, <2>1
<1>7. S \in SUBSET Nat
  OBVIOUS
<1> HIDE DEF S
<1>8. S = Nat
  BY <1>5, <1>6, <1>7, SetInduction, Zenon
<1>9. g[L] = f[L]
  BY <1>8 DEF S
<1>10. g[L + 1] = g[L] + x
  <2>1. (L + 1) - 1 = L /\ t[L + 1] = x
    BY <1>1, <1>4
  <2> QED BY <1>3, <1>4, <2>1
<1> QED BY <1>1, <1>2, <1>3, <1>4, <1>9, <1>10 DEF t

\* A sum of numbers of which none is below c.
LEMMA AddedAtLeast ==
  ASSUME NEW s \in Seq(Nat), NEW c \in Nat, \A n \in 1..Len(s) : s[n] >= c
  PROVE  Added(s) >= c * Len(s)
<1>1. PICK f \in [0..Len(s) -> Nat] :
           /\ Added(s) = f[Len(s)]
           /\ f[0] = 0
           /\ \A n \in 1..Len(s) : f[n] = f[n - 1] + s[n]
  BY AddedUnfold
<1> DEFINE S == {n \in Nat : n <= Len(s) => f[n] >= c * n}
<1>2. 0 \in S
  BY <1>1
<1>3. ASSUME NEW n \in S PROVE n + 1 \in S
  <2> SUFFICES ASSUME n + 1 <= Len(s) PROVE f[n + 1] >= c * (n + 1)
    OBVIOUS
  <2>1. /\ n + 1 \in 1..Len(s) /\ (n + 1) - 1 = n /\ n \in 0..Len(s) /\ f[n] >= c * n
    OBVIOUS
  <2>2. f[n + 1] = f[n] + s[n + 1]
    BY <1>1, <2>1
  <2>4. f[n] \in Nat
    BY <1>1, <2>1
  <2>5. s[n + 1] >= c /\ s[n + 1] \in Nat
    BY <2>1
  <2>3. c * (n + 1) = c * n + c /\ c * n \in Nat
    OBVIOUS
  <2> QED BY <2>1, <2>2, <2>3, <2>4, <2>5
<1>4. S \in SUBSET Nat
  OBVIOUS
<1> HIDE DEF S
<1>5. S = Nat
  BY <1>2, <1>3, <1>4, SetInduction, Zenon
<1>6. f[Len(s)] >= c * Len(s)
  BY <1>5 DEF S
<1> QED BY <1>1, <1>6

-----------------------------------------------------------------------------
(* Slices *)

\* The last n elements.
LEMMA LastNElements ==
  ASSUME NEW X, NEW s \in Seq(X), NEW n \in Nat
  PROVE  /\ LastN(s, n) \in Seq(X)
         /\ Len(LastN(s, n)) = IF Len(s) > n THEN n ELSE Len(s)
         /\ \A k \in 1..Len(LastN(s, n)) :
              LastN(s, n)[k] = s[Len(s) - Len(LastN(s, n)) + k]
<1> DEFINE m == IF Len(s) > n THEN Len(s) - n + 1 ELSE 1
<1>1. /\ Len(s) \in Nat /\ m \in Int /\ m >= 1
      /\ \A i \in m..Len(s) : s[i] \in X
  OBVIOUS
<1>2. /\ SubSeq(s, m, Len(s)) \in Seq(X)
      /\ Len(SubSeq(s, m, Len(s))) = IF m <= Len(s) THEN Len(s) - m + 1 ELSE 0
      /\ \A i \in 1..(Len(s) - m + 1) : SubSeq(s, m, Len(s))[i] = s[m + i - 1]
  <2> HIDE DEF m
  <2> QED BY <1>1, SubSeqProperties
<1>3. LastN(s, n) = SubSeq(s, m, Len(s))
  BY DEF LastN
<1>4. Len(LastN(s, n)) = IF Len(s) > n THEN n ELSE Len(s)
  <2>1. CASE Len(s) > n
    <3>1. m = Len(s) - n + 1
      BY <2>1
    <3>2. m <= Len(s) <=> n # 0
      BY <1>1, <3>1
    <3>3. Len(s) - m + 1 = n
      BY <1>1, <3>1
    <3> HIDE DEF m
    <3> QED BY <1>2, <1>3, <2>1, <3>2, <3>3
  <2>2. CASE ~(Len(s) > n)
    <3>1. m = 1
      BY <2>2
    <3>2. /\ Len(s) - m + 1 = Len(s)
          /\ m <= Len(s) <=> Len(s) # 0
      BY <1>1, <3>1
    <3> HIDE DEF m
    <3> QED BY <1>2, <1>3, <2>2, <3>2
  <2> QED BY <2>1, <2>2
<1>5. ASSUME NEW k \in 1..Len(LastN(s, n))
      PROVE  LastN(s, n)[k] = s[Len(s) - Len(LastN(s, n)) + k]
  <2>1. /\ k \in 1..(Len(s) - m + 1)
        /\ m + k - 1 = Len(s) - Len(LastN(s, n)) + k
    BY <1>1, <1>4
  <2> HIDE DEF m
  <2> QED BY <1>2, <1>3, <2>1
<1> QED BY <1>2, <1>3, <1>4, <1>5

\* All but the last n.
LEMMA AllButLastNElements ==
  ASSUME NEW X, NEW s \in Seq(X), NEW n \in Nat
  PROVE  /\ AllButLastN(s, n) \in Seq(X)
         /\ Len(AllButLastN(s, n)) = IF Len(s) > n THEN Len(s) - n ELSE 0
         /\ \A k \in 1..Len(AllButLastN(s, n)) : AllButLastN(s, n)[k] = s[k]
<1> DEFINE m == Len(s) - n
<1>1. /\ Len(s) \in Nat /\ m \in Int /\ m <= Len(s)
      /\ \A i \in 1..m : s[i] \in X
  OBVIOUS
<1>2. /\ SubSeq(s, 1, m) \in Seq(X)
      /\ Len(SubSeq(s, 1, m)) = IF 1 <= m THEN m - 1 + 1 ELSE 0
      /\ \A i \in 1..(m - 1 + 1) : SubSeq(s, 1, m)[i] = s[1 + i - 1]
  <2> HIDE DEF m
  <2> QED BY <1>1, SubSeqProperties
<1>3. AllButLastN(s, n) = SubSeq(s, 1, m)
  BY DEF AllButLastN
<1>4. Len(AllButLastN(s, n)) = IF Len(s) > n THEN Len(s) - n ELSE 0
  <2>1. /\ m - 1 + 1 = m
        /\ 1 <= m <=> Len(s) > n
    BY <1>1
  <2>2. Len(AllButLastN(s, n)) = IF 1 <= m THEN m ELSE 0
    <3> HIDE DEF m
    <3> QED BY <1>2, <1>3, <2>1
  <2> QED BY <2>1, <2>2
<1>5. ASSUME NEW k \in 1..Len(AllButLastN(s, n))
      PROVE  AllButLastN(s, n)[k] = s[k]
  <2>1. k \in 1..(m - 1 + 1) /\ 1 + k - 1 = k
    BY <1>1, <1>4
  <2> HIDE DEF m
  <2> QED BY <1>2, <1>3, <2>1
<1> QED BY <1>2, <1>3, <1>4, <1>5

\* The two slices hold what the list holds, and nothing in common when the
\* list has nothing twice.
LEMMA SlicesHold ==
  ASSUME NEW X, NEW s \in Seq(X), NEW n \in Nat
  PROVE  /\ ToSet(LastN(s, n)) \cup ToSet(AllButLastN(s, n)) = ToSet(s)
         /\ IsInjective(s) => /\ ToSet(LastN(s, n)) \cap ToSet(AllButLastN(s, n)) = {}
                              /\ IsInjective(LastN(s, n))
<1> DEFINE l == LastN(s, n)
           a == AllButLastN(s, n)
           d == Len(s) - Len(l)
<1>1. /\ Len(s) \in Nat /\ DOMAIN s = 1..Len(s)
      /\ l \in Seq(X) /\ Len(l) = IF Len(s) > n THEN n ELSE Len(s)
      /\ \A k \in 1..Len(l) : l[k] = s[d + k]
  BY LastNElements
<1>2. /\ a \in Seq(X) /\ Len(a) = IF Len(s) > n THEN Len(s) - n ELSE 0
      /\ \A k \in 1..Len(a) : a[k] = s[k]
  BY AllButLastNElements
<1> HIDE DEF l, a
<1>3. /\ DOMAIN l = 1..Len(l) /\ DOMAIN a = 1..Len(a)
      /\ Len(l) \in Nat /\ Len(a) \in Nat
  BY <1>1, <1>2, LenProperties
<1>4. Len(a) = d /\ d \in Nat /\ d + Len(l) = Len(s)
  <2>1. CASE Len(s) > n
    <3>1. Len(l) = n /\ Len(a) = Len(s) - n /\ Len(s) \in Nat
      BY <1>1, <1>2, <2>1
    <3> QED BY <3>1, <2>1
  <2>2. CASE ~(Len(s) > n)
    <3>1. Len(l) = Len(s) /\ Len(a) = 0 /\ Len(s) \in Nat
      BY <1>1, <1>2, <2>2
    <3> QED BY <3>1
  <2> QED BY <2>1, <2>2
<1> HIDE DEF d
<1>5. ToSet(l) \subseteq {s[k] : k \in (d + 1)..Len(s)}
  <2> SUFFICES ASSUME NEW k \in 1..Len(l) PROVE l[k] \in {s[i] : i \in (d + 1)..Len(s)}
    BY <1>3 DEF ToSet
  <2>1. d + k \in (d + 1)..Len(s)
    BY <1>4
  <2> QED BY <1>1, <2>1
<1>6. {s[k] : k \in (d + 1)..Len(s)} \subseteq ToSet(l)
  <2> SUFFICES ASSUME NEW k \in (d + 1)..Len(s) PROVE s[k] \in ToSet(l)
    OBVIOUS
  <2>1. k - d \in 1..Len(l) /\ d + (k - d) = k
    BY <1>4
  <2>2. l[k - d] = s[k]
    BY <1>1, <2>1
  <2> QED BY <1>3, <2>1, <2>2 DEF ToSet
<1>7. ToSet(a) = {s[k] : k \in 1..d}
  BY <1>2, <1>4, <1>3 DEF ToSet
<1>8. 1..Len(s) = 1..d \cup (d + 1)..Len(s)
  BY <1>4
<1>9. ToSet(s) = {s[k] : k \in 1..Len(s)}
  BY <1>1 DEF ToSet
<1>10. ToSet(l) \cup ToSet(a) = ToSet(s)
  BY <1>5, <1>6, <1>7, <1>8, <1>9
<1>11. ASSUME IsInjective(s) PROVE ToSet(l) \cap ToSet(a) = {}
  <2>1. \A i \in 1..d, j \in (d + 1)..Len(s) : s[i] # s[j]
    <3> TAKE i \in 1..d, j \in (d + 1)..Len(s)
    <3>1. i \in 1..Len(s) /\ j \in 1..Len(s) /\ i # j
      BY <1>4
    <3>2. i \in DOMAIN s /\ j \in DOMAIN s
      BY <1>1, <3>1
    <3> QED BY <1>11, <3>1, <3>2 DEF IsInjective
  <2> QED BY <1>5, <1>7, <2>1
<1>12. ASSUME IsInjective(s) PROVE IsInjective(l)
  <2> SUFFICES ASSUME NEW i \in 1..Len(l), NEW j \in 1..Len(l), l[i] = l[j]
               PROVE  i = j
    BY <1>3 DEF IsInjective
  <2>0. d + i \in 1..Len(s) /\ d + j \in 1..Len(s)
    BY <1>4
  <2>1. d + i \in DOMAIN s /\ d + j \in DOMAIN s
    BY <1>1, <2>0
  <2>2. s[d + i] = s[d + j]
    BY <1>1
  <2>3. d + i = d + j
    BY <1>12, <2>1, <2>2 DEF IsInjective
  <2> QED BY <1>4, <2>3
<1> QED BY <1>10, <1>11, <1>12 DEF l, a

-----------------------------------------------------------------------------
(* Lists taken apart, added up, and made of a set *)

\* A list with one more element.
LEMMA ThoseAppend ==
  ASSUME NEW X, NEW s \in Seq(X), NEW x \in X, NEW T
  PROVE  Those(Append(s, x), T) =
           IF x \in T THEN Append(Those(s, T), x) ELSE Those(s, T)
<1> DEFINE t == Append(s, x)
<1>1. /\ t \in Seq(X) /\ Len(t) = Len(s) + 1
      /\ t[Len(s) + 1] = x /\ \A n \in 1..Len(s) : t[n] = s[n]
  BY AppendProperties
<1> HIDE DEF t
<1>2. PICK f \in [0..Len(s) -> Seq(X)] : UnfoldsThose(f, s, T)
  BY ThoseUnfold, Zenon
<1>3. PICK g \in [0..Len(t) -> Seq(X)] : UnfoldsThose(g, t, T)
  BY <1>1, ThoseUnfold, Zenon
<1>4. PICK L \in Nat : L = Len(s) /\ L + 1 \in 1..Len(t) /\ L + 1 = Len(t)
  BY <1>1
<1> DEFINE S == {n \in Nat : n <= L => g[n] = f[n]}
<1>5. 0 \in S
  BY <1>2, <1>3 DEF UnfoldsThose
<1>6. ASSUME NEW n \in S PROVE n + 1 \in S
  <2> SUFFICES ASSUME n + 1 <= L PROVE g[n + 1] = f[n + 1]
    OBVIOUS
  <2>1. /\ n + 1 \in 1..Len(s) /\ n + 1 \in 1..Len(t) /\ (n + 1) - 1 = n /\ g[n] = f[n]
    BY <1>4
  <2> QED BY <1>1, <1>2, <1>3, <2>1 DEF UnfoldsThose
<1>7. S \in SUBSET Nat
  OBVIOUS
<1> HIDE DEF S
<1>8. S = Nat
  BY <1>5, <1>6, <1>7, SetInduction, Zenon
<1>9. g[L] = f[L]
  BY <1>8 DEF S
<1>10. g[L + 1] = IF x \in T THEN Append(g[L], x) ELSE g[L]
  <2>1. (L + 1) - 1 = L /\ t[L + 1] = x
    BY <1>1, <1>4
  <2> QED BY <1>3, <1>4, <2>1 DEF UnfoldsThose
<1> QED BY <1>2, <1>3, <1>4, <1>9, <1>10 DEF UnfoldsThose, t

\* Those of those are those of both.
LEMMA ThoseTwice ==
  ASSUME NEW X, NEW s \in Seq(X), NEW A, NEW B
  PROVE  Those(Those(s, A), B) = Those(s, A \cap B)
<1>1. PICK f \in [0..Len(s) -> Seq(X)] : UnfoldsThose(f, s, A)
  BY ThoseUnfold, Zenon
<1>2. PICK h \in [0..Len(s) -> Seq(X)] : UnfoldsThose(h, s, A \cap B)
  BY ThoseUnfold, Zenon
<1> DEFINE S == {n \in Nat : n <= Len(s) => Those(f[n], B) = h[n]}
<1>3. 0 \in S
  <2>1. <<>> \in Seq(X) /\ ToSet(<<>>) \subseteq B
    BY DEF ToSet
  <2>2. Those(<<>>, B) = <<>>
    BY <2>1, ThoseAll
  <2>3. f[0] = <<>> /\ h[0] = <<>>
    BY <1>1, <1>2 DEF UnfoldsThose
  <2> QED BY <2>2, <2>3
<1>4. ASSUME NEW n \in S PROVE n + 1 \in S
  <2> SUFFICES ASSUME n + 1 <= Len(s) PROVE Those(f[n + 1], B) = h[n + 1]
    OBVIOUS
  <2>1. /\ n + 1 \in 1..Len(s) /\ (n + 1) - 1 = n /\ n \in 0..Len(s)
        /\ n \in Nat /\ Those(f[n], B) = h[n]
    OBVIOUS
  <2>2. s[n + 1] \in X /\ f[n] \in Seq(X)
    BY <2>1
  <2>3. /\ f[n + 1] = IF s[n + 1] \in A THEN Append(f[n], s[n + 1]) ELSE f[n]
        /\ h[n + 1] = IF s[n + 1] \in A \cap B THEN Append(h[n], s[n + 1]) ELSE h[n]
    BY <1>1, <1>2, <2>1 DEF UnfoldsThose
  <2>4. Those(Append(f[n], s[n + 1]), B) =
          IF s[n + 1] \in B THEN Append(Those(f[n], B), s[n + 1]) ELSE Those(f[n], B)
    <3>1. \A t \in Seq(X), x \in X :
            Those(Append(t, x), B) = IF x \in B THEN Append(Those(t, B), x) ELSE Those(t, B)
      BY ThoseAppend
    <3> QED BY <2>2, <3>1
  <2> QED BY <2>1, <2>3, <2>4
<1>5. S \in SUBSET Nat
  OBVIOUS
<1> HIDE DEF S
<1>6. S = Nat
  BY <1>3, <1>4, <1>5, SetInduction, Zenon
<1>7. PICK L \in Nat : L = Len(s)
  OBVIOUS
<1>8. Those(f[L], B) = h[L]
  BY <1>6, <1>7 DEF S
<1> QED BY <1>1, <1>2, <1>7, <1>8 DEF UnfoldsThose

\* Sets that share nothing and have between them all of a list take each of its
\* elements once.
LEMMA ThosePartition ==
  ASSUME NEW X, NEW s \in Seq(X), NEW N \in Nat, NEW B,
         \A i, j \in 1..N : i # j => B[i] \cap B[j] = {},
         ToSet(s) \subseteq UNION {B[i] : i \in 1..N}
  PROVE  Added([i \in 1..N |-> Len(Those(s, B[i]))]) = Len(s)
<1> DEFINE Count(T) == Len(Those(s, T))
           Up(n) == UNION {B[i] : i \in 1..n}
           counts(n) == [i \in 1..n |-> Count(B[i])]
           S == {n \in Nat : n <= N => Added(counts(n)) = Count(Up(n))}
<1>1. \A T : Count(T) \in Nat
  <2> SUFFICES ASSUME NEW T PROVE Count(T) \in Nat
    OBVIOUS
  <2>1. Those(s, T) \in Seq(X)
    BY ThoseHold
  <2> QED BY <2>1
<1>2. \A P, Q : P \cap Q = {} => Count(P) + Count(Q) = Count(P \cup Q)
  BY ThoseSplit
<1>3. Count({}) = 0
  <2>1. Count({}) + Count({}) = Count({} \cup {})
    BY <1>2
  <2>2. {} \cup {} = {}
    OBVIOUS
  <2>3. Count({}) + Count({}) = Count({})
    BY <2>1, <2>2
  <2>4. PICK c \in Nat : c = Count({})
    BY <1>1
  <2> HIDE DEF Count
  <2> QED BY <2>3, <2>4
<1>4. Count(Up(N)) = Len(s)
  BY ThoseAll
<1> HIDE DEF Count
<1>5. 0 \in S
  <2>1. counts(0) \in Seq(Nat) /\ Len(counts(0)) = 0
    OBVIOUS
  <2>2. Up(0) = {}
    OBVIOUS
  <2> QED BY <1>3, <2>1, <2>2, AddedShort
<1>6. ASSUME NEW n \in S PROVE n + 1 \in S
  <2> SUFFICES ASSUME n + 1 <= N PROVE Added(counts(n + 1)) = Count(Up(n + 1))
    OBVIOUS
  <2>1. n \in Nat /\ Added(counts(n)) = Count(Up(n)) /\ n + 1 \in 1..N /\ n <= N
    OBVIOUS
  <2>2. counts(n) \in Seq(Nat) /\ Len(counts(n)) = n
    BY <1>1, <2>1
  <2>3. counts(n + 1) = Append(counts(n), Count(B[n + 1]))
    <3>1. \A k \in 1..(n + 1) : k \in 1..n \/ k = n + 1
      BY <2>1
    <3>2. /\ Append(counts(n), Count(B[n + 1])) \in Seq(Nat)
          /\ Len(Append(counts(n), Count(B[n + 1]))) = n + 1
          /\ \A k \in 1..n : Append(counts(n), Count(B[n + 1]))[k] = Count(B[k])
          /\ Append(counts(n), Count(B[n + 1]))[n + 1] = Count(B[n + 1])
      BY <1>1, <2>1, <2>2, AppendProperties
    <3>3. counts(n + 1) \in Seq(Nat) /\ Len(counts(n + 1)) = n + 1
      BY <1>1, <2>1
    <3> QED BY <2>1, <3>1, <3>2, <3>3
  <2>4. Added(counts(n + 1)) = Added(counts(n)) + Count(B[n + 1])
    BY <1>1, <2>2, <2>3, AddedAppend
  <2>5. Up(n) \cap B[n + 1] = {}
    <3>1. \A i \in 1..n : i \in 1..N /\ i # n + 1
      BY <2>1
    <3> QED BY <2>1, <3>1
  <2>6. Up(n + 1) = Up(n) \cup B[n + 1]
    <3>1. \A k : k \in 1..(n + 1) <=> k \in 1..n \/ k = n + 1
      BY <2>1
    <3> QED BY <3>1
  <2> HIDE DEF Up, counts
  <2> QED BY <1>2, <2>1, <2>4, <2>5, <2>6
<1>7. S \in SUBSET Nat
  OBVIOUS
<1> HIDE DEF S
<1>8. S = Nat
  BY <1>5, <1>6, <1>7, SetInduction, Zenon
<1>9. Added(counts(N)) = Count(Up(N))
  <2> HIDE DEF Up, counts
  <2>1. N \in S
    BY <1>8
  <2> QED BY <2>1 DEF S
<1> QED BY <1>4, <1>9 DEF Count

\* A sum of numbers that are all the same.
LEMMA AddedConstant ==
  ASSUME NEW s \in Seq(Nat), NEW c \in Nat, \A i \in 1..Len(s) : s[i] = c
  PROVE  Added(s) = c * Len(s)
<1>1. PICK f \in [0..Len(s) -> Nat] :
           /\ Added(s) = f[Len(s)]
           /\ f[0] = 0
           /\ \A n \in 1..Len(s) : f[n] = f[n - 1] + s[n]
  BY AddedUnfold
<1> DEFINE S == {n \in Nat : n <= Len(s) => f[n] = c * n}
<1>2. 0 \in S
  BY <1>1
<1>3. ASSUME NEW n \in S PROVE n + 1 \in S
  <2> SUFFICES ASSUME n + 1 <= Len(s) PROVE f[n + 1] = c * (n + 1)
    OBVIOUS
  <2>1. n \in Nat /\ n + 1 \in 1..Len(s) /\ (n + 1) - 1 = n /\ f[n] = c * n
    OBVIOUS
  <2>2. f[n + 1] = c * n + c
    BY <1>1, <2>1
  <2>3. c * (n + 1) = c * n + c
    BY <2>1
  <2> QED BY <2>2, <2>3
<1>4. S \in SUBSET Nat
  OBVIOUS
<1> HIDE DEF S
<1>5. S = Nat
  BY <1>2, <1>3, <1>4, SetInduction, Zenon
<1>6. PICK L \in Nat : L = Len(s)
  OBVIOUS
<1>7. f[L] = c * L
  BY <1>5, <1>6 DEF S
<1> QED BY <1>1, <1>6, <1>7

\* A finite set can be listed.
LEMMA SetToSeqLists ==
  ASSUME NEW D, IsFiniteSet(D)
  PROVE  /\ SetToSeq(D) \in Seq(D)
         /\ DOMAIN SetToSeq(D) = 1..Cardinality(D) /\ Cardinality(D) \in Nat
         /\ \A i, j \in 1..Cardinality(D) : SetToSeq(D)[i] = SetToSeq(D)[j] => i = j
         /\ \A d \in D : \E i \in 1..Cardinality(D) : SetToSeq(D)[i] = d
<1>1. PICK N \in Nat : N = Cardinality(D) /\ ExistsBijection(1..N, D)
  BY FS_CardinalityType
<1>2. PICK b \in [1..N -> D] : IsInjective(b)
  BY <1>1 DEF ExistsBijection, Bijection, Injection, IsInjective
<1> DEFINE q == SetToSeq(D)
<1>3. q \in [1..N -> D] /\ IsInjective(q)
  BY <1>1, <1>2 DEF SetToSeq
<1> HIDE DEF q
<1>4. q \in Injection(1..N, D)
  BY <1>3 DEF Injection, IsInjective
<1>5. IsFiniteSet(1..N) /\ Cardinality(1..N) = N
  BY FS_Interval
<1>6. q \in Surjection(1..N, D)
  BY <1>1, <1>4, <1>5, FS_Injection
<1>7. q \in Seq(D) /\ DOMAIN q = 1..N
  BY <1>3
<1>8. \A i, j \in 1..N : q[i] = q[j] => i = j
  BY <1>4 DEF Injection, IsInjective
<1>9. \A d \in D : \E i \in 1..N : q[i] = d
  BY <1>6 DEF Surjection
<1> QED BY <1>1, <1>7, <1>8, <1>9 DEF q

-----------------------------------------------------------------------------
(* Sorting *)

\* A set of natural numbers has a least one.
LEMMA LeastMember ==
  ASSUME NEW T \in SUBSET Nat, T # {}
  PROVE  \E x \in T : \A y \in T : x <= y
<1>1. \E x \in T : \A y \in T : ~(<<y, x>> \in OpToRel(<, Nat))
  BY WFMin, NatLessThanWellFounded, Zenon
<1>2. PICK x \in T : \A y \in T : ~(y < x)
  BY <1>1, Zenon DEF OpToRel
<1> QED BY <1>2

\* i comes before j in a list sorted by the keys.
ComesBefore(keys, i, j) == keys[i] < keys[j] \/ (keys[i] = keys[j] /\ i < j)

\* p sorts the first n.
Sorts(p, n, keys) ==
  /\ p \in [1..n -> 1..n]
  /\ \A k \in 1..n : \E i \in 1..n : p[i] = k
  /\ \A i, j \in 1..n : i < j => ComesBefore(keys, p[i], p[j])

\* Once the first n are sorted, the next one has a place among them.
LEMMA NextIsSortedIn ==
  ASSUME NEW n \in Nat, NEW keys, \A i \in 1..(n + 1) : keys[i] \in Int,
         NEW p, Sorts(p, n, keys)
  PROVE  \E q : Sorts(q, n + 1, keys)
<1> DEFINE T == {m \in 0..n : \A i \in (m + 1)..n : keys[p[i]] > keys[n + 1]}
<1>1. p \in [1..n -> 1..n] /\ \A i \in 1..n : p[i] \in 1..n /\ keys[p[i]] \in Int
  <2>1. p \in [1..n -> 1..n]
    BY DEF Sorts
  <2>2. \A k \in 1..n : k \in 1..(n + 1)
    OBVIOUS
  <2> QED BY <2>1, <2>2
<1>2. \A i, j \in 1..n : i < j => ComesBefore(keys, p[i], p[j])
  BY DEF Sorts
<1>3. PICK m \in T : \A y \in T : m <= y
  <2>1. n \in T
    OBVIOUS
  <2>2. T \in SUBSET Nat /\ T # {}
    BY <2>1
  <2> HIDE DEF T
  <2> QED BY <2>2, LeastMember
<1>4. m \in 0..n /\ \A i \in (m + 1)..n : keys[p[i]] > keys[n + 1]
  OBVIOUS
<1>5. ASSUME NEW i \in 1..m PROVE keys[p[i]] <= keys[n + 1]
  <2>1. m \in 1..n /\ i \in 1..n /\ m - 1 \in 0..n /\ ~(m <= m - 1) /\ i <= m
    BY <1>4
  <2>2. m - 1 \notin T
    BY <1>3, <2>1
  <2>3. PICK j \in m..n : ~(keys[p[j]] > keys[n + 1])
    BY <2>1, <2>2
  <2>4. j = m
    BY <1>4, <2>3
  <2>5. keys[p[m]] <= keys[n + 1]
    BY <1>1, <2>1, <2>3, <2>4
  <2>6. i = m \/ ComesBefore(keys, p[i], p[m])
    BY <1>2, <2>1
  <2>7. keys[p[i]] \in Int /\ keys[p[m]] \in Int /\ keys[n + 1] \in Int
    BY <1>1, <2>1
  <2>8. i = m \/ keys[p[i]] < keys[p[m]] \/ keys[p[i]] = keys[p[m]]
    BY <2>6 DEF ComesBefore
  <2>9. i = m => keys[p[i]] <= keys[n + 1]
    BY <2>5
  <2> HIDE DEF T
  <2> QED BY <2>5, <2>7, <2>8, <2>9
<1> DEFINE q == [i \in 1..(n + 1) |->
             IF i <= m THEN p[i] ELSE IF i = m + 1 THEN n + 1 ELSE p[i - 1]]
<1>6. q \in [1..(n + 1) -> 1..(n + 1)]
  <2> SUFFICES ASSUME NEW i \in 1..(n + 1) PROVE q[i] \in 1..(n + 1)
    OBVIOUS
  <2>1. CASE i <= m
    BY <1>1, <1>4, <2>1
  <2>2. CASE i = m + 1
    BY <1>4, <2>2
  <2>3. CASE i > m + 1
    <3>1. i - 1 \in 1..n
      BY <1>4, <2>3
    <3> QED BY <1>1, <1>4, <2>3, <3>1
  <2> QED BY <1>4, <2>1, <2>2, <2>3
<1>7. ASSUME NEW k \in 1..(n + 1) PROVE \E i \in 1..(n + 1) : q[i] = k
  <2>1. CASE k = n + 1
    <3>1. m + 1 \in 1..(n + 1) /\ ~(m + 1 <= m)
      BY <1>4
    <3> QED BY <2>1, <3>1
  <2>2. CASE k # n + 1
    <3>1. PICK i \in 1..n : p[i] = k
      BY <2>2 DEF Sorts
    <3>2. CASE i <= m
      BY <3>1, <3>2
    <3>3. CASE i > m
      <4>1. i + 1 \in 1..(n + 1) /\ ~(i + 1 <= m) /\ i + 1 # m + 1 /\ (i + 1) - 1 = i
        BY <1>4, <3>3
      <4>2. q[i + 1] = k
        BY <3>1, <4>1
      <4> QED BY <4>1, <4>2
    <3> QED BY <1>4, <3>2, <3>3
  <2> QED BY <2>1, <2>2
<1>8. ASSUME NEW i \in 1..(n + 1), NEW j \in 1..(n + 1), i < j
      PROVE  ComesBefore(keys, q[i], q[j])
  <2>1. CASE j <= m
    <3>1. i \in 1..n /\ j \in 1..n /\ q[i] = p[i] /\ q[j] = p[j]
      BY <1>4, <1>8, <2>1
    <3> QED BY <1>2, <1>8, <3>1
  <2>2. CASE i <= m /\ j = m + 1
    <3>1. q[i] = p[i] /\ q[j] = n + 1 /\ i \in 1..m /\ i \in 1..n
      BY <1>4, <2>2
    <3>2. keys[p[i]] <= keys[n + 1] /\ p[i] < n + 1
      BY <1>1, <1>5, <3>1
    <3> QED BY <1>1, <3>1, <3>2 DEF ComesBefore
  <2>3. CASE i <= m /\ j > m + 1
    <3>1. q[i] = p[i] /\ q[j] = p[j - 1] /\ i \in 1..n /\ j - 1 \in 1..n /\ i < j - 1
      BY <1>4, <2>3
    <3> QED BY <1>2, <3>1
  <2>4. CASE i = m + 1
    <3>1. q[i] = n + 1 /\ q[j] = p[j - 1] /\ j - 1 \in (m + 1)..n
      BY <1>4, <1>8, <2>4
    <3>2. keys[p[j - 1]] > keys[n + 1] /\ j - 1 \in 1..n
      BY <1>4, <3>1
    <3> QED BY <1>1, <3>1, <3>2 DEF ComesBefore
  <2>5. CASE i > m + 1
    <3>1. q[i] = p[i - 1] /\ q[j] = p[j - 1] /\ i - 1 \in 1..n /\ j - 1 \in 1..n /\ i - 1 < j - 1
      BY <1>4, <1>8, <2>5
    <3> QED BY <1>2, <3>1
  <2> QED BY <1>4, <1>8, <2>1, <2>2, <2>3, <2>4, <2>5
<1> HIDE DEF q
<1> QED BY <1>6, <1>7, <1>8 DEF Sorts

\* Every list can be sorted.
LEMMA SortingExists ==
  ASSUME NEW keys \in Seq(Int)
  PROVE  \E p : Sorts(p, Len(keys), keys)
<1> DEFINE S == {n \in Nat : n <= Len(keys) => \E p : Sorts(p, n, keys)}
<1>1. 0 \in S
  <2> DEFINE p == [i \in 1..0 |-> i]
  <2>1. p \in [1..0 -> 1..0] /\ \A i : i \notin 1..0
    OBVIOUS
  <2>2. Sorts(p, 0, keys)
    <3> HIDE DEF p
    <3> QED BY <2>1 DEF Sorts
  <2> QED BY <2>2
<1>2. ASSUME NEW n \in S PROVE n + 1 \in S
  <2> SUFFICES ASSUME n + 1 <= Len(keys) PROVE \E q : Sorts(q, n + 1, keys)
    OBVIOUS
  <2>1. n \in Nat /\ \A i \in 1..(n + 1) : keys[i] \in Int
    OBVIOUS
  <2>2. PICK p : Sorts(p, n, keys)
    OBVIOUS
  <2> QED BY <2>1, <2>2, NextIsSortedIn
<1>3. S \in SUBSET Nat
  OBVIOUS
<1> HIDE DEF S
<1>4. S = Nat
  BY <1>1, <1>2, <1>3, SetInduction, Zenon
<1>5. PICK L \in Nat : L = Len(keys)
  OBVIOUS
<1>6. L \in S /\ L <= L
  BY <1>4
<1> QED BY <1>5, <1>6 DEF S

\* A sorted list holds what the list held, in the order of the keys.
LEMMA SortedByHolds ==
  ASSUME NEW X, NEW s \in Seq(X), NEW keys \in Seq(Int), Len(keys) = Len(s)
  PROVE  /\ SortedBy(s, keys) \in Seq(X)
         /\ Len(SortedBy(s, keys)) = Len(s)
         /\ \E p : /\ Sorts(p, Len(s), keys)
                   /\ \A i \in 1..Len(s) : SortedBy(s, keys)[i] = s[p[i]]
<1>1. PICK n \in Nat : n = Len(s) /\ DOMAIN s = 1..n /\ s \in [1..n -> X]
  OBVIOUS
<1> DEFINE Order(p) ==
             /\ \A k \in 1..n : \E i \in 1..n : p[i] = k
             /\ \A i, j \in 1..n : i < j =>
                  keys[p[i]] < keys[p[j]] \/ (keys[p[i]] = keys[p[j]] /\ p[i] < p[j])
           order == CHOOSE p \in [1..n -> 1..n] : Order(p)
<1>2. \E p \in [1..n -> 1..n] : Order(p)
  <2>1. PICK p : Sorts(p, n, keys)
    BY <1>1, SortingExists
  <2> QED BY <2>1 DEF Sorts, ComesBefore
<1>3. order \in [1..n -> 1..n] /\ Order(order)
  <2> HIDE DEF Order
  <2> QED BY <1>2
<1>4. SortedBy(s, keys) = [i \in 1..n |-> s[order[i]]]
  BY <1>1 DEF SortedBy
<1>5. Sorts(order, n, keys)
  <2> HIDE DEF order
  <2> QED BY <1>3 DEF Sorts, ComesBefore
<1> HIDE DEF order
<1>6. SortedBy(s, keys) \in [1..n -> X]
  BY <1>1, <1>3, <1>4
<1>7. SortedBy(s, keys) \in Seq(X) /\ Len(SortedBy(s, keys)) = n
  BY <1>1, <1>6
<1>8. \A i \in 1..n : SortedBy(s, keys)[i] = s[order[i]]
  BY <1>4
<1> QED BY <1>1, <1>5, <1>7, <1>8

-----------------------------------------------------------------------------
(* Induction up to a bound, and lists of lists.                            *)

\* Induction up to L: S holds 0, and with each number before L the next.
LEMMA UpTo ==
  ASSUME NEW L \in Nat, NEW S, 0 \in S, \A n \in 0..(L - 1) : n \in S => n + 1 \in S
  PROVE  \A n \in 0..L : n \in S
<1> DEFINE T == {n \in Nat : n <= L => n \in S}
<1>1. 0 \in T /\ T \in SUBSET Nat
  OBVIOUS
<1>2. \A n \in T : n + 1 \in T
  OBVIOUS
<1> HIDE DEF T
<1>3. T = Nat
  BY <1>1, <1>2, SetInduction, Zenon
<1> QED BY <1>3 DEF T

\* The same from one on.
LEMMA FromOne ==
  ASSUME NEW L \in Nat, NEW S, 1 \in S, \A n \in 1..(L - 1) : n \in S => n + 1 \in S
  PROVE  \A n \in 1..L : n \in S
<1> DEFINE T == S \cup {0}
<1>1. 0 \in T /\ \A n \in 0..(L - 1) : n \in T => n + 1 \in T
  <2> SUFFICES ASSUME NEW n \in 0..(L - 1), n \in T PROVE n + 1 \in T
    OBVIOUS
  <2>1. CASE n = 0
    BY <2>1
  <2>2. CASE n # 0
    BY <2>2
  <2> QED BY <2>1, <2>2
<1> HIDE DEF T
<1>2. \A n \in 0..L : n \in T
  BY <1>1, UpTo
<1> QED BY <1>2 DEF T

\* What a recursive function begins in and does not leave holds its values.
LEMMA StaysIn ==
  ASSUME NEW L \in Nat, NEW V, NEW f, f[0] \in V,
         \A n \in 1..L : f[n - 1] \in V => f[n] \in V
  PROVE  \A n \in 0..L : f[n] \in V
<1> DEFINE S == {n \in Nat : f[n] \in V}
<1>1. 0 \in S
  OBVIOUS
<1>2. ASSUME NEW n \in 0..(L - 1), n \in S PROVE n + 1 \in S
  <2>1. n + 1 \in 1..L /\ (n + 1) - 1 = n /\ f[n] \in V
    BY <1>2
  <2>2. f[n + 1] \in V
    BY <2>1
  <2> QED BY <2>1, <2>2
<1> HIDE DEF S
<1>3. \A n \in 0..L : n \in S
  BY <1>1, <1>2, UpTo
<1> QED BY <1>3 DEF S

\* The greatest member of a set with an upper bound.
LEMMA GreatestMember ==
  ASSUME NEW M \in Nat, NEW T \in SUBSET 0..M, T # {}
  PROVE  \E x \in T : \A y \in T : y <= x
<1> DEFINE U == {n \in Nat : n <= M /\ M - n \in T}
<1>1. U \in SUBSET Nat /\ U # {}
  <2>1. PICK x : x \in T
    OBVIOUS
  <2>2. M - x \in U
    <3>1. M - x \in Nat /\ M - x <= M /\ M - (M - x) = x
      BY <2>1
    <3> QED BY <2>1, <3>1
  <2> QED BY <2>2
<1> HIDE DEF U
<1>2. PICK u \in U : \A v \in U : u <= v
  BY <1>1, LeastMember
<1>3. M - u \in T /\ u \in Nat /\ u <= M
  BY <1>2 DEF U
<1>4. ASSUME NEW y \in T PROVE y <= M - u
  <2>1. M - y \in Nat /\ M - y <= M /\ M - (M - y) = y
    OBVIOUS
  <2>2. M - y \in U
    BY <2>1 DEF U
  <2> QED BY <1>2, <1>3, <2>1, <2>2
<1> QED BY <1>3, <1>4

-----------------------------------------------------------------------------
(* Flat *)

\* f is the function Flat is defined by.
UnfoldsFlat(f, ss) ==
  /\ Flat(ss) = f[Len(ss)]
  /\ f[0] = <<>>
  /\ \A n \in 1..Len(ss) : f[n] = f[n - 1] \o ss[n]

\* Flat joins the lists one by one.
LEMMA FlatUnfold ==
  ASSUME NEW X, NEW ss \in Seq(Seq(X))
  PROVE  \E f \in [0..Len(ss) -> Seq(X)] : UnfoldsFlat(f, ss)
<1> DEFINE Body(f) == [n \in 0..Len(ss) |-> IF n = 0 THEN <<>> ELSE f[n - 1] \o ss[n]]
           f == CHOOSE g : g = Body(g)
           G == [n \in 1..Len(ss) |-> [v \in Seq(X) |-> v \o ss[n]]]
<1>1. Flat(ss) = f[Len(ss)]
  BY DEF Flat
<1>2. Len(ss) \in Nat /\ \A n \in 1..Len(ss) : ss[n] \in Seq(X)
  OBVIOUS
<1>3. G \in [1..Len(ss) -> [Seq(X) -> Seq(X)]] /\ <<>> \in Seq(X)
  BY <1>2, ConcatProperties
<1>4. PICK h \in [0..Len(ss) -> Seq(X)] : Recurs(h, Len(ss), <<>>, G)
  <2> HIDE DEF G
  <2> QED BY <1>2, <1>3, Recursion, Zenon
<1>5. h = Body(h)
  <2>1. ASSUME NEW n \in 0..Len(ss), n # 0
        PROVE  h[n] = h[n - 1] \o ss[n]
    <3>1. n \in 1..Len(ss) /\ n - 1 \in 0..Len(ss)
      BY <2>1
    <3> QED BY <1>4, <3>1 DEF Recurs
  <2> QED BY <1>4, <2>1 DEF Recurs
<1>6. f = Body(f)
  <2> HIDE DEF Body
  <2> QED BY <1>5
<1>7. /\ f[0] = <<>> /\ \A n \in 1..Len(ss) : f[n] = f[n - 1] \o ss[n]
      /\ f = [n \in 0..Len(ss) |-> f[n]]
  <2> HIDE DEF f
  <2>1. 0 \in 0..Len(ss) /\ \A n \in 1..Len(ss) : n \in 0..Len(ss) /\ n # 0
    BY <1>2
  <2> QED BY <1>6, <2>1
<1> HIDE DEF f
<1>8. \A n \in 1..Len(ss) : f[n - 1] \in Seq(X) => f[n] \in Seq(X)
  BY <1>2, <1>7, ConcatProperties
<1>9. \A n \in 0..Len(ss) : f[n] \in Seq(X)
  <2>1. f[0] \in Seq(X)
    BY <1>7
  <2> QED BY <1>2, <1>8, <2>1, StaysIn, Zenon
<1> QED BY <1>1, <1>7, <1>9 DEF UnfoldsFlat

\* What it holds, in which order.
LEMMA FlatAppend ==
  ASSUME NEW X, NEW ss \in Seq(Seq(X)), NEW s \in Seq(X)
  PROVE  Flat(ss) \in Seq(X) /\ Flat(Append(ss, s)) = Flat(ss) \o s
<1> DEFINE t == Append(ss, s)
<1>1. /\ t \in Seq(Seq(X)) /\ Len(t) = Len(ss) + 1
      /\ t[Len(ss) + 1] = s /\ \A n \in 1..Len(ss) : t[n] = ss[n]
  BY AppendProperties
<1> HIDE DEF t
<1>2. PICK f \in [0..Len(ss) -> Seq(X)] : UnfoldsFlat(f, ss)
  BY FlatUnfold
<1>3. PICK g \in [0..Len(t) -> Seq(X)] : UnfoldsFlat(g, t)
  BY <1>1, FlatUnfold
<1>4. PICK L \in Nat : L = Len(ss) /\ L + 1 \in 1..Len(t) /\ L + 1 = Len(t)
  BY <1>1
<1> DEFINE S == {n \in Nat : g[n] = f[n]}
<1>5. 0 \in S
  BY <1>2, <1>3 DEF UnfoldsFlat
<1>6. ASSUME NEW n \in 0..(L - 1), n \in S PROVE n + 1 \in S
  <2>1. n + 1 \in 1..Len(ss) /\ n + 1 \in 1..Len(t) /\ (n + 1) - 1 = n /\ g[n] = f[n]
    BY <1>4, <1>6
  <2>2. f[n + 1] = f[n] \o ss[n + 1] /\ g[n + 1] = g[n] \o t[n + 1] /\ t[n + 1] = ss[n + 1]
    BY <1>1, <1>2, <1>3, <2>1 DEF UnfoldsFlat
  <2>3. g[n + 1] = f[n + 1] /\ n + 1 \in Nat
    BY <2>1, <2>2
  <2> QED BY <2>3
<1> HIDE DEF S
<1>7. \A n \in 0..L : n \in S
  BY <1>5, <1>6, UpTo
<1>8. g[L] = f[L] /\ f[L] = Flat(ss) /\ f[L] \in Seq(X)
  <2>1. L \in 0..L
    OBVIOUS
  <2> QED BY <1>2, <1>4, <1>7, <2>1 DEF S, UnfoldsFlat
<1>9. Flat(t) = g[L + 1] /\ g[L + 1] = g[L] \o s
  <2>1. (L + 1) - 1 = L /\ t[L + 1] = s
    BY <1>1, <1>4
  <2> QED BY <1>3, <1>4, <2>1 DEF UnfoldsFlat
<1> QED BY <1>8, <1>9 DEF t

\* An element of Flat is an element of one of the lists.
LEMMA FlatHolds ==
  ASSUME NEW X, NEW ss \in Seq(Seq(X))
  PROVE  /\ Flat(ss) \in Seq(X)
         /\ ToSet(Flat(ss)) = UNION {ToSet(ss[i]) : i \in 1..Len(ss)}
<1>1. PICK f \in [0..Len(ss) -> Seq(X)] : UnfoldsFlat(f, ss)
  BY FlatUnfold
<1> DEFINE S == {n \in Nat : ToSet(f[n]) = UNION {ToSet(ss[i]) : i \in 1..n}}
<1>2. 0 \in S
  <2>1. ToSet(<<>>) = {} /\ 1..0 = {}
    BY DEF ToSet
  <2> QED BY <1>1, <2>1 DEF UnfoldsFlat
<1>3. ASSUME NEW n \in 0..(Len(ss) - 1), n \in S PROVE n + 1 \in S
  <2>1. /\ n + 1 \in 1..Len(ss) /\ (n + 1) - 1 = n /\ n \in 0..Len(ss)
        /\ ToSet(f[n]) = UNION {ToSet(ss[i]) : i \in 1..n}
        /\ 1..(n + 1) = 1..n \cup {n + 1}
    BY <1>3
  <2>2. f[n + 1] = f[n] \o ss[n + 1] /\ f[n] \in Seq(X) /\ ss[n + 1] \in Seq(X)
    <3>1. f[n + 1] = f[(n + 1) - 1] \o ss[n + 1]
      BY <1>1, <2>1 DEF UnfoldsFlat
    <3>2. f[n] \in Seq(X)
      BY <1>1, <2>1
    <3>3. ss[n + 1] \in Seq(X)
      BY <2>1
    <3> QED BY <2>1, <3>1, <3>2, <3>3
  <2>3. ToSet(f[n + 1]) = ToSet(f[n]) \cup ToSet(ss[n + 1])
    BY <2>2, ConcatHolds
  <2>4. UNION {ToSet(ss[i]) : i \in 1..(n + 1)} =
          (UNION {ToSet(ss[i]) : i \in 1..n}) \cup ToSet(ss[n + 1])
    <3> DEFINE A == {ToSet(ss[i]) : i \in 1..n}
    <3>1. {ToSet(ss[i]) : i \in 1..(n + 1)} = A \cup {ToSet(ss[n + 1])}
      BY <2>1
    <3> HIDE DEF A
    <3>2. UNION (A \cup {ToSet(ss[n + 1])}) = (UNION A) \cup ToSet(ss[n + 1])
      OBVIOUS
    <3> QED BY <3>1, <3>2 DEF A
  <2>5. n + 1 \in Nat
    OBVIOUS
  <2>6. ToSet(f[n + 1]) = UNION {ToSet(ss[i]) : i \in 1..(n + 1)}
    BY <2>1, <2>3, <2>4
  <2> QED BY <2>5, <2>6
<1> HIDE DEF S
<1>4. \A n \in 0..Len(ss) : n \in S
  BY <1>2, <1>3, UpTo, LenProperties
<1>5. Len(ss) \in 0..Len(ss)
  BY LenProperties
<1> QED BY <1>1, <1>4, <1>5 DEF S, UnfoldsFlat

\* What is in a list is at some place of it.
LEMMA Listed ==
  ASSUME NEW X, NEW s \in Seq(X), NEW x
  PROVE  x \in ToSet(s) <=> \E i \in 1..Len(s) : s[i] = x
<1>1. DOMAIN s = 1..Len(s)
  OBVIOUS
<1> QED BY <1>1 DEF ToSet
===============================================================================
