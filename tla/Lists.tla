-------------------------------- MODULE Lists ---------------------------------
(* List comprehensions, slices and sorts, as several components write them. *)
EXTENDS Integers, Sequences

\* [x for x in s if x in T].
Those(s, T) ==
  LET those[n \in 0..Len(s)] ==
        IF n = 0 THEN <<>>
        ELSE IF s[n] \in T THEN Append(those[n - 1], s[n]) ELSE those[n - 1]
  IN  those[Len(s)]

\* sum(s).
Added(s) ==
  LET added[n \in 0..Len(s)] == IF n = 0 THEN 0 ELSE added[n - 1] + s[n]
  IN  added[Len(s)]

\* [x for s in ss for x in s].
Flat(ss) ==
  LET flat[n \in 0..Len(ss)] == IF n = 0 THEN <<>> ELSE flat[n - 1] \o ss[n]
  IN  flat[Len(ss)]

\* s[-n:], for n > 0.
LastN(s, n) == SubSeq(s, IF Len(s) > n THEN Len(s) - n + 1 ELSE 1, Len(s))

\* s[:-n].
AllButLastN(s, n) == SubSeq(s, 1, Len(s) - n)

\* s.sort(key=...), where keys[i] is the key of s[i]: elements with the same
\* key keep their order.
SortedBy(s, keys) ==
  LET order == CHOOSE p \in [DOMAIN s -> DOMAIN s] :
        /\ \A k \in DOMAIN s : \E i \in DOMAIN s : p[i] = k
        /\ \A i, j \in DOMAIN s : i < j =>
             keys[p[i]] < keys[p[j]] \/ (keys[p[i]] = keys[p[j]] /\ p[i] < p[j])
  IN  [i \in DOMAIN s |-> s[order[i]]]
===============================================================================
