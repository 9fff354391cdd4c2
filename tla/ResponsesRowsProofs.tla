------------------------- MODULE ResponsesRowsProofs -------------------------
(***************************************************************************)
(* What the children of a response are made of, transform by transform,    *)
(* for all constants: proofs of TypeOK, RowsAreShared, RowsComplete and    *)
(* RefreshAgrees.                                                          *)
(***************************************************************************)
EXTENDS ResponsesProofs, WellFoundedInduction

-----------------------------------------------------------------------------
(***************************************************************************)
(* The natural numbers are well founded, so there is induction over them,  *)
(* over a set of numbers.  With it a function defined by recursion, which  *)
(* is a CHOOSE to the provers, is shown to exist and to obey its rule.     *)
(* Unwatched is such a function.                                           *)
(***************************************************************************)
LEMMA NaturalOrder ==
    \E R : IsWellFoundedOn(R, Nat) /\ \A a, b \in Nat : a < b => <<a, b>> \in R
<1>1. \A a, b \in Nat : a < b => <<a, b>> \in OpToRel(<, Nat)
  BY DEF OpToRel
<1>2. IsWellFoundedOn(OpToRel(<, Nat), Nat)
  BY NatLessThanWellFounded
<1> QED
  BY <1>1, <1>2, Zenon

\* A set of natural numbers has a least one.
LEMMA Least ==
    ASSUME NEW T, T \subseteq Nat, T # {}
    PROVE  \E x \in T : \A y \in T : x <= y
<1>1. PICK R : IsWellFoundedOn(R, Nat) /\ \A a, b \in Nat : a < b => <<a, b>> \in R
  BY NaturalOrder
<1>2. PICK x \in T : \A y \in T : ~(<<y, x>> \in R)
  BY <1>1, WFMin, ZenonT(60)
<1>3. ASSUME NEW y \in T, y < x
      PROVE  FALSE
  <2>1. <<y, x>> \in R
    BY <1>1, <1>3
  <2> QED
    BY <1>2, <2>1
<1>4. \A y \in T : ~(y < x)
  BY <1>3
<1>5. \A y \in T : x <= y
  BY <1>4
<1> QED
  BY <1>5

LEMMA Induction ==
    ASSUME NEW T, 0 \in T, \A n \in Nat : n \in T => n + 1 \in T
    PROVE  Nat \subseteq T
<1> SUFFICES ASSUME ~(Nat \subseteq T) PROVE FALSE
  OBVIOUS
<1>1. PICK x \in Nat \ T : \A y \in Nat \ T : x <= y
  <2>1. Nat \ T \subseteq Nat /\ Nat \ T # {}
    OBVIOUS
  <2> QED
    BY <2>1, Least
<1>2. x # 0 /\ x - 1 \in Nat /\ x - 1 \in T
  BY <1>1
<1> QED
  BY <1>1, <1>2

\* The recursion of Unwatched: f gives the unwatched ones of each beginning.
UpTo(f, items, n) ==
    IF n = 0 THEN <<>>
    ELSE IF IsWatched(items[n]) THEN f[n - 1] ELSE Append(f[n - 1], items[n])

Counts(f, items) == f = [n \in 0..Len(items) |-> UpTo(f, items, n)]

LEMMA UnwatchedRecursion ==
    ASSUME NEW items, Len(items) \in Nat
    PROVE  \E f : Counts(f, items) /\ Unwatched(items) = f[Len(items)]
<1> DEFINE Part(g, n) == \A k \in 0..n : g[k] = UpTo(g, items, k)
           T == {n \in Nat : \E g : Part(g, n)}
<1>1. 0 \in T
  <2> DEFINE g == [k \in 0..0 |-> <<>>]
  <2>1. Part(g, 0)
    BY DEF UpTo
  <2> QED
    BY <2>1
<1>2. ASSUME NEW n \in Nat, n \in T
      PROVE  n + 1 \in T
  <2>1. PICK g : Part(g, n)
    BY <1>2
  <2> DEFINE next == UpTo(g, items, n + 1)
             h == [k \in 0..(n + 1) |-> IF k = n + 1 THEN next ELSE g[k]]
  <2> HIDE DEF next
  <2>2. \A k \in 0..n : h[k] = g[k]
    OBVIOUS
  <2>3. h[n + 1] = next
    OBVIOUS
  <2> HIDE DEF h
  <2>4. ASSUME NEW k \in 0..(n + 1)
        PROVE  h[k] = UpTo(h, items, k)
    <3>1. CASE k = n + 1
      BY <2>2, <2>3, <3>1 DEF UpTo, next
    <3>2. CASE k # n + 1
      <4>1. k \in 0..n /\ (k # 0 => k - 1 \in 0..n)
        BY <2>4, <3>2
      <4>2. h[k] = g[k] /\ g[k] = UpTo(g, items, k) /\ (k # 0 => h[k - 1] = g[k - 1])
        BY <2>1, <2>2, <4>1
      <4> QED
        BY <4>2 DEF UpTo
    <3> QED
      BY <3>1, <3>2
  <2>5. Part(h, n + 1)
    BY <2>4
  <2> QED
    BY <2>5
<1>3. Len(items) \in T
  <2> HIDE DEF T
  <2> QED
    BY <1>1, <1>2, Induction
<1>4. PICK g : Part(g, Len(items))
  BY <1>3
<1> DEFINE f == [n \in 0..Len(items) |-> g[n]]
<1>5. \A n \in 0..Len(items) : UpTo(f, items, n) = UpTo(g, items, n)
  BY DEF UpTo
<1>6. Counts(f, items)
  BY <1>4, <1>5 DEF Counts
<1>7. \E h : Counts(h, items)
  BY <1>6
<1> DEFINE chosen == CHOOSE h : Counts(h, items)
<1>8. Counts(chosen, items)
  BY <1>7, Zenon
<1>9. Unwatched(items) = chosen[Len(items)]
  BY Zenon DEF Unwatched, Counts, UpTo
<1> QED
  BY <1>8, <1>9, Zenon

-----------------------------------------------------------------------------
(***************************************************************************)
(* What keeping the unwatched items and interleaving do to a sequence.     *)
(***************************************************************************)
LEMMA ElementsOfAppend ==
    ASSUME NEW S, NEW s \in Seq(S), NEW e \in S
    PROVE  ElementsOf(Append(s, e)) = ElementsOf(s) \cup {e}
<1> DEFINE t == Append(s, e)
<1>1. /\ Len(t) = Len(s) + 1 /\ Len(s) \in Nat
      /\ \A n \in 1..Len(s) : t[n] = s[n]
      /\ t[Len(s) + 1] = e
  BY AppendFacts, LenProperties
<1> HIDE DEF t
<1>2. \A n \in 1..Len(t) : t[n] \in ElementsOf(s) \cup {e}
  BY <1>1 DEF ElementsOf
<1>3. \A n \in 1..Len(s) : s[n] \in ElementsOf(t)
  BY <1>1 DEF ElementsOf
<1>4. e \in ElementsOf(t)
  <2>1. Len(s) + 1 \in 1..Len(t)
    BY <1>1
  <2> QED
    BY <1>1, <2>1 DEF ElementsOf
<1>5. ElementsOf(t) \subseteq ElementsOf(s) \cup {e}
  BY <1>2 DEF ElementsOf
<1>6. ElementsOf(s) \subseteq ElementsOf(t)
  BY <1>3 DEF ElementsOf
<1> QED
  BY <1>4, <1>5, <1>6 DEF t

\* The unwatched items are what is kept, and all that is kept.
LEMMA UnwatchedFacts ==
    ASSUME NEW S, NEW items \in Seq(S)
    PROVE  /\ Unwatched(items) \in Seq(S)
           /\ ElementsOf(Unwatched(items)) = {x \in ElementsOf(items) : ~IsWatched(x)}
<1>0. Len(items) \in Nat /\ \A n \in 1..Len(items) : items[n] \in S
  BY LenProperties, ElementOfSeq
<1>1. PICK f : Counts(f, items) /\ Unwatched(items) = f[Len(items)]
  BY <1>0, UnwatchedRecursion
<1> DEFINE Before(n) == {items[k] : k \in 1..n}
           Good(n) == /\ f[n] \in Seq(S)
                      /\ ElementsOf(f[n]) = {x \in Before(n) : ~IsWatched(x)}
           T == {n \in Nat : n <= Len(items) => Good(n)}
<1>2. 0 \in T
  <2>1. f[0] = <<>>
    BY <1>0, <1>1 DEF Counts, UpTo
  <2>2. <<>> \in Seq(S) /\ ElementsOf(<<>>) = {} /\ Before(0) = {}
    BY DEF ElementsOf
  <2> QED
    BY <2>1, <2>2
<1>3. ASSUME NEW n \in Nat, n \in T, n + 1 <= Len(items)
      PROVE  Good(n + 1)
  <2> DEFINE x == items[n + 1]
  <2>1. /\ f[n] \in Seq(S) /\ ElementsOf(f[n]) = {y \in Before(n) : ~IsWatched(y)}
        /\ x \in S
    BY <1>0, <1>3
  <2>2. f[n + 1] = IF IsWatched(x) THEN f[n] ELSE Append(f[n], x)
    <3>1. n + 1 \in 0..Len(items) /\ n + 1 # 0 /\ (n + 1) - 1 = n
      BY <1>0, <1>3
    <3>2. f[n + 1] = UpTo(f, items, n + 1)
      BY <1>1, <3>1 DEF Counts
    <3> QED
      BY <3>1, <3>2 DEF UpTo
  <2>3. Before(n + 1) = Before(n) \cup {x}
    <3>1. \A k : k \in 1..(n + 1) <=> k \in 1..n \/ k = n + 1
      BY <1>3
    <3> QED
      BY <3>1
  <2> HIDE DEF x
  <2> DEFINE B == Before(n)
             B1 == Before(n + 1)
  <2> HIDE DEF B, B1
  <2>4. ElementsOf(f[n]) = {y \in B : ~IsWatched(y)} /\ B1 = B \cup {x}
    BY <2>1, <2>3 DEF B, B1
  <2>5. f[n + 1] \in Seq(S) /\ ElementsOf(f[n + 1]) = {y \in B1 : ~IsWatched(y)}
    <3>1. CASE IsWatched(x)
      <4>1. {y \in B1 : ~IsWatched(y)} = {y \in B : ~IsWatched(y)}
        BY <2>4, <3>1
      <4> QED
        BY <2>1, <2>2, <2>4, <3>1, <4>1, Zenon
    <3>2. CASE ~IsWatched(x)
      <4>1. {y \in B1 : ~IsWatched(y)} = {y \in B : ~IsWatched(y)} \cup {x}
        BY <2>4, <3>2
      <4>2. f[n + 1] = Append(f[n], x)
        BY <2>2, <3>2
      <4>3. Append(f[n], x) \in Seq(S) /\ ElementsOf(Append(f[n], x)) = ElementsOf(f[n]) \cup {x}
        BY <2>1, AppendFacts, ElementsOfAppend
      <4> QED
        BY <2>4, <4>1, <4>2, <4>3, Zenon
    <3> QED
      BY <3>1, <3>2
  <2> QED
    BY <2>5 DEF B1
<1>4. Good(Len(items))
  <2> HIDE DEF Good
  <2>1. \A n \in Nat : n \in T => n + 1 \in T
    BY <1>3
  <2>2. Nat \subseteq T
    <3> HIDE DEF T
    <3> QED
      BY <1>2, <2>1, Induction
  <2> QED
    BY <1>0, <2>2
<1>5. Before(Len(items)) = ElementsOf(items)
  BY DEF ElementsOf
<1> QED
  BY <1>1, <1>4, <1>5

LEMMA InterleavedFacts ==
    ASSUME NEW S, NEW a \in Seq(S), NEW b \in Seq(S)
    PROVE  /\ Interleaved(a, b) \in Seq(S)
           /\ Len(Interleaved(a, b)) = Len(a) + Len(b)
           /\ ElementsOf(Interleaved(a, b)) = ElementsOf(a) \cup ElementsOf(b)
<1> DEFINE c == Interleaved(a, b)
           n == Smaller(Len(a), Len(b))
<1>1. /\ Len(a) \in Nat /\ Len(b) \in Nat
      /\ \A i \in 1..Len(a) : a[i] \in S
      /\ \A i \in 1..Len(b) : b[i] \in S
  BY LenProperties, ElementOfSeq
<1>2. /\ n \in Nat /\ n <= Len(a) /\ n <= Len(b) /\ (n = Len(a) \/ n = Len(b))
      /\ Len(a) <= n => n = Len(a)
  BY <1>1 DEF Smaller
<1>3. ASSUME NEW i \in 1..(Len(a) + Len(b))
      PROVE  /\ i <= 2 * n /\ i % 2 = 1 => c[i] = a[(i + 1) \div 2]
             /\ i <= 2 * n /\ i % 2 = 0 => c[i] = b[i \div 2]
             /\ i > 2 * n /\ Len(a) > n => c[i] = a[i - n]
             /\ i > 2 * n /\ Len(a) <= n => c[i] = b[i - n]
  <2> DEFINE first == i <= 2 * n
             odd == i % 2 = 1
             even == i % 2 = 0
             beyond == i > 2 * n
             more == Len(a) > n
             less == Len(a) <= n
             v1 == a[(i + 1) \div 2]
             v2 == b[i \div 2]
             v3 == a[i - n]
             v4 == b[i - n]
  <2>1. c[i] = CASE first /\ odd -> v1 [] first /\ even -> v2 [] beyond /\ more -> v3
                 [] beyond /\ less -> v4
    BY Zenon DEF Interleaved
  <2>2. ~(first /\ beyond) /\ ~(odd /\ even) /\ ~(more /\ less)
    BY <1>1, <1>2
  <2> HIDE DEF first, odd, even, beyond, more, less, v1, v2, v3, v4
  <2>3. /\ first /\ odd => c[i] = v1
        /\ first /\ even => c[i] = v2
        /\ beyond /\ more => c[i] = v3
        /\ beyond /\ less => c[i] = v4
    BY <2>1, <2>2
  <2> QED
    BY <2>3 DEF first, odd, even, beyond, more, less, v1, v2, v3, v4
<1>0. c = [i \in 1..(Len(a) + Len(b)) |-> c[i]]
  <2> DEFINE e(i) == CASE i <= 2 * n /\ i % 2 = 1     -> a[(i + 1) \div 2]
                       [] i <= 2 * n /\ i % 2 = 0     -> b[i \div 2]
                       [] i > 2 * n /\ Len(a) > n     -> a[i - n]
                       [] i > 2 * n /\ Len(a) <= n    -> b[i - n]
  <2>1. c = [i \in 1..(Len(a) + Len(b)) |-> e(i)]
    BY Zenon DEF Interleaved
  <2> HIDE DEF e, c
  <2> QED
    BY <2>1
<1> HIDE DEF c, n
<1>4. ASSUME NEW i \in 1..(Len(a) + Len(b))
      PROVE  \/ \E k \in 1..Len(a) : c[i] = a[k]
             \/ \E k \in 1..Len(b) : c[i] = b[k]
  <2>1. CASE i <= 2 * n /\ i % 2 = 1
    <3>1. (i + 1) \div 2 \in 1..n
      BY <1>1, <1>2, <2>1
    <3>2. c[i] = a[(i + 1) \div 2]
      BY <1>3, <2>1
    <3> QED
      BY <1>1, <1>2, <3>1, <3>2
  <2>2. CASE i <= 2 * n /\ i % 2 = 0
    <3>1. i \div 2 \in 1..n
      BY <1>1, <1>2, <2>2
    <3>2. c[i] = b[i \div 2]
      BY <1>3, <2>2
    <3> QED
      BY <1>1, <1>2, <3>1, <3>2
  <2>3. CASE i > 2 * n /\ Len(a) > n
    <3>1. c[i] = a[i - n] /\ i - n \in 1..Len(a)
      BY <1>1, <1>2, <1>3, <2>3
    <3> QED
      BY <3>1
  <2>4. CASE i > 2 * n /\ Len(a) <= n
    <3>1. c[i] = b[i - n] /\ i - n \in 1..Len(b)
      BY <1>1, <1>2, <1>3, <2>4
    <3> QED
      BY <3>1
  <2>5. i % 2 = 1 \/ i % 2 = 0
    OBVIOUS
  <2> QED
    BY <1>1, <1>2, <2>1, <2>2, <2>3, <2>4, <2>5
<1>5. c \in Seq(S) /\ Len(c) = Len(a) + Len(b)
  <2>1. \A i \in 1..(Len(a) + Len(b)) : c[i] \in S
    BY <1>1, <1>4
  <2>2. c = [i \in 1..(Len(a) + Len(b)) |-> c[i]]
    BY <1>0
  <2>3. Len(a) + Len(b) \in Nat
    BY <1>1
  <2>4. c \in [1..(Len(a) + Len(b)) -> S]
    BY <2>1, <2>2
  <2> QED
    BY <2>3, <2>4
<1>6. ASSUME NEW k \in 1..Len(a)
      PROVE  \E i \in 1..Len(c) : c[i] = a[k]
  <2>1. CASE k <= n
    <3> DEFINE i == 2 * k - 1
    <3>1. i \in 1..(Len(a) + Len(b)) /\ i <= 2 * n /\ i % 2 = 1 /\ (i + 1) \div 2 = k
      BY <1>1, <1>2, <2>1
    <3> HIDE DEF i
    <3> QED
      BY <1>3, <1>5, <3>1
  <2>2. CASE k > n
    <3> DEFINE i == k + n
    <3>1. i \in 1..(Len(a) + Len(b)) /\ i > 2 * n /\ Len(a) > n /\ i - n = k
      BY <1>1, <1>2, <2>2
    <3>2. c[i] = a[i - n]
      BY <1>1, <1>2, <1>3, <3>1
    <3> QED
      BY <1>5, <3>1, <3>2
  <2> QED
    BY <1>1, <1>2, <2>1, <2>2
<1>7. ASSUME NEW k \in 1..Len(b)
      PROVE  \E i \in 1..Len(c) : c[i] = b[k]
  <2>1. CASE k <= n
    <3> DEFINE i == 2 * k
    <3>1. i \in 1..(Len(a) + Len(b)) /\ i <= 2 * n /\ i % 2 = 0 /\ i \div 2 = k
      BY <1>1, <1>2, <2>1
    <3> HIDE DEF i
    <3>2. c[i] = b[i \div 2]
      BY <1>3, <3>1
    <3> QED
      BY <1>5, <3>1, <3>2
  <2>2. CASE k > n
    <3> DEFINE i == k + n
    <3>1. i \in 1..(Len(a) + Len(b)) /\ i > 2 * n /\ Len(a) <= n /\ i - n = k
      BY <1>1, <1>2, <2>2
    <3>2. c[i] = b[i - n]
      BY <1>1, <1>2, <1>3, <3>1
    <3> QED
      BY <1>5, <3>1, <3>2
  <2> QED
    BY <1>1, <1>2, <2>1, <2>2
<1>8. ElementsOf(c) \subseteq ElementsOf(a) \cup ElementsOf(b)
  BY <1>4, <1>5, Zenon DEF ElementsOf
<1>9. ElementsOf(a) \subseteq ElementsOf(c) /\ ElementsOf(b) \subseteq ElementsOf(c)
  <2>1. ElementsOf(a) \subseteq ElementsOf(c)
    BY <1>6, Zenon DEF ElementsOf
  <2>2. ElementsOf(b) \subseteq ElementsOf(c)
    BY <1>7, Zenon DEF ElementsOf
  <2> QED
    BY <2>1, <2>2
<1>10. ElementsOf(c) = ElementsOf(a) \cup ElementsOf(b)
  BY <1>8, <1>9
<1> QED
  BY <1>5, <1>10 DEF c

-----------------------------------------------------------------------------
(***************************************************************************)
(* The types of the operators that the transforms are made of.             *)
(***************************************************************************)
\* The beginning of a sequence.
LEMMA SubSeqFacts ==
    ASSUME NEW S, NEW s \in Seq(S), NEW m \in Nat, NEW n \in Nat, m >= 1, n <= Len(s)
    PROVE  /\ SubSeq(s, m, n) \in Seq(S)
           /\ Len(SubSeq(s, m, n)) = IF m <= n THEN n - m + 1 ELSE 0
           /\ \A i \in 1..Len(SubSeq(s, m, n)) : SubSeq(s, m, n)[i] = s[m + i - 1]
<1>1. Len(s) \in Nat /\ \A i \in 1..Len(s) : s[i] \in S
  BY LenProperties, ElementOfSeq
<1>2. CASE m <= n
  <2>1. m \in 1..Len(s) /\ n \in m..Len(s)
    BY <1>1, <1>2
  <2> QED
    BY <1>1, <1>2, <2>1, SubSeqProperties
<1>3. CASE m > n
  BY <1>1, <1>3, SubSeqProperties
<1> QED
  BY <1>2, <1>3

LEMMA FirstOfFacts ==
    ASSUME NEW S, NEW s \in Seq(S), NEW n \in Nat
    PROVE  /\ FirstOf(s, n) \in Seq(S) /\ Len(FirstOf(s, n)) = Smaller(n, Len(s))
           /\ \A i \in 1..Len(FirstOf(s, n)) : FirstOf(s, n)[i] = s[i]
<1> DEFINE k == Smaller(n, Len(s))
<1>1. k \in Nat /\ k <= Len(s)
  BY LenProperties DEF Smaller
<1> HIDE DEF k
<1>2. /\ SubSeq(s, 1, k) \in Seq(S)
      /\ Len(SubSeq(s, 1, k)) = IF 1 <= k THEN k - 1 + 1 ELSE 0
      /\ \A i \in 1..Len(SubSeq(s, 1, k)) : SubSeq(s, 1, k)[i] = s[1 + i - 1]
  BY <1>1, SubSeqFacts
<1>3. Len(SubSeq(s, 1, k)) = k
  BY <1>1, <1>2
<1>4. \A i \in 1..Len(SubSeq(s, 1, k)) : SubSeq(s, 1, k)[i] = s[i]
  BY <1>1, <1>2, <1>3
<1> QED
  BY <1>2, <1>3, <1>4 DEF FirstOf, k

LEMMA RawItemsFacts ==
    ASSUME NEW s \in Seq(Items)
    PROVE  /\ RawItems(s) \in Seq(Item) /\ Len(RawItems(s)) = Len(s)
           /\ \A n \in 1..Len(s) : RawItems(s)[n] = Raw(s[n]) /\ Raw(s[n]) \in Item
<1>1. Len(s) \in Nat /\ \A n \in 1..Len(s) : s[n] \in Items
  BY ElementOfSeq, LenProperties
<1>2. \A n \in 1..Len(s) : Raw(s[n]) \in Item
  BY <1>1, RawItem
<1>3. RawItems(s) \in Seq(Item)
  BY <1>1, <1>2, IsASeq DEF RawItems
<1>4. RawItems(s) = [n \in 1..Len(s) |-> RawItems(s)[n]] /\ \A n \in 1..Len(s) : RawItems(s)[n] = Raw(s[n])
  BY Zenon DEF RawItems
<1>5. Len(RawItems(s)) = Len(s)
  BY <1>1, <1>4
<1> QED
  BY <1>2, <1>3, <1>4, <1>5

LEMMA PageFacts ==
    ASSUME NEW r, NEW c \in Collections, NEW found, req[r].start \in Nat
    PROVE  PageOf(r, c, found) \in Seq(Item)
<1> DEFINE all == Contents[c]
           page == IF config.excludeWatched THEN FirstOf(all, MaxPage)
                   ELSE SubSeq(all, req[r].start + 1, Smaller(req[r].start + PageSize, Len(all)))
<1>1. all \in Seq(Items) /\ Len(all) \in Nat /\ MaxPage \in Nat /\ PageSize \in Nat
  BY WorldAssumption, LenProperties
<1>2. page \in Seq(Items)
  <2> DEFINE from == req[r].start + 1
             to == Smaller(req[r].start + PageSize, Len(all))
  <2>1. from \in Nat /\ from >= 1 /\ to \in Nat /\ to <= Len(all)
    BY <1>1 DEF Smaller
  <2> HIDE DEF all, from, to
  <2>2. SubSeq(all, from, to) \in Seq(Items) /\ FirstOf(all, MaxPage) \in Seq(Items)
    BY <1>1, <2>1, SubSeqFacts, FirstOfFacts
  <2> QED
    BY <2>2 DEF from, to
<1> HIDE DEF page
<1>3. RawItems(page) \in Seq(Item)
  BY <1>2, RawItemsFacts
<1>4. Unwatched(RawItems(page)) \in Seq(Item)
  BY <1>3, UnwatchedFacts
<1>5. PageOf(r, c, found) = Unwatched(RawItems(page)) \/ PageOf(r, c, found) = RawItems(page)
  BY Zenon DEF PageOf, page
<1> QED
  BY <1>3, <1>4, <1>5

-----------------------------------------------------------------------------
\* The key of a row of Plex.
LEMMA RawKeys ==
    ASSUME NEW a \in Accounts, NEW n \in 1..Len(HomeRows[a])
    PROVE  /\ ~HomeRows[a][n].ours
           /\ HomeRows[a][n].key # NoKey =>
                 \A k \in 1..Len(HomeRows[a][n].key) : HomeRows[a][n].key[k] = HomeRows[a][n].of
BY KeyAssumption, Zenon

LEMMA HubFacts ==
    ASSUME NEW x \in Hub
    PROVE  /\ IsHub(x) /\ x.items \in Seq(Item) /\ x.size \in Nat
           /\ x.key \in Seq(Collections) \cup {NoKey} /\ x.of \in Collections \cup {BuiltIn}
           /\ x.title \in Titles /\ x.ours \in BOOLEAN
           /\ \A items \in Seq(Item) : [x EXCEPT !.items = items] \in Hub
           /\ \A items \in Seq(Item), size \in Nat :
                 [x EXCEPT !.items = items, !.size = size] \in Hub
           /\ \A size \in Nat : [x EXCEPT !.size = size] \in Hub
           /\ \A key \in Seq(Collections) : [x EXCEPT !.key = key] \in Hub
           /\ [x EXCEPT !.ours = TRUE] \in Hub
BY DEF Hub, IsHub

LEMMA ItemFacts ==
    ASSUME NEW x \in Item
    PROVE  /\ ~IsHub(x) /\ x.id \in Items /\ x.leaves \in Nat \cup {-1}
           /\ [x EXCEPT !.leaves = -1] \in Item
<1>1. ~IsHub(x) /\ x.id \in Items /\ x.leaves \in Nat \cup {-1}
  BY ItemFields DEF IsHub
<1>2. [x EXCEPT !.leaves = -1] \in Item
  BY ItemFields DEF Item
<1> QED
  BY <1>1, <1>2

LEMMA SetItemsType ==
    ASSUME NEW x \in Hub, NEW items \in Seq(Item)
    PROVE  SetItems(x, items) \in Hub
<1>1. Len(items) \in Nat
  BY LenProperties
<1> QED
  BY <1>1, HubFacts DEF SetItems

LEMMA LeaflessType ==
    ASSUME NEW items \in Seq(Item)
    PROVE  [n \in 1..Len(items) |-> [items[n] EXCEPT !.leaves = -1]] \in Seq(Item)
<1>1. Len(items) \in Nat /\ \A n \in 1..Len(items) : items[n] \in Item
  BY LenProperties, ElementOfSeq
<1> DEFINE e(n) == [items[n] EXCEPT !.leaves = -1]
<1>2. \A n \in 1..Len(items) : e(n) \in Item
  BY <1>1, ItemFacts
<1> HIDE DEF e
<1>3. [n \in 1..Len(items) |-> e(n)] \in Seq(Item)
  BY <1>1, <1>2, IsASeq
<1> QED
  BY <1>3 DEF e

HomeTransforms == Later \cup {"visibility"}

PageTransforms == {"policy", "visibility"}

ChildrenTransforms == {"restriction", "collectionStyle", "userState"}

DefaultTransforms == {"restriction", "mediaStyle", "userState", "watched", "key"}

LEMMA ChangedHub ==
    ASSUME NEW r, NEW t \in HomeTransforms, NEW x \in Hub, req[r].count \in Nat
    PROVE  Changed(r, t, x) \in Hub
<1>0. x.items \in Seq(Item) /\ IsHub(x)
  BY HubFacts
<1>1. CASE t = "watched"
  <2>1. Changed(r, t, x) = x \/ Changed(r, t, x) = [x EXCEPT !.items = Unwatched(x.items)]
    BY <1>1 DEF Changed, WithoutWatched
  <2>2. Unwatched(x.items) \in Seq(Item)
    BY <1>0, UnwatchedFacts
  <2> QED
    BY <2>1, <2>2, HubFacts
<1>2. CASE t = "userState"
  <2> DEFINE all == [n \in 1..Len(x.items) |-> [x.items[n] EXCEPT !.leaves = -1]]
  <2>1. all \in Seq(Item)
    BY <1>0, LeaflessType
  <2>2. Changed(r, t, x) = Leafless(x)
    BY <1>2 DEF Changed
  <2>3. config.leafCount => Leafless(x) = x
    BY DEF Leafless
  <2>4. ~config.leafCount => Leafless(x) = [x EXCEPT !.items = all]
    BY <1>0, Zenon DEF Leafless
  <2> HIDE DEF all
  <2>5. [x EXCEPT !.items = all] \in Hub
    BY <2>1, HubFacts
  <2> QED
    BY <2>2, <2>3, <2>4, <2>5, Zenon
<1>3. CASE t = "key"
  BY <1>3, HubFacts DEF Changed, Keyed
<1>4. CASE t = "shape"
  <2>1. Changed(r, t, x) = Counted(x, req[r].count)
    BY <1>4 DEF Changed
  <2> DEFINE count == req[r].count
             items == FirstOf(x.items, count)
  <2>2. items \in Seq(Item)
    BY <1>0, FirstOfFacts
  <2>3. \/ Counted(x, count) = [x EXCEPT !.items = items, !.size = count]
        \/ Counted(x, count) = x
    BY Zenon DEF Counted
  <2> HIDE DEF items, count
  <2>4. [x EXCEPT !.items = items, !.size = count] \in Hub
    BY <2>2, HubFacts DEF count
  <2> QED
    BY <2>1, <2>3, <2>4, Zenon DEF count
<1>5. CASE t \in {"visibility", "restriction", "style", "interleave"}
  BY <1>5 DEF Changed
<1> QED
  BY <1>1, <1>2, <1>3, <1>4, <1>5 DEF HomeTransforms, Later

LEMMA ChangedItem ==
    ASSUME NEW r, NEW t \in PageTransforms \cup ChildrenTransforms \cup DefaultTransforms, NEW x \in Item
    PROVE  Changed(r, t, x) \in Item
<1>0. ~IsHub(x)
  BY ItemFacts
<1>1. CASE t = "policy"
  <2>1. Changed(r, t, x) = Filtered(snap[r], x)
    BY <1>1 DEF Changed
  <2> DEFINE less == Within(x.media, snap[r])
             fewer == Pruned(x.inner, snap[r])
             bare == {<<d[1], {}>> : d \in x.inner}
  <2>2. x.media \in Versions /\ x.inner \in Descendants
    BY ItemFields
  <2>3. /\ less \in Versions /\ fewer \in Descendants
        /\ {} \in Versions /\ bare \in Descendants
    BY <2>2, LessIsMore, PrunedFacts
  <2>4. \/ Filtered(snap[r], x) = x
        \/ Filtered(snap[r], x) = Less(x, less, fewer)
        \/ Filtered(snap[r], x) = Less(x, {}, bare)
    BY DEF Filtered, Cleared, Less
  <2> HIDE DEF less, fewer, bare
  <2>5. Less(x, less, fewer) \in Item /\ Less(x, {}, bare) \in Item
    BY <2>3, LessOfItem
  <2> QED
    BY <2>1, <2>4, <2>5
<1>2. CASE t = "watched"
  BY <1>0, <1>2 DEF Changed, WithoutWatched, Watches
<1>3. CASE t = "userState"
  BY <1>0, <1>3, ItemFacts DEF Changed, Leafless
<1>4. CASE t = "key"
  BY <1>0, <1>4 DEF Changed, Keyed
<1>5. CASE t \in {"visibility", "restriction", "collectionStyle", "mediaStyle"}
  BY <1>5 DEF Changed
<1> QED
  BY <1>1, <1>2, <1>3, <1>4, <1>5 DEF PageTransforms, ChildrenTransforms, DefaultTransforms

\* A row with another one merged into it.
Blended(y, x) ==
    [SetItems(y, Interleaved(y.items, x.items)) EXCEPT !.key = y.key \o x.key]

Blend(rows, n, x) == [rows EXCEPT ![n] = Blended(rows[n], x)]

\* The three things merging may do with a row.
LEMMA MergedCases ==
    ASSUME NEW rows \in Seq(Hub), NEW x \in Hub
    PROVE  \/ config.interleave /\ x.size = 0 /\ Merged(rows, x) = rows
           \/ /\ ~(config.interleave /\ x.size = 0)
              /\ \/ ~config.interleave \/ ~IsCollectionHub(x)
                 \/ \A n \in 1..Len(rows) : rows[n].title # x.title
                 \/ x.key = NoKey
                 \/ \E n \in 1..Len(rows) : /\ rows[n].title = x.title /\ rows[n].key = NoKey
                                            /\ \A k \in 1..(n - 1) : rows[k].title # x.title
              /\ Merged(rows, x) = Append(rows, x)
           \/ /\ config.interleave /\ x.size # 0 /\ IsCollectionHub(x) /\ x.key # NoKey
              /\ \E n \in 1..Len(rows) :
                    /\ rows[n].title = x.title /\ rows[n].key # NoKey
                    /\ \A k \in 1..(n - 1) : rows[k].title # x.title
                    /\ Merged(rows, x) = Blend(rows, n, x)
<1> DEFINE twins == {n \in 1..Len(rows) : Twins(rows[n], x)}
           first == CHOOSE n \in twins : \A k \in twins : n <= k
<1>1. Len(rows) \in Nat /\ \A n \in 1..Len(rows) : rows[n] \in Hub
  BY LenProperties, ElementOfSeq
<1>2. \A n \in 1..Len(rows) : n \in twins <=> rows[n].title = x.title
  BY <1>1, HubFacts DEF Twins
<1>3. twins # {} => /\ first \in 1..Len(rows) /\ rows[first].title = x.title
                    /\ \A k \in 1..(first - 1) : rows[k].title # x.title
  <2>1. twins \subseteq Nat /\ twins \subseteq 1..Len(rows)
    OBVIOUS
  <2> HIDE DEF twins
  <2>2. twins # {} => \E n \in twins : \A k \in twins : n <= k
    BY <2>1, Least
  <2>3. twins # {} => first \in twins /\ \A k \in twins : first <= k
    BY <2>2
  <2> HIDE DEF first
  <2>4. ASSUME twins # {}, NEW k \in 1..(first - 1)
        PROVE  rows[k].title # x.title
    <3>1. first \in 1..Len(rows) /\ \A m \in twins : first <= m
      BY <2>1, <2>3, <2>4
    <3>2. k \in 1..Len(rows) /\ ~(first <= k)
      BY <1>1, <2>4, <3>1
    <3> QED
      BY <1>2, <3>1, <3>2
  <2> QED
    BY <1>2, <2>1, <2>3, <2>4
<1>4. Merged(rows, x) =
        IF config.interleave /\ x.size = 0 THEN rows
        ELSE IF /\ config.interleave /\ IsCollectionHub(x) /\ twins # {}
                /\ NoKey \notin {rows[first].key, x.key}
             THEN Blend(rows, first, x)
             ELSE Append(rows, x)
  BY Zenon DEF Merged, Blend, Blended
<1> HIDE DEF first
<1>5. twins = {} => \A n \in 1..Len(rows) : rows[n].title # x.title
  BY <1>2
<1> HIDE DEF twins
<1>6. CASE config.interleave /\ x.size = 0
  BY <1>4, <1>6
<1>7. CASE /\ ~(config.interleave /\ x.size = 0)
           /\ config.interleave /\ IsCollectionHub(x) /\ twins # {}
           /\ NoKey \notin {rows[first].key, x.key}
  <2>1. Merged(rows, x) = Blend(rows, first, x)
    BY <1>4, <1>7
  <2> QED
    BY <1>3, <1>7, <2>1
<1>8. CASE /\ ~(config.interleave /\ x.size = 0)
           /\ ~(/\ config.interleave /\ IsCollectionHub(x) /\ twins # {}
                /\ NoKey \notin {rows[first].key, x.key})
  <2>1. Merged(rows, x) = Append(rows, x)
    BY <1>4, <1>8
  <2> QED
    BY <1>3, <1>5, <1>8, <2>1
<1> QED
  BY <1>6, <1>7, <1>8

LEMMA BlendedType ==
    ASSUME NEW y \in Hub, NEW x \in Hub, y.key # NoKey, x.key # NoKey
    PROVE  Blended(y, x) \in Hub
<1> DEFINE items == Interleaved(y.items, x.items)
           key == y.key \o x.key
           set == SetItems(y, items)
<1>1. items \in Seq(Item)
  BY HubFacts, InterleavedFacts
<1>2. key \in Seq(Collections)
  BY HubFacts, ConcatProperties
<1> HIDE DEF items, key
<1>3. set \in Hub
  BY <1>1, SetItemsType
<1> HIDE DEF set
<1>4. [set EXCEPT !.key = key] \in Hub
  BY <1>2, <1>3, HubFacts
<1> QED
  BY <1>4, Zenon DEF Blended, set, items, key

LEMMA MergedType ==
    ASSUME NEW rows \in Seq(Hub), NEW x \in Hub
    PROVE  Merged(rows, x) \in Seq(Hub)
<1>1. CASE Merged(rows, x) = rows \/ Merged(rows, x) = Append(rows, x)
  BY <1>1, AppendFacts
<1>2. ASSUME NEW n \in 1..Len(rows), rows[n].key # NoKey, x.key # NoKey,
             Merged(rows, x) = Blend(rows, n, x)
      PROVE  Merged(rows, x) \in Seq(Hub)
  <2>1. rows[n] \in Hub
    BY ElementOfSeq
  <2>2. Blended(rows[n], x) \in Hub
    BY <1>2, <2>1, BlendedType
  <2>3. Blend(rows, n, x) \in Seq(Hub)
    BY <2>2, ExceptSeq DEF Blend
  <2> QED
    BY <1>2, <2>3
<1> QED
  BY <1>1, <1>2, MergedCases

-----------------------------------------------------------------------------
(***************************************************************************)
(* The invariant: what a request of each kind works on, and that a lookup  *)
(* finds what it asks for.                                                 *)
(***************************************************************************)
Request ==
    [kind : {"none", "home", "page", "children", "default"}, account : Accounts, skips : BOOLEAN,
     count : Nat, noContinue : BOOLEAN, raw : Seq(Hub) \cup Seq(Item), ids : Seq(Collections),
     start : Nat, row : Seq(Item)]

Stubs == [is : {"collection"}, of : Collections]

ValuesOf(name) == IF name = List THEN SUBSET Collections ELSE SUBSET Labels

WorldTypes ==
    /\ config \in Configs /\ labels \in [Collections -> SUBSET Labels]
    /\ shared \in [Accounts -> SUBSET Collections] /\ everShared \in [Accounts -> SUBSET Collections]
    /\ policy \in Policies /\ failClosed \in BOOLEAN /\ changes \in 0..MaxChanges

MetaTypes ==
    /\ meta \in [Accounts -> [Names -> (SUBSET Labels) \cup (SUBSET Collections) \cup {Nothing}]]
    /\ \A a \in Accounts : \A name \in Names :
          meta[a][name] = Nothing \/ meta[a][name] \in ValuesOf(name)

SlotTypes ==
    /\ req \in [Requests -> Request] /\ snap \in [Requests -> Policies \cup {Unidentified}]
    /\ IsFunction(todo) /\ IsFunction(left) /\ IsFunction(kept)
    /\ at \in [Requests -> {"filter", "change"}]
    /\ seen \in [Requests -> Found \cup {NotYet, Failed}]
    /\ failed \in [Requests -> BOOLEAN] /\ opened \in [Requests -> BOOLEAN]

\* What a request of each kind works on.
Home(r) ==
    /\ req[r].kind = "home" /\ req[r].raw \in Seq(Hub)
    /\ todo[r] \in Seq(HomeTransforms) /\ left[r] \in Seq(Hub) /\ kept[r] \in Seq(Hub)

Page(r) ==
    /\ req[r].kind = "page" /\ req[r].raw \in Seq(Item)
    /\ todo[r] \in Seq(PageTransforms) /\ left[r] \in Seq(Item) /\ kept[r] \in Seq(Item)

Children(r) ==
    /\ req[r].kind = "children" /\ req[r].raw \in Seq(Hub)
    /\ \/ todo[r] = ChildrenChain /\ left[r] \in Seq(Stubs)
       \/ todo[r] \in Seq(ChildrenTransforms) /\ left[r] \in Seq(Item)
    /\ kept[r] \in Seq(Item)

Default(r) ==
    /\ req[r].kind = "default" /\ req[r].raw \in Seq(Hub)
    /\ todo[r] \in Seq(DefaultTransforms) /\ left[r] \in Seq(Item) /\ kept[r] \in Seq(Item)

Never(r) == req[r].kind = "none" /\ todo[r] = <<>> /\ left[r] = <<>> /\ kept[r] = <<>>

WorkTypes(r) == Home(r) \/ Page(r) \/ Children(r) \/ Default(r) \/ Never(r)

LookupTypes(r) ==
    /\ Wanted(r) = NoName => seen[r] = NotYet
    /\ seen[r] \notin {NotYet, Failed} => seen[r].value \in ValuesOf(Wanted(r))
    /\ seen[r] = Failed => failed[r]

TypeInv ==
    /\ WorldTypes /\ MetaTypes /\ SlotTypes
    /\ \A r \in Requests : WorkTypes(r) /\ LookupTypes(r)

LEMMA FoundFacts ==
    /\ NotYet \notin Found /\ Failed \notin Found /\ NotYet # Failed
    /\ \A value \in (SUBSET Labels) \cup (SUBSET Collections), fresh \in BOOLEAN :
          /\ [value |-> value, fresh |-> fresh] \in Found
          /\ [value |-> value, fresh |-> fresh] \notin {NotYet, Failed}
<1>1. NotYet \notin Found /\ Failed \notin Found /\ NotYet # Failed
  BY WorldAssumption
<1>2. \A value \in (SUBSET Labels) \cup (SUBSET Collections), fresh \in BOOLEAN :
          [value |-> value, fresh |-> fresh] \in Found
  BY DEF Found
<1> HIDE DEF Found
<1> QED
  BY <1>1, <1>2

LEMMA AsksName ==
    ASSUME NEW t, NEW x,
           \/ t # "library" /\ x \in Hub \cup Item
           \/ t = "library" /\ x \in Stubs
    PROVE  Asks(t, x) \in Names \cup {NoName}
<1>1. CASE t = "library"
  <2>1. x.of \in Collections
    BY <1>1 DEF Stubs
  <2>2. Asks(t, x) = x.of
    BY <1>1 DEF Asks
  <2> QED
    BY <2>1, <2>2 DEF Names
<1>2. CASE t # "library"
  <2>1. IsCollectionHub(x) => x.of \in Collections
    BY <1>2, HubFacts, ItemFacts DEF IsCollectionHub
  <2>2. Asks(t, x) \in {List, NoName} \/ (IsCollectionHub(x) /\ Asks(t, x) = x.of)
    BY <1>2 DEF Asks
  <2> QED
    BY <2>1, <2>2 DEF Names
<1> QED
  BY <1>1, <1>2

LEMMA NotALibrary ==
    /\ "library" \notin HomeTransforms /\ "library" \notin PageTransforms
    /\ "library" \notin ChildrenTransforms /\ "library" \notin DefaultTransforms
    /\ ChildrenChain # <<>> /\ Head(ChildrenChain) = "library"
    /\ Tail(ChildrenChain) \in Seq(ChildrenTransforms)
    /\ DefaultChain \in Seq(DefaultTransforms) /\ PolicyChain \in Seq(PageTransforms)
    /\ \A skips : HomeChain(skips) \in Seq(HomeTransforms)
<1>1. /\ "library" \notin HomeTransforms /\ "library" \notin PageTransforms
      /\ "library" \notin ChildrenTransforms /\ "library" \notin DefaultTransforms
  BY DEF HomeTransforms, PageTransforms, ChildrenTransforms, DefaultTransforms, Later
<1>2. /\ ChildrenChain # <<>> /\ Head(ChildrenChain) = "library"
      /\ Tail(ChildrenChain) = <<"restriction", "collectionStyle", "userState">>
  BY DEF ChildrenChain
<1>3. <<"restriction", "collectionStyle", "userState">> \in Seq(ChildrenTransforms)
  BY DEF ChildrenTransforms
<1>4. DefaultChain \in Seq(DefaultTransforms)
  BY DEF DefaultTransforms, DefaultChain
<1>5. PolicyChain \in Seq(PageTransforms)
  BY DEF PageTransforms, PolicyChain
<1>6. \A skips : HomeChain(skips) \in Seq(HomeTransforms)
  <2>1. <<"visibility">> \in Seq(HomeTransforms)
    BY DEF HomeTransforms
  <2>2. <<"visibility", "restriction", "style", "watched", "interleave", "userState", "key",
           "shape">> \in Seq(HomeTransforms)
    BY DEF HomeTransforms, Later
  <2> QED
    BY <2>1, <2>2 DEF HomeChain
<1> QED
  BY <1>1, <1>2, <1>3, <1>4, <1>5, <1>6

\* The transform at work and its next child fit together.
LEMMA WorkFacts ==
    ASSUME NEW r \in Requests, WorkTypes(r), todo[r] # <<>>
    PROVE  /\ left[r] # <<>> => /\ Head(left[r]) = left[r][1]
                                /\ \/ Head(todo[r]) # "library" /\ Head(left[r]) \in Hub \cup Item
                                   \/ Head(todo[r]) = "library" /\ Head(left[r]) \in Stubs
           /\ Head(todo[r]) = "library" => Children(r) /\ todo[r] = ChildrenChain
<1>1. CASE Home(r)
  BY <1>1, TailFacts, NotALibrary DEF Home
<1>2. CASE Page(r)
  BY <1>2, TailFacts, NotALibrary DEF Page
<1>3. CASE Children(r)
  <2>1. CASE todo[r] = ChildrenChain /\ left[r] \in Seq(Stubs)
    BY <1>3, <2>1, TailFacts, NotALibrary
  <2>2. CASE todo[r] \in Seq(ChildrenTransforms) /\ left[r] \in Seq(Item)
    BY <1>3, <2>2, TailFacts, NotALibrary
  <2> QED
    BY <1>3, <2>1, <2>2 DEF Children
<1>4. CASE Default(r)
  BY <1>4, TailFacts, NotALibrary DEF Default
<1> QED
  BY <1>1, <1>2, <1>3, <1>4 DEF WorkTypes, Never

LEMMA WantedName ==
    ASSUME NEW r \in Requests, WorkTypes(r), req[r].ids \in Seq(Collections)
    PROVE  Wanted(r) \in Names \cup {NoName}
<1>1. CASE todo[r] = <<>>
  BY <1>1 DEF Wanted
<1>2. CASE todo[r] # <<>> /\ left[r] # <<>>
  <2>1. Asks(Head(todo[r]), Head(left[r])) \in Names \cup {NoName}
    BY <1>2, WorkFacts, AsksName
  <2>2. Wanted(r) \in {NoName, Asks(Head(todo[r]), Head(left[r]))}
    BY <1>2 DEF Wanted
  <2> QED
    BY <2>1, <2>2
<1>3. CASE todo[r] # <<>> /\ left[r] = <<>>
  <2>1. req[r].ids # <<>> => Head(req[r].ids) \in Collections
    BY TailFacts
  <2>2. Wanted(r) = NoName \/ (req[r].ids # <<>> /\ Wanted(r) = Head(req[r].ids))
    BY <1>3 DEF Wanted
  <2> QED
    BY <2>1, <2>2 DEF Names
<1> QED
  BY <1>1, <1>2, <1>3

LEMMA SameWanted ==
    ASSUME NEW r, todo'[r] = todo[r], left'[r] = left[r], at'[r] = at[r], req'[r] = req[r],
           config' = config
    PROVE  Wanted(r)' = Wanted(r)
BY DEF Wanted, Asks, IsCollectionHub, IsHub

LEMMA SameLookup ==
    ASSUME NEW r, todo'[r] = todo[r], left'[r] = left[r], at'[r] = at[r], req'[r] = req[r],
           config' = config, seen'[r] = seen[r], failed'[r] = failed[r], LookupTypes(r)
    PROVE  LookupTypes(r)'
BY SameWanted DEF LookupTypes, ValuesOf

LEMMA SameWork ==
    ASSUME NEW r, todo'[r] = todo[r], left'[r] = left[r], kept'[r] = kept[r], req'[r] = req[r],
           WorkTypes(r)
    PROVE  WorkTypes(r)'
BY DEF WorkTypes, Home, Page, Children, Default, Never

-----------------------------------------------------------------------------
(***************************************************************************)
(* Steps of the transforms keep the invariant.                             *)
(***************************************************************************)
\* A transform takes a step: what was looked up is kept for the next time.
LEMMA AnsweredTypes ==
    ASSUME TypeInv, NEW r \in Requests, Answered(r)
    PROVE  /\ MetaTypes'
           /\ seen' \in [Requests -> Found \cup {NotYet, Failed}] /\ seen'[r] = NotYet
           /\ \A q \in Requests \ {r} : seen'[q] = seen[q]
<1>1. /\ SlotTypes /\ MetaTypes /\ LookupTypes(r) /\ WorkTypes(r)
      /\ Wanted(r) # NoName => seen[r] # NotYet
  BY DEF TypeInv, Answered
<1>2. seen' = [seen EXCEPT ![r] = NotYet]
  BY DEF Answered
<1>3. req[r] \in Request
  BY <1>1 DEF SlotTypes
<1>4. MetaTypes'
  <2>1. CASE meta' = meta
    BY <1>1, <2>1 DEF MetaTypes, ValuesOf
  <2>2. CASE seen[r] \notin {NotYet, Failed}
    <3> DEFINE a == req[r].account
               name == Wanted(r)
               value == seen[r].value
    <3>1. a \in Accounts /\ name \in Names
      <4>1. req[r].ids \in Seq(Collections) /\ a \in Accounts
        BY <1>3 DEF Request
      <4>2. name \in Names \cup {NoName}
        BY <1>1, <4>1, WantedName
      <4>3. name # NoName
        BY <1>1, <2>2 DEF LookupTypes
      <4> QED
        BY <4>1, <4>2, <4>3
    <3>2. value \in ValuesOf(name)
      BY <1>1, <2>2 DEF LookupTypes
    <3>3. meta' = [meta EXCEPT ![a][name] = value] \/ meta' = meta
      BY DEF Answered, ScopeOf
    <3> HIDE DEF a, name, value
    <3>4. value \in (SUBSET Labels) \cup (SUBSET Collections)
      BY <3>2 DEF ValuesOf
    <3>5. CASE meta' = [meta EXCEPT ![a][name] = value]
      BY <1>1, <3>1, <3>2, <3>4, <3>5 DEF MetaTypes, ValuesOf
    <3> QED
      BY <2>1, <3>3, <3>5
  <2> QED
    BY <2>1, <2>2 DEF Answered
<1> QED
  BY <1>1, <1>2, <1>4 DEF SlotTypes

\* A step of one request: what is left to show of it.
LEMMA StepTypes ==
    ASSUME TypeInv, NEW r \in Requests, UNCHANGED world, MetaTypes',
           req' \in [Requests -> Request], snap' \in [Requests -> Policies \cup {Unidentified}],
           IsFunction(todo)', IsFunction(left)', IsFunction(kept)',
           at' \in [Requests -> {"filter", "change"}],
           seen' \in [Requests -> Found \cup {NotYet, Failed}],
           failed' \in [Requests -> BOOLEAN], opened' \in [Requests -> BOOLEAN],
           \A q \in Requests \ {r} :
              /\ req'[q] = req[q] /\ todo'[q] = todo[q] /\ left'[q] = left[q] /\ kept'[q] = kept[q]
              /\ at'[q] = at[q] /\ seen'[q] = seen[q] /\ failed'[q] = failed[q],
           WorkTypes(r)', LookupTypes(r)'
    PROVE  TypeInv'
<1>1. WorldTypes' /\ SlotTypes'
  BY DEF TypeInv, WorldTypes, SlotTypes, world
<1>2. ASSUME NEW q \in Requests \ {r}
      PROVE  WorkTypes(q)' /\ LookupTypes(q)'
  BY <1>2, SameWork, SameLookup DEF TypeInv, world
<1> QED
  BY <1>1, <1>2 DEF TypeInv

LEMMA LookTypes ==
    ASSUME TypeInv, NEW r \in Requests, Look(r)
    PROVE  TypeInv'
<1>0. WorldTypes /\ MetaTypes /\ SlotTypes /\ WorkTypes(r) /\ LookupTypes(r)
  BY DEF TypeInv
<1>1. /\ UNCHANGED <<world, meta, req, snap, todo, left, kept, at, opened>>
      /\ Wanted(r) # NoName
  BY DEF Look
<1> DEFINE a == req[r].account
           name == Wanted(r)
           had == meta[a][name]
<1>2. a \in Accounts /\ name \in Names
  <2>1. req[r] \in Request
    BY <1>0 DEF SlotTypes
  <2>2. req[r].ids \in Seq(Collections) /\ a \in Accounts
    BY <2>1 DEF Request
  <2> QED
    BY <1>0, <1>1, <2>2, WantedName
<1>3. had = Nothing \/ had \in ValuesOf(name)
  BY <1>0, <1>2 DEF MetaTypes
<1>4. AtPlex(a, name) \in ValuesOf(name)
  BY <1>0, <1>2 DEF AtPlex, WorldTypes, ValuesOf, Names
<1>5. \/ /\ \E value \in ValuesOf(name), fresh \in BOOLEAN :
                seen' = [seen EXCEPT ![r] = [value |-> value, fresh |-> fresh]]
         /\ failed' = failed
      \/ seen' = [seen EXCEPT ![r] = Failed] /\ failed' = [failed EXCEPT ![r] = TRUE]
  <2>1. \/ had # Nothing /\ seen' = [seen EXCEPT ![r] = [value |-> had, fresh |-> FALSE]]
                         /\ failed' = failed
        \/ seen' = [seen EXCEPT ![r] = [value |-> AtPlex(a, name), fresh |-> TRUE]]
                         /\ failed' = failed
        \/ seen' = [seen EXCEPT ![r] = Failed] /\ failed' = [failed EXCEPT ![r] = TRUE]
    BY DEF Look, ScopeOf
  <2> HIDE DEF had, name, a
  <2> QED
    BY <1>3, <1>4, <2>1
<1>6. Wanted(r)' = name
  BY <1>1, SameWanted DEF world
<1>7. ValuesOf(name) \subseteq (SUBSET Labels) \cup (SUBSET Collections) /\ ValuesOf(name)' = ValuesOf(name)
  BY <1>6 DEF ValuesOf
<1>8. /\ seen' \in [Requests -> Found \cup {NotYet, Failed}] /\ failed' \in [Requests -> BOOLEAN]
      /\ \A q \in Requests \ {r} : seen'[q] = seen[q] /\ failed'[q] = failed[q]
      /\ LookupTypes(r)'
  <2>1. CASE seen' = [seen EXCEPT ![r] = Failed] /\ failed' = [failed EXCEPT ![r] = TRUE]
    <3>1. seen'[r] = Failed /\ failed'[r]
      BY <1>0, <2>1 DEF SlotTypes
    <3>2. LookupTypes(r)'
      BY <1>1, <1>6, <3>1 DEF LookupTypes
    <3> QED
      BY <1>0, <2>1, <3>2 DEF SlotTypes
  <2>2. ASSUME NEW value \in ValuesOf(name), NEW fresh \in BOOLEAN,
               seen' = [seen EXCEPT ![r] = [value |-> value, fresh |-> fresh]], failed' = failed
        PROVE  /\ seen' \in [Requests -> Found \cup {NotYet, Failed}] /\ failed' \in [Requests -> BOOLEAN]
               /\ \A q \in Requests \ {r} : seen'[q] = seen[q] /\ failed'[q] = failed[q]
               /\ LookupTypes(r)'
    <3> DEFINE found == [value |-> value, fresh |-> fresh]
    <3>1. found \in Found /\ found \notin {NotYet, Failed} /\ found.value = value
      BY <1>7, FoundFacts
    <3> HIDE DEF found, name
    <3>2. seen' = [seen EXCEPT ![r] = found]
      BY <2>2, Zenon DEF found
    <3>3. seen'[r] = found
      BY <1>0, <3>2 DEF SlotTypes
    <3>4. LookupTypes(r)'
      BY <1>1, <1>6, <1>7, <2>2, <3>1, <3>3 DEF LookupTypes, name
    <3> QED
      BY <1>0, <2>2, <3>1, <3>2, <3>4 DEF SlotTypes
  <2> QED
    BY <1>5, <2>1, <2>2
<1>9. WorkTypes(r)'
  BY <1>0, <1>1, SameWork
<1>10. /\ IsFunction(todo)' /\ IsFunction(left)' /\ IsFunction(kept)' /\ MetaTypes'
       /\ req' \in [Requests -> Request] /\ snap' \in [Requests -> Policies \cup {Unidentified}]
       /\ at' \in [Requests -> {"filter", "change"}] /\ opened' \in [Requests -> BOOLEAN]
  BY <1>0, <1>1 DEF SlotTypes, IsFunction, MetaTypes, ValuesOf
<1>11. \A q \in Requests \ {r} :
              /\ req'[q] = req[q] /\ todo'[q] = todo[q] /\ left'[q] = left[q] /\ kept'[q] = kept[q]
              /\ at'[q] = at[q]
  BY <1>1
<1> QED
  BY <1>1, <1>8, <1>9, <1>10, <1>11, StepTypes

\* A step of a transform.
LEMMA TransformTypes ==
    ASSUME TypeInv, NEW r \in Requests, Answered(r), UNCHANGED <<world, req, snap, opened>>,
           failed' \in [Requests -> BOOLEAN],
           IsFunction(todo)', IsFunction(left)', IsFunction(kept)',
           at' \in [Requests -> {"filter", "change"}],
           \A q \in Requests \ {r} :
              /\ todo'[q] = todo[q] /\ left'[q] = left[q] /\ kept'[q] = kept[q]
              /\ at'[q] = at[q] /\ failed'[q] = failed[q],
           WorkTypes(r)'
    PROVE  TypeInv'
<1>1. /\ MetaTypes'
      /\ seen' \in [Requests -> Found \cup {NotYet, Failed}] /\ seen'[r] = NotYet
      /\ \A q \in Requests \ {r} : seen'[q] = seen[q]
  BY AnsweredTypes
<1>2. LookupTypes(r)'
  BY <1>1, FoundFacts DEF LookupTypes
<1>3. /\ req' \in [Requests -> Request] /\ snap' \in [Requests -> Policies \cup {Unidentified}]
      /\ opened' \in [Requests -> BOOLEAN]
  BY DEF TypeInv, SlotTypes
<1> QED
  BY <1>1, <1>2, <1>3, StepTypes

LEMMA FilterTypes ==
    ASSUME TypeInv, NEW r \in Requests, FilterChild(r)
    PROVE  TypeInv'
<1>0. SlotTypes /\ WorkTypes(r)
  BY DEF TypeInv
<1>1. /\ todo[r] # <<>> /\ left[r] # <<>> /\ Answered(r)
      /\ UNCHANGED <<world, req, snap, todo, kept, failed, opened>>
      /\ \/ at' = [at EXCEPT ![r] = "change"] /\ left' = left
         \/ left' = [left EXCEPT ![r] = Tail(left[r])] /\ at' = at
  BY DEF FilterChild, Busy
<1>2. /\ IsFunction(todo)' /\ IsFunction(left)' /\ IsFunction(kept)'
      /\ at' \in [Requests -> {"filter", "change"}] /\ failed' \in [Requests -> BOOLEAN]
      /\ \A q \in Requests \ {r} :
            /\ todo'[q] = todo[q] /\ left'[q] = left[q] /\ kept'[q] = kept[q]
            /\ at'[q] = at[q] /\ failed'[q] = failed[q]
      /\ left'[r] = left[r] \/ left'[r] = Tail(left[r])
  BY <1>0, <1>1 DEF SlotTypes, IsFunction
<1>3. ASSUME NEW S, left[r] \in Seq(S)
      PROVE  left'[r] \in Seq(S)
  <2>1. Tail(left[r]) \in Seq(S)
    BY <1>1, <1>3, TailFacts
  <2> QED
    BY <1>2, <1>3, <2>1
<1>4. WorkTypes(r)'
  BY <1>0, <1>1, <1>3 DEF WorkTypes, Home, Page, Children, Default, Never
<1> QED
  BY <1>1, <1>2, <1>4, TransformTypes

LEMMA ChangeTypes ==
    ASSUME TypeInv, NEW r \in Requests, ChangeChild(r)
    PROVE  TypeInv'
<1>0. SlotTypes /\ WorkTypes(r)
  BY DEF TypeInv
<1> DEFINE t == Head(todo[r])
           x == Head(left[r])
           done == IF t = "interleave" THEN Merged(kept[r], x) ELSE Append(kept[r], Changed(r, t, x))
<1>1. /\ todo[r] # <<>> /\ left[r] # <<>> /\ Answered(r) /\ t # "library"
      /\ UNCHANGED <<world, req, snap, todo, failed, opened>>
      /\ kept' = [kept EXCEPT ![r] = done]
      /\ left' = [left EXCEPT ![r] = Tail(left[r])]
      /\ at' = [at EXCEPT ![r] = "filter"]
  BY DEF ChangeChild, Busy
<1>2. /\ IsFunction(todo)' /\ IsFunction(left)' /\ IsFunction(kept)'
      /\ at' \in [Requests -> {"filter", "change"}] /\ failed' \in [Requests -> BOOLEAN]
      /\ \A q \in Requests \ {r} :
            /\ todo'[q] = todo[q] /\ left'[q] = left[q] /\ kept'[q] = kept[q]
            /\ at'[q] = at[q] /\ failed'[q] = failed[q]
      /\ left'[r] = Tail(left[r]) /\ kept'[r] = done
  <2> HIDE DEF done
  <2> QED
    BY <1>0, <1>1 DEF SlotTypes, IsFunction
<1>3. req[r].count \in Nat
  BY <1>0 DEF SlotTypes, Request
<1>4. ASSUME Home(r)
      PROVE  WorkTypes(r)'
  <2>1. t \in HomeTransforms /\ x \in Hub /\ Tail(left[r]) \in Seq(Hub)
    BY <1>1, <1>4, TailFacts DEF Home
  <2>2. Changed(r, t, x) \in Hub /\ Merged(kept[r], x) \in Seq(Hub)
    BY <1>3, <1>4, <2>1, ChangedHub, MergedType DEF Home
  <2>3. done \in Seq(Hub)
    BY <1>4, <2>2, AppendFacts DEF Home
  <2>4. Home(r)'
    BY <1>1, <1>2, <1>4, <2>1, <2>3 DEF Home
  <2> QED
    BY <2>4 DEF WorkTypes
<1>5. ASSUME left[r] \in Seq(Item), kept[r] \in Seq(Item),
             t \in PageTransforms \cup ChildrenTransforms \cup DefaultTransforms
      PROVE  left'[r] \in Seq(Item) /\ kept'[r] \in Seq(Item)
  <2>1. x \in Item /\ Tail(left[r]) \in Seq(Item)
    BY <1>1, <1>5, TailFacts
  <2>2. Changed(r, t, x) \in Item
    BY <1>5, <2>1, ChangedItem
  <2>3. t # "interleave"
    BY <1>5 DEF PageTransforms, ChildrenTransforms, DefaultTransforms
  <2>4. done \in Seq(Item)
    BY <1>5, <2>2, <2>3, AppendFacts
  <2> QED
    BY <1>2, <2>1, <2>4
<1>6. ASSUME Page(r)
      PROVE  WorkTypes(r)'
  <2>1. t \in PageTransforms
    BY <1>1, <1>6, TailFacts DEF Page
  <2>2. Page(r)'
    BY <1>1, <1>5, <1>6, <2>1 DEF Page
  <2> QED
    BY <2>2 DEF WorkTypes
<1>7. ASSUME Children(r)
      PROVE  WorkTypes(r)'
  <2>1. todo[r] \in Seq(ChildrenTransforms) /\ left[r] \in Seq(Item)
    BY <1>1, <1>7, NotALibrary DEF Children
  <2>2. t \in ChildrenTransforms
    BY <1>1, <2>1, TailFacts
  <2>3. Children(r)'
    BY <1>1, <1>5, <1>7, <2>1, <2>2 DEF Children
  <2> QED
    BY <2>3 DEF WorkTypes
<1>8. ASSUME Default(r)
      PROVE  WorkTypes(r)'
  <2>1. t \in DefaultTransforms
    BY <1>1, <1>8, TailFacts DEF Default
  <2>2. Default(r)'
    BY <1>1, <1>5, <1>8, <2>1 DEF Default
  <2> QED
    BY <2>2 DEF WorkTypes
<1>9. WorkTypes(r)'
  BY <1>0, <1>1, <1>4, <1>6, <1>7, <1>8 DEF WorkTypes, Never
<1> QED
  BY <1>1, <1>2, <1>9, TransformTypes

LEMMA MixTypes ==
    ASSUME TypeInv, NEW r \in Requests, MixCollection(r)
    PROVE  TypeInv'
<1>0. SlotTypes /\ WorkTypes(r)
  BY DEF TypeInv
<1> DEFINE c == Head(left[r]).of
           page == PageOf(r, c, seen[r])
<1>1. /\ todo[r] # <<>> /\ left[r] # <<>> /\ Answered(r) /\ Head(todo[r]) = "library"
      /\ UNCHANGED <<world, req, snap, todo, opened>>
      /\ \/ kept' = [kept EXCEPT ![r] = Interleaved(kept[r], page)] /\ failed' = failed
         \/ failed' = [failed EXCEPT ![r] = TRUE] /\ kept' = kept
      /\ left' = [left EXCEPT ![r] = Tail(left[r])]
      /\ at' = [at EXCEPT ![r] = "filter"]
  BY DEF MixCollection, Busy
<1>2. Children(r) /\ todo[r] = ChildrenChain /\ left[r] \in Seq(Stubs) /\ kept[r] \in Seq(Item)
  <2>1. Children(r) /\ todo[r] = ChildrenChain
    BY <1>0, <1>1, WorkFacts
  <2>2. todo[r] \notin Seq(ChildrenTransforms)
    BY <1>1, TailFacts, NotALibrary
  <2> QED
    BY <2>1, <2>2 DEF Children
<1>3. c \in Collections /\ Tail(left[r]) \in Seq(Stubs)
  <2>1. left[r][1] \in Stubs /\ Head(left[r]) = left[r][1] /\ Tail(left[r]) \in Seq(Stubs)
    BY <1>1, <1>2, TailFacts
  <2> QED
    BY <2>1 DEF Stubs
<1>4. page \in Seq(Item)
  <2>1. req[r].start \in Nat
    BY <1>0 DEF SlotTypes, Request
  <2> QED
    BY <1>3, <2>1, PageFacts
<1> HIDE DEF page
<1>5. Interleaved(kept[r], page) \in Seq(Item)
  BY <1>2, <1>4, InterleavedFacts
<1>6. /\ IsFunction(todo)' /\ IsFunction(left)' /\ IsFunction(kept)'
      /\ at' \in [Requests -> {"filter", "change"}] /\ failed' \in [Requests -> BOOLEAN]
      /\ \A q \in Requests \ {r} :
            /\ todo'[q] = todo[q] /\ left'[q] = left[q] /\ kept'[q] = kept[q]
            /\ at'[q] = at[q] /\ failed'[q] = failed[q]
      /\ left'[r] = Tail(left[r])
      /\ kept'[r] = kept[r] \/ kept'[r] = Interleaved(kept[r], page)
  BY <1>0, <1>1 DEF SlotTypes, IsFunction
<1>7. WorkTypes(r)'
  BY <1>1, <1>2, <1>3, <1>5, <1>6 DEF WorkTypes, Children
<1> QED
  BY <1>1, <1>6, <1>7, TransformTypes

LEMMA FinishTypes ==
    ASSUME TypeInv, NEW r \in Requests, FinishTransform(r)
    PROVE  TypeInv'
<1>0. SlotTypes /\ WorkTypes(r)
  BY DEF TypeInv
<1>1. /\ todo[r] # <<>> /\ left[r] = <<>> /\ Answered(r)
      /\ UNCHANGED <<world, req, snap, at, failed, opened>>
      /\ todo' = [todo EXCEPT ![r] = Tail(todo[r])]
      /\ left' = [left EXCEPT ![r] = kept[r]]
      /\ kept' = [kept EXCEPT ![r] = <<>>]
  BY DEF FinishTransform, Busy
<1>2. /\ IsFunction(todo)' /\ IsFunction(left)' /\ IsFunction(kept)'
      /\ at' \in [Requests -> {"filter", "change"}] /\ failed' \in [Requests -> BOOLEAN]
      /\ \A q \in Requests \ {r} :
            /\ todo'[q] = todo[q] /\ left'[q] = left[q] /\ kept'[q] = kept[q]
            /\ at'[q] = at[q] /\ failed'[q] = failed[q]
      /\ left'[r] = kept[r] /\ kept'[r] = <<>> /\ todo'[r] = Tail(todo[r])
  BY <1>0, <1>1 DEF SlotTypes, IsFunction
<1>3. <<>> \in Seq(Hub) /\ <<>> \in Seq(Item)
  BY EmptySeq
<1>4. ASSUME NEW S, todo[r] \in Seq(S)
      PROVE  todo'[r] \in Seq(S)
  BY <1>1, <1>2, <1>4, TailFacts
<1>5. WorkTypes(r)'
  BY <1>0, <1>1, <1>2, <1>3, <1>4, NotALibrary
  DEF WorkTypes, Home, Page, Children, Default, Never
<1> QED
  BY <1>1, <1>2, <1>5, TransformTypes

-----------------------------------------------------------------------------
(***************************************************************************)
(* Requests that begin keep it, and so does everything else.               *)
(***************************************************************************)
LEMMA BlankType == NoRequest \in Request /\ NoRequest.kind = "none"
<1>1. (CHOOSE a \in Accounts : TRUE) \in Accounts
  BY WorldAssumption
<1>2. <<>> \in Seq(Hub) /\ <<>> \in Seq(Collections) /\ <<>> \in Seq(Item)
  BY EmptySeq
<1> HIDE DEF Hub, Item
<1> QED
  BY <1>1, <1>2 DEF NoRequest, Request

\* A record of a request, field by field.  The sequences are kept folded, which
\* is what the arithmetic of records needs.
Slots(hubs, items, names) ==
    [kind : {"none", "home", "page", "children", "default"}, account : Accounts,
     skips : BOOLEAN, count : Nat, noContinue : BOOLEAN, raw : hubs \cup items,
     ids : names, start : Nat, row : items]

LEMMA RequestSlots == Request = Slots(Seq(Hub), Seq(Item), Seq(Collections))
BY Zenon DEF Request, Slots

\* The records that the requests of each kind make of the last one.
HomeOf(x, c, hubs) ==
    [x EXCEPT !.kind = "home", !.account = c.account, !.skips = c.skips, !.count = c.count,
              !.noContinue = c.noContinue, !.raw = hubs]

PageOn(x, a, page) == [x EXCEPT !.kind = "page", !.account = a, !.raw = page]

ChildrenOf(x, names, from, shown) ==
    [x EXCEPT !.kind = "children", !.ids = names, !.start = from, !.row = shown]

DefaultOf(x, shown) == [x EXCEPT !.kind = "default", !.row = shown]

LEMMA HomeRecord ==
    ASSUME NEW x \in Request, NEW c \in Client, NEW raw \in Seq(Hub)
    PROVE  /\ HomeOf(x, c, raw) \in Request
           /\ HomeOf(x, c, raw).kind = "home" /\ HomeOf(x, c, raw).raw = raw
           /\ HomeOf(x, c, raw).account = c.account /\ HomeOf(x, c, raw).skips = c.skips
<1> DEFINE hubs == Seq(Hub)
           items == Seq(Item)
           names == Seq(Collections)
           y == HomeOf(x, c, raw)
<1>1. x \in Slots(hubs, items, names) /\ Request = Slots(hubs, items, names)
  BY RequestSlots
<1>2. /\ raw \in hubs /\ c.account \in Accounts /\ c.skips \in BOOLEAN
      /\ c.count \in Nat /\ c.noContinue \in BOOLEAN
  BY DEF Client
<1> HIDE DEF hubs, items, names
<1>3. y \in Slots(hubs, items, names) /\ y.kind = "home" /\ y.raw = raw
      /\ y.account = c.account /\ y.skips = c.skips
  BY <1>1, <1>2 DEF Slots, HomeOf, PageOn, ChildrenOf, DefaultOf
<1> HIDE DEF y
<1>4. y \in Request
  BY <1>1, <1>3, Zenon
<1> QED
  BY <1>3, <1>4 DEF y

LEMMA PageRecord ==
    ASSUME NEW x \in Request, NEW a \in Accounts, NEW raw \in Seq(Item)
    PROVE  /\ PageOn(x, a, raw) \in Request
           /\ PageOn(x, a, raw).kind = "page" /\ PageOn(x, a, raw).raw = raw
<1> DEFINE hubs == Seq(Hub)
           items == Seq(Item)
           names == Seq(Collections)
           y == PageOn(x, a, raw)
<1>1. x \in Slots(hubs, items, names) /\ Request = Slots(hubs, items, names)
  BY RequestSlots
<1>2. raw \in items
  BY DEF Client
<1> HIDE DEF hubs, items, names
<1>3. y \in Slots(hubs, items, names) /\ y.kind = "page" /\ y.raw = raw
  BY <1>1, <1>2 DEF Slots, HomeOf, PageOn, ChildrenOf, DefaultOf
<1> HIDE DEF y
<1>4. y \in Request
  BY <1>1, <1>3, Zenon
<1> QED
  BY <1>3, <1>4 DEF y

LEMMA ChildrenRecord ==
    ASSUME NEW x \in Request, NEW ids \in Seq(Collections), NEW n \in Nat, NEW row \in Seq(Item)
    PROVE  /\ ChildrenOf(x, ids, n, row) \in Request
           /\ ChildrenOf(x, ids, n, row).kind = "children" /\ ChildrenOf(x, ids, n, row).raw = x.raw
<1> DEFINE hubs == Seq(Hub)
           items == Seq(Item)
           names == Seq(Collections)
           y == ChildrenOf(x, ids, n, row)
<1>1. x \in Slots(hubs, items, names) /\ Request = Slots(hubs, items, names)
  BY RequestSlots
<1>2. ids \in names /\ row \in items
  BY DEF Client
<1> HIDE DEF hubs, items, names
<1>3. y \in Slots(hubs, items, names) /\ y.kind = "children" /\ y.raw = x.raw
  BY <1>1, <1>2 DEF Slots, HomeOf, PageOn, ChildrenOf, DefaultOf
<1> HIDE DEF y
<1>4. y \in Request
  BY <1>1, <1>3, Zenon
<1> QED
  BY <1>3, <1>4 DEF y

LEMMA ChildrenSlots ==
    ASSUME NEW x \in Request, NEW ids, NEW n, NEW row
    PROVE  ChildrenOf(x, ids, n, row).ids = ids /\ ChildrenOf(x, ids, n, row).row = row
<1> DEFINE hubs == Seq(Hub)
           items == Seq(Item)
           names == Seq(Collections)
<1>1. x \in Slots(hubs, items, names)
  BY RequestSlots
<1> HIDE DEF hubs, items, names
<1> QED
  BY <1>1 DEF Slots, ChildrenOf

LEMMA DefaultRecord ==
    ASSUME NEW x \in Request, NEW row \in Seq(Item)
    PROVE  /\ DefaultOf(x, row) \in Request
           /\ DefaultOf(x, row).kind = "default" /\ DefaultOf(x, row).raw = x.raw
<1> DEFINE hubs == Seq(Hub)
           items == Seq(Item)
           names == Seq(Collections)
           y == DefaultOf(x, row)
<1>1. x \in Slots(hubs, items, names) /\ Request = Slots(hubs, items, names)
  BY RequestSlots
<1>2. row \in items
  BY DEF Client
<1> HIDE DEF hubs, items, names
<1>3. y \in Slots(hubs, items, names) /\ y.kind = "default" /\ y.raw = x.raw
  BY <1>1, <1>2 DEF Slots, HomeOf, PageOn, ChildrenOf, DefaultOf
<1> HIDE DEF y
<1>4. y \in Request
  BY <1>1, <1>3, Zenon
<1> QED
  BY <1>3, <1>4 DEF y

\* A request begins.
LEMMA BeginTypes ==
    ASSUME TypeInv, NEW r \in Requests, todo[r] = <<>>, NEW request \in Request, NEW chain,
           NEW children, Begin(r, request, chain, children),
           snap' \in [Requests -> Policies \cup {Unidentified}], failed' \in [Requests -> BOOLEAN],
           \A q \in Requests \ {r} : failed'[q] = failed[q],
           req'[r] = request /\ todo'[r] = chain /\ left'[r] = children /\ kept'[r] = <<>>
               => WorkTypes(r)'
    PROVE  TypeInv'
<1>0. SlotTypes /\ LookupTypes(r) /\ MetaTypes
  BY DEF TypeInv
<1>1. /\ UNCHANGED world /\ UNCHANGED meta /\ UNCHANGED seen
      /\ req' = [req EXCEPT ![r] = request] /\ todo' = [todo EXCEPT ![r] = chain]
      /\ left' = [left EXCEPT ![r] = children] /\ kept' = [kept EXCEPT ![r] = <<>>]
      /\ at' = [at EXCEPT ![r] = "filter"] /\ opened' = [opened EXCEPT ![r] = ~failClosed]
  BY DEF Begin
<1>2. /\ req'[r] = request /\ todo'[r] = chain /\ left'[r] = children /\ kept'[r] = <<>>
      /\ req' \in [Requests -> Request] /\ opened' \in [Requests -> BOOLEAN]
      /\ IsFunction(todo)' /\ IsFunction(left)' /\ IsFunction(kept)'
      /\ at' \in [Requests -> {"filter", "change"}]
      /\ \A q \in Requests \ {r} :
            req'[q] = req[q] /\ todo'[q] = todo[q] /\ left'[q] = left[q] /\ kept'[q] = kept[q]
            /\ at'[q] = at[q]
  BY <1>0, <1>1 DEF SlotTypes, IsFunction
<1>3. seen[r] = NotYet
  BY <1>0 DEF LookupTypes, Wanted
<1>4. LookupTypes(r)'
  BY <1>1, <1>3, FoundFacts DEF LookupTypes
<1>5. MetaTypes'
  BY <1>0, <1>1 DEF MetaTypes, ValuesOf
<1>6. seen' \in [Requests -> Found \cup {NotYet, Failed}] /\ \A q \in Requests \ {r} : seen'[q] = seen[q]
  BY <1>0, <1>1 DEF SlotTypes
<1>7. WorkTypes(r)'
  BY <1>2
<1> QED
  BY <1>1, <1>2, <1>4, <1>5, <1>6, <1>7, StepTypes

LEMMA IdentifyTypes ==
    ASSUME TypeInv, NEW r \in Requests, Identify(r)
    PROVE  /\ snap' \in [Requests -> Policies \cup {Unidentified}]
           /\ failed' \in [Requests -> BOOLEAN]
           /\ \A q \in Requests \ {r} : failed'[q] = failed[q]
<1>1. SlotTypes /\ policy \in Policies
  BY DEF TypeInv, WorldTypes
<1>2. PICK who \in {policy, Unidentified} : snap' = [snap EXCEPT ![r] = who]
  BY DEF Identify
<1>3. failed' = [failed EXCEPT ![r] = FALSE]
  BY DEF Identify
<1> QED
  BY <1>1, <1>2, <1>3 DEF SlotTypes

LEMMA AskHomeTypes ==
    ASSUME TypeInv, NEW r \in Requests, AskHome(r)
    PROVE  TypeInv'
<1>1. PICK c \in Clients :
          Begin(r, HomeOf(NoRequest, c, HomeRows[c.account]), HomeChain(c.skips), HomeRows[c.account])
  BY DEF AskHome, HomeOf
<1>2. c \in Client /\ HomeRows[c.account] \in Seq(Hub)
  BY WorldAssumption DEF Client
<1> DEFINE request == HomeOf(NoRequest, c, HomeRows[c.account])
<1>3. request \in Request /\ request.kind = "home" /\ request.raw \in Seq(Hub)
  BY <1>2, BlankType, HomeRecord
<1>4. Begin(r, request, HomeChain(c.skips), HomeRows[c.account]) /\ todo[r] = <<>> /\ Identify(r)
  BY <1>1 DEF AskHome, Idle
<1> HIDE DEF request
<1>5. ASSUME req'[r] = request /\ todo'[r] = HomeChain(c.skips) /\ left'[r] = HomeRows[c.account]
             /\ kept'[r] = <<>>
      PROVE  WorkTypes(r)'
  <2>1. Home(r)'
    BY <1>2, <1>3, <1>5, NotALibrary, EmptySeq DEF Home
  <2> QED
    BY <2>1 DEF WorkTypes
<1> QED
  BY <1>3, <1>4, <1>5, IdentifyTypes, BeginTypes

LEMMA AskPageTypes ==
    ASSUME TypeInv, NEW r \in Requests, AskPage(r)
    PROVE  TypeInv'
<1>1. PICK a \in Accounts, page \in Pages :
          Begin(r, PageOn(NoRequest, a, RawItems(page)), PolicyChain, RawItems(page))
  BY DEF AskPage, PageOn
<1>2. RawItems(page) \in Seq(Item)
  BY RawPage
<1> DEFINE request == PageOn(NoRequest, a, RawItems(page))
<1>3. request \in Request /\ request.kind = "page" /\ request.raw \in Seq(Item)
  BY <1>2, BlankType, PageRecord
<1>4. Begin(r, request, PolicyChain, RawItems(page)) /\ todo[r] = <<>> /\ Identify(r)
  BY <1>1 DEF AskPage, Idle
<1> HIDE DEF request
<1>5. ASSUME req'[r] = request /\ todo'[r] = PolicyChain /\ left'[r] = RawItems(page) /\ kept'[r] = <<>>
      PROVE  WorkTypes(r)'
  <2>1. Page(r)'
    BY <1>2, <1>3, <1>5, NotALibrary, EmptySeq DEF Page
  <2> QED
    BY <2>1 DEF WorkTypes
<1> QED
  BY <1>3, <1>4, <1>5, IdentifyTypes, BeginTypes

LEMMA StubType ==
    ASSUME NEW ids \in Seq(Collections)
    PROVE  Stub(ids) \in Seq(Stubs)
<1>1. Len(ids) \in Nat /\ \A n \in 1..Len(ids) : [is |-> "collection", of |-> ids[n]] \in Stubs
  BY LenProperties, ElementOfSeq DEF Stubs
<1>2. [n \in 1..Len(ids) |-> [is |-> "collection", of |-> ids[n]]] \in Seq(Stubs)
  <2> DEFINE e(n) == [is |-> "collection", of |-> ids[n]]
  <2>1. \A n \in 1..Len(ids) : e(n) \in Stubs
    BY <1>1
  <2> HIDE DEF e
  <2>2. [n \in 1..Len(ids) |-> e(n)] \in Seq(Stubs)
    BY <1>1, <2>1, IsASeq
  <2> QED
    BY <2>2 DEF e
<1>3. <<>> \in Seq(Stubs)
  BY EmptySeq
<1> QED
  BY <1>2, <1>3, Zenon DEF Stub

LEMMA RefreshTypes ==
    ASSUME TypeInv, NEW r \in Requests, Refresh(r)
    PROVE  TypeInv'
<1>0. /\ todo[r] = <<>> /\ req[r].kind = "home" /\ snap' = snap /\ failed' = failed
      /\ SlotTypes /\ WorkTypes(r)
  BY DEF TypeInv, Refresh, Idle
<1>1. PICK n \in 1..Len(left[r]) : AskChildren(r, left[r][n]) \/ AskDefault(r, left[r][n])
  BY DEF Refresh
<1> DEFINE row == left[r][n]
<1>2. Home(r) /\ req[r] \in Request /\ row \in Hub
  <2>1. Home(r)
    BY <1>0 DEF WorkTypes, Page, Children, Default, Never
  <2> QED
    BY <1>0, <2>1, ElementOfSeq DEF Home, SlotTypes
<1> HIDE DEF row
<1>3. row.items \in Seq(Item) /\ row.key \in Seq(Collections) \cup {NoKey} /\ req[r].raw \in Seq(Hub)
  BY <1>2, HubFacts DEF Home
<1>4. CASE AskChildren(r, row)
  <2>1. PICK start \in Starts :
            Begin(r, ChildrenOf(req[r], row.key, start, row.items), ChildrenChain, Stub(row.key))
    BY <1>4 DEF AskChildren, ChildrenOf
  <2>2. row.key \in Seq(Collections) /\ start \in Nat
    BY <1>3, <1>4, WorldAssumption DEF AskChildren
  <2> DEFINE request == ChildrenOf(req[r], row.key, start, row.items)
  <2>3. request \in Request /\ request.kind = "children" /\ request.raw = req[r].raw
    BY <1>2, <1>3, <2>2, ChildrenRecord
  <2>4. Begin(r, request, ChildrenChain, Stub(row.key))
    BY <2>1
  <2> HIDE DEF request
  <2>5. ASSUME req'[r] = request /\ todo'[r] = ChildrenChain /\ left'[r] = Stub(row.key) /\ kept'[r] = <<>>
        PROVE  WorkTypes(r)'
    <3>1. Children(r)'
      BY <1>3, <2>2, <2>3, <2>5, StubType, EmptySeq DEF Children
    <3> QED
      BY <3>1 DEF WorkTypes
  <2> QED
    BY <1>0, <2>3, <2>4, <2>5, BeginTypes DEF SlotTypes
<1>5. CASE AskDefault(r, row)
  <2>1. PICK raw \in {req[r].raw[k] : k \in 1..Len(req[r].raw)} :
            Begin(r, DefaultOf(req[r], row.items), DefaultChain, raw.items)
    BY <1>5 DEF AskDefault, DefaultOf
  <2>2. raw.items \in Seq(Item)
    <3>1. raw \in Hub
      BY <1>3, ElementOfSeq
    <3> QED
      BY <3>1, HubFacts
  <2> DEFINE request == DefaultOf(req[r], row.items)
  <2>3. request \in Request /\ request.kind = "default" /\ request.raw = req[r].raw
    BY <1>2, <1>3, DefaultRecord
  <2>4. Begin(r, request, DefaultChain, raw.items)
    BY <2>1
  <2> HIDE DEF request
  <2>5. ASSUME req'[r] = request /\ todo'[r] = DefaultChain /\ left'[r] = raw.items /\ kept'[r] = <<>>
        PROVE  WorkTypes(r)'
    <3>1. Default(r)'
      BY <1>3, <2>2, <2>3, <2>5, NotALibrary, EmptySeq DEF Default
    <3> QED
      BY <3>1 DEF WorkTypes
  <2> QED
    BY <1>0, <2>3, <2>4, <2>5, BeginTypes DEF SlotTypes
<1> QED
  BY <1>1, <1>4, <1>5 DEF row

LEMMA RequestStepTypes ==
    ASSUME TypeInv, NEW r \in Requests, RequestStep(r)
    PROVE  TypeInv'
BY AskHomeTypes, AskPageTypes, RefreshTypes, LookTypes, FilterTypes, ChangeTypes, MixTypes, FinishTypes
DEF RequestStep

LEMMA ElsewhereTypes ==
    ASSUME TypeInv, Unnoticed, config' = config, WorldTypes', MetaTypes',
           opened' \in [Requests -> BOOLEAN]
    PROVE  TypeInv'
<1>1. SlotTypes'
  BY DEF TypeInv, SlotTypes, Unnoticed, IsFunction
<1>2. ASSUME NEW r \in Requests
      PROVE  WorkTypes(r)' /\ LookupTypes(r)'
  BY SameWork, SameLookup DEF TypeInv, Unnoticed
<1> QED
  BY <1>1, <1>2 DEF TypeInv

LEMMA NextTypes == TypeInv /\ [Next]_vars => TypeInv'
<1> SUFFICES ASSUME TypeInv, [Next]_vars PROVE TypeInv'
  OBVIOUS
<1>0. WorldTypes /\ MetaTypes /\ SlotTypes /\ MaxChanges \in Nat
  BY WorldAssumption DEF TypeInv
<1>1. ASSUME NEW r \in Requests, RequestStep(r)
      PROVE  TypeInv'
  BY <1>1, RequestStepTypes
<1>2. ASSUME NEW c \in Collections, Relabel(c)
      PROVE  TypeInv'
  <2>1. WorldTypes' /\ MetaTypes' /\ Unnoticed /\ opened' \in [Requests -> BOOLEAN] /\ config' = config
    BY <1>0, <1>2 DEF Relabel, WorldTypes, MetaTypes, ValuesOf, SlotTypes
  <2> QED
    BY <2>1, ElsewhereTypes
<1>3. ASSUME NEW c \in Collections, NEW a \in Accounts, Share(a, c)
      PROVE  TypeInv'
  <2>1. /\ changes < MaxChanges /\ changes' = changes + 1 /\ Unnoticed
        /\ UNCHANGED <<config, labels, policy, failClosed, meta, opened>>
        /\ everShared' = [everShared EXCEPT ![a] = @ \cup shared'[a]]
        /\ \/ shared' = [shared EXCEPT ![a] = @ \cup {c}]
           \/ shared' = [shared EXCEPT ![a] = @ \ {c}]
    BY <1>3 DEF Share
  <2>2. shared' \in [Accounts -> SUBSET Collections]
    BY <1>0, <2>1 DEF WorldTypes
  <2>3. everShared' \in [Accounts -> SUBSET Collections]
    BY <1>0, <2>1, <2>2 DEF WorldTypes
  <2>4. WorldTypes' /\ MetaTypes' /\ opened' \in [Requests -> BOOLEAN]
    <3>1. WorldTypes'
      <4>1. changes' \in 0..MaxChanges
        BY <1>0, <2>1, WorldAssumption DEF WorldTypes
      <4> QED
        BY <1>0, <2>1, <2>2, <2>3, <4>1 DEF WorldTypes
    <3>2. MetaTypes'
      BY <1>0, <2>1 DEF MetaTypes, ValuesOf
    <3>3. opened' \in [Requests -> BOOLEAN]
      BY <1>0, <2>1 DEF SlotTypes
    <3> QED
      BY <3>1, <3>2, <3>3
  <2> QED
    BY <2>1, <2>4, ElsewhereTypes
<1>4. CASE Reload
  <2>1. WorldTypes' /\ MetaTypes' /\ Unnoticed /\ config' = config
    BY <1>0, <1>4 DEF Reload, WorldTypes, MetaTypes, ValuesOf
  <2>2. opened' \in [Requests -> BOOLEAN]
    BY <1>0, <1>4 DEF Reload, SlotTypes, WorldTypes
  <2> QED
    BY <2>1, <2>2, ElsewhereTypes
<1>5. ASSUME NEW a \in Accounts, NEW name \in Names, Forget(a, name)
      PROVE  TypeInv'
  <2>1. /\ meta' = [meta EXCEPT ![a][name] = Nothing] /\ changes' = changes + 1
        /\ changes < MaxChanges /\ UNCHANGED <<config, labels, shared, policy, failClosed>>
        /\ UNCHANGED everShared /\ UNCHANGED opened /\ Unnoticed
    BY <1>5 DEF Forget
  <2>2. MetaTypes'
    <3> DEFINE all == (SUBSET Labels) \cup (SUBSET Collections) \cup {Nothing}
    <3>1. /\ meta \in [Accounts -> [Names -> all]] /\ Nothing \in all
          /\ \A b \in Accounts : \A n \in Names : meta[b][n] = Nothing \/ meta[b][n] \in ValuesOf(n)
      BY <1>0 DEF MetaTypes
    <3> HIDE DEF all
    <3>2. meta' \in [Accounts -> [Names -> all]]
      BY <2>1, <3>1
    <3>3. \A b \in Accounts : \A n \in Names : meta'[b][n] \in {Nothing, meta[b][n]}
      BY <2>1, <3>1
    <3>4. \A b \in Accounts : \A n \in Names :
              meta'[b][n] = Nothing \/ meta'[b][n] \in ValuesOf(n)
      BY <3>1, <3>3
    <3> QED
      BY <3>2, <3>4 DEF MetaTypes, all, ValuesOf
  <2>3. WorldTypes' /\ opened' \in [Requests -> BOOLEAN]
    BY <1>0, <2>1 DEF WorldTypes, SlotTypes
  <2> QED
    BY <2>1, <2>2, <2>3, ElsewhereTypes
<1>6. CASE UNCHANGED vars
  <2>1. WorldTypes' /\ MetaTypes' /\ Unnoticed /\ opened' \in [Requests -> BOOLEAN] /\ config' = config
    BY <1>0, <1>6 DEF vars, world, slots, Unnoticed, WorldTypes, MetaTypes, ValuesOf, SlotTypes
  <2> QED
    BY <2>1, ElsewhereTypes
<1> QED
  BY <1>1, <1>2, <1>3, <1>4, <1>5, <1>6 DEF Next

LEMMA InitTypes == Init => TypeInv
<1> SUFFICES ASSUME Init PROVE TypeInv
  OBVIOUS
<1>1. WorldTypes
  <2>1. PICK w \in Worlds : labels = w.labels /\ shared = w.shared
    BY DEF Init
  <2>2. w.labels \in [Collections -> SUBSET Labels] /\ w.shared \in [Accounts -> SUBSET Collections]
    BY WorldAssumption
  <2> QED
    BY <2>1, <2>2, WorldAssumption DEF Init, WorldTypes
<1>2. MetaTypes
  BY DEF Init, MetaTypes
<1>3. SlotTypes
  BY BlankType DEF Init, SlotTypes, IsFunction
<1>4. ASSUME NEW r \in Requests
      PROVE  WorkTypes(r) /\ LookupTypes(r)
  <2>1. /\ req[r].kind = "none" /\ todo[r] = <<>> /\ left[r] = <<>> /\ kept[r] = <<>> /\ seen[r] = NotYet
    BY BlankType DEF Init
  <2>2. LookupTypes(r)
    BY <2>1, FoundFacts DEF LookupTypes
  <2> QED
    BY <2>1, <2>2 DEF WorkTypes, Never
<1> QED
  BY <1>1, <1>2, <1>3, <1>4 DEF TypeInv

LEMMA TypesHold == Spec => []TypeInv
BY InitTypes, NextTypes, PTL DEF Spec

\* Whatever is looked up, filtered, merged and changed at Plex meanwhile, a
\* request works on children of the kind its chain is for, and a lookup answers
\* what was asked.
THEOREM TypeCorrect == Spec => []TypeOK
<1>1. TypeInv => TypeOK
  <2> SUFFICES ASSUME TypeInv PROVE TypeOK
    OBVIOUS
  <2>0. WorldTypes /\ MetaTypes /\ SlotTypes /\ \A r \in Requests : WorkTypes(r) /\ LookupTypes(r)
    BY DEF TypeInv
  <2>1. ASSUME NEW a \in Accounts
        PROVE  /\ meta[a] \in [Names -> (SUBSET Labels) \cup (SUBSET Collections) \cup {Nothing}]
               /\ meta[a][List] \in (SUBSET Collections) \cup {Nothing}
               /\ \A c \in Collections : meta[a][c] \in (SUBSET Labels) \cup {Nothing}
    <3>1. List \notin Collections
      BY WorldAssumption
    <3> QED
      BY <2>0, <3>1 DEF MetaTypes, Names, ValuesOf
  <2>2. ASSUME NEW r \in Requests
        PROVE  left[r] \in Seq(Child) /\ kept[r] \in Seq(Child)
    <3>1. Item \subseteq Child /\ Hub \subseteq Child /\ Stubs \subseteq Child
      BY DEF Child, Stubs
    <3>2. Seq(Item) \subseteq Seq(Child) /\ Seq(Hub) \subseteq Seq(Child) /\ Seq(Stubs) \subseteq Seq(Child)
      BY <3>1, SeqMonotonic
    <3>3. <<>> \in Seq(Child)
      BY EmptySeq
    <3>4. /\ left[r] \in Seq(Item) \cup Seq(Hub) \cup Seq(Stubs) \cup {<<>>}
          /\ kept[r] \in Seq(Item) \cup Seq(Hub) \cup Seq(Stubs) \cup {<<>>}
      BY <2>0 DEF WorkTypes, Home, Page, Children, Default, Never
    <3> QED
      BY <3>2, <3>3, <3>4
  <2>3. left \in [Requests -> Seq(Child)] /\ kept \in [Requests -> Seq(Child)]
    BY <2>0, <2>2 DEF SlotTypes, IsFunction
  <2>4. ASSUME NEW r \in Requests
        PROVE  /\ req[r].kind = "page" => left[r] \in Seq(Item) /\ kept[r] \in Seq(Item)
               /\ Wanted(r) = NoName => seen[r] = NotYet
    BY <2>0 DEF WorkTypes, LookupTypes, Home, Page, Children, Default, Never
  <2> QED
    BY <2>0, <2>1, <2>3, <2>4 DEF TypeOK, WorldTypes, SlotTypes
<1> QED
  BY <1>1, TypesHold, PTL

-----------------------------------------------------------------------------
(***************************************************************************)
(* Which collections a row may stand for, and how far a request has come   *)
(* with the restriction of its rows.                                       *)
(***************************************************************************)
\* What is done once restriction is.
AfterRestriction == {"style", "watched", "interleave", "userState", "key", "shape"}

\* The collections a row may stand for: listed for the account at some time, or
\* of a row that has no id that a lookup could ask for.
Listed(r) ==
    {c \in Collections :
        \/ c \in everShared[req[r].account]
        \/ \E n \in 1..Len(req[r].raw) : req[r].raw[n].of = c /\ req[r].raw[n].malformed}

OfPlex(r, s) == \A n \in 1..Len(s) : \E m \in 1..Len(req[r].raw) : s[n] = req[r].raw[m]

MayShow(r, x) == x.key # NoKey => x.key \in Seq(Listed(r))

AllMayShow(r, s) == \A n \in 1..Len(s) : MayShow(r, s[n])

Restricting(r) ==
    req[r].kind = "home" /\ config.hubRestrictions /\ ~req[r].skips /\ ~failed[r]

Unrestricted(r) ==
    todo[r] = HomeChain(FALSE) /\ OfPlex(r, left[r]) /\ OfPlex(r, kept[r])

BeingRestricted(r) ==
    /\ todo[r] = Tail(HomeChain(FALSE))
    /\ OfPlex(r, left[r]) /\ AllMayShow(r, kept[r])
    /\ at[r] = "change" => MayShow(r, left[r][1])

HasBeenRestricted(r) ==
    todo[r] \in Seq(AfterRestriction) /\ AllMayShow(r, left[r]) /\ AllMayShow(r, kept[r])

SharingInv(r) ==
    /\ req[r].kind = "home" => req[r].raw = HomeRows[req[r].account]
    /\ Wanted(r) = List /\ seen[r] \notin {NotYet, Failed} =>
           seen[r].value \subseteq everShared[req[r].account]
    /\ at[r] = "change" => left[r] # <<>>
    /\ Restricting(r) => Unrestricted(r) \/ BeingRestricted(r) \/ HasBeenRestricted(r)

ListsInv ==
    \A a \in Accounts :
        /\ shared[a] \subseteq everShared[a]
        /\ meta[a][List] = Nothing \/ meta[a][List] \subseteq everShared[a]

SharedInv == TypeInv /\ ListsInv /\ \A r \in Requests : SharingInv(r)

-----------------------------------------------------------------------------
\* The chain of a home screen, as far as restriction.
LEMMA HomeChainFacts ==
    /\ HomeChain(FALSE) # <<>> /\ Head(HomeChain(FALSE)) = "visibility"
    /\ Tail(HomeChain(FALSE)) # <<>> /\ Head(Tail(HomeChain(FALSE))) = "restriction"
    /\ Tail(Tail(HomeChain(FALSE))) \in Seq(AfterRestriction)
<1>1. Tail(HomeChain(FALSE)) =
          <<"restriction", "style", "watched", "interleave", "userState", "key", "shape">>
  BY DEF HomeChain
<1>2. Tail(Tail(HomeChain(FALSE))) =
          <<"style", "watched", "interleave", "userState", "key", "shape">>
  <2>1. \A s : s = <<"restriction", "style", "watched", "interleave", "userState", "key", "shape">> =>
            Tail(s) = <<"style", "watched", "interleave", "userState", "key", "shape">>
    OBVIOUS
  <2> QED
    BY <1>1, <2>1, Zenon
<1>3. <<"style", "watched", "interleave", "userState", "key", "shape">> \in Seq(AfterRestriction)
  BY DEF AfterRestriction
<1> QED
  BY <1>1, <1>2, <1>3 DEF HomeChain

LEMMA HomeWork ==
    ASSUME TypeInv, NEW r \in Requests, req[r].kind = "home"
    PROVE  Home(r) /\ req[r].account \in Accounts /\ req[r].count \in Nat
<1>1. WorkTypes(r) /\ req[r] \in Request
  BY DEF TypeInv, SlotTypes
<1> QED
  BY <1>1 DEF WorkTypes, Page, Children, Default, Never, Request

\* No transform changes what a row stands for.
LEMMA ChangedKey ==
    ASSUME NEW r, NEW t \in AfterRestriction, NEW x \in Hub
    PROVE  Changed(r, t, x).key = x.key
<1>0. /\ \A items : [x EXCEPT !.items = items].key = x.key
      /\ \A items, size : [x EXCEPT !.items = items, !.size = size].key = x.key
      /\ [x EXCEPT !.ours = TRUE].key = x.key
      /\ IsHub(x)
  BY DEF Hub, IsHub
<1>1. CASE t = "watched"
  BY <1>0, <1>1 DEF Changed, WithoutWatched
<1>2. CASE t = "userState"
  <2> DEFINE all == [n \in 1..Len(x.items) |-> [x.items[n] EXCEPT !.leaves = -1]]
  <2>1. Changed(r, t, x) = Leafless(x)
    BY <1>2 DEF Changed
  <2>2. config.leafCount => Leafless(x) = x
    BY DEF Leafless
  <2>3. ~config.leafCount => Leafless(x) = [x EXCEPT !.items = all]
    BY <1>0, Zenon DEF Leafless
  <2> HIDE DEF all
  <2>4. [x EXCEPT !.items = all].key = x.key
    BY <1>0
  <2> QED
    BY <2>1, <2>2, <2>3, <2>4, Zenon
<1>3. CASE t = "key"
  BY <1>0, <1>3 DEF Changed, Keyed
<1>4. CASE t = "shape"
  <2>1. Changed(r, t, x) = Counted(x, req[r].count)
    BY <1>4 DEF Changed
  <2> DEFINE count == req[r].count
             items == FirstOf(x.items, count)
  <2>2. \/ Counted(x, count) = [x EXCEPT !.items = items, !.size = count]
        \/ Counted(x, count) = x
    BY Zenon DEF Counted
  <2> HIDE DEF items, count
  <2>3. [x EXCEPT !.items = items, !.size = count].key = x.key
    BY <1>0
  <2> QED
    BY <2>1, <2>2, <2>3, Zenon DEF count
<1>5. CASE t \in {"style", "interleave"}
  BY <1>5 DEF Changed
<1> QED
  BY <1>1, <1>2, <1>3, <1>4, <1>5 DEF AfterRestriction

\* Merging puts what both rows stand for together.
LEMMA BlendedKey ==
    ASSUME NEW y \in Hub, NEW x \in Hub, y.key # NoKey, x.key # NoKey
    PROVE  Blended(y, x).key = y.key \o x.key
<1> DEFINE items == Interleaved(y.items, x.items)
           key == y.key \o x.key
           set == SetItems(y, items)
<1>1. items \in Seq(Item)
  BY HubFacts, InterleavedFacts
<1> HIDE DEF items, key
<1>2. set \in Hub
  BY <1>1, SetItemsType
<1> HIDE DEF set
<1>3. [set EXCEPT !.key = key].key = key
  BY <1>2 DEF Hub
<1> QED
  BY <1>3, Zenon DEF Blended, set, items, key

LEMMA MergedMayShow ==
    ASSUME NEW r, NEW rows \in Seq(Hub), NEW x \in Hub, AllMayShow(r, rows), MayShow(r, x)
    PROVE  AllMayShow(r, Merged(rows, x))
<1>1. CASE Merged(rows, x) = rows
  BY <1>1
<1>2. CASE Merged(rows, x) = Append(rows, x)
  <2>1. Len(Append(rows, x)) = Len(rows) + 1 /\ Append(rows, x)[Len(rows) + 1] = x
        /\ (\A n \in 1..Len(rows) : Append(rows, x)[n] = rows[n]) /\ Len(rows) \in Nat
    BY AppendFacts, LenProperties
  <2>2. \A n \in 1..Len(Append(rows, x)) : n \in 1..Len(rows) \/ n = Len(rows) + 1
    BY <2>1
  <2> HIDE DEF MayShow
  <2> QED
    BY <1>2, <2>1, <2>2 DEF AllMayShow
<1>3. ASSUME NEW n \in 1..Len(rows), rows[n].key # NoKey, x.key # NoKey,
             Merged(rows, x) = Blend(rows, n, x)
      PROVE  AllMayShow(r, Merged(rows, x))
  <2>1. rows[n] \in Hub /\ rows[n].key \in Seq(Listed(r)) /\ x.key \in Seq(Listed(r))
    BY <1>3, ElementOfSeq DEF AllMayShow, MayShow
  <2> DEFINE both == Blended(rows[n], x)
  <2>2. both \in Hub /\ both.key = rows[n].key \o x.key
    BY <1>3, <2>1, BlendedType, BlendedKey
  <2>3. both.key \in Seq(Listed(r))
    <3> DEFINE S == Listed(r)
               k == rows[n].key
    <3>1. k \in Seq(S) /\ x.key \in Seq(S)
      BY <2>1
    <3> HIDE DEF S, k
    <3>2. k \o x.key \in Seq(S)
      BY <3>1, ConcatProperties
    <3> QED
      BY <2>2, <3>2 DEF S, k
  <2> HIDE DEF both
  <2>4. Merged(rows, x) = [rows EXCEPT ![n] = both]
    BY <1>3 DEF Blend, both
  <2>5. Len([rows EXCEPT ![n] = both]) = Len(rows)
        /\ \A m \in 1..Len(rows) : [rows EXCEPT ![n] = both][m] = IF m = n THEN both ELSE rows[m]
    BY <2>2, ExceptSeq
  <2> QED
    BY <2>3, <2>4, <2>5 DEF AllMayShow, MayShow
<1> QED
  BY <1>1, <1>2, <1>3, MergedCases

-----------------------------------------------------------------------------
(***************************************************************************)
(* The lookup of restriction, and what is remembered of it.                *)
(***************************************************************************)
\* What a row may stand for only grows while its request stays what it is.
LEMMA MayShowLasts ==
    ASSUME NEW r, req'[r] = req[r], everShared[req[r].account] \subseteq everShared'[req[r].account]
    PROVE  /\ Listed(r) \subseteq Listed(r)'
           /\ \A x : MayShow(r, x) => MayShow(r, x)'
           /\ \A s : AllMayShow(r, s) => AllMayShow(r, s)'
           /\ \A s : OfPlex(r, s) => OfPlex(r, s)'
<1>1. Listed(r) \subseteq Listed(r)'
  BY DEF Listed
<1>2. Seq(Listed(r)) \subseteq Seq(Listed(r)')
  <2> DEFINE S == Listed(r)
             T == Listed(r)'
  <2>1. S \subseteq T
    BY <1>1
  <2> HIDE DEF S, T
  <2>2. Seq(S) \subseteq Seq(T)
    BY <2>1, SeqMonotonic
  <2> QED
    BY <2>2 DEF S, T
<1>3. \A x : MayShow(r, x) => MayShow(r, x)'
  BY <1>2, Zenon DEF MayShow
<1>4. \A s : AllMayShow(r, s) => AllMayShow(r, s)'
  BY <1>3, Zenon DEF AllMayShow
<1>5. \A s : OfPlex(r, s) => OfPlex(r, s)'
  BY DEF OfPlex
<1> QED
  BY <1>1, <1>3, <1>4, <1>5

\* A request that does not take the step stays as it was.
LEMMA SharingLasts ==
    ASSUME NEW r, SharingInv(r), req'[r] = req[r], todo'[r] = todo[r], left'[r] = left[r],
           kept'[r] = kept[r], at'[r] = at[r], seen'[r] = seen[r], failed'[r] = failed[r],
           config' = config, everShared[req[r].account] \subseteq everShared'[req[r].account]
    PROVE  SharingInv(r)'
<1>1. Wanted(r)' = Wanted(r)
  BY SameWanted
<1>2. Restricting(r)' = Restricting(r)
  BY DEF Restricting
<1>3. /\ \A x : MayShow(r, x) => MayShow(r, x)'
      /\ \A s : AllMayShow(r, s) => AllMayShow(r, s)'
      /\ \A s : OfPlex(r, s) => OfPlex(r, s)'
  BY MayShowLasts
<1>4. Unrestricted(r) => Unrestricted(r)'
  BY <1>3, Zenon DEF Unrestricted
<1>5. BeingRestricted(r) => BeingRestricted(r)'
  BY <1>3, Zenon DEF BeingRestricted
<1>6. HasBeenRestricted(r) => HasBeenRestricted(r)'
  BY <1>3, Zenon DEF HasBeenRestricted
<1>7. (Wanted(r) = List /\ seen[r] \notin {NotYet, Failed} =>
           seen[r].value \subseteq everShared[req[r].account])'
  BY <1>1 DEF SharingInv
<1>8. /\ (req[r].kind = "home" => req[r].raw = HomeRows[req[r].account])'
      /\ (at[r] = "change" => left[r] # <<>>)'
  BY DEF SharingInv
<1> QED
  BY <1>2, <1>4, <1>5, <1>6, <1>7, <1>8, Zenon DEF SharingInv

\* A row that restriction keeps stands for what the lookup has found.
LEMMA RestrictionShows ==
    ASSUME SharedInv, NEW r \in Requests, Restricting(r), todo[r] = Tail(HomeChain(FALSE)),
           OfPlex(r, left[r]), left[r] # <<>>, at[r] = "filter",
           Wanted(r) # NoName => seen[r] # NotYet,
           RestrictionKeeps(Head(left[r]), seen[r])
    PROVE  MayShow(r, left[r][1])
<1> DEFINE x == left[r][1]
           a == req[r].account
<1>0. /\ Home(r) /\ a \in Accounts /\ config.hubRestrictions /\ ~failed[r]
      /\ req[r].raw = HomeRows[a] /\ LookupTypes(r) /\ SharingInv(r)
  BY HomeWork DEF SharedInv, Restricting, SharingInv, TypeInv
<1>1. Head(left[r]) = x /\ x \in Hub /\ 1 \in 1..Len(left[r])
  BY <1>0, TailFacts DEF Home
<1>2. PICK m \in 1..Len(req[r].raw) : x = req[r].raw[m]
  BY <1>1 DEF OfPlex
<1>3. x.key # NoKey => \A k \in 1..Len(x.key) : x.key[k] = x.of
  <2>1. x = HomeRows[a][m] /\ m \in 1..Len(HomeRows[a])
    BY <1>0, <1>2
  <2> HIDE DEF x, a
  <2> QED
    BY <1>0, <2>1, RawKeys
<1> SUFFICES ASSUME x.key # NoKey PROVE x.key \in Seq(Listed(r))
  BY DEF MayShow
<1>4. x.key \in Seq(Collections)
  BY <1>1, HubFacts
<1>5. IsHub(x)
  BY <1>1, HubFacts
<1> HIDE DEF x, a
<1>6. ASSUME NEW k \in 1..Len(x.key)
      PROVE  x.key[k] \in Listed(r)
  <2>1. x.of \in Collections /\ x.key[k] = x.of
    BY <1>3, <1>4, ElementOfSeq
  <2>2. IsCollectionHub(x)
    BY <1>5, <2>1, WorldAssumption DEF IsCollectionHub
  <2>3. CASE x.malformed
    BY <1>2, <2>1, <2>3 DEF Listed
  <2>4. CASE ~x.malformed
    <3>1. x.size > 0 /\ (seen[r] # Failed => x.of \in seen[r].value)
      BY <1>0, <1>1, <2>2, <2>4 DEF RestrictionKeeps
    <3>2. Wanted(r) = List
      <4>1. todo[r] # <<>> /\ Head(todo[r]) = "restriction"
        BY HomeChainFacts
      <4>2. Asks("restriction", x) = List
        BY <1>0, <2>2, <2>4, <3>1 DEF Asks
      <4> QED
        BY <1>1, <4>1, <4>2 DEF Wanted
    <3>3. List # NoName
      BY WorldAssumption
    <3>4. seen[r] \notin {NotYet, Failed}
      BY <1>0, <3>2, <3>3 DEF LookupTypes
    <3>5. seen[r].value \subseteq everShared[req[r].account]
      BY <1>0, <3>2, <3>4 DEF SharingInv
    <3> QED
      BY <2>1, <3>1, <3>4, <3>5 DEF Listed
  <2> QED
    BY <2>3, <2>4
<1> QED
  <2> DEFINE S == Listed(r)
  <2>1. \A k \in 1..Len(x.key) : x.key[k] \in S
    BY <1>6
  <2>2. Len(x.key) \in Nat /\ x.key = [k \in 1..Len(x.key) |-> x.key[k]]
    BY <1>4, LenProperties, SeqDef
  <2> HIDE DEF S
  <2>3. [k \in 1..Len(x.key) |-> x.key[k]] \in Seq(S)
    BY <2>1, <2>2, IsASeq
  <2> QED
    BY <2>2, <2>3, Zenon DEF S

\* What a lookup found is remembered for the account it was made for.
LEMMA AnsweredLists ==
    ASSUME SharedInv, NEW r \in Requests, Answered(r), UNCHANGED world
    PROVE  ListsInv'
<1>0. /\ ListsInv /\ MetaTypes /\ SharingInv(r) /\ req[r] \in Request
      /\ UNCHANGED <<shared, everShared>>
  BY DEF SharedInv, TypeInv, SlotTypes, world
<1> DEFINE a == req[r].account
           name == Wanted(r)
           value == seen[r].value
<1>1. a \in Accounts
  BY <1>0 DEF Request
<1>2. \/ meta' = meta
      \/ seen[r] \notin {NotYet, Failed} /\ meta' = [meta EXCEPT ![a][name] = value]
  BY DEF Answered, ScopeOf
<1>3. name = List /\ seen[r] \notin {NotYet, Failed} => value \subseteq everShared[a]
  BY <1>0 DEF SharingInv
<1> HIDE DEF a, name, value
<1>4. ASSUME NEW b \in Accounts
      PROVE  meta'[b][List] = Nothing \/ meta'[b][List] \subseteq everShared[b]
  <2>1. \/ meta'[b][List] = meta[b][List]
        \/ b = a /\ name = List /\ seen[r] \notin {NotYet, Failed} /\ meta'[b][List] = value
    BY <1>0, <1>1, <1>2 DEF MetaTypes, Names
  <2> QED
    BY <1>0, <1>3, <2>1 DEF ListsInv
<1> QED
  BY <1>0, <1>4 DEF ListsInv

-----------------------------------------------------------------------------
(***************************************************************************)
(* Steps of the transforms keep that invariant.                            *)
(***************************************************************************)
\* What holds of every row of a sequence holds of the rest of it, and of it with
\* one more such row.
LEMMA TailRows ==
    ASSUME NEW r, NEW S, NEW s \in Seq(S), s # <<>>
    PROVE  /\ OfPlex(r, s) => OfPlex(r, Tail(s)) /\ \E m \in 1..Len(req[r].raw) : s[1] = req[r].raw[m]
           /\ AllMayShow(r, s) => AllMayShow(r, Tail(s)) /\ MayShow(r, s[1])
<1>1. /\ Len(Tail(s)) = Len(s) - 1 /\ Len(s) \in Nat /\ Len(s) > 0
      /\ \A n \in 1..Len(Tail(s)) : Tail(s)[n] = s[n + 1]
  BY TailFacts
<1>2. 1 \in 1..Len(s) /\ \A n \in 1..Len(Tail(s)) : n + 1 \in 1..Len(s)
  BY <1>1
<1> HIDE DEF MayShow
<1>3. OfPlex(r, s) => OfPlex(r, Tail(s)) /\ \E m \in 1..Len(req[r].raw) : s[1] = req[r].raw[m]
  BY <1>1, <1>2 DEF OfPlex
<1>4. AllMayShow(r, s) => AllMayShow(r, Tail(s)) /\ MayShow(r, s[1])
  BY <1>1, <1>2 DEF AllMayShow
<1> QED
  BY <1>3, <1>4

LEMMA AppendRows ==
    ASSUME NEW r, NEW S, NEW s \in Seq(S), NEW x \in S
    PROVE  /\ OfPlex(r, s) /\ (\E m \in 1..Len(req[r].raw) : x = req[r].raw[m])
                  => OfPlex(r, Append(s, x))
           /\ AllMayShow(r, s) /\ MayShow(r, x) => AllMayShow(r, Append(s, x))
<1>1. Len(Append(s, x)) = Len(s) + 1 /\ Append(s, x)[Len(s) + 1] = x
      /\ (\A n \in 1..Len(s) : Append(s, x)[n] = s[n]) /\ Len(s) \in Nat
  BY AppendFacts, LenProperties
<1>2. \A n \in 1..Len(Append(s, x)) : n \in 1..Len(s) \/ n = Len(s) + 1
  BY <1>1
<1> HIDE DEF MayShow
<1>3. AllMayShow(r, s) /\ MayShow(r, x) => AllMayShow(r, Append(s, x))
  BY <1>1, <1>2 DEF AllMayShow
<1>4. OfPlex(r, s) /\ (\E m \in 1..Len(req[r].raw) : x = req[r].raw[m]) => OfPlex(r, Append(s, x))
  BY <1>1, <1>2 DEF OfPlex
<1> QED
  BY <1>3, <1>4

LEMMA NoRows == \A r : OfPlex(r, <<>>) /\ AllMayShow(r, <<>>)
BY DEF OfPlex, AllMayShow

\* The three stages of a request exclude each other by the transform at work.
LEMMA Stages ==
    ASSUME NEW r, todo[r] # <<>>
    PROVE  /\ Unrestricted(r) => Head(todo[r]) = "visibility"
           /\ BeingRestricted(r) => Head(todo[r]) = "restriction"
           /\ HasBeenRestricted(r) => /\ Head(todo[r]) \in AfterRestriction
                                      /\ Tail(todo[r]) \in Seq(AfterRestriction)
<1>1. HasBeenRestricted(r) => /\ Head(todo[r]) \in AfterRestriction
                              /\ Tail(todo[r]) \in Seq(AfterRestriction)
  BY TailFacts DEF HasBeenRestricted
<1> QED
  BY <1>1, HomeChainFacts DEF Unrestricted, BeingRestricted

\* The request whose transform takes a step.  Only the stages are left to show.
LEMMA StepShares ==
    ASSUME SharedInv, NEW r \in Requests, Answered(r), UNCHANGED <<world, req>>,
           at'[r] = "change" => left'[r] # <<>>,
           Restricting(r)' => Unrestricted(r)' \/ BeingRestricted(r)' \/ HasBeenRestricted(r)'
    PROVE  SharingInv(r)'
<1>1. seen'[r] = NotYet
  BY AnsweredTypes DEF SharedInv
<1>2. (req[r].kind = "home" => req[r].raw = HomeRows[req[r].account])'
  BY DEF SharedInv, SharingInv
<1> QED
  BY <1>1, <1>2 DEF SharingInv

LEMMA FilterShares ==
    ASSUME SharedInv, NEW r \in Requests, FilterChild(r)
    PROVE  SharingInv(r)'
<1>0. SlotTypes /\ SharingInv(r) /\ TypeInv
  BY DEF SharedInv, TypeInv
<1>1. /\ todo[r] # <<>> /\ left[r] # <<>> /\ at[r] = "filter" /\ Answered(r)
      /\ UNCHANGED <<world, req, todo, kept, failed>>
      /\ \/ /\ at' = [at EXCEPT ![r] = "change"] /\ left' = left
            /\ Keeps(r, Head(todo[r]), Head(left[r]))
         \/ left' = [left EXCEPT ![r] = Tail(left[r])] /\ at' = at
  BY DEF FilterChild, Busy
<1>2. /\ config' = config /\ everShared' = everShared /\ req'[r] = req[r] /\ todo'[r] = todo[r]
      /\ kept'[r] = kept[r]
      /\ \/ at'[r] = "change" /\ left'[r] = left[r] /\ Keeps(r, Head(todo[r]), Head(left[r]))
         \/ left'[r] = Tail(left[r]) /\ at'[r] = "filter"
  BY <1>0, <1>1 DEF SlotTypes, IsFunction, world
<1>3. /\ \A x : MayShow(r, x) => MayShow(r, x)'
      /\ \A s : AllMayShow(r, s) => AllMayShow(r, s)'
      /\ \A s : OfPlex(r, s) => OfPlex(r, s)'
  BY <1>2, MayShowLasts
<1>4. ASSUME Restricting(r)'
      PROVE  Unrestricted(r)' \/ BeingRestricted(r)' \/ HasBeenRestricted(r)'
  <2>1. Restricting(r)
    BY <1>1, <1>2, <1>4 DEF Restricting
  <2>2. left[r] \in Seq(Hub)
    BY <1>0, <2>1, HomeWork DEF Home, Restricting
  <2>3. CASE Unrestricted(r)
    <3>1. OfPlex(r, left[r]) /\ OfPlex(r, Tail(left[r]))
      BY <1>1, <2>2, <2>3, TailRows DEF Unrestricted
    <3>2. OfPlex(r, left'[r])
      BY <1>2, <3>1
    <3>3. OfPlex(r, left[r])' /\ OfPlex(r, kept[r])'
      BY <1>2, <1>3, <2>3, <3>2 DEF Unrestricted
    <3> QED
      BY <1>2, <2>3, <3>3 DEF Unrestricted
  <2>4. CASE BeingRestricted(r)
    <3>1. OfPlex(r, left[r]) /\ OfPlex(r, Tail(left[r])) /\ AllMayShow(r, kept[r])
      BY <1>1, <2>2, <2>4, TailRows DEF BeingRestricted
    <3>2. OfPlex(r, left[r])' /\ AllMayShow(r, kept[r])'
      <4>1. OfPlex(r, left'[r])
        BY <1>2, <3>1
      <4> QED
        BY <1>2, <1>3, <3>1, <4>1
    <3>3. at'[r] = "change" => MayShow(r, left[r][1])'
      <4>1. SUFFICES ASSUME at'[r] = "change" PROVE MayShow(r, left[r][1])'
        OBVIOUS
      <4>2. left'[r] = left[r] /\ Keeps(r, "restriction", Head(left[r]))
        BY <1>1, <1>2, <2>4, <4>1, Stages
      <4>3. RestrictionKeeps(Head(left[r]), seen[r])
        BY <4>2 DEF Keeps
      <4>4. Wanted(r) # NoName => seen[r] # NotYet
        BY <1>1 DEF Answered
      <4>5. MayShow(r, left[r][1])
        BY <1>1, <2>1, <2>4, <3>1, <4>3, <4>4, RestrictionShows DEF BeingRestricted
      <4> QED
        BY <1>3, <4>2, <4>5
    <3> QED
      BY <1>2, <2>4, <3>2, <3>3 DEF BeingRestricted
  <2>5. CASE HasBeenRestricted(r)
    <3>1. AllMayShow(r, left[r]) /\ AllMayShow(r, Tail(left[r])) /\ AllMayShow(r, kept[r])
      BY <1>1, <2>2, <2>5, TailRows DEF HasBeenRestricted
    <3>2. AllMayShow(r, left[r])' /\ AllMayShow(r, kept[r])'
      <4>1. AllMayShow(r, left'[r])
        BY <1>2, <3>1
      <4> QED
        BY <1>2, <1>3, <3>1, <4>1
    <3> QED
      BY <1>2, <2>5, <3>2 DEF HasBeenRestricted
  <2> QED
    BY <1>0, <2>1, <2>3, <2>4, <2>5 DEF SharingInv
<1>5. at'[r] = "change" => left'[r] # <<>>
  BY <1>1, <1>2
<1> QED
  BY <1>1, <1>4, <1>5, StepShares

LEMMA ChangeShares ==
    ASSUME SharedInv, NEW r \in Requests, ChangeChild(r)
    PROVE  SharingInv(r)'
<1>0. SlotTypes /\ SharingInv(r) /\ TypeInv
  BY DEF SharedInv, TypeInv
<1> DEFINE t == Head(todo[r])
           x == Head(left[r])
           done == IF t = "interleave" THEN Merged(kept[r], x) ELSE Append(kept[r], Changed(r, t, x))
<1>1. /\ todo[r] # <<>> /\ left[r] # <<>> /\ at[r] = "change" /\ Answered(r)
      /\ UNCHANGED <<world, req, todo, failed>>
      /\ kept' = [kept EXCEPT ![r] = done]
      /\ left' = [left EXCEPT ![r] = Tail(left[r])]
      /\ at' = [at EXCEPT ![r] = "filter"]
  BY DEF ChangeChild, Busy
<1>2. /\ config' = config /\ everShared' = everShared /\ req'[r] = req[r] /\ todo'[r] = todo[r]
      /\ kept'[r] = done /\ left'[r] = Tail(left[r]) /\ at'[r] = "filter"
  <2> HIDE DEF done
  <2> QED
    BY <1>0, <1>1 DEF SlotTypes, IsFunction, world
<1>3. /\ \A s : AllMayShow(r, s) => AllMayShow(r, s)'
      /\ \A s : OfPlex(r, s) => OfPlex(r, s)'
  BY <1>2, MayShowLasts
<1>4. ASSUME Restricting(r)'
      PROVE  Unrestricted(r)' \/ BeingRestricted(r)' \/ HasBeenRestricted(r)'
  <2>1. Restricting(r)
    BY <1>1, <1>2, <1>4 DEF Restricting
  <2>2. left[r] \in Seq(Hub) /\ kept[r] \in Seq(Hub) /\ todo[r] \in Seq(HomeTransforms)
    BY <1>0, <2>1, HomeWork DEF Home, Restricting
  <2>3. x = left[r][1] /\ x \in Hub
    BY <1>1, <2>2, TailFacts
  <2>4. CASE Unrestricted(r)
    <3>1. done = Append(kept[r], x)
      BY <1>1, <2>4, Stages DEF Changed
    <3>2. /\ OfPlex(r, Tail(left[r])) /\ OfPlex(r, kept[r])
          /\ \E m \in 1..Len(req[r].raw) : x = req[r].raw[m]
      BY <1>1, <2>2, <2>3, <2>4, TailRows DEF Unrestricted
    <3>3. OfPlex(r, done)
      <4> HIDE DEF x, t
      <4> QED
        BY <2>2, <2>3, <3>1, <3>2, AppendRows
    <3> HIDE DEF done
    <3>4. OfPlex(r, left'[r]) /\ OfPlex(r, kept'[r])
      BY <1>2, <3>2, <3>3
    <3>5. OfPlex(r, left[r])' /\ OfPlex(r, kept[r])'
      BY <1>3, <3>4
    <3> QED
      BY <1>2, <2>4, <3>5 DEF Unrestricted
  <2>5. CASE BeingRestricted(r)
    <3>1. done = Append(kept[r], x)
      BY <1>1, <2>5, Stages DEF Changed
    <3>2. OfPlex(r, Tail(left[r])) /\ AllMayShow(r, kept[r]) /\ MayShow(r, x)
      BY <1>1, <2>2, <2>3, <2>5, TailRows DEF BeingRestricted
    <3>3. AllMayShow(r, done)
      <4> HIDE DEF x, t
      <4> QED
        BY <2>2, <2>3, <3>1, <3>2, AppendRows
    <3> HIDE DEF done
    <3>4. OfPlex(r, left'[r]) /\ AllMayShow(r, kept'[r])
      BY <1>2, <3>2, <3>3
    <3>5. OfPlex(r, left[r])' /\ AllMayShow(r, kept[r])'
      BY <1>3, <3>4
    <3> QED
      BY <1>2, <2>5, <3>5 DEF BeingRestricted
  <2>6. CASE HasBeenRestricted(r)
    <3>1. /\ t \in AfterRestriction /\ AllMayShow(r, Tail(left[r])) /\ MayShow(r, x)
          /\ AllMayShow(r, kept[r])
      BY <1>1, <2>2, <2>3, <2>6, TailRows, Stages DEF HasBeenRestricted
    <3>2. AllMayShow(r, done)
      <4>1. CASE t = "interleave"
        BY <2>2, <2>3, <3>1, <4>1, MergedMayShow
      <4>2. CASE t # "interleave"
        <5> DEFINE y == Changed(r, t, x)
        <5>1. y \in Hub /\ y.key = x.key
          <6>1. t \in HomeTransforms /\ req[r].count \in Nat
            BY <1>0, <1>1, <2>1, <2>2, HomeWork, TailFacts DEF Restricting
          <6> QED
            BY <2>3, <3>1, <6>1, ChangedHub, ChangedKey
        <5> HIDE DEF y
        <5>2. MayShow(r, y)
          BY <3>1, <5>1 DEF MayShow
        <5>3. done = Append(kept[r], y)
          BY <4>2 DEF y
        <5> QED
          BY <2>2, <3>1, <5>1, <5>2, <5>3, AppendRows
      <4> QED
        BY <4>1, <4>2
    <3> HIDE DEF done
    <3>3. AllMayShow(r, left'[r]) /\ AllMayShow(r, kept'[r])
      BY <1>2, <3>1, <3>2
    <3>4. AllMayShow(r, left[r])' /\ AllMayShow(r, kept[r])'
      BY <1>3, <3>3
    <3> QED
      BY <1>2, <2>6, <3>4 DEF HasBeenRestricted
  <2> QED
    BY <1>0, <2>1, <2>4, <2>5, <2>6 DEF SharingInv
<1> QED
  BY <1>1, <1>2, <1>4, StepShares

LEMMA FinishShares ==
    ASSUME SharedInv, NEW r \in Requests, FinishTransform(r)
    PROVE  SharingInv(r)'
<1>0. SlotTypes /\ SharingInv(r) /\ TypeInv
  BY DEF SharedInv, TypeInv
<1>1. /\ todo[r] # <<>> /\ left[r] = <<>> /\ Answered(r)
      /\ UNCHANGED <<world, req, at, failed>>
      /\ todo' = [todo EXCEPT ![r] = Tail(todo[r])]
      /\ left' = [left EXCEPT ![r] = kept[r]]
      /\ kept' = [kept EXCEPT ![r] = <<>>]
  BY DEF FinishTransform, Busy
<1>2. /\ config' = config /\ everShared' = everShared /\ req'[r] = req[r]
      /\ todo'[r] = Tail(todo[r]) /\ kept'[r] = <<>> /\ left'[r] = kept[r] /\ at'[r] # "change"
  BY <1>0, <1>1 DEF SlotTypes, IsFunction, world, SharingInv
<1>3. /\ \A s : AllMayShow(r, s) => AllMayShow(r, s)'
      /\ \A s : OfPlex(r, s) => OfPlex(r, s)'
  BY <1>2, MayShowLasts
<1>4. ASSUME Restricting(r)'
      PROVE  Unrestricted(r)' \/ BeingRestricted(r)' \/ HasBeenRestricted(r)'
  <2>1. Restricting(r)
    BY <1>1, <1>2, <1>4 DEF Restricting
  <2>2. AllMayShow(r, kept[r])'
    <3>1. AllMayShow(r, kept'[r])
      BY <1>2, NoRows
    <3> QED
      BY <1>3, <3>1
  <2>3. OfPlex(r, kept[r]) => OfPlex(r, left[r])'
    <3>1. OfPlex(r, kept[r]) => OfPlex(r, left'[r])
      BY <1>2
    <3> QED
      BY <1>3, <3>1
  <2>4. AllMayShow(r, kept[r]) => AllMayShow(r, left[r])'
    <3>1. AllMayShow(r, kept[r]) => AllMayShow(r, left'[r])
      BY <1>2
    <3> QED
      BY <1>3, <3>1
  <2>5. CASE Unrestricted(r)
    <3>1. OfPlex(r, left[r])' /\ AllMayShow(r, kept[r])'
      BY <2>2, <2>5, <2>3 DEF Unrestricted
    <3>2. todo'[r] = Tail(HomeChain(FALSE))
      BY <1>2, <2>5 DEF Unrestricted
    <3> QED
      BY <1>2, <3>1, <3>2 DEF BeingRestricted, HomeChain
  <2>6. CASE BeingRestricted(r)
    <3>1. AllMayShow(r, left[r])' /\ AllMayShow(r, kept[r])'
      BY <2>2, <2>6, <2>4 DEF BeingRestricted
    <3>2. todo'[r] \in Seq(AfterRestriction)
      BY <1>2, <2>6, HomeChainFacts DEF BeingRestricted
    <3> QED
      BY <3>1, <3>2 DEF HasBeenRestricted, AfterRestriction
  <2>7. CASE HasBeenRestricted(r)
    <3>1. AllMayShow(r, left[r])' /\ AllMayShow(r, kept[r])'
      BY <2>2, <2>7, <2>4 DEF HasBeenRestricted
    <3>2. todo'[r] \in Seq(AfterRestriction)
      BY <1>1, <1>2, <2>7, Stages
    <3> QED
      BY <3>1, <3>2 DEF HasBeenRestricted, AfterRestriction
  <2> QED
    BY <1>0, <2>1, <2>5, <2>6, <2>7 DEF SharingInv
<1> QED
  BY <1>1, <1>2, <1>4, StepShares

LEMMA MixShares ==
    ASSUME SharedInv, NEW r \in Requests, MixCollection(r)
    PROVE  SharingInv(r)'
<1>0. SlotTypes /\ WorkTypes(r)
  BY DEF SharedInv, TypeInv
<1>1. /\ Head(todo[r]) = "library" /\ todo[r] # <<>> /\ Answered(r) /\ UNCHANGED <<world, req>>
      /\ at' = [at EXCEPT ![r] = "filter"]
  BY DEF MixCollection, Busy
<1>2. req[r].kind = "children"
  BY <1>0, <1>1, WorkFacts DEF Children
<1>3. at'[r] = "filter" /\ ~Restricting(r)'
  BY <1>0, <1>1, <1>2 DEF SlotTypes, Restricting
<1> QED
  BY <1>1, <1>3, StepShares

LEMMA LookShares ==
    ASSUME SharedInv, NEW r \in Requests, Look(r)
    PROVE  SharingInv(r)'
<1>0. SlotTypes /\ SharingInv(r) /\ ListsInv /\ req[r].account \in Accounts
  BY DEF SharedInv, TypeInv, SlotTypes, Request
<1>1. UNCHANGED <<world, req, todo, left, kept, at>>
  BY DEF Look
<1>2. config' = config /\ everShared' = everShared /\ req'[r] = req[r]
  BY <1>1 DEF world
<1>3. Wanted(r)' = Wanted(r)
  BY <1>1, <1>2, SameWanted
<1>4. /\ \A x : MayShow(r, x) => MayShow(r, x)'
      /\ \A s : AllMayShow(r, s) => AllMayShow(r, s)'
      /\ \A s : OfPlex(r, s) => OfPlex(r, s)'
  BY <1>2, MayShowLasts
<1>5. Restricting(r)' => Restricting(r)
  <2>1. failed' = failed \/ failed' = [failed EXCEPT ![r] = TRUE]
    BY DEF Look
  <2> QED
    BY <1>0, <1>2, <2>1 DEF Restricting, SlotTypes
<1>6. Unrestricted(r) => Unrestricted(r)'
  BY <1>1, <1>4 DEF Unrestricted, HomeChain
<1>7. BeingRestricted(r) => BeingRestricted(r)'
  BY <1>1, <1>4 DEF BeingRestricted, HomeChain
<1>8. HasBeenRestricted(r) => HasBeenRestricted(r)'
  BY <1>1, <1>4 DEF HasBeenRestricted, AfterRestriction
<1>9. ASSUME Wanted(r) = List, seen'[r] \notin {NotYet, Failed}
      PROVE  seen'[r].value \subseteq everShared[req[r].account]
  <2> DEFINE a == req[r].account
             had == meta[a][List]
  <2>1. \/ had # Nothing /\ seen' = [seen EXCEPT ![r] = [value |-> had, fresh |-> FALSE]]
        \/ seen' = [seen EXCEPT ![r] = [value |-> shared[a], fresh |-> TRUE]]
        \/ seen' = [seen EXCEPT ![r] = Failed]
    BY <1>9 DEF Look, ScopeOf, AtPlex
  <2>2. (had = Nothing \/ had \subseteq everShared[a]) /\ shared[a] \subseteq everShared[a]
    BY <1>0 DEF ListsInv
  <2> HIDE DEF had, a
  <2>3. \/ had # Nothing /\ seen'[r].value = had
        \/ seen'[r].value = shared[a]
        \/ seen'[r] = Failed
    BY <1>0, <2>1 DEF SlotTypes
  <2> QED
    BY <1>9, <2>2, <2>3 DEF a
<1> QED
  BY <1>0, <1>1, <1>2, <1>3, <1>5, <1>6, <1>7, <1>8, <1>9 DEF SharingInv

-----------------------------------------------------------------------------
(***************************************************************************)
(* Requests that begin keep it, and so does everything else.               *)
(***************************************************************************)
\* A request begins: of a home screen, with the rows of Plex.
LEMMA BeginShares ==
    ASSUME SharedInv, NEW r \in Requests, todo[r] = <<>>, NEW request, NEW chain, NEW children,
           Begin(r, request, chain, children),
           \/ request.kind # "home"
           \/ /\ request.kind = "home" /\ request.raw = HomeRows[request.account]
              /\ children = request.raw
              /\ ~request.skips => chain = HomeChain(FALSE)
    PROVE  SharingInv(r)' /\ ListsInv'
<1>0. SlotTypes /\ LookupTypes(r) /\ ListsInv
  BY DEF SharedInv, TypeInv
<1>1. /\ UNCHANGED world /\ UNCHANGED meta /\ UNCHANGED seen
      /\ req' = [req EXCEPT ![r] = request] /\ todo' = [todo EXCEPT ![r] = chain]
      /\ left' = [left EXCEPT ![r] = children] /\ kept' = [kept EXCEPT ![r] = <<>>]
      /\ at' = [at EXCEPT ![r] = "filter"]
  BY DEF Begin
<1>2. /\ req'[r] = request /\ todo'[r] = chain /\ left'[r] = children /\ kept'[r] = <<>>
      /\ at'[r] = "filter"
  BY <1>0, <1>1 DEF SlotTypes, IsFunction
<1>3. seen'[r] = NotYet
  BY <1>0, <1>1 DEF LookupTypes, Wanted
<1>4. Restricting(r)' => Unrestricted(r)'
  <2>1. SUFFICES ASSUME Restricting(r)' PROVE Unrestricted(r)'
    OBVIOUS
  <2>2. todo'[r] = HomeChain(FALSE) /\ left'[r] = req'[r].raw
    BY <1>2, <2>1 DEF Restricting
  <2>3. OfPlex(r, left[r])' /\ OfPlex(r, kept[r])'
    BY <1>2, <2>2 DEF OfPlex
  <2> QED
    BY <2>2, <2>3 DEF Unrestricted, HomeChain
<1>5. ListsInv'
  BY <1>0, <1>1 DEF ListsInv, world
<1> QED
  BY <1>2, <1>3, <1>4, <1>5 DEF SharingInv

LEMMA AskShares ==
    ASSUME SharedInv, NEW r \in Requests, AskHome(r) \/ AskPage(r) \/ Refresh(r)
    PROVE  SharingInv(r)' /\ ListsInv'
<1>1. CASE AskHome(r)
  <2>1. PICK c \in Clients :
            Begin(r, HomeOf(NoRequest, c, HomeRows[c.account]), HomeChain(c.skips),
                  HomeRows[c.account])
    BY <1>1 DEF AskHome, HomeOf
  <2>2. c \in Client /\ HomeRows[c.account] \in Seq(Hub) /\ c.skips \in BOOLEAN
    BY WorldAssumption DEF Client
  <2> DEFINE request == HomeOf(NoRequest, c, HomeRows[c.account])
  <2>3. /\ request.kind = "home" /\ request.account = c.account /\ request.skips = c.skips
        /\ request.raw = HomeRows[c.account]
    BY <2>2, BlankType, HomeRecord
  <2>4. todo[r] = <<>> /\ Begin(r, request, HomeChain(c.skips), HomeRows[c.account])
    BY <1>1, <2>1 DEF AskHome, Idle
  <2> HIDE DEF request
  <2>5. ~request.skips => HomeChain(c.skips) = HomeChain(FALSE)
    BY <2>2, <2>3
  <2> QED
    BY <2>3, <2>4, <2>5, BeginShares
<1>2. CASE AskPage(r)
  <2>1. PICK a \in Accounts, page \in Pages :
            Begin(r, PageOn(NoRequest, a, RawItems(page)), PolicyChain, RawItems(page))
    BY <1>2 DEF AskPage, PageOn
  <2>2. RawItems(page) \in Seq(Item)
    BY RawPage
  <2> DEFINE request == PageOn(NoRequest, a, RawItems(page))
  <2>3. request.kind = "page"
    BY <2>2, BlankType, PageRecord
  <2>4. todo[r] = <<>> /\ Begin(r, request, PolicyChain, RawItems(page))
    BY <1>2, <2>1 DEF AskPage, Idle
  <2> HIDE DEF request
  <2> QED
    BY <2>3, <2>4, BeginShares
<1>3. CASE Refresh(r)
  <2>1. todo[r] = <<>> /\ req[r] \in Request
    BY <1>3 DEF Refresh, Idle, SharedInv, TypeInv, SlotTypes
  <2>2. PICK row \in {left[r][n] : n \in 1..Len(left[r])} : AskChildren(r, row) \/ AskDefault(r, row)
    BY <1>3 DEF Refresh
  <2>3. CASE AskChildren(r, row)
    <3>1. PICK start \in Starts :
              Begin(r, ChildrenOf(req[r], row.key, start, row.items), ChildrenChain, Stub(row.key))
      BY <2>3 DEF AskChildren, ChildrenOf
    <3> DEFINE request == ChildrenOf(req[r], row.key, start, row.items)
    <3>2. request.kind = "children"
      BY <2>1 DEF Request, ChildrenOf
    <3>3. Begin(r, request, ChildrenChain, Stub(row.key))
      BY <3>1
    <3> HIDE DEF request
    <3> QED
      BY <2>1, <3>2, <3>3, BeginShares
  <2>4. CASE AskDefault(r, row)
    <3>1. PICK raw \in {req[r].raw[k] : k \in 1..Len(req[r].raw)} :
              Begin(r, DefaultOf(req[r], row.items), DefaultChain, raw.items)
      BY <2>4 DEF AskDefault, DefaultOf
    <3> DEFINE request == DefaultOf(req[r], row.items)
    <3>2. request.kind = "default"
      BY <2>1 DEF Request, DefaultOf
    <3>3. Begin(r, request, DefaultChain, raw.items)
      BY <3>1
    <3> HIDE DEF request
    <3> QED
      BY <2>1, <3>2, <3>3, BeginShares
  <2> QED
    BY <2>2, <2>3, <2>4
<1> QED
  BY <1>1, <1>2, <1>3

\* A step of one request leaves the others alone.
LEMMA OthersStay ==
    ASSUME TypeInv, NEW r \in Requests, RequestStep(r), NEW q \in Requests \ {r}
    PROVE  /\ req'[q] = req[q] /\ todo'[q] = todo[q] /\ left'[q] = left[q] /\ kept'[q] = kept[q]
           /\ at'[q] = at[q] /\ seen'[q] = seen[q] /\ failed'[q] = failed[q]
           /\ config' = config /\ everShared' = everShared
<1>0. SlotTypes /\ Shape
  <2>1. SlotTypes /\ WorldTypes
    BY DEF TypeInv
  <2>2. ASSUME NEW x \in Request
        PROVE  RequestLike(x)
    <3> DEFINE hubs == Seq(Hub)
               items == Seq(Item)
               names == Seq(Collections)
    <3>1. x \in Slots(hubs, items, names)
      BY RequestSlots
    <3> HIDE DEF hubs, items, names
    <3> QED
      BY <3>1 DEF Slots, RequestLike, RequestFields
  <2>3. \A p \in Requests : RequestLike(req[p])
    BY <2>1, <2>2 DEF SlotTypes
  <2> QED
    BY <2>1, <2>3 DEF SlotTypes, WorldTypes, Shape, IsFunction
<1>1. /\ req'[q] = req[q] /\ todo'[q] = todo[q] /\ left'[q] = left[q] /\ kept'[q] = kept[q]
      /\ at'[q] = at[q]
  BY <1>0, RequestShape
<1>2. UNCHANGED world
  <2>1. ASSUME NEW request, NEW chain, NEW children, Begin(r, request, chain, children)
        PROVE  UNCHANGED world
    BY <2>1 DEF Begin
  <2>2. AskHome(r) \/ AskPage(r) \/ Refresh(r) => UNCHANGED world
    BY <2>1 DEF AskHome, AskPage, Refresh, AskChildren, AskDefault
  <2> QED
    BY <2>2 DEF RequestStep, Look, FilterChild, ChangeChild, MixCollection, FinishTransform
<1>3. seen' = seen \/ (\E v : seen' = [seen EXCEPT ![r] = v])
  <2>1. ASSUME NEW request, NEW chain, NEW children, Begin(r, request, chain, children)
        PROVE  seen' = seen
    BY <2>1 DEF Begin
  <2>2. AskHome(r) \/ AskPage(r) \/ Refresh(r) => seen' = seen
    BY <2>1 DEF AskHome, AskPage, Refresh, AskChildren, AskDefault
  <2>3. Answered(r) => \E v : seen' = [seen EXCEPT ![r] = v]
    BY Zenon DEF Answered
  <2>4. Look(r) => \E v : seen' = [seen EXCEPT ![r] = v]
    BY Zenon DEF Look
  <2> QED
    BY <2>2, <2>3, <2>4 DEF RequestStep, FilterChild, ChangeChild, MixCollection, FinishTransform
<1>4. failed' = failed \/ (\E v : failed' = [failed EXCEPT ![r] = v])
  <2>1. Identify(r) => \E v : failed' = [failed EXCEPT ![r] = v]
    BY Zenon DEF Identify
  <2>2. Look(r) => failed' = failed \/ \E v : failed' = [failed EXCEPT ![r] = v]
    BY Zenon DEF Look
  <2>3. MixCollection(r) => failed' = failed \/ \E v : failed' = [failed EXCEPT ![r] = v]
    BY Zenon DEF MixCollection
  <2> QED
    BY <2>1, <2>2, <2>3
    DEF RequestStep, AskHome, AskPage, Refresh, FilterChild, ChangeChild, FinishTransform
<1> QED
  BY <1>0, <1>1, <1>2, <1>3, <1>4 DEF SlotTypes, world

LEMMA RequestStepShares ==
    ASSUME SharedInv, NEW r \in Requests, RequestStep(r)
    PROVE  SharedInv'
<1>0. TypeInv /\ SlotTypes /\ TypeInv' /\ ListsInv
  BY RequestStepTypes DEF SharedInv, TypeInv
<1>1. SharingInv(r)' /\ ListsInv'
  <2>1. CASE AskHome(r) \/ AskPage(r) \/ Refresh(r)
    BY <2>1, AskShares
  <2>2. CASE Look(r)
    <3>1. ListsInv'
      BY <1>0, <2>2 DEF Look, ListsInv, world
    <3> QED
      BY <2>2, <3>1, LookShares
  <2>3. CASE FilterChild(r)
    BY <2>3, FilterShares, AnsweredLists DEF FilterChild
  <2>4. CASE ChangeChild(r)
    BY <2>4, ChangeShares, AnsweredLists DEF ChangeChild
  <2>5. CASE MixCollection(r)
    BY <2>5, MixShares, AnsweredLists DEF MixCollection
  <2>6. CASE FinishTransform(r)
    BY <2>6, FinishShares, AnsweredLists DEF FinishTransform
  <2> QED
    BY <2>1, <2>2, <2>3, <2>4, <2>5, <2>6 DEF RequestStep
<1>2. ASSUME NEW q \in Requests \ {r}
      PROVE  SharingInv(q)'
  <2>1. /\ req'[q] = req[q] /\ todo'[q] = todo[q] /\ left'[q] = left[q] /\ kept'[q] = kept[q]
        /\ at'[q] = at[q] /\ seen'[q] = seen[q] /\ failed'[q] = failed[q]
        /\ config' = config /\ everShared' = everShared
    BY <1>0, OthersStay
  <2> QED
    BY <1>2, <2>1, SharingLasts DEF SharedInv
<1> QED
  BY <1>0, <1>1, <1>2 DEF SharedInv

LEMMA ElsewhereShares ==
    ASSUME SharedInv, TypeInv', Unnoticed, config' = config, ListsInv',
           \A a \in Accounts : everShared[a] \subseteq everShared'[a]
    PROVE  SharedInv'
<1>1. ASSUME NEW r \in Requests
      PROVE  SharingInv(r)'
  <2>1. req[r].account \in Accounts /\ SharingInv(r)
    BY DEF SharedInv, TypeInv, SlotTypes, Request
  <2> QED
    BY <2>1, SharingLasts DEF Unnoticed
<1> QED
  BY <1>1 DEF SharedInv

LEMMA NextShares == SharedInv /\ [Next]_vars => SharedInv'
<1> SUFFICES ASSUME SharedInv, [Next]_vars PROVE SharedInv'
  OBVIOUS
<1>0. TypeInv /\ TypeInv' /\ ListsInv /\ WorldTypes /\ MetaTypes
  BY NextTypes DEF SharedInv, TypeInv
<1>1. ASSUME NEW r \in Requests, RequestStep(r)
      PROVE  SharedInv'
  BY <1>1, RequestStepShares
<1>2. ASSUME Unnoticed, UNCHANGED <<config, shared, everShared, meta>>
      PROVE  SharedInv'
  BY <1>0, <1>2, ElsewhereShares DEF ListsInv
<1>3. ASSUME NEW c \in Collections, Relabel(c)
      PROVE  SharedInv'
  BY <1>2, <1>3 DEF Relabel
<1>4. ASSUME NEW c \in Collections, NEW a \in Accounts, Share(a, c)
      PROVE  SharedInv'
  <2>1. /\ Unnoticed /\ UNCHANGED <<config, meta>>
        /\ everShared' = [everShared EXCEPT ![a] = @ \cup shared'[a]]
        /\ \A b \in Accounts \ {a} : shared'[b] = shared[b]
    BY <1>0, <1>4 DEF Share, WorldTypes
  <2>2. \A b \in Accounts : everShared[b] \subseteq everShared'[b] /\ shared'[b] \subseteq everShared'[b]
    BY <1>0, <2>1 DEF WorldTypes, ListsInv
  <2>3. ListsInv'
    BY <1>0, <2>1, <2>2 DEF ListsInv
  <2> QED
    BY <1>0, <2>1, <2>2, <2>3, ElsewhereShares
<1>5. CASE Reload
  BY <1>2, <1>5 DEF Reload
<1>6. ASSUME NEW a \in Accounts, NEW name \in Names, Forget(a, name)
      PROVE  SharedInv'
  <2>1. /\ Unnoticed /\ UNCHANGED <<config, shared, everShared>>
        /\ meta' = [meta EXCEPT ![a][name] = Nothing]
    BY <1>6 DEF Forget
  <2>2. \A b \in Accounts : meta'[b][List] \in {meta[b][List], Nothing}
    BY <1>0, <2>1 DEF MetaTypes, Names
  <2>3. ListsInv'
    BY <1>0, <2>1, <2>2 DEF ListsInv
  <2> QED
    BY <1>0, <2>1, <2>3, ElsewhereShares
<1>7. CASE UNCHANGED vars
  BY <1>2, <1>7 DEF vars, world, slots, Unnoticed
<1> QED
  BY <1>1, <1>3, <1>4, <1>5, <1>6, <1>7 DEF Next

LEMMA InitShares == Init => SharedInv
<1> SUFFICES ASSUME Init PROVE SharedInv
  OBVIOUS
<1>1. TypeInv
  BY InitTypes
<1>2. ListsInv
  BY <1>1 DEF Init, ListsInv, Names
<1>3. ASSUME NEW r \in Requests
      PROVE  SharingInv(r)
  BY BlankType DEF Init, SharingInv, Restricting
<1> QED
  BY <1>1, <1>2, <1>3 DEF SharedInv

LEMMA SharingHolds == Spec => []SharedInv
BY InitShares, NextShares, PTL DEF Spec

\* With hub_restrictions every row of a home screen, merged or not, stands for
\* collections Plex has listed for that very account.
THEOREM SharedCorrect == Spec => []RowsAreShared
<1>1. SharedInv => RowsAreShared
  <2> SUFFICES ASSUME SharedInv, NEW r \in Requests, Restricted(r), NEW x \in ElementsOf(left[r]),
                      x.key # NoKey, NEW c \in ElementsOf(x.key)
               PROVE  \/ c \in everShared[req[r].account]
                      \/ \E raw \in ElementsOf(req[r].raw) : raw.of = c /\ raw.malformed
    BY DEF RowsAreShared
  <2>1. todo[r] = <<>> /\ Restricting(r) /\ SharingInv(r)
    BY DEF Restricted, Done, Idle, Restricting, SharedInv
  <2>2. AllMayShow(r, left[r])
    BY <2>1, HomeChainFacts DEF SharingInv, Unrestricted, BeingRestricted, HasBeenRestricted
  <2>3. x.key \in Seq(Listed(r))
    BY <2>2 DEF AllMayShow, MayShow, ElementsOf
  <2>4. c \in Listed(r)
    BY <2>3, ElementOfSeq DEF ElementsOf
  <2> QED
    BY <2>4 DEF Listed, ElementsOf
<1> QED
  BY <1>1, SharingHolds, PTL

-----------------------------------------------------------------------------
(***************************************************************************)
(* Sequences by kinds of members: some member, every member, and the first *)
(* member of M, if there is one, is in F.                                  *)
(***************************************************************************)
Some(s, S) == \E n \in 1..Len(s) : s[n] \in S

Each(s, S) == \A n \in 1..Len(s) : s[n] \in S

Leads(s, M, F) ==
    \A n \in 1..Len(s) : s[n] \in M /\ (\A k \in 1..(n - 1) : s[k] \notin M) => s[n] \in F

(***************************************************************************)
(* Kinds of rows, under the terms a home screen is made on: who asks, what *)
(* Plex lists for the account, the labels, and the settings.               *)
(***************************************************************************)
Terms(r) == [who |-> snap[r], lists |-> shared[req[r].account], labels |-> labels,
             restricts |-> config.hubRestrictions, excludes |-> config.excludeWatched]

\* What watched filtering leaves of a row.
Offered(c, x) ==
    IF c.excludes \/ (x.of # BuiltIn /\ ~x.malformed /\ "watched" \in c.labels[x.of])
    THEN {e \in ElementsOf(x.items) : ~IsWatched(e)} ELSE ElementsOf(x.items)

VisibleRows(c) == {x \in Hub : VisibilityKeeps(c.who, x)}

SharedRows(c) ==
    {x \in Hub : c.restricts /\ x.of # BuiltIn => x.size > 0 /\ (~x.malformed => x.of \in c.lists)}

RowsTitled(t) == {x \in Hub : x.title = t}

\* The rows of a title that are merged in the end.
Mine(c, t) == {x \in RowsTitled(t) : x.size > 0 /\ x \in VisibleRows(c) /\ x \in SharedRows(c)}

FullRows(c) == {x \in Hub : Offered(c, x) # {}}

Offering(c, t, i) == {x \in Mine(c, t) : \E e \in Offered(c, x) : e.id = i}

\* Rows that watched filtering is done with, and what rows show from then on.
Trimmed(c) == {x \in Hub : ElementsOf(x.items) = Offered(c, x)}

FilledRows == {x \in Hub : x.items # <<>>}

Showing(t, i) == {x \in RowsTitled(t) : \E e \in ElementsOf(x.items) : e.id = i}

\* Rows that the client does not drop, and rows of the title that are not cut.
Lasting(q) == {x \in Hub : ~(q.noContinue /\ x.continues)}

LastingFor(q, t) == {x \in Hub : x.title = t => x \in Lasting(q)}

ShortFor(q, t) == {x \in Hub : x.title = t => Len(x.items) < q.count}

\* Rows with title and Continue Watching of a row of Plex.
Rooted(q) ==
    {x \in Hub : \E m \in 1..Len(q.raw) : q.raw[m].title = x.title /\ q.raw[m].continues = x.continues}

-----------------------------------------------------------------------------
(***************************************************************************)
(* How far a home screen has come: `stage` is the transform at work, `a`   *)
(* what it does next, `xs` and `ys` the rows before and behind it, `q` the *)
(* request.                                                                *)
(***************************************************************************)
HomeRests ==
    {<<"visibility", "restriction", "style", "watched", "interleave", "userState", "key", "shape">>,
     <<"restriction", "style", "watched", "interleave", "userState", "key", "shape">>,
     <<"style", "watched", "interleave", "userState", "key", "shape">>,
     <<"watched", "interleave", "userState", "key", "shape">>,
     <<"interleave", "userState", "key", "shape">>,
     <<"userState", "key", "shape">>, <<"key", "shape">>, <<"shape">>, <<>>}

StageOf(chain) == IF chain = <<>> THEN "done" ELSE Head(chain)

Sifting == {"visibility", "restriction", "style", "watched"}

\* Rows behind the transform t are in S, until rows are merged.
Behind(stage, a, xs, ys, t, later, S) ==
    /\ stage = t => Each(ys, S) /\ (a = "change" => xs[1] \in S)
    /\ stage \in later => Each(xs, S) /\ (stage # "interleave" => Each(ys, S))

Passed(stage, a, xs, ys, c, q) ==
    /\ Behind(stage, a, xs, ys, "visibility", {"restriction", "style", "watched", "interleave"},
              VisibleRows(c))
    /\ Behind(stage, a, xs, ys, "restriction", {"style", "watched", "interleave"}, SharedRows(c))
    /\ stage = "watched" => Each(ys, Trimmed(c))
    /\ stage = "interleave" => Each(xs, Trimmed(c))
    /\ Behind(stage, a, xs, ys, "shape", {"done"}, Lasting(q))
    /\ Each(xs, Rooted(q)) /\ Each(ys, Rooted(q))
    /\ stage = "done" => ys = <<>>

\* The first row of the title that is merged has items, and has been kept first.
Led(stage, xs, ys, c, t) ==
    /\ stage \in Sifting =>
          Leads(ys, Mine(c, t), FullRows(c)) /\ (~Some(ys, Mine(c, t)) => Leads(xs, Mine(c, t), FullRows(c)))
    /\ stage = "interleave" =>
          /\ Leads(ys, RowsTitled(t), FilledRows)
          /\ ~Some(ys, RowsTitled(t)) => Leads(xs, Mine(c, t), FullRows(c))

\* An item is offered or shown by the rows under that title if, and only if,
\* the rows of Plex offer it.
Undiminished(stage, xs, ys, c, q, t, i) ==
    Some(ys, IF stage \in Sifting THEN Offering(c, t, i) ELSE Showing(t, i))
        \/ Some(xs, IF stage \in Sifting \cup {"interleave"} THEN Offering(c, t, i) ELSE Showing(t, i))
    <=> Some(q.raw, Offering(c, t, i))

\* From the last transform on some titles are left out.
Uncut(stage, xs, ys, q, t) ==
    /\ stage \in {"shape", "done"} => Each(q.raw, LastingFor(q, t))
    /\ stage = "shape" => Each(ys, ShortFor(q, t))
    /\ stage = "done" => Each(xs, ShortFor(q, t))

Gathered(stage, xs, ys, c, q) ==
    \A t \in Titles : Leads(q.raw, Mine(c, t), FullRows(c)) =>
        /\ Led(stage, xs, ys, c, t)
        /\ Uncut(stage, xs, ys, q, t) => \A i \in Items : Undiminished(stage, xs, ys, c, q, t, i)

Progress(stage, a, xs, ys, c, q) ==
    Passed(stage, a, xs, ys, c, q) /\ Gathered(stage, xs, ys, c, q)

Completing(r) ==
    req[r].kind = "home" /\ ~req[r].skips /\ ~failed[r] /\ changes = 0 /\ config.interleave

ProgressInv(r) ==
    Completing(r) =>
        /\ todo[r] \in HomeRests
        /\ Progress(StageOf(todo[r]), at[r], left[r], kept[r], Terms(r), req[r])

\* While nothing changes at Plex, what was looked up is what is there.
Current(r) ==
    changes = 0 /\ seen[r] \notin {NotYet, Failed} => seen[r].value = AtPlex(req[r].account, Wanted(r))

MetaCurrent ==
    changes = 0 => \A a \in Accounts, name \in Names : meta[a][name] \in {Nothing, AtPlex(a, name)}

CompleteInv == SharedInv /\ MetaCurrent /\ \A r \in Requests : Current(r) /\ ProgressInv(r)

-----------------------------------------------------------------------------
\* What appending a row does to the kinds of a sequence, and what taking the
\* first one off does.
LEMMA EmptyKinds == \A S, M, F : ~Some(<<>>, S) /\ Each(<<>>, S) /\ Leads(<<>>, M, F)
BY DEF Some, Each, Leads

LEMMA AppendKinds ==
    ASSUME NEW T, NEW s \in Seq(T), NEW x \in T
    PROVE  \A S, M, F :
              /\ Some(Append(s, x), S) <=> Some(s, S) \/ x \in S
              /\ Each(Append(s, x), S) <=> Each(s, S) /\ x \in S
              /\ Leads(s, M, F) /\ (~Some(s, M) /\ x \in M => x \in F) => Leads(Append(s, x), M, F)
<1>1. Len(Append(s, x)) = Len(s) + 1 /\ Append(s, x)[Len(s) + 1] = x
      /\ (\A n \in 1..Len(s) : Append(s, x)[n] = s[n]) /\ Len(s) \in Nat
  BY AppendFacts, LenProperties
<1> DEFINE u == Append(s, x)
           l == Len(s)
<1>2. /\ \A n \in 1..l : n \in 1..Len(u) /\ u[n] = s[n]
      /\ l + 1 \in 1..Len(u) /\ u[l + 1] = x
      /\ \A n \in 1..Len(u) : n \in 1..l \/ n = l + 1
  BY <1>1
<1>3. \A n \in 1..l : \A k \in 1..(n - 1) : k \in 1..l
  BY <1>1
<1>4. l \in Nat
  BY <1>1
<1> HIDE DEF u, l
<1> SUFFICES ASSUME NEW S, NEW M, NEW F
             PROVE  /\ Some(u, S) <=> Some(s, S) \/ x \in S
                    /\ Each(u, S) <=> Each(s, S) /\ x \in S
                    /\ Leads(s, M, F) /\ (~Some(s, M) /\ x \in M => x \in F) => Leads(u, M, F)
  BY DEF u
<1>5. Some(u, S) <=> Some(s, S) \/ x \in S
  BY <1>2 DEF Some, l
<1>6. Each(u, S) <=> Each(s, S) /\ x \in S
  BY <1>2 DEF Each, l
<1>7. ASSUME Leads(s, M, F), ~Some(s, M) /\ x \in M => x \in F,
             NEW n \in 1..Len(u), u[n] \in M, \A k \in 1..(n - 1) : u[k] \notin M
      PROVE  u[n] \in F
  <2>1. CASE n \in 1..l
    <3>1. \A k \in 1..(n - 1) : s[k] \notin M
      BY <1>2, <1>3, <1>7, <2>1
    <3> QED
      BY <1>2, <1>7, <2>1, <3>1 DEF Leads, l
  <2>2. CASE n = l + 1
    <3>0. ASSUME NEW k \in 1..l PROVE u[k] \notin M
      <4>1. k \in 1..(n - 1)
        BY <1>4, <2>2
      <4> QED
        BY <1>7, <4>1
    <3>1. \A k \in 1..l : s[k] \notin M
      BY <1>2, <3>0
    <3>2. ~Some(s, M)
      BY <3>1 DEF Some, l
    <3> QED
      BY <1>2, <1>7, <2>2, <3>2
  <2> QED
    BY <1>2, <2>1, <2>2
<1> QED
  BY <1>5, <1>6, <1>7 DEF Leads

LEMMA TailKinds ==
    ASSUME NEW T, NEW s \in Seq(T), s # <<>>
    PROVE  /\ Tail(s) \in Seq(T) /\ s[1] \in T /\ Head(s) = s[1]
           /\ \A S, M, F :
                /\ Some(s, S) <=> s[1] \in S \/ Some(Tail(s), S)
                /\ Each(s, S) => s[1] \in S /\ Each(Tail(s), S)
                /\ Leads(s, M, F) => /\ s[1] \in M => s[1] \in F
                                     /\ s[1] \notin M => Leads(Tail(s), M, F)
<1>1. /\ Len(Tail(s)) = Len(s) - 1 /\ Len(s) \in Nat /\ Len(s) > 0
      /\ \A n \in 1..Len(Tail(s)) : Tail(s)[n] = s[n + 1]
      /\ Tail(s) \in Seq(T) /\ s[1] \in T /\ Head(s) = s[1]
  BY TailFacts
<1> DEFINE u == Tail(s)
           l == Len(u)
<1>2. /\ 1 \in 1..Len(s) /\ \A n \in 1..l : n + 1 \in 1..Len(s) /\ u[n] = s[n + 1]
      /\ \A n \in 1..Len(s) : n = 1 \/ (n - 1 \in 1..l /\ u[n - 1] = s[n])
  BY <1>1
<1>3. \A n \in 1..l : \A k \in 1..n : k = 1 \/ k - 1 \in 1..(n - 1)
  BY <1>1
<1>4. \A n \in 1..l : \A k \in 1..(n - 1) : k \in 1..l
  BY <1>1
<1>5. \A n \in 1..l : n + 1 - 1 = n
  BY <1>1
<1> HIDE DEF u, l
<1> SUFFICES ASSUME NEW S, NEW M, NEW F
             PROVE  /\ Some(s, S) <=> s[1] \in S \/ Some(u, S)
                    /\ Each(s, S) => s[1] \in S /\ Each(u, S)
                    /\ Leads(s, M, F) => /\ s[1] \in M => s[1] \in F
                                         /\ s[1] \notin M => Leads(u, M, F)
  BY <1>1 DEF u
<1>6. Some(s, S) <=> s[1] \in S \/ Some(u, S)
  BY <1>2 DEF Some, l
<1>7. Each(s, S) => s[1] \in S /\ Each(u, S)
  BY <1>2 DEF Each, l
<1>8. ASSUME Leads(s, M, F), s[1] \in M PROVE s[1] \in F
  BY <1>2, <1>8 DEF Leads
<1>9. ASSUME Leads(s, M, F), s[1] \notin M, NEW n \in 1..Len(u), u[n] \in M,
             \A k \in 1..(n - 1) : u[k] \notin M
      PROVE  u[n] \in F
  <2>1. n \in 1..l /\ n + 1 \in 1..Len(s) /\ u[n] = s[n + 1]
    BY <1>2 DEF l
  <2>2. ASSUME NEW k \in 1..n PROVE s[k] \notin M
    <3>1. k = 1 \/ (k - 1 \in 1..(n - 1) /\ u[k - 1] = s[k])
      <4>1. k = 1 \/ k - 1 \in 1..(n - 1)
        BY <1>3, <2>1
      <4>2. k - 1 \in 1..(n - 1) => k - 1 \in 1..l
        BY <1>4, <2>1
      <4>3. k - 1 + 1 = k
        OBVIOUS
      <4> QED
        BY <1>2, <4>1, <4>2, <4>3
    <3> QED
      BY <1>9, <3>1
  <2>3. \A k \in 1..(n + 1 - 1) : s[k] \notin M
    BY <1>5, <2>1, <2>2
  <2> QED
    BY <1>9, <2>1, <2>3 DEF Leads
<1> QED
  BY <1>6, <1>7, <1>8, <1>9 DEF Leads

\* The kinds of rows of a title, one in another.
LEMMA KindsNest ==
    ASSUME NEW c, NEW t, NEW i, NEW x \in Hub
    PROVE  /\ x \in Offering(c, t, i) => x \in Mine(c, t)
           /\ x \in Mine(c, t) => x \in RowsTitled(t) /\ x \in VisibleRows(c) /\ x \in SharedRows(c)
           /\ x \in Showing(t, i) => x \in RowsTitled(t)
           /\ x \in RowsTitled(t) => x.title = t
BY DEF Offering, Mine, RowsTitled, VisibleRows, SharedRows, Showing

\* A home screen begins with the rows of Plex.
LEMMA ProgressBegins ==
    ASSUME NEW c, NEW q, q.raw \in Seq(Hub)
    PROVE  Progress("visibility", "filter", q.raw, <<>>, c, q)
<1>1. Each(q.raw, Rooted(q))
  <2> SUFFICES ASSUME NEW n \in 1..Len(q.raw) PROVE q.raw[n] \in Rooted(q)
    BY DEF Each
  <2>1. q.raw[n] \in Hub
    BY ElementOfSeq
  <2> QED
    BY <2>1 DEF Rooted
<1>2. Passed("visibility", "filter", q.raw, <<>>, c, q)
  BY <1>1, EmptyKinds DEF Passed, Behind
<1>3. Gathered("visibility", q.raw, <<>>, c, q)
  BY EmptyKinds DEF Gathered, Led, Undiminished, Sifting
<1> QED
  BY <1>2, <1>3 DEF Progress

\* A transform keeps the next row.
LEMMA ProgressKeeps ==
    ASSUME NEW stage, NEW xs, NEW ys, NEW c, NEW q, Progress(stage, "filter", xs, ys, c, q),
           stage = "visibility" => xs[1] \in VisibleRows(c),
           stage = "restriction" => xs[1] \in SharedRows(c),
           stage = "shape" => xs[1] \in Lasting(q)
    PROVE  Progress(stage, "change", xs, ys, c, q)
BY DEF Progress, Passed, Behind

\* A transform drops the next row: one that is not merged, or one of a title that
\* the client drops.
LEMMA ProgressDrops ==
    ASSUME NEW stage, NEW xs \in Seq(Hub), NEW ys, NEW c, NEW q, q.raw \in Seq(Hub),
           Progress(stage, "filter", xs, ys, c, q), xs # <<>>,
           \/ stage \in {"visibility", "restriction"} /\ \A t : xs[1] \notin Mine(c, t)
           \/ stage = "shape" /\ xs[1] \notin Lasting(q)
    PROVE  Progress(stage, "filter", Tail(xs), ys, c, q)
<1>0. /\ xs[1] \in Hub
      /\ \A S, M, F :
            /\ Some(xs, S) <=> xs[1] \in S \/ Some(Tail(xs), S)
            /\ Each(xs, S) => xs[1] \in S /\ Each(Tail(xs), S)
            /\ Leads(xs, M, F) => (xs[1] \notin M => Leads(Tail(xs), M, F))
  BY TailKinds
<1> DEFINE x == xs[1]
           us == Tail(xs)
<1>1. Passed(stage, "filter", us, ys, c, q)
  BY <1>0 DEF Progress, Passed, Behind
<1>2. ASSUME NEW t \in Titles, Leads(q.raw, Mine(c, t), FullRows(c))
      PROVE  /\ Led(stage, us, ys, c, t)
             /\ Uncut(stage, us, ys, q, t)
                    => \A i \in Items : Undiminished(stage, us, ys, c, q, t, i)
  <2>1. /\ Led(stage, xs, ys, c, t)
        /\ Uncut(stage, xs, ys, q, t)
               => \A i \in Items : Undiminished(stage, xs, ys, c, q, t, i)
    BY <1>2 DEF Progress, Gathered
  <2>2. Led(stage, us, ys, c, t)
    BY <1>0, <2>1 DEF Led, Sifting
  <2>3. Uncut(stage, us, ys, q, t) <=> Uncut(stage, xs, ys, q, t)
    BY DEF Uncut
  <2>4. ASSUME NEW i \in Items, Uncut(stage, us, ys, q, t), Undiminished(stage, xs, ys, c, q, t, i)
        PROVE  Undiminished(stage, us, ys, c, q, t, i)
    <3>1. CASE stage \in {"visibility", "restriction"}
      <4>1. x \notin Offering(c, t, i)
        BY <1>0, <3>1, KindsNest
      <4>2. Some(xs, Offering(c, t, i)) <=> Some(us, Offering(c, t, i))
        BY <1>0, <4>1
      <4> QED
        BY <2>4, <3>1, <4>2 DEF Undiminished, Sifting
    <3>2. CASE stage = "shape"
      <4>1. Each(q.raw, LastingFor(q, t)) /\ Each(xs, Rooted(q))
        BY <2>4, <3>2 DEF Uncut, Progress, Passed
      <4>2. x \in Rooted(q)
        BY <1>0, <4>1
      <4>3. x.title # t
        <5> SUFFICES ASSUME x.title = t PROVE FALSE
          OBVIOUS
        <5>1. PICK m \in 1..Len(q.raw) : q.raw[m].title = t /\ q.raw[m].continues = x.continues
          BY <4>2 DEF Rooted
        <5>2. q.raw[m] \in LastingFor(q, t)
          BY <4>1 DEF Each
        <5>3. q.raw[m] \in Lasting(q)
          BY <5>1, <5>2 DEF LastingFor
        <5>4. x \in Lasting(q)
          BY <1>0, <5>1, <5>3 DEF Lasting
        <5> QED
          BY <3>2, <5>4
      <4>4. x \notin Showing(t, i)
        BY <1>0, <4>3, KindsNest
      <4>5. Some(xs, Showing(t, i)) <=> Some(us, Showing(t, i))
        BY <1>0, <4>4
      <4> QED
        BY <2>4, <3>2, <4>5 DEF Undiminished, Sifting
    <3> QED
      BY <3>1, <3>2
  <2> QED
    BY <2>1, <2>2, <2>3, <2>4
<1> QED
  BY <1>1, <1>2 DEF Progress, Gathered

\* A transform before merging is done with the next row.
LEMMA ProgressSifts ==
    ASSUME NEW stage \in Sifting, NEW xs \in Seq(Hub), NEW ys \in Seq(Hub), NEW c, NEW q, xs # <<>>,
           Progress(stage, "change", xs, ys, c, q), NEW y \in Hub, y \in Rooted(q),
           \A t : y \in Mine(c, t) <=> xs[1] \in Mine(c, t),
           \A t, i : y \in Offering(c, t, i) <=> xs[1] \in Offering(c, t, i),
           xs[1] \in FullRows(c) => y \in FullRows(c),
           xs[1] \in VisibleRows(c) => y \in VisibleRows(c),
           xs[1] \in SharedRows(c) => y \in SharedRows(c),
           stage = "watched" => y \in Trimmed(c)
    PROVE  Progress(stage, "filter", Tail(xs), Append(ys, y), c, q)
<1> DEFINE x == xs[1]
           us == Tail(xs)
           vs == Append(ys, y)
<1>0. /\ \A S, M, F :
            /\ Some(xs, S) <=> x \in S \/ Some(us, S)
            /\ Each(xs, S) => x \in S /\ Each(us, S)
            /\ Leads(xs, M, F) => /\ x \in M => x \in F
                                  /\ x \notin M => Leads(us, M, F)
      /\ \A S, M, F :
            /\ Some(vs, S) <=> Some(ys, S) \/ y \in S
            /\ Each(vs, S) <=> Each(ys, S) /\ y \in S
            /\ Leads(ys, M, F) /\ (~Some(ys, M) /\ y \in M => y \in F) => Leads(vs, M, F)
  BY TailKinds, AppendKinds
<1> HIDE DEF us, vs
<1>1. Passed(stage, "filter", us, vs, c, q)
  BY <1>0 DEF Progress, Passed, Behind, Sifting
<1>2. ASSUME NEW t \in Titles, Leads(q.raw, Mine(c, t), FullRows(c))
      PROVE  /\ Led(stage, us, vs, c, t)
             /\ \A i \in Items : Undiminished(stage, us, vs, c, q, t, i)
  <2>0. Uncut(stage, xs, ys, q, t)
    BY DEF Uncut, Sifting
  <2>1. /\ Led(stage, xs, ys, c, t)
        /\ \A i \in Items : Undiminished(stage, xs, ys, c, q, t, i)
    BY <1>2, <2>0 DEF Progress, Gathered
  <2>2. Led(stage, us, vs, c, t)
    <3> DEFINE M == Mine(c, t)
               F == FullRows(c)
    <3>1. Leads(ys, M, F) /\ (~Some(ys, M) => Leads(xs, M, F))
      BY <2>1 DEF Led
    <3> HIDE DEF M, F
    <3>2. (y \in M <=> x \in M) /\ (x \in F => y \in F)
      BY DEF M, F
    <3>3. Leads(vs, M, F) /\ (~Some(vs, M) => Leads(us, M, F))
      BY <1>0, <3>1, <3>2
    <3> QED
      BY <3>3 DEF Led, Sifting, M, F
  <2>3. ASSUME NEW i \in Items
        PROVE  Undiminished(stage, us, vs, c, q, t, i)
    <3> DEFINE S == Offering(c, t, i)
    <3>1. Some(ys, S) \/ Some(xs, S) <=> Some(q.raw, S)
      BY <2>1 DEF Undiminished, Sifting
    <3> HIDE DEF S
    <3>2. y \in S <=> x \in S
      BY DEF S
    <3>3. Some(vs, S) \/ Some(us, S) <=> Some(q.raw, S)
      BY <1>0, <3>1, <3>2
    <3> QED
      BY <3>3 DEF Undiminished, Sifting, S
  <2> QED
    BY <2>2, <2>3
<1>3. Progress(stage, "filter", us, vs, c, q)
  BY <1>1, <1>2 DEF Progress, Gathered
<1> QED
  BY <1>3 DEF us, vs

\* Rows are merged one by one.
MergesInto(ys, x, zs) ==
    \A t \in Titles :
        /\ Leads(ys, RowsTitled(t), FilledRows)
        /\ ~Some(ys, RowsTitled(t)) /\ x.size # 0 /\ x.title = t => x \in FilledRows
        => /\ Leads(zs, RowsTitled(t), FilledRows)
           /\ Some(zs, RowsTitled(t)) <=> Some(ys, RowsTitled(t)) \/ (x.size # 0 /\ x.title = t)
           /\ \A i \in Items :
                 Some(zs, Showing(t, i)) <=> Some(ys, Showing(t, i)) \/ (x.size # 0 /\ x \in Showing(t, i))

\* Rows that all are visible, shared and trimmed, when merging begins.
LEMMA ReadyRows ==
    ASSUME NEW c, NEW x \in Hub, x \in VisibleRows(c), x \in SharedRows(c), x \in Trimmed(c)
    PROVE  /\ \A t : x \in Mine(c, t) <=> x.size # 0 /\ x.title = t
           /\ \A t, i : x \in Offering(c, t, i) <=> x.size # 0 /\ x \in Showing(t, i)
           /\ x \in FullRows(c) <=> x \in FilledRows
<1>1. x.size \in Nat /\ x.items \in Seq(Item)
  BY HubFacts
<1>2. \A t : x \in Mine(c, t) <=> x.size # 0 /\ x.title = t
  BY <1>1 DEF Mine, RowsTitled
<1>3. ElementsOf(x.items) = Offered(c, x)
  BY DEF Trimmed
<1>4. x \in FullRows(c) <=> x \in FilledRows
  <2>1. ElementsOf(x.items) = {} <=> x.items = <<>>
    <3>1. x.items # <<>> => 1 \in 1..Len(x.items)
      BY <1>1, TailFacts
    <3>2. x.items = <<>> => 1..Len(x.items) = {}
      OBVIOUS
    <3> QED
      BY <3>1, <3>2 DEF ElementsOf
  <2> QED
    BY <1>3, <2>1 DEF FullRows, FilledRows
<1>5. ASSUME NEW t, NEW i
      PROVE  x \in Offering(c, t, i) <=> x.size # 0 /\ x \in Showing(t, i)
  BY <1>2, <1>3 DEF Offering, Showing, RowsTitled
<1> QED
  BY <1>2, <1>4, <1>5

LEMMA ProgressMerges ==
    ASSUME NEW xs \in Seq(Hub), NEW ys, NEW zs, NEW c, NEW q, xs # <<>>,
           Progress("interleave", "change", xs, ys, c, q), MergesInto(ys, xs[1], zs), Each(zs, Rooted(q))
    PROVE  Progress("interleave", "filter", Tail(xs), zs, c, q)
<1> DEFINE x == xs[1]
           us == Tail(xs)
<1>0. /\ x \in Hub
      /\ \A S, M, F :
            /\ Some(xs, S) <=> x \in S \/ Some(us, S)
            /\ Each(xs, S) => x \in S /\ Each(us, S)
            /\ Leads(xs, M, F) => /\ x \in M => x \in F
                                  /\ x \notin M => Leads(us, M, F)
  BY TailKinds
<1> HIDE DEF us
<1>1. Passed("interleave", "filter", us, zs, c, q)
  BY <1>0 DEF Progress, Passed, Behind
<1>2. x \in VisibleRows(c) /\ x \in SharedRows(c) /\ x \in Trimmed(c)
  BY <1>0 DEF Progress, Passed, Behind
<1>3. ASSUME NEW t \in Titles, Leads(q.raw, Mine(c, t), FullRows(c))
      PROVE  /\ Led("interleave", us, zs, c, t)
             /\ \A i \in Items : Undiminished("interleave", us, zs, c, q, t, i)
  <2> DEFINE M == Mine(c, t)
             F == FullRows(c)
             R == RowsTitled(t)
             O(i) == Offering(c, t, i)
             S(i) == Showing(t, i)
  <2>0. Uncut("interleave", xs, ys, q, t)
    BY DEF Uncut
  <2>1. /\ Led("interleave", xs, ys, c, t)
        /\ \A i \in Items : Undiminished("interleave", xs, ys, c, q, t, i)
    BY <1>3, <2>0 DEF Progress, Gathered
  <2>2. Leads(ys, R, FilledRows) /\ (~Some(ys, R) => Leads(xs, M, F))
    BY <2>1 DEF Led
  <2>3. \A i \in Items : Some(ys, S(i)) \/ Some(xs, O(i)) <=> Some(q.raw, O(i))
    BY <2>1 DEF Undiminished, Sifting
  <2>4. /\ x \in M <=> x.size # 0 /\ x.title = t
        /\ \A i : x \in O(i) <=> x.size # 0 /\ x \in S(i)
        /\ x \in F <=> x \in FilledRows
    BY <1>0, <1>2, ReadyRows
  <2>5. (/\ Leads(ys, R, FilledRows)
         /\ ~Some(ys, R) /\ x.size # 0 /\ x.title = t => x \in FilledRows)
        => /\ Leads(zs, R, FilledRows)
           /\ Some(zs, R) <=> Some(ys, R) \/ (x.size # 0 /\ x.title = t)
           /\ \A i \in Items : Some(zs, S(i)) <=> Some(ys, S(i)) \/ (x.size # 0 /\ x \in S(i))
    BY <1>3 DEF MergesInto
  <2> HIDE DEF M, F, R, O, S
  <2>6. ~Some(ys, R) /\ x.size # 0 /\ x.title = t => x \in FilledRows
    BY <1>0, <2>2, <2>4
  <2>7. /\ Leads(zs, R, FilledRows)
        /\ Some(zs, R) <=> Some(ys, R) \/ (x.size # 0 /\ x.title = t)
        /\ \A i \in Items : Some(zs, S(i)) <=> Some(ys, S(i)) \/ (x.size # 0 /\ x \in S(i))
    BY <2>2, <2>5, <2>6
  <2>8. ~Some(zs, R) => Leads(us, M, F)
    BY <1>0, <2>2, <2>4, <2>7
  <2>9. ASSUME NEW i \in Items
        PROVE  Some(zs, S(i)) \/ Some(us, O(i)) <=> Some(q.raw, O(i))
    BY <1>0, <2>3, <2>4, <2>7
  <2>10. Led("interleave", us, zs, c, t)
    BY <2>7, <2>8 DEF Led, Sifting, M, F, R
  <2> QED
    BY <2>9, <2>10 DEF Undiminished, Sifting, O, S
<1>4. Progress("interleave", "filter", us, zs, c, q)
  BY <1>1, <1>3 DEF Progress, Gathered
<1> QED
  BY <1>4 DEF us

\* A transform after merging is done with the next row.
LEMMA ProgressShows ==
    ASSUME NEW stage \in {"userState", "key", "shape"}, NEW xs \in Seq(Hub), NEW ys \in Seq(Hub),
           NEW c, NEW q, xs # <<>>, Progress(stage, "change", xs, ys, c, q),
           NEW y \in Hub, y \in Rooted(q), xs[1] \in Lasting(q) => y \in Lasting(q),
           \A t, i : (stage = "shape" => y \in ShortFor(q, t))
                         => (y \in Showing(t, i) <=> xs[1] \in Showing(t, i))
    PROVE  Progress(stage, "filter", Tail(xs), Append(ys, y), c, q)
<1> DEFINE x == xs[1]
           us == Tail(xs)
           vs == Append(ys, y)
<1>0. /\ \A S, M, F :
            /\ Some(xs, S) <=> x \in S \/ Some(us, S)
            /\ Each(xs, S) => x \in S /\ Each(us, S)
      /\ \A S, M, F :
            /\ Some(vs, S) <=> Some(ys, S) \/ y \in S
            /\ Each(vs, S) <=> Each(ys, S) /\ y \in S
  BY TailKinds, AppendKinds
<1> HIDE DEF us, vs
<1>1. Passed(stage, "filter", us, vs, c, q)
  BY <1>0 DEF Progress, Passed, Behind
<1>2. ASSUME NEW t \in Titles, Leads(q.raw, Mine(c, t), FullRows(c)), Uncut(stage, us, vs, q, t),
             NEW i \in Items
      PROVE  Undiminished(stage, us, vs, c, q, t, i)
  <2>1. stage = "shape" => y \in ShortFor(q, t) /\ Each(ys, ShortFor(q, t))
    BY <1>0, <1>2 DEF Uncut
  <2>2. Uncut(stage, xs, ys, q, t)
    BY <1>2, <2>1 DEF Uncut
  <2>3. Undiminished(stage, xs, ys, c, q, t, i)
    BY <1>2, <2>2 DEF Progress, Gathered
  <2> DEFINE S == Showing(t, i)
             O == Offering(c, t, i)
  <2>4. Some(ys, S) \/ Some(xs, S) <=> Some(q.raw, O)
    BY <2>3 DEF Undiminished, Sifting
  <2>5. y \in S <=> x \in S
    BY <2>1
  <2> HIDE DEF S, O
  <2>6. Some(vs, S) \/ Some(us, S) <=> Some(q.raw, O)
    BY <1>0, <2>4, <2>5
  <2> QED
    BY <2>6 DEF Undiminished, Sifting, S, O
<1>3. \A t : Led(stage, us, vs, c, t)
  BY DEF Led, Sifting
<1>4. Progress(stage, "filter", us, vs, c, q)
  BY <1>1, <1>2, <1>3 DEF Progress, Gathered
<1> QED
  BY <1>4 DEF us, vs

Turns ==
    {<<"visibility", "restriction">>, <<"restriction", "style">>, <<"style", "watched">>,
     <<"watched", "interleave">>, <<"interleave", "userState">>, <<"userState", "key">>,
     <<"key", "shape">>, <<"shape", "done">>}

\* A transform is done, and the next begins with the rows it has kept.
LEMMA ProgressTurns ==
    ASSUME NEW stage, NEW next, <<stage, next>> \in Turns, NEW ys, NEW c, NEW q,
           Progress(stage, "filter", <<>>, ys, c, q)
    PROVE  Progress(next, "filter", ys, <<>>, c, q)
<1>1. Passed(next, "filter", ys, <<>>, c, q)
  BY EmptyKinds DEF Progress, Passed, Behind, Turns
<1>2. ASSUME NEW t \in Titles, Leads(q.raw, Mine(c, t), FullRows(c))
      PROVE  /\ Led(next, ys, <<>>, c, t)
             /\ Uncut(next, ys, <<>>, q, t)
                    => \A i \in Items : Undiminished(next, ys, <<>>, c, q, t, i)
  <2>1. /\ Led(stage, <<>>, ys, c, t)
        /\ Uncut(stage, <<>>, ys, q, t)
               => \A i \in Items : Undiminished(stage, <<>>, ys, c, q, t, i)
    BY <1>2 DEF Progress, Gathered
  <2>2. Led(next, ys, <<>>, c, t)
    <3>1. next \in Sifting \cup {"interleave"} => stage \in Sifting
      BY DEF Turns, Sifting
    <3>2. next \in Sifting \cup {"interleave"} => Leads(ys, Mine(c, t), FullRows(c))
      BY <2>1, <3>1 DEF Led
    <3> QED
      BY <3>2, EmptyKinds DEF Led
  <2>3. Uncut(next, ys, <<>>, q, t) => Uncut(stage, <<>>, ys, q, t)
    BY EmptyKinds DEF Uncut, Turns
  <2>4. ASSUME NEW i \in Items, Undiminished(stage, <<>>, ys, c, q, t, i)
        PROVE  Undiminished(next, ys, <<>>, c, q, t, i)
    <3>1. stage \in Sifting <=> next \in Sifting \cup {"interleave"}
      BY DEF Turns, Sifting
    <3>2. \A S : ~Some(<<>>, S)
      BY EmptyKinds
    <3> QED
      BY <2>4, <3>1, <3>2 DEF Undiminished
  <2> QED
    BY <2>1, <2>2, <2>3, <2>4
<1> QED
  BY <1>1, <1>2 DEF Progress, Gathered

\* What is left of the chain of a home screen.
LEMMA RestFacts ==
    \A s \in HomeRests : s # <<>> =>
        Tail(s) \in HomeRests /\ StageOf(s) = Head(s) /\ <<StageOf(s), StageOf(Tail(s))>> \in Turns
<1> SUFFICES ASSUME NEW s \in HomeRests, s # <<>>
             PROVE  /\ Tail(s) \in HomeRests /\ StageOf(s) = Head(s)
                    /\ <<StageOf(s), StageOf(Tail(s))>> \in Turns
  OBVIOUS
<1> USE DEF HomeRests, StageOf, Turns
<1>1. CASE s = <<"visibility", "restriction", "style", "watched", "interleave", "userState", "key", "shape">>
  <2>1. Tail(s) = <<"restriction", "style", "watched", "interleave", "userState", "key", "shape">>
    BY <1>1
  <2> QED
    BY <1>1, <2>1
<1>2. CASE s = <<"restriction", "style", "watched", "interleave", "userState", "key", "shape">>
  <2>1. Tail(s) = <<"style", "watched", "interleave", "userState", "key", "shape">>
    BY <1>2
  <2> QED
    BY <1>2, <2>1
<1>3. CASE s = <<"style", "watched", "interleave", "userState", "key", "shape">>
  <2>1. Tail(s) = <<"watched", "interleave", "userState", "key", "shape">>
    BY <1>3
  <2> QED
    BY <1>3, <2>1
<1>4. CASE s = <<"watched", "interleave", "userState", "key", "shape">>
  <2>1. Tail(s) = <<"interleave", "userState", "key", "shape">>
    BY <1>4
  <2> QED
    BY <1>4, <2>1
<1>5. CASE s = <<"interleave", "userState", "key", "shape">>
  <2>1. Tail(s) = <<"userState", "key", "shape">>
    BY <1>5
  <2> QED
    BY <1>5, <2>1
<1>6. CASE s = <<"userState", "key", "shape">>
  <2>1. Tail(s) = <<"key", "shape">>
    BY <1>6
  <2> QED
    BY <1>6, <2>1
<1>7. CASE s = <<"key", "shape">>
  <2>1. Tail(s) = <<"shape">>
    BY <1>7
  <2> QED
    BY <1>7, <2>1
<1>8. CASE s = <<"shape">>
  <2>1. Tail(s) = <<>>
    BY <1>8
  <2> QED
    BY <1>8, <2>1
<1> QED
  BY <1>1, <1>2, <1>3, <1>4, <1>5, <1>6, <1>7, <1>8

-----------------------------------------------------------------------------
\* What is left of a row that is given other items, another size or another key.
LEMMA HeadingFacts ==
    ASSUME NEW x \in Hub
    PROVE  /\ \A items : LET y == [x EXCEPT !.items = items] IN
                 /\ y.items = items /\ y.title = x.title /\ y.continues = x.continues
                 /\ y.of = x.of /\ y.malformed = x.malformed /\ y.size = x.size
           /\ \A items, size : LET y == [x EXCEPT !.items = items, !.size = size] IN
                 y.items = items /\ y.title = x.title /\ y.continues = x.continues
           /\ \A size : LET y == [x EXCEPT !.size = size] IN
                 y.items = x.items /\ y.title = x.title /\ y.continues = x.continues
           /\ \A key : LET y == [x EXCEPT !.key = key] IN
                 y.items = x.items /\ y.title = x.title /\ y.continues = x.continues
           /\ LET y == [x EXCEPT !.ours = TRUE] IN
                 y.items = x.items /\ y.title = x.title /\ y.continues = x.continues
BY DEF Hub

\* A row with title and Continue Watching of another one is of Plex as that one is.
LEMMA SameRoot ==
    ASSUME NEW q, NEW x \in Rooted(q), NEW y \in Hub, y.title = x.title, y.continues = x.continues
    PROVE  y \in Rooted(q) /\ (x \in Lasting(q) => y \in Lasting(q))
BY DEF Rooted, Lasting

\* What a merged row shows.
LEMMA BlendedRow ==
    ASSUME NEW y \in Hub, NEW x \in Hub, y.key # NoKey, x.key # NoKey
    PROVE  /\ Blended(y, x) \in Hub /\ Blended(y, x).title = y.title
           /\ Blended(y, x).continues = y.continues
           /\ y \in FilledRows =>
                 /\ Blended(y, x) \in FilledRows
                 /\ ElementsOf(Blended(y, x).items) = ElementsOf(y.items) \cup ElementsOf(x.items)
<1> DEFINE items == Interleaved(y.items, x.items)
           key == y.key \o x.key
           set == SetItems(y, items)
<1>0. Blended(y, x) \in Hub
  BY BlendedType
<1>1. /\ items \in Seq(Item) /\ Len(items) = Len(y.items) + Len(x.items)
      /\ ElementsOf(items) = ElementsOf(y.items) \cup ElementsOf(x.items)
      /\ Len(items) \in Nat /\ Len(y.items) \in Nat /\ Len(x.items) \in Nat
      /\ y.items \in Seq(Item)
  <2>1. y.items \in Seq(Item) /\ x.items \in Seq(Item)
    BY HubFacts
  <2>2. /\ items \in Seq(Item) /\ Len(items) = Len(y.items) + Len(x.items)
        /\ ElementsOf(items) = ElementsOf(y.items) \cup ElementsOf(x.items)
    BY ONLY <2>1, ZenonT(60), InterleavedFacts
  <2> HIDE DEF items
  <2> QED
    BY <2>1, <2>2, LenProperties
<1>2. Blended(y, x) = [set EXCEPT !.key = key]
  BY Zenon DEF Blended
<1>3. y.items # <<>> => items # <<>>
  <2> HIDE DEF items
  <2>1. y.items # <<>> => Len(y.items) > 0
    BY <1>1, TailFacts
  <2>2. items = <<>> => Len(items) = 0
    BY Zenon, EmptySeq
  <2>3. /\ Len(items) = Len(y.items) + Len(x.items)
        /\ Len(items) \in Nat /\ Len(y.items) \in Nat /\ Len(x.items) \in Nat
    BY <1>1
  <2> DEFINE m == Len(items)
             k == Len(y.items)
             l == Len(x.items)
  <2>4. k > 0 => m # 0
    <3> HIDE DEF m, k, l
    <3>1. m = k + l /\ k \in Nat /\ l \in Nat
      BY <2>3 DEF m, k, l
    <3> QED
      BY <3>1
  <2> QED
    BY <2>1, <2>2, <2>4, Zenon
<1> HIDE DEF items, key
<1>4. set \in Hub
  BY <1>1, SetItemsType
<1>5. /\ set.title = y.title /\ set.continues = y.continues
      /\ y.items # <<>> => set.items = items
  BY HeadingFacts DEF SetItems
<1> HIDE DEF set
<1>6. /\ Blended(y, x).items = set.items /\ Blended(y, x).title = set.title
      /\ Blended(y, x).continues = set.continues
  BY <1>2, <1>4, HeadingFacts
<1> QED
  BY <1>0, <1>1, <1>3, <1>5, <1>6 DEF FilledRows, items

\* A member of a sequence is replaced.
LEMMA ReplaceKinds ==
    ASSUME NEW T, NEW s \in Seq(T), NEW n \in 1..Len(s), NEW z \in T
    PROVE  /\ [s EXCEPT ![n] = z] \in Seq(T)
           /\ \A S : (s[n] \in S => z \in S)
                  => (Some([s EXCEPT ![n] = z], S) <=> Some(s, S) \/ z \in S)
           /\ \A S : Each(s, S) /\ z \in S => Each([s EXCEPT ![n] = z], S)
           /\ \A M, F : Leads(s, M, F) /\ (z \in M <=> s[n] \in M) /\ (s[n] \in M /\ s[n] \in F => z \in F)
                  => Leads([s EXCEPT ![n] = z], M, F)
<1> DEFINE u == [s EXCEPT ![n] = z]
<1>1. /\ u \in Seq(T) /\ Len(u) = Len(s) /\ u[n] = z /\ Len(s) \in Nat
      /\ \A k \in 1..Len(s) : k # n => u[k] = s[k]
  BY ExceptSeq, LenProperties
<1> HIDE DEF u
<1>2. \A S : (s[n] \in S => z \in S) => (Some(u, S) <=> Some(s, S) \/ z \in S)
  BY <1>1 DEF Some
<1>3. \A S : Each(s, S) /\ z \in S => Each(u, S)
  BY <1>1 DEF Each
<1>4. ASSUME NEW M, NEW F, Leads(s, M, F), z \in M <=> s[n] \in M, s[n] \in M /\ s[n] \in F => z \in F,
             NEW m \in 1..Len(u), u[m] \in M, \A k \in 1..(m - 1) : u[k] \notin M
      PROVE  u[m] \in F
  <2>1. ASSUME NEW k \in 1..(m - 1) PROVE s[k] \notin M
    <3>1. k \in 1..Len(s) /\ u[k] \notin M
      BY <1>1, <1>4
    <3> QED
      BY <1>1, <1>4, <3>1
  <2>2. s[m] \in M
    BY <1>1, <1>4
  <2>3. s[m] \in F
    BY <1>1, <1>4, <2>1, <2>2 DEF Leads
  <2> QED
    BY <1>1, <1>4, <2>2, <2>3
<1>5. \A M, F : Leads(s, M, F) /\ (z \in M <=> s[n] \in M) /\ (s[n] \in M /\ s[n] \in F => z \in F)
                  => Leads(u, M, F)
  BY <1>4 DEF Leads
<1> QED
  BY <1>1, <1>2, <1>3, <1>5 DEF u

\* What merging does to the rows it has kept, title by title.
LEMMA MergedGathers ==
    ASSUME NEW ys \in Seq(Hub), NEW x \in Hub, config.interleave, NEW q,
           Each(ys, Rooted(q)), x \in Rooted(q)
    PROVE  MergesInto(ys, x, Merged(ys, x)) /\ Each(Merged(ys, x), Rooted(q))
<1>1. CASE x.size = 0 /\ Merged(ys, x) = ys
  BY <1>1 DEF MergesInto
<1>2. CASE x.size # 0 /\ Merged(ys, x) = Append(ys, x)
  <2> DEFINE vs == Append(ys, x)
  <2>1. \A S, M, F :
            /\ Some(vs, S) <=> Some(ys, S) \/ x \in S
            /\ Each(vs, S) <=> Each(ys, S) /\ x \in S
            /\ Leads(ys, M, F) /\ (~Some(ys, M) /\ x \in M => x \in F) => Leads(vs, M, F)
    BY AppendKinds
  <2>2. \A t : x \in RowsTitled(t) <=> x.title = t
    BY DEF RowsTitled
  <2> HIDE DEF vs
  <2>3. MergesInto(ys, x, vs)
    BY <1>2, <2>1, <2>2 DEF MergesInto
  <2> QED
    BY <1>2, <2>1, <2>3 DEF vs
<1>3. ASSUME x.size # 0, x.key # NoKey, NEW n \in 1..Len(ys), ys[n].title = x.title,
             ys[n].key # NoKey, \A k \in 1..(n - 1) : ys[k].title # x.title,
             Merged(ys, x) = Blend(ys, n, x)
      PROVE  MergesInto(ys, x, Merged(ys, x)) /\ Each(Merged(ys, x), Rooted(q))
  <2> DEFINE y == ys[n]
             z == Blended(y, x)
             zs == [ys EXCEPT ![n] = z]
  <2>1. y \in Hub /\ y \in Rooted(q)
    BY ElementOfSeq DEF Each
  <2>2. /\ z \in Hub /\ z.title = y.title /\ z.continues = y.continues
        /\ y \in FilledRows =>
              z \in FilledRows /\ ElementsOf(z.items) = ElementsOf(y.items) \cup ElementsOf(x.items)
    BY <1>3, <2>1, BlendedRow
  <2> HIDE DEF z
  <2>3. /\ \A S : (y \in S => z \in S) => (Some(zs, S) <=> Some(ys, S) \/ z \in S)
        /\ \A S : Each(ys, S) /\ z \in S => Each(zs, S)
        /\ \A M, F : Leads(ys, M, F) /\ (z \in M <=> y \in M) /\ (y \in M /\ y \in F => z \in F)
                  => Leads(zs, M, F)
    BY <2>2, ReplaceKinds
  <2>4. Merged(ys, x) = zs
    BY <1>3 DEF Blend, z
  <2> HIDE DEF zs
  <2>5. z \in Rooted(q)
    BY <2>1, <2>2, SameRoot
  <2>6. ASSUME NEW t \in Titles, Leads(ys, RowsTitled(t), FilledRows)
        PROVE  /\ Leads(zs, RowsTitled(t), FilledRows)
               /\ Some(zs, RowsTitled(t)) <=> Some(ys, RowsTitled(t)) \/ x.title = t
               /\ \A i \in Items :
                     Some(zs, Showing(t, i)) <=> Some(ys, Showing(t, i)) \/ x \in Showing(t, i)
    <3>1. z \in RowsTitled(t) <=> y \in RowsTitled(t)
      BY <2>1, <2>2 DEF RowsTitled
    <3>2. y \in RowsTitled(t) <=> x.title = t
      BY <1>3, <2>1 DEF RowsTitled
    <3>3. y \in RowsTitled(t) => Some(ys, RowsTitled(t)) /\ y \in FilledRows
      <4>1. y \in RowsTitled(t) => Some(ys, RowsTitled(t))
        BY DEF Some
      <4>2. \A k \in 1..(n - 1) : y \in RowsTitled(t) => ys[k] \notin RowsTitled(t)
        BY <1>3, <3>2 DEF RowsTitled
      <4> QED
        BY <2>6, <4>1, <4>2 DEF Leads
    <3>4. Leads(zs, RowsTitled(t), FilledRows)
      BY <2>2, <2>3, <2>6, <3>1
    <3>5. Some(zs, RowsTitled(t)) <=> Some(ys, RowsTitled(t)) \/ x.title = t
      BY <2>3, <3>1, <3>2, <3>3
    <3>6. ASSUME NEW i \in Items
          PROVE  Some(zs, Showing(t, i)) <=> Some(ys, Showing(t, i)) \/ x \in Showing(t, i)
      <4> DEFINE S == Showing(t, i)
      <4>1. (y \in S => z \in S) /\ (z \in S <=> y \in S \/ x \in S)
        <5>1. CASE y \in RowsTitled(t)
          <6>1. /\ y \in FilledRows
                /\ ElementsOf(z.items) = ElementsOf(y.items) \cup ElementsOf(x.items)
                /\ y \in RowsTitled(t) /\ z \in RowsTitled(t) /\ x \in RowsTitled(t)
            BY <2>2, <3>1, <3>2, <3>3, <5>1 DEF RowsTitled
          <6> DEFINE Has(w) == \E e \in ElementsOf(w.items) : e.id = i
          <6>2. Has(z) <=> Has(y) \/ Has(x)
            BY <6>1
          <6>3. /\ z \in S <=> Has(z)
                /\ y \in S <=> Has(y)
                /\ x \in S <=> Has(x)
            BY <6>1 DEF Showing
          <6> HIDE DEF Has, S
          <6> QED
            BY <6>2, <6>3
        <5>2. CASE y \notin RowsTitled(t)
          BY <3>1, <3>2, <5>2 DEF Showing, RowsTitled
        <5> QED
          BY <5>1, <5>2
      <4>2. y \in S => Some(ys, S)
        BY DEF Some
      <4> HIDE DEF S
      <4>3. Some(zs, S) <=> Some(ys, S) \/ x \in S
        BY <2>3, <4>1, <4>2
      <4> QED
        BY <4>3 DEF S
    <3> QED
      BY <3>4, <3>5, <3>6
  <2>7. MergesInto(ys, x, zs)
    BY <1>3, <2>6 DEF MergesInto
  <2> QED
    BY <2>3, <2>4, <2>5, <2>7
<1> QED
  BY <1>1, <1>2, <1>3, MergedCases

-----------------------------------------------------------------------------
\* A lookup that has been made has found what is at Plex.
LEMMA LookedUp ==
    ASSUME CompleteInv, NEW r \in Requests, Completing(r), Wanted(r) # NoName, seen[r] # NotYet
    PROVE  seen[r] # Failed /\ seen[r].value = AtPlex(req[r].account, Wanted(r))
<1>1. LookupTypes(r) /\ Current(r)
  BY DEF CompleteInv, SharedInv, TypeInv
<1>2. seen[r] # Failed
  BY <1>1 DEF LookupTypes, Completing
<1> QED
  BY <1>1, <1>2 DEF Current, Completing

\* Restriction keeps the rows that are shared.
LEMMA RestrictionSifts ==
    ASSUME CompleteInv, NEW r \in Requests, Completing(r), todo[r] # <<>>,
           Head(todo[r]) = "restriction", left[r] # <<>>, left[r][1] \in Hub, Head(left[r]) = left[r][1],
           at[r] = "filter", Wanted(r) # NoName => seen[r] # NotYet
    PROVE  RestrictionKeeps(left[r][1], seen[r]) <=> left[r][1] \in SharedRows(Terms(r))
<1> DEFINE x == left[r][1]
<1>0. /\ Terms(r).restricts = config.hubRestrictions /\ Terms(r).lists = shared[req[r].account]
      /\ IsCollectionHub(x) <=> x.of # BuiltIn
      /\ x.size \in Nat /\ Wanted(r) = Asks("restriction", x)
  BY HubFacts DEF Terms, IsCollectionHub, Wanted
<1>1. ASSUME config.hubRestrictions, x.of # BuiltIn, x.size > 0, ~x.malformed
      PROVE  seen[r] # Failed /\ seen[r].value = shared[req[r].account]
  <2>1. Wanted(r) = List /\ List # NoName
    BY <1>0, <1>1, WorldAssumption DEF Asks
  <2> QED
    BY <2>1, LookedUp DEF AtPlex
<1> HIDE DEF x
<1>2. RestrictionKeeps(x, seen[r]) <=>
          (config.hubRestrictions /\ x.of # BuiltIn
               => x.size > 0 /\ (~x.malformed => x.of \in shared[req[r].account]))
  BY <1>0, <1>1 DEF RestrictionKeeps
<1>3. x \in SharedRows(Terms(r)) <=>
          (config.hubRestrictions /\ x.of # BuiltIn
               => x.size > 0 /\ (~x.malformed => x.of \in shared[req[r].account]))
  <2>1. x \in Hub
    BY DEF x
  <2> QED
    BY <1>0, <2>1 DEF SharedRows
<1> QED
  BY <1>2, <1>3 DEF x

\* Watched filtering leaves of a row what it offers.
LEMMA WatchedSifts ==
    ASSUME CompleteInv, NEW r \in Requests, Completing(r), todo[r] # <<>>, Head(todo[r]) = "watched",
           left[r] # <<>>, NEW x \in Hub, Head(left[r]) = x, at[r] = "change",
           Wanted(r) # NoName => seen[r] # NotYet
    PROVE  LET y == Changed(r, "watched", x) IN
           /\ y \in Hub /\ y.title = x.title /\ y.continues = x.continues
           /\ y.of = x.of /\ y.malformed = x.malformed /\ y.size = x.size
           /\ ElementsOf(y.items) = Offered(Terms(r), x)
<1> DEFINE y == Changed(r, "watched", x)
           few == Unwatched(x.items)
<1>0. /\ Terms(r).excludes = config.excludeWatched /\ Terms(r).labels = labels
      /\ IsCollectionHub(x) <=> x.of # BuiltIn
      /\ IsHub(x) /\ x.items \in Seq(Item) /\ Wanted(r) = Asks("watched", x)
      /\ x.of \in Collections \cup {BuiltIn}
  BY HubFacts DEF Terms, IsCollectionHub, Wanted
<1>1. ASSUME x.of # BuiltIn, ~x.malformed
      PROVE  seen[r] # Failed /\ seen[r].value = labels[x.of]
  <2>1. Wanted(r) = x.of /\ x.of # NoName /\ x.of # List
    BY <1>0, <1>1, WorldAssumption DEF Asks
  <2> QED
    BY <2>1, LookedUp DEF AtPlex
<1>2. Watches(x, seen[r]) <=>
          config.excludeWatched \/ (x.of # BuiltIn /\ ~x.malformed /\ "watched" \in labels[x.of])
  BY <1>0, <1>1 DEF Watches
<1>3. y = IF Watches(x, seen[r]) THEN [x EXCEPT !.items = few] ELSE x
  BY DEF Changed, WithoutWatched
<1>4. few \in Seq(Item) /\ ElementsOf(few) = {e \in ElementsOf(x.items) : ~IsWatched(e)}
  BY <1>0, UnwatchedFacts
<1> HIDE DEF few, y
<1>5. CASE Watches(x, seen[r])
  <2>1. y = [x EXCEPT !.items = few]
    BY <1>3, <1>5
  <2>2. /\ y.items = few /\ y.title = x.title /\ y.continues = x.continues
        /\ y.of = x.of /\ y.malformed = x.malformed /\ y.size = x.size /\ y \in Hub
    <3>1. y \in Hub
      BY <1>4, <2>1, HubFacts
    <3>2. /\ y.items = few /\ y.title = x.title /\ y.continues = x.continues
          /\ y.of = x.of /\ y.malformed = x.malformed /\ y.size = x.size
      BY <2>1, HeadingFacts
    <3> QED
      BY <3>1, <3>2
  <2>3. Offered(Terms(r), x) = {e \in ElementsOf(x.items) : ~IsWatched(e)}
    BY <1>0, <1>2, <1>5 DEF Offered
  <2> QED
    BY <1>4, <2>2, <2>3 DEF y
<1>6. CASE ~Watches(x, seen[r])
  <2>1. y = x
    BY <1>3, <1>6
  <2>2. Offered(Terms(r), x) = ElementsOf(x.items)
    BY <1>0, <1>2, <1>6 DEF Offered
  <2> QED
    BY <2>1, <2>2 DEF y
<1> QED
  BY <1>5, <1>6

\* A row that shows just what another one offers is of the same kinds.
LEMMA SiftedAlike ==
    ASSUME NEW c, NEW x \in Hub, NEW y \in Hub, y.title = x.title, y.of = x.of,
           y.malformed = x.malformed, y.size = x.size, ElementsOf(y.items) = Offered(c, x)
    PROVE  /\ y \in Trimmed(c)
           /\ x \in FullRows(c) => y \in FullRows(c)
           /\ x \in VisibleRows(c) <=> y \in VisibleRows(c)
           /\ x \in SharedRows(c) <=> y \in SharedRows(c)
           /\ \A t : y \in Mine(c, t) <=> x \in Mine(c, t)
           /\ \A t, i : y \in Offering(c, t, i) <=> x \in Offering(c, t, i)
<1>1. Offered(c, y) = Offered(c, x)
  BY DEF Offered
<1>2. y \in Trimmed(c) /\ (x \in FullRows(c) => y \in FullRows(c))
  BY <1>1 DEF Trimmed, FullRows
<1>3. x \in VisibleRows(c) <=> y \in VisibleRows(c)
  <2>1. IsHub(x) /\ IsHub(y)
    BY HubFacts
  <2> QED
    BY <2>1 DEF VisibleRows, VisibilityKeeps, CollectionTitle
<1>4. x \in SharedRows(c) <=> y \in SharedRows(c)
  BY DEF SharedRows
<1>5. \A t : y \in Mine(c, t) <=> x \in Mine(c, t)
  BY <1>3, <1>4 DEF Mine, RowsTitled
<1>6. \A t, i : y \in Offering(c, t, i) <=> x \in Offering(c, t, i)
  BY <1>1, <1>5 DEF Offering
<1> QED
  BY <1>2, <1>3, <1>4, <1>5, <1>6

\* What the transforms after merging do to what a row shows.
LEMMA LaterAlike ==
    ASSUME NEW r, NEW stage \in {"userState", "key", "shape"}, NEW x \in Hub, req[r].count \in Nat
    PROVE  LET y == Changed(r, stage, x) IN
           /\ y \in Hub /\ y.title = x.title /\ y.continues = x.continues
           /\ \A t, i : (stage = "shape" => y \in ShortFor(req[r], t))
                            => (y \in Showing(t, i) <=> x \in Showing(t, i))
<1> DEFINE y == Changed(r, stage, x)
<1>0. y \in Hub /\ x.items \in Seq(Item) /\ IsHub(x)
  BY ChangedHub, HubFacts DEF HomeTransforms, Later
<1>1. ASSUME y.title = x.title,
             \A i : (\E e \in ElementsOf(y.items) : e.id = i) <=> (\E e \in ElementsOf(x.items) : e.id = i)
      PROVE  \A t, i : y \in Showing(t, i) <=> x \in Showing(t, i)
  <2> HIDE DEF y
  <2> QED
    BY <1>0, <1>1 DEF Showing, RowsTitled
<1>2. CASE stage = "userState"
  <2> DEFINE few == [n \in 1..Len(x.items) |-> [x.items[n] EXCEPT !.leaves = -1]]
  <2>1. y = Leafless(x)
    BY <1>2 DEF Changed
  <2>2. config.leafCount => Leafless(x) = x
    BY DEF Leafless
  <2>3. ~config.leafCount => Leafless(x) = [x EXCEPT !.items = few]
    BY <1>0, Zenon DEF Leafless
  <2>4. Len(few) = Len(x.items) /\ \A n \in 1..Len(x.items) : few[n].id = x.items[n].id
    <3>1. Len(x.items) \in Nat
      BY <1>0, LenProperties
    <3>2. \A n \in 1..Len(x.items) : x.items[n] \in Item
      BY <1>0, ElementOfSeq
    <3>3. \A e \in Item : [e EXCEPT !.leaves = -1].id = e.id
      BY DEF Item
    <3>4. Len(few) = Len(x.items)
      <4>1. few \in Seq(Item)
        BY <1>0, LeaflessType
      <4>2. DOMAIN few = 1..Len(x.items)
        OBVIOUS
      <4> HIDE DEF few
      <4> QED
        BY <3>1, <4>1, <4>2, LenProperties
    <3> QED
      BY <3>2, <3>3, <3>4
  <2> HIDE DEF few, y
  <2>5. CASE config.leafCount
    BY <2>1, <2>2, <2>5 DEF y
  <2>6. CASE ~config.leafCount
    <3>1. y = [x EXCEPT !.items = few]
      BY <2>1, <2>3, <2>6
    <3>2. y.items = few /\ y.title = x.title /\ y.continues = x.continues
      BY <3>1, HeadingFacts
    <3>3. \A i : (\E e \in ElementsOf(few) : e.id = i) <=> (\E e \in ElementsOf(x.items) : e.id = i)
      BY <2>4 DEF ElementsOf
    <3>4. \A t, i : y \in Showing(t, i) <=> x \in Showing(t, i)
      BY <1>1, <3>2, <3>3
    <3> QED
      BY <1>0, <3>2, <3>4 DEF y
  <2> QED
    BY <2>5, <2>6
<1>3. CASE stage = "key"
  <2>1. y = x \/ y = [x EXCEPT !.ours = TRUE]
    BY <1>3 DEF Changed, Keyed
  <2> HIDE DEF y
  <2>2. y.items = x.items /\ y.title = x.title /\ y.continues = x.continues
    BY <2>1, HeadingFacts
  <2>3. \A t, i : y \in Showing(t, i) <=> x \in Showing(t, i)
    BY <1>1, <2>2
  <2> QED
    BY <1>0, <2>2, <2>3 DEF y
<1>4. CASE stage = "shape"
  <2> DEFINE count == req[r].count
             few == FirstOf(x.items, count)
  <2>1. y = Counted(x, count)
    BY <1>4 DEF Changed
  <2>2. CASE Len(x.items) > count
    <3>1. y = [x EXCEPT !.items = few, !.size = count]
      BY <2>1, <2>2, Zenon DEF Counted
    <3>2. Len(few) = count
      <4>1. Len(few) = Smaller(count, Len(x.items)) /\ Len(x.items) \in Nat
        BY <1>0, FirstOfFacts, LenProperties
      <4> QED
        BY <2>2, <4>1 DEF Smaller
    <3> HIDE DEF few, y
    <3>3. y.items = few /\ y.title = x.title /\ y.continues = x.continues
      BY <3>1, HeadingFacts
    <3>4. ASSUME NEW t, NEW i, y \in ShortFor(req[r], t)
          PROVE  y \in Showing(t, i) <=> x \in Showing(t, i)
      <4>1. y.title # t
        BY <3>2, <3>3, <3>4 DEF ShortFor
      <4> QED
        BY <3>3, <4>1 DEF Showing, RowsTitled
    <3> QED
      BY <1>0, <1>4, <3>3, <3>4 DEF y
  <2>3. CASE ~(Len(x.items) > count)
    <3>1. y = x
      BY <2>1, <2>3, Zenon DEF Counted
    <3> QED
      BY <3>1 DEF y
  <2> QED
    BY <2>2, <2>3
<1> QED
  BY <1>2, <1>3, <1>4

\* The next row of a home screen that is being completed.
LEMMA AtWork ==
    ASSUME CompleteInv, NEW r \in Requests, Completing(r), todo[r] # <<>>
    PROVE  /\ todo[r] \in HomeRests /\ Tail(todo[r]) \in HomeRests
           /\ StageOf(todo[r]) = Head(todo[r])
           /\ <<Head(todo[r]), StageOf(Tail(todo[r]))>> \in Turns
           /\ Progress(Head(todo[r]), at[r], left[r], kept[r], Terms(r), req[r])
           /\ left[r] \in Seq(Hub) /\ kept[r] \in Seq(Hub) /\ req[r].raw \in Seq(Hub)
           /\ req[r].count \in Nat
           /\ left[r] # <<>> => left[r][1] \in Hub /\ Head(left[r]) = left[r][1]
<1>1. Home(r) /\ req[r].count \in Nat
  BY HomeWork DEF CompleteInv, SharedInv, Completing
<1>2. todo[r] \in HomeRests /\ Progress(StageOf(todo[r]), at[r], left[r], kept[r], Terms(r), req[r])
  BY DEF CompleteInv, ProgressInv
<1>3. left[r] # <<>> => left[r][1] \in Hub /\ Head(left[r]) = left[r][1]
  BY <1>1, TailFacts DEF Home
<1> QED
  BY <1>1, <1>2, <1>3, RestFacts DEF Home

\* A step of a home screen's transform, given what it makes of the rows.
LEMMA ProgressStep ==
    ASSUME NEW r, UNCHANGED <<world, req, snap>>,
           Completing(r)' => /\ todo'[r] \in HomeRests
                             /\ Progress(StageOf(todo'[r]), at'[r], left'[r], kept'[r], Terms(r), req[r])
    PROVE  ProgressInv(r)'
<1>1. Terms(r)' = Terms(r) /\ req'[r] = req[r]
  BY DEF Terms, world
<1> QED
  BY <1>1 DEF ProgressInv

\* The steps of a transform: it keeps or drops the next row, changes it, or is done.
LEMMA FilterProgress ==
    ASSUME CompleteInv, NEW r \in Requests, FilterChild(r)
    PROVE  ProgressInv(r)'
<1>0. SlotTypes
  BY DEF CompleteInv, SharedInv, TypeInv
<1> DEFINE t == Head(todo[r])
           x == left[r][1]
           c == Terms(r)
           q == req[r]
<1>1. /\ todo[r] # <<>> /\ left[r] # <<>> /\ at[r] = "filter"
      /\ Wanted(r) # NoName => seen[r] # NotYet
      /\ UNCHANGED <<world, req, snap, todo, kept, failed>>
      /\ \/ /\ at' = [at EXCEPT ![r] = "change"] /\ left' = left /\ Keeps(r, t, Head(left[r]))
         \/ /\ left' = [left EXCEPT ![r] = Tail(left[r])] /\ at' = at
            /\ ~Keeps(r, t, Head(left[r]))
  BY DEF FilterChild, Busy, Answered
<1>2. \/ at'[r] = "change" /\ left'[r] = left[r] /\ Keeps(r, t, Head(left[r]))
      \/ at'[r] = "filter" /\ left'[r] = Tail(left[r]) /\ ~Keeps(r, t, Head(left[r]))
  BY <1>0, <1>1 DEF SlotTypes, IsFunction
<1>3. ASSUME Completing(r)'
      PROVE  /\ todo'[r] \in HomeRests
             /\ Progress(StageOf(todo'[r]), at'[r], left'[r], kept'[r], c, q)
  <2>1. Completing(r)
    BY <1>1, <1>3 DEF Completing, world
  <2>2. /\ todo'[r] \in HomeRests /\ StageOf(todo'[r]) = t /\ kept'[r] = kept[r]
        /\ Progress(t, "filter", left[r], kept[r], c, q)
        /\ left[r] \in Seq(Hub) /\ q.raw \in Seq(Hub) /\ x \in Hub /\ Head(left[r]) = x
    BY <1>1, <2>1, AtWork
  <2>3. c.who = snap[r]
    BY DEF Terms
  <2>4. t = "visibility" => (Keeps(r, t, x) <=> x \in VisibleRows(c))
    BY <2>2, <2>3 DEF Keeps, VisibleRows
  <2>5. t = "restriction" => (Keeps(r, t, x) <=> x \in SharedRows(c))
    <3>1. SUFFICES ASSUME t = "restriction" PROVE Keeps(r, t, x) <=> x \in SharedRows(c)
      OBVIOUS
    <3>2. Keeps(r, t, x) <=> RestrictionKeeps(x, seen[r])
      BY <3>1 DEF Keeps
    <3> QED
      BY <1>1, <2>1, <2>2, <3>1, <3>2, RestrictionSifts
  <2>6. t = "shape" => (Keeps(r, t, x) <=> x \in Lasting(q))
    BY <2>2 DEF Keeps, Lasting
  <2>7. CASE at'[r] = "change" /\ left'[r] = left[r] /\ Keeps(r, t, Head(left[r]))
    <3>1. /\ t = "visibility" => x \in VisibleRows(c)
          /\ t = "restriction" => x \in SharedRows(c)
          /\ t = "shape" => x \in Lasting(q)
      BY <2>2, <2>4, <2>5, <2>6, <2>7
    <3>2. Progress(t, "change", left[r], kept[r], c, q)
      BY <2>2, <3>1, ProgressKeeps
    <3> QED
      BY <2>2, <2>7, <3>2
  <2>8. CASE at'[r] = "filter" /\ left'[r] = Tail(left[r]) /\ ~Keeps(r, t, Head(left[r]))
    <3>1. t \in {"visibility", "restriction", "shape"}
      <4>1. t # "policy"
        BY <2>1, <2>2, <1>1, AtWork DEF Turns
      <4> QED
        BY <2>8, <4>1 DEF Keeps
    <3>2. t \in {"visibility", "restriction"} => \A u : x \notin Mine(c, u)
      <4>1. \A u : x \in Mine(c, u) => x \in VisibleRows(c) /\ x \in SharedRows(c)
        BY DEF Mine
      <4> QED
        BY <2>2, <2>4, <2>5, <2>8, <4>1
    <3>3. t = "shape" => x \notin Lasting(q)
      BY <2>2, <2>6, <2>8
    <3>4. Progress(t, "filter", Tail(left[r]), kept[r], c, q)
      BY <1>1, <2>2, <3>1, <3>2, <3>3, ProgressDrops
    <3> QED
      BY <2>2, <2>8, <3>4
  <2> QED
    BY <1>2, <2>7, <2>8
<1> QED
  BY <1>1, <1>3, ProgressStep

LEMMA ChangeProgress ==
    ASSUME CompleteInv, NEW r \in Requests, ChangeChild(r)
    PROVE  ProgressInv(r)'
<1>0. SlotTypes
  BY DEF CompleteInv, SharedInv, TypeInv
<1> DEFINE t == Head(todo[r])
           x == left[r][1]
           c == Terms(r)
           q == req[r]
           y == Changed(r, t, x)
           xs == left[r]
           ys == kept[r]
           done == IF t = "interleave" THEN Merged(kept[r], Head(left[r]))
                   ELSE Append(kept[r], Changed(r, t, Head(left[r])))
<1>1. /\ todo[r] # <<>> /\ left[r] # <<>> /\ at[r] = "change"
      /\ Wanted(r) # NoName => seen[r] # NotYet
      /\ UNCHANGED <<world, req, snap, todo, failed>>
      /\ kept' = [kept EXCEPT ![r] = done]
      /\ left' = [left EXCEPT ![r] = Tail(left[r])]
      /\ at' = [at EXCEPT ![r] = "filter"]
  BY DEF ChangeChild, Busy, Answered
<1>2. kept'[r] = done /\ left'[r] = Tail(left[r]) /\ at'[r] = "filter"
  <2> HIDE DEF done
  <2> QED
    BY <1>0, <1>1 DEF SlotTypes, IsFunction
<1>3. ASSUME Completing(r)'
      PROVE  /\ todo'[r] \in HomeRests
             /\ Progress(StageOf(todo'[r]), at'[r], left'[r], kept'[r], c, q)
  <2>1. Completing(r)
    BY <1>1, <1>3 DEF Completing, world
  <2>2. /\ todo'[r] \in HomeRests /\ StageOf(todo'[r]) = t
        /\ Progress(t, "change", xs, ys, c, q)
        /\ xs \in Seq(Hub) /\ ys \in Seq(Hub) /\ q.raw \in Seq(Hub) /\ x \in Hub
        /\ Head(left[r]) = x /\ q.count \in Nat
    BY <1>1, <2>1, AtWork
  <2>3. t \in Sifting \cup {"interleave", "userState", "key", "shape"}
    BY <1>1, <2>1, AtWork DEF Turns, Sifting
  <2>4. x \in Rooted(q) /\ Each(ys, Rooted(q))
    BY <1>1, <2>2, TailKinds DEF Progress, Passed
  <2>5. done = IF t = "interleave" THEN Merged(ys, x) ELSE Append(ys, y)
    BY <2>2, Zenon
  <2> HIDE DEF done
  <2>6. CASE t \in Sifting
    <3>1. /\ y \in Hub /\ y \in Rooted(q)
          /\ \A u : y \in Mine(c, u) <=> x \in Mine(c, u)
          /\ \A u, i : y \in Offering(c, u, i) <=> x \in Offering(c, u, i)
          /\ x \in FullRows(c) => y \in FullRows(c)
          /\ x \in VisibleRows(c) => y \in VisibleRows(c)
          /\ x \in SharedRows(c) => y \in SharedRows(c)
          /\ t = "watched" => y \in Trimmed(c)
      <4>1. CASE t = "watched"
        <5>1. /\ y \in Hub /\ y.title = x.title /\ y.continues = x.continues
              /\ y.of = x.of /\ y.malformed = x.malformed /\ y.size = x.size
              /\ ElementsOf(y.items) = Offered(c, x)
          BY <1>1, <2>1, <2>2, <4>1, WatchedSifts
        <5> HIDE DEF y, x, c, q
        <5>2. x \in Hub /\ x \in Rooted(q)
          BY <2>2, <2>4
        <5> QED
          BY <5>1, <5>2, SiftedAlike, SameRoot
      <4>2. CASE t # "watched"
        <5>1. y = x
          BY <2>6, <4>2 DEF Changed, Sifting
        <5> HIDE DEF y, x, c, q
        <5> QED
          BY <2>2, <2>4, <4>2, <5>1
      <4> QED
        BY <4>1, <4>2
    <3>2. done = Append(ys, y)
      BY <2>5, <2>6 DEF Sifting
    <3> HIDE DEF y, c, q
    <3>3. Progress(t, "filter", Tail(xs), Append(ys, y), c, q)
      BY <1>1, <2>2, <2>6, <3>1, ProgressSifts
    <3> QED
      BY <1>2, <2>2, <3>2, <3>3
  <2>7. CASE t = "interleave"
    <3>1. MergesInto(ys, x, Merged(ys, x)) /\ Each(Merged(ys, x), Rooted(q))
      BY <2>1, <2>2, <2>4, MergedGathers DEF Completing
    <3>2. Progress(t, "filter", Tail(xs), Merged(ys, x), c, q)
      BY <1>1, <2>2, <2>7, <3>1, ProgressMerges
    <3> QED
      BY <1>2, <2>2, <2>5, <2>7, <3>2
  <2>8. CASE t \in {"userState", "key", "shape"}
    <3>1. /\ y \in Hub /\ y.title = x.title /\ y.continues = x.continues
          /\ \A u, i : (t = "shape" => y \in ShortFor(q, u)) => (y \in Showing(u, i) <=> x \in Showing(u, i))
      BY <2>2, <2>8, LaterAlike
    <3>2. done = Append(ys, y)
      BY <2>5, <2>8
    <3> HIDE DEF y, c, q, t
    <3>3. y \in Rooted(q) /\ (x \in Lasting(q) => y \in Lasting(q))
      BY <2>2, <2>4, <3>1, SameRoot
    <3>4. Progress(t, "filter", Tail(xs), Append(ys, y), c, q)
      BY <1>1, <2>2, <2>8, <3>1, <3>3, ProgressShows
    <3> QED
      BY <1>2, <2>2, <3>2, <3>4
  <2> QED
    BY <2>3, <2>6, <2>7, <2>8
<1> QED
  BY <1>1, <1>3, ProgressStep

LEMMA FinishProgress ==
    ASSUME CompleteInv, NEW r \in Requests, FinishTransform(r)
    PROVE  ProgressInv(r)'
<1>0. SlotTypes /\ SharingInv(r) /\ at[r] \in {"filter", "change"}
  BY DEF CompleteInv, SharedInv, TypeInv, SlotTypes
<1>1. /\ todo[r] # <<>> /\ left[r] = <<>> /\ UNCHANGED <<world, req, snap, at, failed>>
      /\ todo' = [todo EXCEPT ![r] = Tail(todo[r])]
      /\ left' = [left EXCEPT ![r] = kept[r]] /\ kept' = [kept EXCEPT ![r] = <<>>]
  BY DEF FinishTransform, Busy
<1>2. todo'[r] = Tail(todo[r]) /\ left'[r] = kept[r] /\ kept'[r] = <<>> /\ at'[r] = "filter"
  BY <1>0, <1>1 DEF SlotTypes, IsFunction, SharingInv
<1>3. ASSUME Completing(r)'
      PROVE  /\ todo'[r] \in HomeRests
             /\ Progress(StageOf(todo'[r]), at'[r], left'[r], kept'[r], Terms(r), req[r])
  <2>1. Completing(r)
    BY <1>1, <1>3 DEF Completing, world
  <2>2. /\ Tail(todo[r]) \in HomeRests
        /\ <<Head(todo[r]), StageOf(Tail(todo[r]))>> \in Turns
        /\ Progress(Head(todo[r]), "filter", <<>>, kept[r], Terms(r), req[r])
    BY <1>1, <1>2, <2>1, AtWork
  <2>3. Progress(StageOf(Tail(todo[r])), "filter", kept[r], <<>>, Terms(r), req[r])
    BY <2>2, ProgressTurns
  <2> QED
    BY <1>2, <2>2, <2>3
<1> QED
  BY <1>1, <1>3, ProgressStep

\* What was looked up is remembered, and is what there is.
LEMMA AnsweredCurrent ==
    ASSUME CompleteInv, NEW r \in Requests, Answered(r), UNCHANGED world
    PROVE  MetaCurrent' /\ Current(r)'
<1>0. /\ MetaCurrent /\ MetaTypes /\ Current(r) /\ TypeInv /\ req[r].account \in Accounts
      /\ UNCHANGED <<labels, shared, changes>>
  BY DEF CompleteInv, SharedInv, TypeInv, SlotTypes, Request, world
<1>1. seen'[r] = NotYet
  BY <1>0, AnsweredTypes
<1> DEFINE a == req[r].account
           name == Wanted(r)
           value == seen[r].value
<1>2. \/ meta' = meta
      \/ seen[r] \notin {NotYet, Failed} /\ meta' = [meta EXCEPT ![a][name] = value]
  BY DEF Answered, ScopeOf
<1>3. changes = 0 /\ seen[r] \notin {NotYet, Failed} => value = AtPlex(a, name)
  BY <1>0 DEF Current
<1> HIDE DEF a, name, value
<1>4. ASSUME NEW b \in Accounts, NEW n \in Names
      PROVE  \/ meta'[b][n] = meta[b][n]
             \/ b = a /\ n = name /\ seen[r] \notin {NotYet, Failed} /\ meta'[b][n] = value
  BY <1>0, <1>2 DEF MetaTypes
<1>5. \A b, n : AtPlex(b, n)' = AtPlex(b, n)
  BY <1>0 DEF AtPlex
<1>6. MetaCurrent'
  BY <1>0, <1>3, <1>4, <1>5 DEF MetaCurrent
<1> QED
  BY <1>1, <1>6 DEF Current

\* A lookup leaves the rows alone, and merging takes them in at once.
LEMMA LookProgress ==
    ASSUME CompleteInv, NEW r \in Requests, Look(r)
    PROVE  MetaCurrent' /\ Current(r)' /\ ProgressInv(r)'
<1>0. /\ SlotTypes /\ MetaCurrent /\ WorkTypes(r) /\ req[r].account \in Accounts
      /\ req[r].ids \in Seq(Collections) /\ req[r] \in Request
  BY DEF CompleteInv, SharedInv, TypeInv, SlotTypes, Request
<1>1. UNCHANGED <<world, meta, req, snap, todo, left, kept, at>>
  BY DEF Look
<1>2. UNCHANGED <<labels, shared, changes, config>> /\ req'[r] = req[r]
  BY <1>1 DEF world
<1>3. Wanted(r)' = Wanted(r)
  BY <1>1, <1>2, SameWanted
<1>4. \A b, n : AtPlex(b, n)' = AtPlex(b, n)
  BY <1>2 DEF AtPlex
<1>5. MetaCurrent'
  BY <1>0, <1>1, <1>2, <1>4 DEF MetaCurrent
<1>6. ASSUME changes = 0, seen'[r] \notin {NotYet, Failed}
      PROVE  seen'[r].value = AtPlex(req[r].account, Wanted(r))
  <2> DEFINE a == req[r].account
             name == Wanted(r)
             had == meta[a][name]
             there == AtPlex(a, name)
  <2>1. \/ had # Nothing /\ seen' = [seen EXCEPT ![r] = [value |-> had, fresh |-> FALSE]]
        \/ seen' = [seen EXCEPT ![r] = [value |-> there, fresh |-> TRUE]]
        \/ seen' = [seen EXCEPT ![r] = Failed]
    BY DEF Look, ScopeOf
  <2>2. name \in Names
    <3>1. name # NoName
      BY DEF Look
    <3> QED
      BY <1>0, <3>1, WantedName
  <2>3. had \in {Nothing, there}
    BY <1>0, <1>6, <2>2 DEF MetaCurrent
  <2> HIDE DEF had, there, name, a
  <2>4. \/ had # Nothing /\ seen'[r].value = had
        \/ seen'[r].value = there
        \/ seen'[r] = Failed
    BY <1>0, <2>1 DEF SlotTypes
  <2> QED
    BY <1>6, <2>3, <2>4 DEF there, a, name
<1>7. Current(r)'
  BY <1>2, <1>3, <1>4, <1>6 DEF Current
<1>8. ASSUME Completing(r)'
      PROVE  /\ todo'[r] \in HomeRests
             /\ Progress(StageOf(todo'[r]), at'[r], left'[r], kept'[r], Terms(r), req[r])
  <2>1. failed' = failed \/ failed' = [failed EXCEPT ![r] = TRUE]
    BY DEF Look
  <2>2. ~failed[r]
    BY <1>0, <1>8, <2>1 DEF Completing, SlotTypes
  <2>3. Completing(r)
    BY <1>2, <1>8, <2>2 DEF Completing
  <2> QED
    BY <1>1, <2>3 DEF CompleteInv, ProgressInv
<1>9. ProgressInv(r)'
  BY <1>1, <1>8, ProgressStep
<1> QED
  BY <1>5, <1>7, <1>9

LEMMA MixProgress ==
    ASSUME CompleteInv, NEW r \in Requests, MixCollection(r)
    PROVE  ProgressInv(r)'
<1>0. SlotTypes /\ WorkTypes(r)
  BY DEF CompleteInv, SharedInv, TypeInv
<1>1. Head(todo[r]) = "library" /\ todo[r] # <<>> /\ req' = req
  BY DEF MixCollection, Busy
<1>2. req'[r].kind = "children"
  BY <1>0, <1>1, WorkFacts DEF Children
<1> QED
  BY <1>2 DEF ProgressInv, Completing

-----------------------------------------------------------------------------
\* A request begins: of a home screen, with the rows of Plex.
LEMMA BeginProgress ==
    ASSUME CompleteInv, NEW r \in Requests, todo[r] = <<>>, NEW request, NEW chain, NEW children,
           Begin(r, request, chain, children),
           \/ request.kind # "home"
           \/ /\ request.raw \in Seq(Hub) /\ children = request.raw
              /\ ~request.skips => chain = HomeChain(FALSE)
    PROVE  MetaCurrent' /\ Current(r)' /\ ProgressInv(r)'
<1>0. SlotTypes /\ LookupTypes(r) /\ MetaCurrent
  BY DEF CompleteInv, SharedInv, TypeInv
<1>1. /\ UNCHANGED world /\ UNCHANGED meta /\ UNCHANGED seen
      /\ req' = [req EXCEPT ![r] = request] /\ todo' = [todo EXCEPT ![r] = chain]
      /\ left' = [left EXCEPT ![r] = children] /\ kept' = [kept EXCEPT ![r] = <<>>]
      /\ at' = [at EXCEPT ![r] = "filter"]
  BY DEF Begin
<1>2. /\ req'[r] = request /\ todo'[r] = chain /\ left'[r] = children /\ kept'[r] = <<>>
      /\ at'[r] = "filter"
  BY <1>0, <1>1 DEF SlotTypes, IsFunction
<1>3. seen'[r] = NotYet
  BY <1>0, <1>1 DEF LookupTypes, Wanted
<1>4. MetaCurrent'
  <2>1. UNCHANGED <<labels, shared, changes>>
    BY <1>1 DEF world
  <2>2. \A b, n : AtPlex(b, n)' = AtPlex(b, n)
    BY <2>1 DEF AtPlex
  <2> QED
    BY <1>0, <1>1, <2>1, <2>2 DEF MetaCurrent
<1>5. ASSUME Completing(r)'
      PROVE  /\ todo'[r] \in HomeRests
             /\ Progress(StageOf(todo'[r]), at'[r], left'[r], kept'[r], Terms(r)', req'[r])
  <2>1. chain = HomeChain(FALSE) /\ request.raw \in Seq(Hub) /\ children = request.raw
    BY <1>2, <1>5 DEF Completing
  <2>2. chain \in HomeRests /\ StageOf(chain) = "visibility"
    BY <2>1 DEF HomeChain, HomeRests, StageOf
  <2>3. Progress("visibility", "filter", request.raw, <<>>, Terms(r)', request)
    BY <2>1, ProgressBegins
  <2> QED
    BY <1>2, <2>1, <2>2, <2>3
<1> QED
  BY <1>3, <1>4, <1>5 DEF Current, ProgressInv

\* A home screen that is asked for begins with the rows of Plex.
LEMMA AskProgress ==
    ASSUME CompleteInv, NEW r \in Requests, AskHome(r) \/ AskPage(r) \/ Refresh(r)
    PROVE  MetaCurrent' /\ Current(r)' /\ ProgressInv(r)'
<1>1. CASE AskHome(r)
  <2>1. PICK c \in Clients :
            Begin(r, HomeOf(NoRequest, c, HomeRows[c.account]), HomeChain(c.skips),
                  HomeRows[c.account])
    BY <1>1 DEF AskHome, HomeOf
  <2>2. c \in Client /\ HomeRows[c.account] \in Seq(Hub) /\ c.skips \in BOOLEAN
    BY WorldAssumption DEF Client
  <2> DEFINE request == HomeOf(NoRequest, c, HomeRows[c.account])
  <2>3. request.raw = HomeRows[c.account] /\ request.skips = c.skips
    BY <2>2, BlankType, HomeRecord
  <2>4. todo[r] = <<>> /\ Begin(r, request, HomeChain(c.skips), HomeRows[c.account])
    BY <1>1, <2>1 DEF AskHome, Idle
  <2> HIDE DEF request
  <2>5. ~request.skips => HomeChain(c.skips) = HomeChain(FALSE)
    BY <2>2, <2>3
  <2> QED
    BY <2>2, <2>3, <2>4, <2>5, BeginProgress
<1>2. CASE AskPage(r)
  <2>1. PICK a \in Accounts, page \in Pages :
            Begin(r, PageOn(NoRequest, a, RawItems(page)), PolicyChain, RawItems(page))
    BY <1>2 DEF AskPage, PageOn
  <2>2. RawItems(page) \in Seq(Item)
    BY RawPage
  <2> DEFINE request == PageOn(NoRequest, a, RawItems(page))
  <2>3. request.kind = "page"
    BY <2>2, BlankType, PageRecord
  <2>4. todo[r] = <<>> /\ Begin(r, request, PolicyChain, RawItems(page))
    BY <1>2, <2>1 DEF AskPage, Idle
  <2> HIDE DEF request
  <2> QED
    BY <2>3, <2>4, BeginProgress
<1>3. CASE Refresh(r)
  <2>1. todo[r] = <<>> /\ req[r] \in Request
    BY <1>3 DEF Refresh, Idle, CompleteInv, SharedInv, TypeInv, SlotTypes
  <2>2. PICK row \in {left[r][n] : n \in 1..Len(left[r])} : AskChildren(r, row) \/ AskDefault(r, row)
    BY <1>3 DEF Refresh
  <2>3. CASE AskChildren(r, row)
    <3>1. PICK start \in Starts :
              Begin(r, ChildrenOf(req[r], row.key, start, row.items), ChildrenChain, Stub(row.key))
      BY <2>3 DEF AskChildren, ChildrenOf
    <3> DEFINE request == ChildrenOf(req[r], row.key, start, row.items)
    <3>2. request.kind = "children"
      BY <2>1 DEF Request, ChildrenOf
    <3>3. Begin(r, request, ChildrenChain, Stub(row.key))
      BY <3>1
    <3> HIDE DEF request
    <3> QED
      BY <2>1, <3>2, <3>3, BeginProgress
  <2>4. CASE AskDefault(r, row)
    <3>1. PICK raw \in {req[r].raw[k] : k \in 1..Len(req[r].raw)} :
              Begin(r, DefaultOf(req[r], row.items), DefaultChain, raw.items)
      BY <2>4 DEF AskDefault, DefaultOf
    <3> DEFINE request == DefaultOf(req[r], row.items)
    <3>2. request.kind = "default"
      BY <2>1 DEF Request, DefaultOf
    <3>3. Begin(r, request, DefaultChain, raw.items)
      BY <3>1
    <3> HIDE DEF request
    <3> QED
      BY <2>1, <3>2, <3>3, BeginProgress
  <2> QED
    BY <2>2, <2>3, <2>4
<1> QED
  BY <1>1, <1>2, <1>3

\* What is known of a request that nobody touches lasts.
LEMMA ProgressLasts ==
    ASSUME NEW r, UNCHANGED world, Current(r), ProgressInv(r),
           req'[r] = req[r], todo'[r] = todo[r], left'[r] = left[r], kept'[r] = kept[r],
           at'[r] = at[r], seen'[r] = seen[r], failed'[r] = failed[r], snap'[r] = snap[r]
    PROVE  Current(r)' /\ ProgressInv(r)'
<1>1. UNCHANGED <<labels, shared, changes, config>>
  BY DEF world
<1>2. Wanted(r)' = Wanted(r)
  BY <1>1, SameWanted
<1>3. AtPlex(req[r].account, Wanted(r))' = AtPlex(req[r].account, Wanted(r))
  BY <1>1, <1>2 DEF AtPlex
<1>4. Current(r)'
  BY <1>1, <1>3 DEF Current
<1>5. Terms(r)' = Terms(r) /\ (Completing(r)' <=> Completing(r))
  BY <1>1 DEF Terms, Completing
<1>6. ProgressInv(r)'
  BY <1>5 DEF ProgressInv
<1> QED
  BY <1>4, <1>6

\* What a step of a request leaves as it is at Plex.
LEMMA WorldStays ==
    ASSUME TypeInv, NEW r \in Requests, RequestStep(r)
    PROVE  UNCHANGED world /\ \A q \in Requests \ {r} : snap'[q] = snap[q]
<1>0. SlotTypes
  BY DEF TypeInv
<1>1. UNCHANGED world
  <2>1. ASSUME NEW request, NEW chain, NEW children, Begin(r, request, chain, children)
        PROVE  UNCHANGED world
    BY <2>1 DEF Begin
  <2>2. AskHome(r) \/ AskPage(r) \/ Refresh(r) => UNCHANGED world
    BY <2>1 DEF AskHome, AskPage, Refresh, AskChildren, AskDefault
  <2> QED
    BY <2>2 DEF RequestStep, Look, FilterChild, ChangeChild, MixCollection, FinishTransform
<1>2. snap' = snap \/ \E who : snap' = [snap EXCEPT ![r] = who]
  <2>1. Identify(r) => \E who : snap' = [snap EXCEPT ![r] = who]
    BY Zenon DEF Identify
  <2> QED
    BY <2>1 DEF RequestStep, AskHome, AskPage, Refresh, Look, FilterChild, ChangeChild, MixCollection,
           FinishTransform
<1> QED
  BY <1>0, <1>1, <1>2 DEF SlotTypes

LEMMA RequestStepProgress ==
    ASSUME CompleteInv, NEW r \in Requests, RequestStep(r)
    PROVE  CompleteInv'
<1>0. TypeInv /\ SharedInv /\ SharedInv' /\ UNCHANGED world
  BY RequestStepShares, WorldStays DEF CompleteInv, SharedInv
<1>1. MetaCurrent' /\ Current(r)' /\ ProgressInv(r)'
  <2>1. CASE AskHome(r) \/ AskPage(r) \/ Refresh(r)
    BY <2>1, AskProgress
  <2>2. CASE Look(r)
    BY <2>2, LookProgress
  <2>3. CASE FilterChild(r)
    BY <1>0, <2>3, FilterProgress, AnsweredCurrent DEF FilterChild
  <2>4. CASE ChangeChild(r)
    BY <1>0, <2>4, ChangeProgress, AnsweredCurrent DEF ChangeChild
  <2>5. CASE MixCollection(r)
    BY <1>0, <2>5, MixProgress, AnsweredCurrent DEF MixCollection
  <2>6. CASE FinishTransform(r)
    BY <1>0, <2>6, FinishProgress, AnsweredCurrent DEF FinishTransform
  <2> QED
    BY <2>1, <2>2, <2>3, <2>4, <2>5, <2>6 DEF RequestStep
<1>2. ASSUME NEW q \in Requests \ {r}
      PROVE  Current(q)' /\ ProgressInv(q)'
  <2>1. /\ req'[q] = req[q] /\ todo'[q] = todo[q] /\ left'[q] = left[q] /\ kept'[q] = kept[q]
        /\ at'[q] = at[q] /\ seen'[q] = seen[q] /\ failed'[q] = failed[q]
    BY <1>0, OthersStay
  <2>2. snap'[q] = snap[q]
    BY <1>0, WorldStays
  <2>3. Current(q) /\ ProgressInv(q)
    BY DEF CompleteInv
  <2> QED
    BY <1>0, <2>1, <2>2, <2>3, ProgressLasts
<1> QED
  BY <1>0, <1>1, <1>2 DEF CompleteInv

\* Every step keeps the invariant, and so every reachable state has it.
LEMMA NextProgress == CompleteInv /\ [Next]_vars => CompleteInv'
<1> SUFFICES ASSUME CompleteInv, [Next]_vars PROVE CompleteInv'
  OBVIOUS
<1>0. SharedInv /\ SharedInv' /\ changes \in Nat
  <2>1. SharedInv /\ SharedInv'
    BY NextShares DEF CompleteInv
  <2> QED
    BY <2>1, WorldAssumption DEF SharedInv, TypeInv, WorldTypes
<1>1. ASSUME NEW r \in Requests, RequestStep(r)
      PROVE  CompleteInv'
  BY <1>1, RequestStepProgress
<1>2. ASSUME changes' = changes + 1
      PROVE  CompleteInv'
  <2>1. changes' # 0
    BY <1>0, <1>2
  <2> QED
    BY <1>0, <2>1 DEF CompleteInv, MetaCurrent, Current, ProgressInv, Completing
<1>3. CASE UNCHANGED vars
  <2>1. UNCHANGED world /\ UNCHANGED slots /\ UNCHANGED meta
    BY <1>3 DEF vars
  <2>2. ASSUME NEW r \in Requests
        PROVE  Current(r)' /\ ProgressInv(r)'
    <3>1. Current(r) /\ ProgressInv(r)
      BY DEF CompleteInv
    <3> QED
      BY <2>1, <3>1, ProgressLasts DEF slots
  <2>3. MetaCurrent'
    BY <2>1 DEF world, CompleteInv, MetaCurrent, AtPlex
  <2> QED
    BY <1>0, <2>2, <2>3 DEF CompleteInv
<1>4. ASSUME NEW c \in Collections, Relabel(c) \/ \E a \in Accounts : Share(a, c)
      PROVE  CompleteInv'
  BY <1>2, <1>4 DEF Relabel, Share
<1>5. CASE Reload
  BY <1>2, <1>5 DEF Reload
<1>6. ASSUME NEW a \in Accounts, NEW name \in Names, Forget(a, name)
      PROVE  CompleteInv'
  BY <1>2, <1>6 DEF Forget
<1> QED
  BY <1>1, <1>3, <1>4, <1>5, <1>6 DEF Next

LEMMA InitProgress == Init => CompleteInv
<1> SUFFICES ASSUME Init PROVE CompleteInv
  OBVIOUS
<1>1. SharedInv /\ TypeInv
  BY InitShares, InitTypes
<1>2. MetaCurrent
  BY DEF Init, MetaCurrent
<1>3. ASSUME NEW r \in Requests
      PROVE  Current(r) /\ ProgressInv(r)
  BY BlankType DEF Init, Current, ProgressInv, Completing
<1> QED
  BY <1>1, <1>2, <1>3 DEF CompleteInv

LEMMA ProgressHolds == Spec => []CompleteInv
BY InitProgress, NextProgress, PTL DEF Spec

-----------------------------------------------------------------------------
\* The ids of items, and what a row is expected to show.
LEMMA IdsOfItems ==
    ASSUME NEW items \in Seq(Item), NEW i
    PROVE  /\ i \in ElementsOf(IdsOf(items)) <=> \E e \in ElementsOf(items) : e.id = i
           /\ i \in ElementsOf(IdsOf(items)) => i \in Items
<1>0. Len(items) \in Nat /\ \A n \in 1..Len(items) : items[n] \in Item
  BY LenProperties, ElementOfSeq
<1>1. Len(IdsOf(items)) = Len(items) /\ \A n \in 1..Len(items) : IdsOf(items)[n] = items[n].id
  BY <1>0 DEF IdsOf
<1>2. i \in ElementsOf(IdsOf(items)) <=> \E n \in 1..Len(items) : items[n].id = i
  BY <1>1 DEF ElementsOf
<1>3. (\E e \in ElementsOf(items) : e.id = i) <=> \E n \in 1..Len(items) : items[n].id = i
  BY DEF ElementsOf
<1>4. \A n \in 1..Len(items) : items[n].id \in Items
  BY <1>0, ItemFacts
<1> QED
  BY <1>2, <1>3, <1>4

LEMMA ExpectedOffers ==
    ASSUME NEW r, NEW x \in Hub
    PROVE  Expected(x) \in Seq(Item) /\ ElementsOf(Expected(x)) = Offered(Terms(r), x)
<1>1. /\ x.items \in Seq(Item) /\ Unwatched(x.items) \in Seq(Item)
      /\ ElementsOf(Unwatched(x.items)) = {e \in ElementsOf(x.items) : ~IsWatched(e)}
  BY HubFacts, UnwatchedFacts
<1>2. Terms(r).excludes = config.excludeWatched /\ Terms(r).labels = labels
  BY DEF Terms
<1> HIDE DEF Terms
<1> QED
  BY <1>1, <1>2, Zenon DEF Expected, Excludes, Offered

\* The items rows show under a title.
LEMMA ItemsShownFacts ==
    ASSUME NEW s \in Seq(Hub), NEW t, NEW i
    PROVE  /\ i \in ItemsShown(s, t) <=> Some(s, Showing(t, i))
           /\ i \in ItemsShown(s, t) => i \in Items
<1>0. \A n \in 1..Len(s) : s[n] \in Hub /\ s[n].items \in Seq(Item)
  BY ElementOfSeq, HubFacts
<1>1. i \in ItemsShown(s, t) <=> \E n \in Titled(s, t) : i \in ElementsOf(IdsOf(s[n].items))
  BY DEF ItemsShown
<1>2. ASSUME NEW n \in 1..Len(s)
      PROVE  /\ s[n] \in Showing(t, i) <=> n \in Titled(s, t) /\ i \in ElementsOf(IdsOf(s[n].items))
             /\ i \in ElementsOf(IdsOf(s[n].items)) => i \in Items
  BY <1>0, IdsOfItems DEF Showing, RowsTitled, Titled
<1>3. Titled(s, t) \subseteq 1..Len(s)
  BY DEF Titled
<1> QED
  BY <1>1, <1>2, <1>3 DEF Some

\* The rows that stay are those that are merged and that the client does not drop.
LEMMA StayingFacts ==
    ASSUME NEW r, NEW t, NEW x \in Hub, x.title = t
    PROVE  Stays(r, x) <=> x \in Mine(Terms(r), t) /\ x \in Lasting(req[r])
<1>1. /\ Terms(r).who = snap[r] /\ Terms(r).lists = shared[req[r].account]
      /\ Terms(r).restricts = config.hubRestrictions
  BY DEF Terms
<1> HIDE DEF Terms
<1> QED
  BY <1>1 DEF Stays, Mine, Lasting, RowsTitled, VisibleRows, SharedRows

\* The rows of Plex under a plain title, when the client drops none of them.
LEMMA PlainLeads ==
    ASSUME NEW r, NEW t, req[r].raw \in Seq(Hub), Plain(r, t), Each(req[r].raw, LastingFor(req[r], t))
    PROVE  /\ \A n \in 1..Len(req[r].raw) : n \in StayingRows(r, t) <=> req[r].raw[n] \in Mine(Terms(r), t)
           /\ Leads(req[r].raw, Mine(Terms(r), t), FullRows(Terms(r)))
<1> DEFINE raw == req[r].raw
           c == Terms(r)
<1>0. Len(raw) \in Nat /\ \A n \in 1..Len(raw) : raw[n] \in Hub
  BY LenProperties, ElementOfSeq
<1>1. ASSUME NEW n \in 1..Len(raw)
      PROVE  n \in StayingRows(r, t) <=> raw[n] \in Mine(c, t)
  <2>1. raw[n] \in Mine(c, t) => raw[n].title = t
    BY DEF Mine, RowsTitled
  <2>2. raw[n].title = t => raw[n] \in Lasting(req[r])
    BY <1>0 DEF Each, LastingFor
  <2>3. n \in StayingRows(r, t) <=> raw[n].title = t /\ Stays(r, raw[n])
    BY DEF StayingRows, Titled
  <2> QED
    BY <1>0, <2>1, <2>2, <2>3, StayingFacts
<1>2. StayingRows(r, t) \subseteq 1..Len(raw)
  BY DEF StayingRows, Titled
<1>3. ASSUME NEW n \in 1..Len(raw), raw[n] \in Mine(c, t),
             \A k \in 1..(n - 1) : raw[k] \notin Mine(c, t)
      PROVE  raw[n] \in FullRows(c)
  <2>1. n \in StayingRows(r, t)
    BY <1>1, <1>3
  <2>2. ASSUME NEW k \in StayingRows(r, t)
        PROVE  n <= k
    <3>1. k \in 1..Len(raw) /\ raw[k] \in Mine(c, t)
      BY <1>1, <1>2
    <3>2. k \notin 1..(n - 1)
      BY <1>3, <3>1
    <3> QED
      BY <1>0, <3>1, <3>2
  <2>3. Expected(raw[n]) # <<>>
    BY <2>1, <2>2 DEF Plain
  <2>4. Expected(raw[n]) \in Seq(Item) /\ ElementsOf(Expected(raw[n])) = Offered(c, raw[n])
    BY <1>0, ExpectedOffers
  <2>5. Len(Expected(raw[n])) \in Nat \ {0}
    BY <2>3, <2>4, LenProperties, EmptySeq
  <2>6. Expected(raw[n])[1] \in ElementsOf(Expected(raw[n]))
    BY <2>5 DEF ElementsOf
  <2> QED
    BY <1>0, <2>4, <2>6 DEF FullRows
<1> QED
  BY <1>1, <1>3 DEF Leads

\* A home screen that is done shows under such a title what is expected.
LEMMA PlainShows ==
    ASSUME CompleteInv, NEW r \in Requests, Completing(r), todo[r] = <<>>, NEW t \in Titles,
           Plain(r, t), Each(req[r].raw, LastingFor(req[r], t)), NEW i
    PROVE  i \in ItemsShown(left[r], t) <=>
               \E n \in StayingRows(r, t) : i \in ElementsOf(IdsOf(Expected(req[r].raw[n])))
<1> DEFINE raw == req[r].raw
           c == Terms(r)
<1>0. left[r] \in Seq(Hub) /\ raw \in Seq(Hub) /\ Len(left[r]) \in Nat
  BY HomeWork, LenProperties DEF CompleteInv, SharedInv, Completing, Home
<1>1. \A n \in 1..Len(raw) : raw[n] \in Hub
  BY <1>0, ElementOfSeq
<1>2. Progress("done", at[r], left[r], kept[r], c, req[r])
  BY DEF CompleteInv, ProgressInv, StageOf
<1>3. kept[r] = <<>>
  BY <1>2 DEF Progress, Passed
<1>4. /\ \A n \in 1..Len(raw) : n \in StayingRows(r, t) <=> raw[n] \in Mine(c, t)
      /\ Leads(raw, Mine(c, t), FullRows(c))
  BY <1>0, PlainLeads
<1>5. Each(left[r], ShortFor(req[r], t))
  <2> SUFFICES ASSUME NEW n \in 1..Len(left[r]) PROVE left[r][n] \in ShortFor(req[r], t)
    BY DEF Each
  <2>1. left[r][n] \in Hub
    BY <1>0, ElementOfSeq
  <2>2. left[r][n].title = t => Len(left[r][n].items) < req[r].count
    BY DEF Plain, Titled
  <2> QED
    BY <2>1, <2>2 DEF ShortFor
<1>6. Uncut("done", left[r], kept[r], req[r], t)
  BY <1>5 DEF Uncut
<1>7. ASSUME i \in Items
      PROVE  Some(left[r], Showing(t, i)) <=> Some(raw, Offering(c, t, i))
  <2>1. Undiminished("done", left[r], kept[r], c, req[r], t, i)
    BY <1>2, <1>4, <1>6, <1>7 DEF Progress, Gathered
  <2>2. ~Some(kept[r], Showing(t, i))
    BY <1>3, EmptyKinds
  <2> QED
    BY <2>1, <2>2 DEF Undiminished, Sifting
<1>8. ASSUME NEW n \in 1..Len(raw)
      PROVE  /\ raw[n] \in Offering(c, t, i) <=>
                    n \in StayingRows(r, t) /\ i \in ElementsOf(IdsOf(Expected(raw[n])))
             /\ i \in ElementsOf(IdsOf(Expected(raw[n]))) => i \in Items
  <2>1. Expected(raw[n]) \in Seq(Item) /\ ElementsOf(Expected(raw[n])) = Offered(c, raw[n])
    BY <1>1, ExpectedOffers
  <2>2. raw[n] \in Offering(c, t, i) <=>
            raw[n] \in Mine(c, t) /\ \E e \in Offered(c, raw[n]) : e.id = i
    BY <1>1 DEF Offering
  <2> QED
    BY <1>4, <2>1, <2>2, IdsOfItems
<1>9. StayingRows(r, t) \subseteq 1..Len(raw)
  BY DEF StayingRows, Titled
<1>10. Some(raw, Offering(c, t, i)) <=>
           \E n \in StayingRows(r, t) : i \in ElementsOf(IdsOf(Expected(raw[n])))
  BY <1>8, <1>9 DEF Some
<1>11. /\ i \in ItemsShown(left[r], t) <=> Some(left[r], Showing(t, i))
       /\ i \in ItemsShown(left[r], t) => i \in Items
  BY <1>0, ItemsShownFacts
<1>12. (\E n \in StayingRows(r, t) : i \in ElementsOf(IdsOf(Expected(raw[n])))) => i \in Items
  BY <1>8, <1>9
<1> QED
  BY <1>7, <1>10, <1>11, <1>12

\* A title the client drops a row of is dropped as a whole.
LEMMA PlainDrops ==
    ASSUME CompleteInv, NEW r \in Requests, Completing(r), todo[r] = <<>>, NEW t \in Titles,
           Plain(r, t), ~Each(req[r].raw, LastingFor(req[r], t))
    PROVE  Titled(left[r], t) = {} /\ StayingRows(r, t) = {}
<1> DEFINE raw == req[r].raw
<1>0. left[r] \in Seq(Hub) /\ raw \in Seq(Hub)
  BY HomeWork DEF CompleteInv, SharedInv, Completing, Home
<1>1. PICK m \in 1..Len(raw) : raw[m] \notin LastingFor(req[r], t)
  BY DEF Each
<1>2. raw[m].title = t /\ req[r].noContinue /\ raw[m].continues
  <2>1. raw[m] \in Hub
    BY <1>0, ElementOfSeq
  <2> QED
    BY <1>1, <2>1 DEF LastingFor, Lasting
<1>3. \A n \in 1..Len(raw) : raw[n].title = t => raw[n].continues
  BY <1>1, <1>2 DEF Plain, Titled
<1>4. StayingRows(r, t) = {}
  BY <1>2, <1>3 DEF StayingRows, Titled, Stays
<1>5. ASSUME NEW n \in 1..Len(left[r]), left[r][n].title = t
      PROVE  FALSE
  <2>1. Progress("done", at[r], left[r], kept[r], Terms(r), req[r])
    BY DEF CompleteInv, ProgressInv, StageOf
  <2>2. Each(left[r], Lasting(req[r])) /\ Each(left[r], Rooted(req[r]))
    BY <2>1 DEF Progress, Passed, Behind
  <2>3. left[r][n] \in Lasting(req[r]) /\ left[r][n] \in Rooted(req[r])
    BY <2>2 DEF Each
  <2>4. PICK k \in 1..Len(raw) : raw[k].title = t /\ raw[k].continues = left[r][n].continues
    BY <1>5, <2>3 DEF Rooted
  <2> QED
    BY <1>2, <1>3, <2>3, <2>4 DEF Lasting
<1> QED
  BY <1>4, <1>5 DEF Titled

\* Whatever the rows of Plex, their titles and their order: once the six
\* transforms are done the rows under a plain title show every item that
\* nothing excludes, and no other.
THEOREM CompleteCorrect == Spec => []RowsComplete
<1>1. CompleteInv => RowsComplete
  <2> SUFFICES ASSUME CompleteInv, NEW r \in Requests, Done(r, "home"), ~req[r].skips, ~failed[r],
                      changes = 0, config.interleave, NEW t \in Titles, Plain(r, t)
               PROVE  ItemsShown(left[r], t) =
                          UNION {ElementsOf(IdsOf(Expected(req[r].raw[n]))) : n \in StayingRows(r, t)}
    BY DEF RowsComplete
  <2>1. Completing(r) /\ todo[r] = <<>>
    BY DEF Completing, Done, Idle
  <2>2. CASE Each(req[r].raw, LastingFor(req[r], t))
    <3>1. \A i : i \in ItemsShown(left[r], t) <=>
                     \E n \in StayingRows(r, t) : i \in ElementsOf(IdsOf(Expected(req[r].raw[n])))
      BY <2>1, <2>2, PlainShows
    <3> QED
      BY <3>1
  <2>3. CASE ~Each(req[r].raw, LastingFor(req[r], t))
    <3>1. Titled(left[r], t) = {} /\ StayingRows(r, t) = {}
      BY <2>1, <2>3, PlainDrops
    <3> QED
      BY <3>1 DEF ItemsShown
  <2> QED
    BY <2>2, <2>3
<1> QED
  BY <1>1, ProgressHolds, PTL

-----------------------------------------------------------------------------
(***************************************************************************)
(* What the refresh of a row brings: the collections of its key, each      *)
(* without what its label or the setting excludes, mixed one by one.       *)
(***************************************************************************)
Showable(c) ==
    IF config.excludeWatched \/ "watched" \in labels[c] THEN Unwatched(RawItems(Contents[c]))
    ELSE RawItems(Contents[c])

\* A collection that one page takes in.
Brief(c) ==
    /\ c \in Collections /\ Len(Contents[c]) <= PageSize
    /\ config.excludeWatched => Len(Contents[c]) <= MaxPage

\* f gives what is mixed of each beginning of the key.
Mixing(f, key) ==
    /\ f[0] = <<>>
    /\ \A n \in 1..Len(key) :
          Brief(key[n]) /\ f[n] \in Seq(Item) /\ f[n] = Interleaved(f[n - 1], Showable(key[n]))

Begins(a, b) == Len(a) <= Len(b) /\ \A n \in 1..Len(a) : a[n].id = b[n].id

(***************************************************************************)
(* Kinds of rows: with title and collection of a row of Plex, and, as they *)
(* come, are filtered, are merged and are shown.                           *)
(***************************************************************************)
KinOf(q) ==
    {x \in Hub : \E m \in 1..Len(q.raw) : q.raw[m].title = x.title /\ q.raw[m].of = x.of}

\* A key that names a row's collection and nothing else.
Named(x) ==
    x.key # NoKey => IF x.of = BuiltIn THEN x.key = <<>> ELSE x.key = <<x.of>> /\ Brief(x.of)

WholeKind ==
    {x \in Hub : Named(x) /\ (x.of # BuiltIn => ~x.malformed /\ x.items = RawItems(Contents[x.of]))}

SiftedKind == {x \in Hub : Named(x) /\ (x.of # BuiltIn => x.items = Showable(x.of))}

MixedKind ==
    {x \in Hub : x.key # NoKey =>
        IF x.of = BuiltIn THEN x.key = <<>>
        ELSE \E f : Mixing(f, x.key) /\ x.items \in {<<>>, f[Len(x.key)]}}

ShownKind ==
    {x \in Hub : x.key # NoKey =>
        IF x.of = BuiltIn THEN x.key = <<>>
        ELSE \E f : Mixing(f, x.key) /\ Begins(x.items, f[Len(x.key)])}

TheirKind == {x \in Hub : ~x.ours}

-----------------------------------------------------------------------------
(***************************************************************************)
(* The invariant: the rows of a home screen before and behind the          *)
(* transform at work, and the children of a refresh.  `q` is the request,  *)
(* `rest` the rest of the chain, `xs` and `ys` what is before and behind.  *)
(***************************************************************************)
Comparing(r) ==
    /\ changes = 0 /\ ~failed[r] /\ config.interleave
    /\ req[r].kind \in {"home", "children"} /\ WholeRows(req[r].raw)

MixedRows(stage, xs, ys, q) ==
    /\ Each(xs, KinOf(q)) /\ Each(ys, KinOf(q))
    /\ stage \in Sifting => Each(xs, WholeKind)
    /\ stage \in Sifting \ {"watched"} => Each(ys, WholeKind)
    /\ stage = "watched" => Each(ys, SiftedKind)
    /\ stage = "interleave" => Each(xs, SiftedKind) /\ Each(ys, MixedKind)
    /\ stage \in {"userState", "key", "shape", "done"} => Each(xs, ShownKind) /\ Each(ys, ShownKind)

HomeAgrees(q, rest, xs, ys) ==
    IF q.skips THEN rest \in {<<"visibility">>, <<>>} /\ Each(xs, TheirKind) /\ Each(ys, TheirKind)
    ELSE rest \in HomeRests /\ MixedRows(StageOf(rest), xs, ys, q)

\* While the collections are mixed: xs stands for those that are left.
Gathering(f, ids, xs, ys) ==
    /\ Len(xs) <= Len(ids) /\ ys = f[Len(ids) - Len(xs)]
    /\ \A n \in 1..Len(xs) : xs[n].of = ids[Len(ids) - Len(xs) + n]

\* After that: ys and xs together have the ids of what is mixed.
Runs(ys, xs, all) ==
    /\ Len(ys) + Len(xs) = Len(all)
    /\ \A n \in 1..Len(ys) : ys[n].id = all[n].id
    /\ \A n \in 1..Len(xs) : xs[n].id = all[Len(ys) + n].id

PageAgrees(q, f, rest, xs, ys) ==
    IF rest = ChildrenChain THEN Gathering(f, q.ids, xs, ys)
    ELSE Runs(ys, xs, f[Len(q.ids)]) /\ (rest = <<>> => ys = <<>>)

ChildrenAgree(q, rest, xs, ys) ==
    \E f : /\ Mixing(f, q.ids) /\ Begins(q.row, f[Len(q.ids)])
           /\ PageAgrees(q, f, rest, xs, ys)

Agreement(q, rest, xs, ys) ==
    /\ q.kind = "home" => HomeAgrees(q, rest, xs, ys)
    /\ q.kind = "children" /\ q.start = 0 => ChildrenAgree(q, rest, xs, ys)

AgreeingInv(r) == Comparing(r) => Agreement(req[r], todo[r], left[r], kept[r])

AgreeInv == CompleteInv /\ \A r \in Requests : AgreeingInv(r)

-----------------------------------------------------------------------------
\* Nothing mixed with a sequence is that sequence.
LEMMA InterleavedNone ==
    ASSUME NEW S, NEW b \in Seq(S)
    PROVE  Interleaved(<<>>, b) = b
<1>1. Len(b) \in Nat /\ b = [i \in 1..Len(b) |-> b[i]]
  BY LenProperties
<1>2. Smaller(0, Len(b)) = 0
  BY <1>1 DEF Smaller
<1> DEFINE n == Smaller(Len(<<>>), Len(b))
           e(i) == CASE i <= 2 * n /\ i % 2 = 1       -> <<>>[(i + 1) \div 2]
                     [] i <= 2 * n /\ i % 2 = 0       -> b[i \div 2]
                     [] i > 2 * n /\ Len(<<>>) > n    -> <<>>[i - n]
                     [] i > 2 * n /\ Len(<<>>) <= n   -> b[i - n]
<1>3. n = 0 /\ Len(<<>>) = 0
  BY <1>2
<1>4. Interleaved(<<>>, b) = [i \in 1..(Len(<<>>) + Len(b)) |-> e(i)]
  BY Zenon DEF Interleaved
<1>5. \A i \in 1..Len(b) : e(i) = b[i]
  BY <1>1, <1>3
<1>6. Len(<<>>) + Len(b) = Len(b)
  BY <1>1, <1>3
<1> HIDE DEF e
<1> QED
  BY <1>1, <1>4, <1>5, <1>6

\* What a collection shows, and the page of one that comes whole.
LEMMA ShowableItems ==
    ASSUME NEW c \in Collections
    PROVE  /\ Showable(c) \in Seq(Item) /\ RawItems(Contents[c]) \in Seq(Item)
           /\ Len(RawItems(Contents[c])) = Len(Contents[c]) /\ Contents[c] \in Seq(Items)
<1>1. Contents[c] \in Seq(Items)
  BY WorldAssumption
<1>2. RawItems(Contents[c]) \in Seq(Item) /\ Len(RawItems(Contents[c])) = Len(Contents[c])
  BY <1>1, RawItemsFacts
<1>3. Unwatched(RawItems(Contents[c])) \in Seq(Item)
  BY <1>2, UnwatchedFacts
<1> QED
  BY <1>1, <1>2, <1>3 DEF Showable

LEMMA WholePage ==
    ASSUME NEW r, NEW c, Brief(c), req[r].start = 0, NEW found, found.value = labels[c]
    PROVE  PageOf(r, c, found) = Showable(c)
<1> DEFINE all == Contents[c]
           from == req[r].start + 1
           to == Smaller(req[r].start + PageSize, Len(all))
           page == IF config.excludeWatched THEN FirstOf(all, MaxPage) ELSE SubSeq(all, from, to)
<1>1. /\ all \in Seq(Items) /\ Len(all) \in Nat /\ MaxPage \in Nat /\ PageSize \in Nat
      /\ Len(all) <= PageSize /\ (config.excludeWatched => Len(all) <= MaxPage)
  BY WorldAssumption, LenProperties DEF Brief
<1>2. SubSeq(all, 1, Len(all)) = all
  BY <1>1, SubSeqFull
<1>3. config.excludeWatched => FirstOf(all, MaxPage) = all
  <2> HIDE DEF all
  <2>1. config.excludeWatched => Smaller(MaxPage, Len(all)) = Len(all)
    BY <1>1 DEF Smaller
  <2> QED
    BY <1>2, <2>1 DEF FirstOf
<1>4. from = 1 /\ to = Len(all)
  BY <1>1 DEF Smaller
<1>5. page = all
  <2> HIDE DEF all, from, to
  <2> QED
    BY <1>2, <1>3, <1>4
<1>6. PageOf(r, c, found) = IF config.excludeWatched \/ "watched" \in found.value
                            THEN Unwatched(RawItems(page)) ELSE RawItems(page)
  BY Zenon DEF PageOf
<1> HIDE DEF page
<1> QED
  BY <1>5, <1>6 DEF Showable

\* What is mixed of the beginnings of a key.
LEMMA MixingItems ==
    ASSUME NEW key \in Seq(Collections), NEW f, Mixing(f, key)
    PROVE  \A n \in 0..Len(key) : f[n] \in Seq(Item)
<1>1. Len(key) \in Nat /\ <<>> \in Seq(Item)
  BY LenProperties, EmptySeq
<1>2. \A n \in 0..Len(key) : n = 0 \/ n \in 1..Len(key)
  BY <1>1
<1> QED
  BY <1>1, <1>2 DEF Mixing

\* A key with one more collection.
LEMMA MixingMore ==
    ASSUME NEW key \in Seq(Collections), NEW f, Mixing(f, key), NEW c, Brief(c)
    PROVE  /\ key \o <<c>> \in Seq(Collections) /\ Len(key \o <<c>>) = Len(key) + 1
           /\ \E g : /\ Mixing(g, key \o <<c>>)
                     /\ g[Len(key) + 1] = Interleaved(f[Len(key)], Showable(c))
<1> DEFINE k == Len(key)
           more == key \o <<c>>
           mixed == Interleaved(f[k], Showable(c))
           g == [n \in 0..(k + 1) |-> IF n = k + 1 THEN mixed ELSE f[n]]
<1>1. k \in Nat /\ c \in Collections /\ <<c>> \in Seq(Collections) /\ Len(<<c>>) = 1 /\ <<c>>[1] = c
  BY LenProperties DEF Brief
<1>2. /\ more \in Seq(Collections) /\ Len(more) = k + 1
      /\ \A n \in 1..k : more[n] = key[n]
      /\ more[k + 1] = c
  <2>1. /\ more \in Seq(Collections) /\ Len(more) = k + Len(<<c>>)
        /\ \A n \in 1..(k + Len(<<c>>)) : more[n] = IF n <= k THEN key[n] ELSE <<c>>[n - k]
    BY <1>1, ConcatProperties
  <2> HIDE DEF more, k
  <2>2. k + 1 \in 1..(k + 1) /\ k + 1 - k = 1 /\ \A n \in 1..k : n \in 1..(k + 1) /\ n <= k
    BY <1>1
  <2> QED
    BY <1>1, <2>1, <2>2
<1>3. mixed \in Seq(Item)
  <2>1. f[k] \in Seq(Item) /\ Showable(c) \in Seq(Item)
    BY <1>1, MixingItems, ShowableItems
  <2> QED
    BY <2>1, InterleavedFacts
<1> HIDE DEF mixed, more, k
<1>4. g[k + 1] = mixed /\ \A n \in 0..k : g[n] = f[n]
  BY <1>1
<1> HIDE DEF g
<1>5. ASSUME NEW n \in 1..(k + 1)
      PROVE  /\ Brief(more[n]) /\ g[n] \in Seq(Item)
             /\ g[n] = Interleaved(g[n - 1], Showable(more[n]))
  <2>1. CASE n = k + 1
    <3>1. n - 1 = k /\ k \in 0..k
      BY <1>1, <2>1
    <3> QED
      BY <1>2, <1>3, <1>4, <2>1, <3>1 DEF mixed
  <2>2. CASE n # k + 1
    <3>1. n \in 1..k /\ n \in 0..k /\ n - 1 \in 0..k
      BY <1>1, <2>2
    <3> QED
      BY <1>2, <1>4, <3>1 DEF Mixing, k
  <2> QED
    BY <2>1, <2>2
<1>6. g[0] = <<>>
  BY <1>1, <1>4 DEF Mixing
<1>7. Mixing(g, more)
  BY <1>2, <1>5, <1>6 DEF Mixing
<1> QED
  BY <1>2, <1>4, <1>7 DEF mixed, more, k

\* A key of one collection.
LEMMA MixingOne ==
    ASSUME NEW c, Brief(c)
    PROVE  \E f : Mixing(f, <<c>>) /\ f[Len(<<c>>)] = Showable(c)
<1> DEFINE none == [n \in 0..0 |-> <<>>]
<1>1. Mixing(none, <<>>) /\ none[Len(<<>>)] = <<>> /\ Len(<<>>) = 0 /\ <<>> \in Seq(Collections)
  BY DEF Mixing
<1>2. <<>> \o <<c>> = <<c>> /\ Len(<<c>>) = 1
  OBVIOUS
<1>3. Interleaved(<<>>, Showable(c)) = Showable(c)
  BY InterleavedNone, ShowableItems DEF Brief
<1> HIDE DEF none
<1>4. \E g : Mixing(g, <<>> \o <<c>>) /\ g[Len(<<>>) + 1] = Interleaved(none[Len(<<>>)], Showable(c))
  BY <1>1, MixingMore
<1>5. Len(<<>>) + 1 = 1
  OBVIOUS
<1> QED
  BY <1>1, <1>2, <1>3, <1>4, <1>5

\* Sequences that begin with the same ids.
LEMMA BeginsFacts ==
    ASSUME NEW a \in Seq(Item), NEW b \in Seq(Item)
    PROVE  /\ Begins(a, a) /\ Begins(<<>>, b)
           /\ \A s : Begins(s, a) /\ Begins(a, b) /\ Len(s) \in Nat => Begins(s, b)
<1>1. Len(a) \in Nat /\ Len(b) \in Nat
  BY LenProperties
<1>2. Begins(a, a) /\ Begins(<<>>, b)
  BY <1>1 DEF Begins
<1>3. ASSUME NEW s, Begins(s, a), Begins(a, b), Len(s) \in Nat
      PROVE  Begins(s, b)
  <2>1. \A n \in 1..Len(s) : n \in 1..Len(a)
    BY <1>1, <1>3 DEF Begins
  <2>2. Len(s) <= Len(b)
    BY <1>1, <1>3 DEF Begins
  <2> QED
    BY <1>3, <2>1, <2>2 DEF Begins
<1> QED
  BY <1>2, <1>3

-----------------------------------------------------------------------------
\* One kind of rows in another.
LEMMA MixedIsShown == MixedKind \subseteq ShownKind
<1> SUFFICES ASSUME NEW x \in MixedKind, x.key # NoKey, x.of # BuiltIn
             PROVE  \E f : Mixing(f, x.key) /\ Begins(x.items, f[Len(x.key)])
  BY DEF MixedKind, ShownKind
<1>1. x \in Hub
  BY DEF MixedKind
<1>2. x.key \in Seq(Collections) /\ x.items \in Seq(Item)
  BY <1>1, HubFacts
<1>3. PICK f : Mixing(f, x.key) /\ x.items \in {<<>>, f[Len(x.key)]}
  BY DEF MixedKind
<1>4. f[Len(x.key)] \in Seq(Item)
  BY <1>2, <1>3, MixingItems, LenProperties
<1>5. Begins(x.items, f[Len(x.key)])
  BY <1>3, <1>4, BeginsFacts
<1> QED
  BY <1>3, <1>5

LEMMA SiftedIsMixed == SiftedKind \subseteq MixedKind
<1> SUFFICES ASSUME NEW x \in SiftedKind, x.key # NoKey, x.of # BuiltIn
             PROVE  \E f : Mixing(f, x.key) /\ x.items \in {<<>>, f[Len(x.key)]}
  BY DEF SiftedKind, MixedKind, Named
<1>1. x.key = <<x.of>> /\ Brief(x.of) /\ x.items = Showable(x.of)
  BY DEF SiftedKind, Named
<1>2. PICK f : Mixing(f, <<x.of>>) /\ f[Len(<<x.of>>)] = Showable(x.of)
  BY <1>1, MixingOne
<1> QED
  BY <1>1, <1>2

\* Rows that come whole.
LEMMA WholeRowKinds ==
    ASSUME NEW q, q.raw \in Seq(Hub), WholeRows(q.raw),
           \A n \in 1..Len(q.raw) : q.raw[n].key # NoKey =>
               \A k \in 1..Len(q.raw[n].key) : q.raw[n].key[k] = q.raw[n].of
    PROVE  Each(q.raw, WholeKind) /\ Each(q.raw, KinOf(q))
<1> SUFFICES ASSUME NEW n \in 1..Len(q.raw) PROVE q.raw[n] \in WholeKind /\ q.raw[n] \in KinOf(q)
  BY DEF Each
<1> DEFINE x == q.raw[n]
<1>1. x \in Hub /\ Whole(x)
  BY ElementOfSeq DEF WholeRows, ElementsOf
<1>2. x \in KinOf(q)
  BY <1>1 DEF KinOf
<1>3. /\ x.of \in Collections \cup {BuiltIn} /\ x.key \in Seq(Collections) \cup {NoKey}
      /\ x.key # NoKey => \A k \in 1..Len(x.key) : x.key[k] = x.of
  BY <1>1, HubFacts
<1> HIDE DEF x
<1>4. ASSUME x.of = BuiltIn, x.key # NoKey PROVE x.key = <<>>
  <2>1. x.key \in Seq(Collections)
    BY <1>3, <1>4
  <2>2. SUFFICES ASSUME x.key # <<>> PROVE FALSE
    OBVIOUS
  <2>3. x.key[1] \in Collections /\ 1 \in 1..Len(x.key)
    BY <2>1, <2>2, TailFacts
  <2> QED
    BY <1>3, <1>4, <2>3, WorldAssumption
<1>5. ASSUME x.of # BuiltIn
      PROVE  /\ ~x.malformed /\ x.items = RawItems(Contents[x.of]) /\ x.key \in {NoKey, <<x.of>>}
             /\ Brief(x.of)
  <2>1. x.of \in Collections
    BY <1>3, <1>5
  <2>2. Len(RawItems(Contents[x.of])) = Len(Contents[x.of])
    BY <2>1, ShowableItems
  <2> QED
    BY <1>1, <1>5, <2>1, <2>2 DEF Whole, Brief
<1>6. Named(x)
  BY <1>4, <1>5 DEF Named
<1>7. x \in WholeKind
  BY <1>1, <1>5, <1>6 DEF WholeKind
<1> QED
  BY <1>2, <1>7 DEF x

\* What watched filtering leaves of a row that came whole.
LEMMA WatchedRow ==
    ASSUME NEW r, NEW x \in WholeKind,
           x.of # BuiltIn => seen[r] # Failed /\ seen[r].value = labels[x.of]
    PROVE  LET y == Changed(r, "watched", x) IN
           y \in SiftedKind /\ y.title = x.title /\ y.of = x.of
<1> DEFINE y == Changed(r, "watched", x)
           few == Unwatched(x.items)
<1>1. /\ x \in Hub /\ Named(x)
      /\ x.of # BuiltIn => ~x.malformed /\ x.items = RawItems(Contents[x.of])
  BY DEF WholeKind
<1>2. x.items \in Seq(Item) /\ IsHub(x) /\ (IsCollectionHub(x) <=> x.of # BuiltIn)
  BY <1>1, HubFacts DEF IsCollectionHub
<1>3. few \in Seq(Item)
  BY <1>2, UnwatchedFacts
<1>4. y = IF Watches(x, seen[r]) THEN [x EXCEPT !.items = few] ELSE x
  BY DEF Changed, WithoutWatched
<1>5. x.of # BuiltIn =>
          (Watches(x, seen[r]) <=> config.excludeWatched \/ "watched" \in labels[x.of])
  BY <1>1, <1>2 DEF Watches
<1>6. x.of # BuiltIn => Showable(x.of) = IF Watches(x, seen[r]) THEN few ELSE x.items
  BY <1>1, <1>5 DEF Showable
<1> HIDE DEF few, y
<1>7. /\ [x EXCEPT !.items = few] \in Hub /\ [x EXCEPT !.items = few].items = few
      /\ [x EXCEPT !.items = few].title = x.title /\ [x EXCEPT !.items = few].of = x.of
      /\ [x EXCEPT !.items = few].key = x.key
  <2>1. [x EXCEPT !.items = few] \in Hub
    BY <1>1, <1>3, HubFacts
  <2> QED
    BY <1>1, <2>1 DEF Hub
<1>8. /\ y \in Hub /\ y.title = x.title /\ y.of = x.of /\ y.key = x.key
      /\ y.items = IF Watches(x, seen[r]) THEN few ELSE x.items
  BY <1>1, <1>4, <1>7
<1>9. Named(y)
  BY <1>1, <1>8 DEF Named
<1> QED
  BY <1>6, <1>8, <1>9 DEF SiftedKind, y

\* What the last transforms leave of a row begins like it.
LEMMA LaterBegins ==
    ASSUME NEW r, NEW stage \in {"userState", "key", "shape"}, NEW x \in Hub, req[r].count \in Nat
    PROVE  LET y == Changed(r, stage, x) IN
           /\ y \in Hub /\ y.title = x.title /\ y.of = x.of /\ y.key = x.key
           /\ Begins(y.items, x.items)
<1> DEFINE y == Changed(r, stage, x)
<1>0. y \in Hub /\ x.items \in Seq(Item) /\ IsHub(x) /\ Len(x.items) \in Nat
  <2>1. y \in Hub
    BY ChangedHub DEF HomeTransforms, Later
  <2> QED
    BY <2>1, HubFacts, LenProperties
<1>1. Begins(x.items, x.items)
  BY <1>0, BeginsFacts
<1>2. /\ \A items : LET z == [x EXCEPT !.items = items] IN
            z.items = items /\ z.title = x.title /\ z.of = x.of /\ z.key = x.key
      /\ \A items, size : LET z == [x EXCEPT !.items = items, !.size = size] IN
            z.items = items /\ z.title = x.title /\ z.of = x.of /\ z.key = x.key
      /\ LET z == [x EXCEPT !.ours = TRUE] IN
            z.items = x.items /\ z.title = x.title /\ z.of = x.of /\ z.key = x.key
  BY DEF Hub
<1>3. CASE stage = "userState"
  <2> DEFINE few == [n \in 1..Len(x.items) |-> [x.items[n] EXCEPT !.leaves = -1]]
  <2>1. y = Leafless(x)
    BY <1>3 DEF Changed
  <2>2. config.leafCount => Leafless(x) = x
    BY DEF Leafless
  <2>3. ~config.leafCount => Leafless(x) = [x EXCEPT !.items = few]
    BY <1>0, Zenon DEF Leafless
  <2>4. \A n \in 1..Len(x.items) : few[n].id = x.items[n].id
    <3>1. \A n \in 1..Len(x.items) : x.items[n] \in Item
      BY <1>0, ElementOfSeq
    <3>2. \A e \in Item : [e EXCEPT !.leaves = -1].id = e.id
      BY DEF Item
    <3> QED
      BY <3>1, <3>2
  <2>5. Len(few) = Len(x.items)
    <3>1. few \in Seq(Item)
      BY <1>0, LeaflessType
    <3>2. DOMAIN few = 1..Len(x.items)
      OBVIOUS
    <3> HIDE DEF few
    <3> QED
      BY <1>0, <3>1, <3>2, LenProperties
  <2> HIDE DEF few, y
  <2>6. Begins(few, x.items)
    BY <1>0, <2>4, <2>5 DEF Begins
  <2>7. y = x \/ y = [x EXCEPT !.items = few]
    BY <2>1, <2>2, <2>3
  <2>8. /\ y.title = x.title /\ y.of = x.of /\ y.key = x.key
        /\ y.items = x.items \/ y.items = few
    <3>1. CASE y = x
      BY <3>1
    <3>2. CASE y = [x EXCEPT !.items = few]
      <4> DEFINE z == [x EXCEPT !.items = few]
      <4>1. z.items = few /\ z.title = x.title /\ z.of = x.of /\ z.key = x.key
        BY DEF Hub
      <4> HIDE DEF z
      <4>2. y = z
        BY <3>2 DEF z
      <4> QED
        BY <4>1, <4>2
    <3> QED
      BY <2>7, <3>1, <3>2
  <2> QED
    BY <1>0, <1>1, <2>6, <2>8 DEF y
<1>4. CASE stage = "key"
  <2>1. y = x \/ y = [x EXCEPT !.ours = TRUE]
    BY <1>4 DEF Changed, Keyed
  <2> HIDE DEF y
  <2>2. y.items = x.items /\ y.title = x.title /\ y.of = x.of /\ y.key = x.key
    BY <1>2, <2>1
  <2> QED
    BY <1>0, <1>1, <2>2 DEF y
<1>5. CASE stage = "shape"
  <2> DEFINE count == req[r].count
             few == FirstOf(x.items, count)
  <2>1. y = Counted(x, count)
    BY <1>5 DEF Changed
  <2>2. y = x \/ y = [x EXCEPT !.items = few, !.size = count]
    BY <2>1, Zenon DEF Counted
  <2>3. Begins(few, x.items)
    <3>1. /\ Len(few) = Smaller(count, Len(x.items))
          /\ \A n \in 1..Len(few) : few[n] = x.items[n]
      BY <1>0, FirstOfFacts
    <3>2. Smaller(count, Len(x.items)) <= Len(x.items)
      BY <1>0 DEF Smaller
    <3> HIDE DEF few
    <3> QED
      BY <3>1, <3>2 DEF Begins
  <2> HIDE DEF few, y, count
  <2>4. /\ y.title = x.title /\ y.of = x.of /\ y.key = x.key
        /\ y.items = x.items \/ y.items = few
    <3>1. CASE y = x
      BY <3>1
    <3>2. CASE y = [x EXCEPT !.items = few, !.size = count]
      <4> DEFINE z == [x EXCEPT !.items = few, !.size = count]
      <4>1. z.items = few /\ z.title = x.title /\ z.of = x.of /\ z.key = x.key
        BY DEF Hub
      <4> HIDE DEF z
      <4>2. y = z
        BY <3>2 DEF z
      <4> QED
        BY <4>1, <4>2
    <3> QED
      BY <2>2, <3>1, <3>2
  <2> QED
    BY <1>0, <1>1, <2>3, <2>4 DEF y
<1> QED
  BY <1>3, <1>4, <1>5

LEMMA LaterRow ==
    ASSUME NEW r, NEW stage \in {"userState", "key", "shape"}, NEW x \in ShownKind, req[r].count \in Nat
    PROVE  LET y == Changed(r, stage, x) IN
           y \in ShownKind /\ y.title = x.title /\ y.of = x.of
<1> DEFINE y == Changed(r, stage, x)
<1>1. x \in Hub
  BY DEF ShownKind
<1>2. /\ y \in Hub /\ y.title = x.title /\ y.of = x.of /\ y.key = x.key
      /\ Begins(y.items, x.items)
  BY <1>1, LaterBegins
<1> HIDE DEF y
<1>3. x.items \in Seq(Item) /\ x.key \in Seq(Collections) \cup {NoKey} /\ Len(y.items) \in Nat
  BY <1>1, <1>2, HubFacts, LenProperties
<1>4. ASSUME y.key # NoKey, y.of # BuiltIn
      PROVE  \E f : Mixing(f, y.key) /\ Begins(y.items, f[Len(y.key)])
  <2>1. PICK f : Mixing(f, x.key) /\ Begins(x.items, f[Len(x.key)])
    BY <1>2, <1>4 DEF ShownKind
  <2>2. f[Len(x.key)] \in Seq(Item)
    BY <1>2, <1>3, <1>4, <2>1, MixingItems, LenProperties
  <2>3. Begins(y.items, f[Len(x.key)])
    BY <1>2, <1>3, <2>1, <2>2, BeginsFacts
  <2> QED
    BY <1>2, <2>1, <2>3
<1>5. y \in ShownKind
  BY <1>2, <1>4 DEF ShownKind
<1> QED
  BY <1>2, <1>5 DEF y

\* A row with another one of its title merged into it.
LEMMA BlendedMix ==
    ASSUME NEW y \in MixedKind, NEW x \in SiftedKind, y.key # NoKey, x.key # NoKey,
           y.of # BuiltIn, x.of # BuiltIn
    PROVE  /\ Blended(y, x) \in MixedKind
           /\ Blended(y, x).title = y.title /\ Blended(y, x).of = y.of
<1> DEFINE items == Interleaved(y.items, x.items)
           key == y.key \o x.key
           set == SetItems(y, items)
           z == Blended(y, x)
<1>1. y \in Hub /\ x \in Hub /\ x.key = <<x.of>> /\ Brief(x.of) /\ x.items = Showable(x.of)
  BY DEF MixedKind, SiftedKind, Named
<1>2. /\ z \in Hub /\ y.key \in Seq(Collections) /\ y.items \in Seq(Item) /\ x.items \in Seq(Item)
  BY <1>1, BlendedType, HubFacts
<1>3. z = [set EXCEPT !.key = key]
  BY Zenon DEF Blended
<1>4. items \in Seq(Item)
  BY ONLY <1>2, ZenonT(60), InterleavedFacts
<1> HIDE DEF items, key
<1>5. set \in Hub
  BY <1>1, <1>4, SetItemsType
<1>6. /\ set.title = y.title /\ set.of = y.of
      /\ set.items = IF y.items = <<>> THEN y.items ELSE items
  <2>1. /\ \A size : LET w == [y EXCEPT !.size = size] IN
              w.items = y.items /\ w.title = y.title /\ w.of = y.of
        /\ \A s, size : LET w == [y EXCEPT !.items = s, !.size = size] IN
              w.items = s /\ w.title = y.title /\ w.of = y.of
    BY <1>1 DEF Hub
  <2> QED
    BY <2>1 DEF SetItems
<1> HIDE DEF set
<1>7. /\ z.items = set.items /\ z.title = set.title /\ z.of = set.of /\ z.key = key
  BY <1>3, <1>5 DEF Hub
<1> HIDE DEF z
<1>8. PICK f : Mixing(f, y.key) /\ y.items \in {<<>>, f[Len(y.key)]}
  BY DEF MixedKind
<1>9. PICK g : /\ Mixing(g, y.key \o <<x.of>>)
               /\ g[Len(y.key) + 1] = Interleaved(f[Len(y.key)], Showable(x.of))
               /\ Len(y.key \o <<x.of>>) = Len(y.key) + 1
  BY <1>1, <1>2, <1>8, MixingMore
<1>10. Mixing(g, z.key) /\ z.items \in {<<>>, g[Len(z.key)]}
  <2>1. z.key = y.key \o <<x.of>>
    BY <1>1, <1>7 DEF key
  <2>2. CASE y.items = <<>>
    BY <1>6, <1>7, <1>9, <2>1, <2>2
  <2>3. CASE y.items # <<>>
    <3>1. z.items = Interleaved(f[Len(y.key)], Showable(x.of))
      BY <1>1, <1>6, <1>7, <1>8, <2>3 DEF items
    <3> QED
      BY <1>9, <2>1, <3>1
  <2> QED
    BY <2>2, <2>3
<1>11. z \in MixedKind
  BY <1>2, <1>6, <1>7, <1>10 DEF MixedKind, z
<1> QED
  BY <1>6, <1>7, <1>11 DEF z

\* What merging does to rows that have been filtered.
LEMMA MergedMix ==
    ASSUME NEW ys \in Seq(Hub), NEW x \in SiftedKind, NEW q, q.raw \in Seq(Hub), WholeRows(q.raw),
           Each(ys, MixedKind), Each(ys, KinOf(q)), x \in KinOf(q)
    PROVE  Each(Merged(ys, x), MixedKind) /\ Each(Merged(ys, x), KinOf(q))
<1>0. x \in Hub /\ x \in MixedKind
  BY SiftedIsMixed DEF SiftedKind
<1>1. CASE Merged(ys, x) = ys
  BY <1>1
<1>2. CASE Merged(ys, x) = Append(ys, x)
  <2>1. \A S : Each(Append(ys, x), S) <=> Each(ys, S) /\ x \in S
    BY <1>0, AppendKinds
  <2> QED
    BY <1>0, <1>2, <2>1
<1>3. ASSUME IsCollectionHub(x), x.key # NoKey, NEW n \in 1..Len(ys), ys[n].title = x.title,
             ys[n].key # NoKey, Merged(ys, x) = Blend(ys, n, x)
      PROVE  Each(Merged(ys, x), MixedKind) /\ Each(Merged(ys, x), KinOf(q))
  <2> DEFINE y == ys[n]
             z == Blended(y, x)
  <2>1. y \in Hub /\ y \in MixedKind /\ y \in KinOf(q) /\ x.of # BuiltIn
    BY <1>3, ElementOfSeq DEF Each, IsCollectionHub
  <2> HIDE DEF y
  <2>2. y.of # BuiltIn
    <3>1. PICK m \in 1..Len(q.raw) : q.raw[m].title = y.title /\ q.raw[m].of = y.of
      BY <2>1 DEF KinOf
    <3>2. PICK k \in 1..Len(q.raw) : q.raw[k].title = x.title /\ q.raw[k].of = x.of
      BY DEF KinOf
    <3>3. y.title = x.title
      BY <1>3 DEF y
    <3>4. ~(q.raw[m].of = BuiltIn /\ q.raw[k].of # BuiltIn /\ q.raw[m].title = q.raw[k].title)
      BY DEF WholeRows, ElementsOf
    <3> QED
      BY <2>1, <3>1, <3>2, <3>3, <3>4
  <2>3. z \in MixedKind /\ z.title = y.title /\ z.of = y.of
    BY <1>3, <2>1, <2>2, BlendedMix DEF y
  <2> HIDE DEF z
  <2>4. z \in Hub /\ z \in KinOf(q)
    BY <2>1, <2>3 DEF MixedKind, KinOf
  <2>5. Merged(ys, x) = [ys EXCEPT ![n] = z]
    BY <1>3 DEF Blend, y, z
  <2>6. \A S : Each(ys, S) /\ z \in S => Each([ys EXCEPT ![n] = z], S)
    BY <2>4, ReplaceKinds
  <2> QED
    BY <2>3, <2>4, <2>5, <2>6
<1>4. ASSUME Merged(ys, x) # ys, Merged(ys, x) # Append(ys, x)
      PROVE  /\ config.interleave /\ x.size # 0 /\ IsCollectionHub(x) /\ x.key # NoKey
             /\ \E n \in 1..Len(ys) :
                    /\ ys[n].title = x.title /\ ys[n].key # NoKey
                    /\ \A k \in 1..(n - 1) : ys[k].title # x.title
                    /\ Merged(ys, x) = Blend(ys, n, x)
  BY <1>0, <1>4, MergedCases
<1> QED
  BY <1>1, <1>2, <1>3, <1>4

-----------------------------------------------------------------------------
\* While settings and labels stay, so does what is said of rows and pages.
LEMMA AgreementLasts ==
    ASSUME UNCHANGED <<config, labels>>
    PROVE  /\ \A q, rest, xs, ys : Agreement(q, rest, xs, ys)' <=> Agreement(q, rest, xs, ys)
           /\ \A raw : WholeRows(raw)' <=> WholeRows(raw)
<1>1. \A c : Showable(c)' = Showable(c) /\ (Brief(c)' <=> Brief(c))
  BY DEF Showable, Brief
<1>2. \A f, key : Mixing(f, key)' <=> Mixing(f, key)
  BY <1>1 DEF Mixing
<1>3. \A x : Named(x)' <=> Named(x)
  BY <1>1 DEF Named
<1>4. WholeKind' = WholeKind
  BY <1>3 DEF WholeKind
<1>5. SiftedKind' = SiftedKind
  BY <1>1, <1>3 DEF SiftedKind
<1>6. MixedKind' = MixedKind
  BY <1>2 DEF MixedKind
<1>7. ShownKind' = ShownKind
  BY <1>2 DEF ShownKind
<1>8. \A q, rest, xs, ys : HomeAgrees(q, rest, xs, ys)' <=> HomeAgrees(q, rest, xs, ys)
  BY <1>4, <1>5, <1>6, <1>7 DEF HomeAgrees, MixedRows
<1>9. \A q, rest, xs, ys : ChildrenAgree(q, rest, xs, ys)' <=> ChildrenAgree(q, rest, xs, ys)
  BY <1>2 DEF ChildrenAgree
<1>10. \A x : Whole(x)' <=> Whole(x)
  BY DEF Whole
<1>11. \A raw : WholeRows(raw)' <=> WholeRows(raw)
  BY <1>10 DEF WholeRows
<1> QED
  BY <1>8, <1>9, <1>11 DEF Agreement

\* A request that is compared after a step was so before, unless the step begins it.
LEMMA ComparingStays ==
    ASSUME NEW r, UNCHANGED world, req'[r] = req[r], failed[r] => failed'[r]
    PROVE  Comparing(r)' => Comparing(r)
<1>1. UNCHANGED <<config, labels, changes>>
  BY DEF world
<1>2. WholeRows(req[r].raw)' => WholeRows(req[r].raw)
  BY <1>1, AgreementLasts DEF WholeRows, Whole
<1> QED
  BY <1>1, <1>2 DEF Comparing

\* A step of a request, given what it makes of the rows or the items.
LEMMA AgreeingStep ==
    ASSUME NEW r, UNCHANGED world, req'[r] = req[r],
           Comparing(r)' => Agreement(req[r], todo'[r], left'[r], kept'[r])
    PROVE  AgreeingInv(r)'
<1>1. UNCHANGED <<config, labels>>
  BY DEF world
<1>2. ASSUME Comparing(r)' PROVE Agreement(req[r], todo[r], left[r], kept[r])'
  <2> DEFINE q == req'[r]
             rest == todo'[r]
             xs == left'[r]
             ys == kept'[r]
  <2>1. Agreement(q, rest, xs, ys)
    BY <1>2
  <2> QED
    BY <1>1, <2>1, AgreementLasts
<1> QED
  BY <1>2 DEF AgreeingInv

-----------------------------------------------------------------------------
\* A transform of a home screen drops a row, is done with one, or is done.
LEMMA MixedDrops ==
    ASSUME NEW stage, NEW xs \in Seq(Hub), NEW ys, NEW q, MixedRows(stage, xs, ys, q), xs # <<>>
    PROVE  MixedRows(stage, Tail(xs), ys, q)
<1>1. \A S : Each(xs, S) => Each(Tail(xs), S)
  BY TailKinds
<1> QED
  BY <1>1 DEF MixedRows

\* What a transform makes of a row is of the kind that its next one asks for.
LEMMA MixedSteps ==
    ASSUME NEW stage, NEW xs \in Seq(Hub), NEW ys, NEW zs, NEW q, MixedRows(stage, xs, ys, q),
           xs # <<>>, Each(zs, KinOf(q)),
           stage \in Sifting \ {"watched"} => Each(zs, WholeKind),
           stage = "watched" => Each(zs, SiftedKind),
           stage = "interleave" => Each(zs, MixedKind),
           stage \in {"userState", "key", "shape", "done"} => Each(zs, ShownKind)
    PROVE  MixedRows(stage, Tail(xs), zs, q)
<1>1. \A S : Each(xs, S) => Each(Tail(xs), S)
  BY TailKinds
<1> QED
  BY <1>1 DEF MixedRows

LEMMA MixedTurns ==
    ASSUME NEW stage, NEW next, <<stage, next>> \in Turns, NEW ys, NEW q,
           MixedRows(stage, <<>>, ys, q)
    PROVE  MixedRows(next, ys, <<>>, q)
<1>1. \A S : Each(<<>>, S)
  BY EmptyKinds
<1>2. Each(ys, KinOf(q)) /\ (Each(ys, MixedKind) => Each(ys, ShownKind))
  BY MixedIsShown DEF MixedRows, Each
<1>3. /\ next \in {"restriction", "style", "watched"} => Each(ys, WholeKind)
      /\ next = "interleave" => Each(ys, SiftedKind)
      /\ next \in {"userState", "key", "shape", "done"} => Each(ys, ShownKind)
      /\ next # "visibility"
  BY <1>2 DEF MixedRows, Turns, Sifting
<1> QED
  BY <1>1, <1>2, <1>3 DEF MixedRows, Sifting

-----------------------------------------------------------------------------
\* A transform of a refresh is done with an item, or done.
LEMMA RunsMoves ==
    ASSUME NEW ys \in Seq(Item), NEW xs \in Seq(Item), xs # <<>>, NEW all, Len(all) \in Nat,
           Runs(ys, xs, all), NEW y \in Item, y.id = xs[1].id
    PROVE  Runs(Append(ys, y), Tail(xs), all)
<1> DEFINE zs == Append(ys, y)
           us == Tail(xs)
           k == Len(ys)
           l == Len(us)
<1>1. /\ Len(zs) = k + 1 /\ zs[k + 1] = y /\ \A n \in 1..k : zs[n] = ys[n]
      /\ k \in Nat /\ l \in Nat /\ Len(xs) = l + 1 /\ \A n \in 1..l : us[n] = xs[n + 1]
  <2>1. /\ Len(us) = Len(xs) - 1 /\ Len(xs) \in Nat /\ Len(xs) > 0
        /\ \A n \in 1..Len(us) : us[n] = xs[n + 1]
    BY TailFacts
  <2>2. Len(zs) = k + 1 /\ zs[k + 1] = y /\ (\A n \in 1..k : zs[n] = ys[n]) /\ k \in Nat
    BY AppendFacts, LenProperties
  <2> HIDE DEF us, zs
  <2> QED
    BY <2>1, <2>2
<1>2. /\ k + (l + 1) = Len(all)
      /\ \A n \in 1..k : ys[n].id = all[n].id
      /\ \A n \in 1..(l + 1) : xs[n].id = all[k + n].id
  BY <1>1 DEF Runs
<1> HIDE DEF zs, us, k, l
<1>3. Len(zs) + l = Len(all)
  BY <1>1, <1>2
<1>4. ASSUME NEW n \in 1..(k + 1) PROVE zs[n].id = all[n].id
  <2>1. CASE n \in 1..k
    BY <1>1, <1>2, <2>1
  <2>2. CASE n = k + 1
    <3>1. 1 \in 1..(l + 1)
      BY <1>1
    <3> QED
      BY <1>1, <1>2, <2>2, <3>1
  <2> QED
    BY <1>1, <2>1, <2>2
<1>5. ASSUME NEW n \in 1..l PROVE us[n].id = all[k + 1 + n].id
  <2>1. n + 1 \in 1..(l + 1) /\ k + (n + 1) = k + 1 + n
    BY <1>1
  <2> QED
    BY <1>1, <1>2, <2>1
<1> QED
  BY <1>1, <1>3, <1>4, <1>5 DEF Runs, zs, us, l

LEMMA RunsTurns ==
    ASSUME NEW ys \in Seq(Item), NEW all, Len(all) \in Nat
    PROVE  /\ Runs(ys, <<>>, all) => Runs(<<>>, ys, all)
           /\ ys = all => Runs(<<>>, ys, all)
<1>1. Len(ys) \in Nat /\ Len(<<>>) = 0 /\ \A n \in 1..Len(ys) : 0 + n = n
  BY LenProperties
<1> QED
  BY <1>1 DEF Runs

\* A collection is mixed in, or all are.
LEMMA GatheringMoves ==
    ASSUME NEW ids \in Seq(Collections), NEW f, Mixing(f, ids), NEW xs \in Seq(Stubs), xs # <<>>,
           NEW ys, Gathering(f, ids, xs, ys)
    PROVE  /\ Brief(xs[1].of)
           /\ Gathering(f, ids, Tail(xs), Interleaved(ys, Showable(xs[1].of)))
<1> DEFINE us == Tail(xs)
           l == Len(us)
           m == Len(ids)
           k == m - Len(xs)
<1>1. /\ l \in Nat /\ m \in Nat /\ Len(xs) = l + 1 /\ \A n \in 1..l : us[n] = xs[n + 1]
  <2>1. /\ Len(us) = Len(xs) - 1 /\ Len(xs) \in Nat /\ Len(xs) > 0
        /\ \A n \in 1..Len(us) : us[n] = xs[n + 1]
    BY TailFacts
  <2>2. m \in Nat
    BY LenProperties
  <2> HIDE DEF us, m
  <2> QED
    BY <2>1, <2>2
<1>2. l + 1 <= m /\ ys = f[k] /\ \A n \in 1..(l + 1) : xs[n].of = ids[k + n]
  BY <1>1 DEF Gathering
<1> HIDE DEF us, l
<1>3. k \in Nat /\ k + 1 \in 1..m /\ k + 1 = m - l /\ k + 1 - 1 = k /\ 1 \in 1..(l + 1)
  BY <1>1, <1>2
<1> HIDE DEF k
<1>4. xs[1].of = ids[k + 1] /\ Brief(ids[k + 1])
      /\ f[k + 1] = Interleaved(f[k], Showable(ids[k + 1]))
  BY <1>2, <1>3 DEF Mixing
<1>5. \A n \in 1..l : us[n].of = ids[m - l + n]
  <2> TAKE n \in 1..l
  <2>1. n + 1 \in 1..(l + 1) /\ k + (n + 1) = m - l + n
    <3>1. l \in Nat /\ m \in Nat /\ k \in Nat /\ k + 1 = m - l /\ n \in Nat
      BY <1>1, <1>3
    <3> HIDE DEF m
    <3>2. k + (n + 1) = m - l + n
      BY <3>1
    <3> QED
      BY <1>1, <3>2
  <2> QED
    BY <1>1, <1>2, <2>1
<1>6. l <= m
  BY <1>1, <1>2
<1> QED
  BY <1>2, <1>3, <1>4, <1>5, <1>6 DEF Gathering, us, l

LEMMA GatheringTurns ==
    ASSUME NEW ids \in Seq(Collections), NEW f, Mixing(f, ids), NEW ys, Gathering(f, ids, <<>>, ys)
    PROVE  ys = f[Len(ids)] /\ ys \in Seq(Item) /\ Runs(<<>>, ys, f[Len(ids)])
<1>1. Len(ids) \in Nat /\ Len(<<>>) = 0
  BY LenProperties
<1>2. Len(ids) - Len(<<>>) = Len(ids)
  BY <1>1
<1>3. ys = f[Len(ids)]
  BY <1>2 DEF Gathering
<1>4. ys \in Seq(Item)
  BY <1>1, <1>3, MixingItems
<1> QED
  BY <1>3, <1>4, RunsTurns, LenProperties

-----------------------------------------------------------------------------
\* A lookup that has been made for a request that is compared.
LEMMA FoundThere ==
    ASSUME CompleteInv, NEW r \in Requests, Comparing(r), Wanted(r) # NoName, seen[r] # NotYet
    PROVE  seen[r] # Failed /\ seen[r].value = AtPlex(req[r].account, Wanted(r))
<1>1. LookupTypes(r) /\ Current(r)
  BY DEF CompleteInv, SharedInv, TypeInv
<1>2. seen[r] # Failed
  BY <1>1 DEF LookupTypes, Comparing
<1> QED
  BY <1>1, <1>2 DEF Current, Comparing

\* A home screen or a refresh at work.
LEMMA HomeAtWork ==
    ASSUME AgreeInv, NEW r \in Requests, Comparing(r), req[r].kind = "home"
    PROVE  /\ req[r].raw \in Seq(Hub) /\ left[r] \in Seq(Hub) /\ kept[r] \in Seq(Hub)
           /\ req[r].count \in Nat /\ WholeRows(req[r].raw) /\ HomeAgrees(req[r], todo[r], left[r], kept[r])
           /\ ~req[r].skips /\ todo[r] # <<>> =>
                 /\ Completing(r) /\ MixedRows(Head(todo[r]), left[r], kept[r], req[r])
                 /\ todo[r] \in HomeRests /\ StageOf(todo[r]) = Head(todo[r])
<1>1. Home(r) /\ req[r].count \in Nat
  BY HomeWork DEF AgreeInv, CompleteInv, SharedInv
<1>2. HomeAgrees(req[r], todo[r], left[r], kept[r]) /\ WholeRows(req[r].raw)
  BY DEF AgreeInv, AgreeingInv, Agreement, Comparing
<1>3. ~req[r].skips => Completing(r)
  BY DEF Comparing, Completing
<1> QED
  BY <1>1, <1>2, <1>3, RestFacts DEF Home, HomeAgrees

LEMMA ChildrenAtWork ==
    ASSUME AgreeInv, NEW r \in Requests, Comparing(r), req[r].kind = "children"
    PROVE  /\ \/ todo[r] = ChildrenChain /\ left[r] \in Seq(Stubs)
              \/ todo[r] # ChildrenChain /\ todo[r] \in Seq(ChildrenTransforms) /\ left[r] \in Seq(Item)
           /\ kept[r] \in Seq(Item) /\ req[r].ids \in Seq(Collections) /\ Len(req[r].ids) \in Nat
           /\ req[r].start = 0 => ChildrenAgree(req[r], todo[r], left[r], kept[r])
<1>1. WorkTypes(r) /\ req[r].ids \in Seq(Collections)
  BY DEF AgreeInv, CompleteInv, SharedInv, TypeInv, SlotTypes, Request
<1>2. Children(r)
  BY <1>1 DEF WorkTypes, Home, Page, Default, Never
<1>3. todo[r] = ChildrenChain => todo[r] \notin Seq(ChildrenTransforms)
  BY TailFacts, NotALibrary
<1>4. req[r].start = 0 => ChildrenAgree(req[r], todo[r], left[r], kept[r])
  BY DEF AgreeInv, AgreeingInv, Agreement
<1> QED
  BY <1>1, <1>2, <1>3, <1>4, LenProperties DEF Children

\* No transform of a refresh drops a child.
LEMMA ChildrenKept ==
    ASSUME AgreeInv, NEW r \in Requests, Comparing(r), req[r].kind = "children",
           todo[r] # <<>>, left[r] # <<>>
    PROVE  Keeps(r, Head(todo[r]), Head(left[r]))
<1>1. CASE todo[r] = ChildrenChain
  BY <1>1, NotALibrary DEF Keeps
<1>2. CASE todo[r] \in Seq(ChildrenTransforms) /\ left[r] \in Seq(Item)
  <2>1. Head(todo[r]) \in ChildrenTransforms /\ Head(left[r]) \in Item
    BY <1>2, TailFacts
  <2>2. ~IsHub(Head(left[r]))
    BY <2>1, ItemFacts
  <2> QED
    BY <2>1, <2>2 DEF Keeps, ChildrenTransforms, RestrictionKeeps, IsCollectionHub
<1> QED
  BY <1>1, <1>2, ChildrenAtWork

-----------------------------------------------------------------------------
\* The steps of a transform.
LEMMA FilterAgrees ==
    ASSUME AgreeInv, NEW r \in Requests, FilterChild(r)
    PROVE  AgreeingInv(r)'
<1>0. SlotTypes
  BY DEF AgreeInv, CompleteInv, SharedInv, TypeInv
<1>1. /\ todo[r] # <<>> /\ left[r] # <<>>
      /\ UNCHANGED <<world, req, todo, kept, failed>>
      /\ \/ left' = left
         \/ /\ left' = [left EXCEPT ![r] = Tail(left[r])]
            /\ ~Keeps(r, Head(todo[r]), Head(left[r]))
  BY DEF FilterChild, Busy
<1>2. \/ left'[r] = left[r]
      \/ left'[r] = Tail(left[r]) /\ ~Keeps(r, Head(todo[r]), Head(left[r]))
  BY <1>0, <1>1 DEF SlotTypes, IsFunction
<1>3. ASSUME Comparing(r)'
      PROVE  Agreement(req[r], todo'[r], left'[r], kept'[r])
  <2>1. Comparing(r)
    BY <1>1, <1>3, ComparingStays
  <2>2. CASE left'[r] = left[r]
    <3>1. Agreement(req[r], todo[r], left[r], kept[r])
      BY <2>1 DEF AgreeInv, AgreeingInv
    <3> QED
      BY <1>1, <2>2, <3>1
  <2>3. CASE left'[r] = Tail(left[r]) /\ ~Keeps(r, Head(todo[r]), Head(left[r]))
    <3>1. req[r].kind = "home"
      BY <1>1, <2>1, <2>3, ChildrenKept DEF Comparing
    <3>2. left[r] \in Seq(Hub)
      BY <2>1, <3>1, HomeAtWork
    <3>3. \A S : Each(left[r], S) => Each(Tail(left[r]), S)
      BY <1>1, <3>2, TailKinds
    <3>4. CASE req[r].skips
      BY <1>1, <2>1, <2>3, <3>1, <3>3, <3>4, HomeAtWork DEF HomeAgrees, Agreement
    <3>5. CASE ~req[r].skips
      <4>1. MixedRows(Head(todo[r]), Tail(left[r]), kept[r], req[r])
        BY <1>1, <2>1, <3>1, <3>2, <3>5, HomeAtWork, MixedDrops
      <4> QED
        BY <1>1, <2>1, <2>3, <3>1, <3>5, <4>1, HomeAtWork DEF HomeAgrees, Agreement
    <3> QED
      BY <3>4, <3>5
  <2> QED
    BY <1>2, <2>2, <2>3
<1> QED
  BY <1>1, <1>3, AgreeingStep

\* A transform of a home screen makes of a row what the next one asks for.
LEMMA ChangedMix ==
    ASSUME AgreeInv, NEW r \in Requests, Comparing(r), req[r].kind = "home", ~req[r].skips,
           todo[r] # <<>>, left[r] # <<>>, at[r] = "change", Wanted(r) # NoName => seen[r] # NotYet,
           NEW done,
           done = IF Head(todo[r]) = "interleave" THEN Merged(kept[r], left[r][1])
                  ELSE Append(kept[r], Changed(r, Head(todo[r]), left[r][1]))
    PROVE  MixedRows(Head(todo[r]), Tail(left[r]), done, req[r])
<1> DEFINE t == Head(todo[r])
           x == left[r][1]
           y == Changed(r, t, x)
           xs == left[r]
           ys == kept[r]
           q == req[r]
<1>0. CompleteInv
  BY DEF AgreeInv
<1>1. /\ q.raw \in Seq(Hub) /\ xs \in Seq(Hub) /\ ys \in Seq(Hub) /\ q.count \in Nat
      /\ WholeRows(q.raw) /\ Completing(r) /\ MixedRows(t, xs, ys, q)
  BY HomeAtWork
<1>2. t \in Sifting \cup {"interleave", "userState", "key", "shape"} /\ Head(xs) = x /\ x \in Hub
  <2>1. <<t, StageOf(Tail(todo[r]))>> \in Turns /\ Head(xs) = x /\ x \in Hub
    BY <1>0, <1>1, AtWork
  <2>2. ASSUME NEW stage, NEW next, <<stage, next>> \in Turns
        PROVE  stage \in Sifting \cup {"interleave", "userState", "key", "shape"}
    BY <2>2 DEF Turns, Sifting
  <2> HIDE DEF t, x, xs
  <2> QED
    BY <2>1, <2>2
<1>3. /\ \A S : Each(xs, S) => x \in S
      /\ \A z \in Hub : \A S : Each(Append(ys, z), S) <=> Each(ys, S) /\ z \in S
  <2> HIDE DEF ys
  <2>1. \A S : Each(xs, S) => x \in S
    <3>1. 1 \in 1..Len(xs)
      BY <1>1, TailFacts
    <3> QED
      BY <3>1 DEF Each
  <2>2. ASSUME NEW z \in Hub
        PROVE  \A S : Each(Append(ys, z), S) <=> Each(ys, S) /\ z \in S
    BY <1>1, AppendKinds
  <2> QED
    BY <2>1, <2>2
<1>4. x \in KinOf(q) /\ Each(ys, KinOf(q)) /\ Each(xs, KinOf(q))
  BY <1>1, <1>3 DEF MixedRows
<1>5. ASSUME NEW z \in Hub, z.title = x.title, z.of = x.of
      PROVE  z \in KinOf(q)
  BY <1>4, <1>5 DEF KinOf
<1>6. CASE t \in Sifting \ {"watched"}
  <2>1. y = x
    BY <1>6 DEF Changed, Sifting
  <2>2. done = Append(ys, x)
    BY <1>6, <2>1 DEF Sifting
  <2>3. x \in WholeKind /\ Each(ys, WholeKind)
    BY <1>1, <1>3, <1>6 DEF MixedRows
  <2>4. Each(done, WholeKind) /\ Each(done, KinOf(q))
    <3> HIDE DEF x, q, ys
    <3>1. Each(Append(ys, x), WholeKind) /\ Each(Append(ys, x), KinOf(q))
      BY <1>2, <1>3, <1>4, <2>3
    <3> QED
      BY <2>2, <3>1
  <2> QED
    BY <1>1, <1>6, <2>4, MixedSteps DEF Sifting
<1>7. CASE t = "watched"
  <2>1. x \in WholeKind /\ Each(ys, SiftedKind)
    BY <1>1, <1>3, <1>7 DEF MixedRows, Sifting
  <2>2. ASSUME x.of # BuiltIn PROVE seen[r] # Failed /\ seen[r].value = labels[x.of]
    <3>1. ~x.malformed /\ IsCollectionHub(x) /\ x.of \in Collections
      BY <1>2, <2>1, <2>2, HubFacts DEF WholeKind, IsCollectionHub
    <3>2. Wanted(r) = x.of
      BY <1>2, <1>7, <3>1 DEF Wanted, Asks
    <3>3. x.of # NoName /\ x.of # List
      BY <3>1, WorldAssumption
    <3> QED
      BY <1>0, <3>2, <3>3, FoundThere DEF AtPlex
  <2>3. y \in SiftedKind /\ y.title = x.title /\ y.of = x.of
    BY <1>7, <2>1, <2>2, WatchedRow
  <2>4. done = Append(ys, y)
    BY <1>7
  <2> HIDE DEF y
  <2>5. y \in Hub
    BY <2>3 DEF SiftedKind
  <2>6. Each(done, SiftedKind) /\ Each(done, KinOf(q))
    <3> HIDE DEF ys
    <3>1. \A S : Each(done, S) <=> Each(ys, S) /\ y \in S
      <4>1. \A S : Each(Append(ys, y), S) <=> Each(ys, S) /\ y \in S
        BY ONLY <1>3, <2>5, Zenon
      <4> HIDE DEF x, q
      <4> QED
        BY ONLY <2>4, <4>1
    <3>2. y \in KinOf(q)
      BY <1>5, <2>3, <2>5
    <3> QED
      BY <1>4, <2>1, <2>3, <3>1, <3>2
  <2> QED
    BY <1>1, <1>7, <2>6, MixedSteps
<1>8. CASE t = "interleave"
  <2>1. x \in SiftedKind /\ Each(ys, MixedKind) /\ done = Merged(ys, x)
    BY <1>1, <1>3, <1>8 DEF MixedRows
  <2>2. Each(done, MixedKind) /\ Each(done, KinOf(q))
    BY <1>1, <1>4, <2>1, MergedMix
  <2> QED
    BY <1>1, <1>8, <2>2, MixedSteps DEF Sifting
<1>9. CASE t \in {"userState", "key", "shape"}
  <2>1. x \in ShownKind /\ Each(ys, ShownKind)
    BY <1>1, <1>3, <1>9 DEF MixedRows
  <2>2. y \in ShownKind /\ y.title = x.title /\ y.of = x.of
    BY <1>1, <1>9, <2>1, LaterRow
  <2>3. done = Append(ys, y)
    BY <1>9
  <2> HIDE DEF y
  <2>4. y \in Hub
    BY <2>2 DEF ShownKind
  <2>5. Each(done, ShownKind) /\ Each(done, KinOf(q))
    <3> HIDE DEF ys
    <3>1. \A S : Each(done, S) <=> Each(ys, S) /\ y \in S
      <4>1. \A S : Each(Append(ys, y), S) <=> Each(ys, S) /\ y \in S
        BY ONLY <1>3, <2>4, Zenon
      <4> HIDE DEF x, q
      <4> QED
        BY ONLY <2>3, <4>1
    <3>2. y \in KinOf(q)
      BY <1>5, <2>2, <2>4
    <3> QED
      BY <1>4, <2>1, <2>2, <3>1, <3>2
  <2> QED
    BY <1>1, <1>9, <2>5, MixedSteps DEF Sifting
<1> QED
  BY <1>2, <1>6, <1>7, <1>8, <1>9

\* A transform of a refresh keeps an item's id.
LEMMA ChangedId ==
    ASSUME NEW r, NEW t \in ChildrenTransforms, NEW x \in Item
    PROVE  Changed(r, t, x) \in Item /\ Changed(r, t, x).id = x.id
<1>1. Changed(r, t, x) \in Item
  BY ChangedItem
<1>2. ~IsHub(x) /\ [x EXCEPT !.leaves = -1].id = x.id
  BY ItemFacts DEF Item
<1>3. CASE t = "userState"
  BY <1>1, <1>2, <1>3 DEF Changed, Leafless
<1>4. CASE t # "userState"
  BY <1>1, <1>4 DEF Changed, ChildrenTransforms
<1> QED
  BY <1>3, <1>4

LEMMA ChangeAgrees ==
    ASSUME AgreeInv, NEW r \in Requests, ChangeChild(r)
    PROVE  AgreeingInv(r)'
<1>0. SlotTypes
  BY DEF AgreeInv, CompleteInv, SharedInv, TypeInv
<1> DEFINE t == Head(todo[r])
           done == IF t = "interleave" THEN Merged(kept[r], Head(left[r]))
                   ELSE Append(kept[r], Changed(r, t, Head(left[r])))
<1>1. /\ todo[r] # <<>> /\ left[r] # <<>> /\ at[r] = "change" /\ t # "library"
      /\ Wanted(r) # NoName => seen[r] # NotYet
      /\ UNCHANGED <<world, req, todo, failed>>
      /\ kept' = [kept EXCEPT ![r] = done]
      /\ left' = [left EXCEPT ![r] = Tail(left[r])]
  BY DEF ChangeChild, Busy, Answered
<1>2. kept'[r] = done /\ left'[r] = Tail(left[r]) /\ todo'[r] = todo[r]
  <2> HIDE DEF done
  <2> QED
    BY <1>0, <1>1 DEF SlotTypes, IsFunction
<1>3. ASSUME Comparing(r)'
      PROVE  Agreement(req[r], todo'[r], left'[r], kept'[r])
  <2>1. Comparing(r)
    BY <1>1, <1>3, ComparingStays
  <2>2. CASE req[r].kind = "home" /\ req[r].skips
    <3>1. /\ left[r] \in Seq(Hub) /\ kept[r] \in Seq(Hub) /\ todo[r] = <<"visibility">>
          /\ Each(left[r], TheirKind) /\ Each(kept[r], TheirKind)
      BY <1>1, <2>1, <2>2, HomeAtWork DEF HomeAgrees
    <3>2. left[r][1] \in Hub /\ Head(left[r]) = left[r][1]
          /\ left[r][1] \in TheirKind /\ Each(Tail(left[r]), TheirKind)
      BY <1>1, <3>1, TailKinds
    <3>3. done = Append(kept[r], left[r][1])
      BY <3>1, <3>2 DEF Changed
    <3>4. Each(done, TheirKind)
      <4>1. ASSUME NEW ys \in Seq(Hub), NEW x \in Hub, Each(ys, TheirKind), x \in TheirKind
            PROVE  Each(Append(ys, x), TheirKind)
        <5>1. \A S : Each(Append(ys, x), S) <=> Each(ys, S) /\ x \in S
          BY AppendKinds
        <5> QED
          BY <4>1, <5>1
      <4> HIDE DEF done
      <4> QED
        BY <3>1, <3>2, <3>3, <4>1
    <3> QED
      BY <1>2, <2>2, <3>1, <3>2, <3>4 DEF Agreement, HomeAgrees
  <2>3. CASE req[r].kind = "home" /\ ~req[r].skips
    <3>1. left[r] \in Seq(Hub) /\ todo[r] \in HomeRests /\ StageOf(todo[r]) = t
      BY <1>1, <2>1, <2>3, HomeAtWork
    <3>2. Head(left[r]) = left[r][1]
      BY <1>1, <3>1, TailFacts
    <3>3. done = IF t = "interleave" THEN Merged(kept[r], left[r][1])
                 ELSE Append(kept[r], Changed(r, t, left[r][1]))
      BY <3>2
    <3> HIDE DEF done
    <3>4. MixedRows(t, Tail(left[r]), done, req[r])
      BY <1>1, <2>1, <2>3, <3>3, ChangedMix
    <3> QED
      BY <1>2, <2>3, <3>1, <3>4 DEF Agreement, HomeAgrees
  <2>4. CASE req[r].kind = "children" /\ req[r].start = 0
    <3>1. /\ todo[r] # ChildrenChain /\ todo[r] \in Seq(ChildrenTransforms)
          /\ left[r] \in Seq(Item) /\ kept[r] \in Seq(Item)
          /\ req[r].ids \in Seq(Collections) /\ Len(req[r].ids) \in Nat
      BY <1>1, <2>1, <2>4, ChildrenAtWork, NotALibrary
    <3>2. t \in ChildrenTransforms /\ left[r][1] \in Item /\ Head(left[r]) = left[r][1]
      BY <1>1, <3>1, TailFacts
    <3> DEFINE y == Changed(r, t, left[r][1])
    <3>3. y \in Item /\ y.id = left[r][1].id
      BY <3>2, ChangedId
    <3>4. done = Append(kept[r], y)
      BY <3>2 DEF ChildrenTransforms
    <3>5. PICK f : /\ Mixing(f, req[r].ids) /\ Begins(req[r].row, f[Len(req[r].ids)])
                   /\ PageAgrees(req[r], f, todo[r], left[r], kept[r])
      BY <2>1, <2>4, ChildrenAtWork DEF ChildrenAgree
    <3> DEFINE all == f[Len(req[r].ids)]
    <3>6. Len(all) \in Nat
      BY <3>1, <3>5, MixingItems, LenProperties
    <3>7. Runs(kept[r], left[r], all)
      BY <3>1, <3>5 DEF PageAgrees
    <3> HIDE DEF y, all
    <3>8. Runs(done, Tail(left[r]), all)
      BY <1>1, <3>1, <3>3, <3>4, <3>6, <3>7, RunsMoves
    <3>9. PageAgrees(req[r], f, todo'[r], left'[r], kept'[r])
      BY <1>1, <1>2, <3>1, <3>8 DEF PageAgrees, all
    <3>10. ChildrenAgree(req[r], todo'[r], left'[r], kept'[r])
      BY <3>5, <3>9 DEF ChildrenAgree
    <3> QED
      BY <2>4, <3>10 DEF Agreement
  <2> QED
    BY <2>2, <2>3, <2>4 DEF Agreement
<1> QED
  BY <1>1, <1>3, AgreeingStep

\* A collection is mixed in, unless the request has failed.
LEMMA MixAgrees ==
    ASSUME AgreeInv, NEW r \in Requests, MixCollection(r)
    PROVE  AgreeingInv(r)'
<1>0. CompleteInv /\ SlotTypes /\ WorkTypes(r)
  BY DEF AgreeInv, CompleteInv, SharedInv, TypeInv
<1> DEFINE c == Head(left[r]).of
           page == PageOf(r, c, seen[r])
<1>1. /\ todo[r] # <<>> /\ left[r] # <<>> /\ at[r] = "change" /\ Head(todo[r]) = "library"
      /\ Wanted(r) # NoName => seen[r] # NotYet
      /\ UNCHANGED <<world, req, todo>>
      /\ \/ kept' = [kept EXCEPT ![r] = Interleaved(kept[r], page)] /\ failed' = failed
         \/ failed' = [failed EXCEPT ![r] = TRUE]
      /\ left' = [left EXCEPT ![r] = Tail(left[r])]
  BY DEF MixCollection, Busy, Answered
<1>2. Children(r) /\ todo[r] = ChildrenChain
  BY <1>0, <1>1, WorkFacts
<1> HIDE DEF page
<1>3. ASSUME Comparing(r)'
      PROVE  Agreement(req[r], todo'[r], left'[r], kept'[r])
  <2>1. kept' = [kept EXCEPT ![r] = Interleaved(kept[r], page)] /\ failed' = failed
    BY <1>0, <1>1, <1>3 DEF Comparing, SlotTypes
  <2>2. kept'[r] = Interleaved(kept[r], page) /\ left'[r] = Tail(left[r]) /\ todo'[r] = ChildrenChain
    BY <1>0, <1>1, <1>2, <2>1 DEF SlotTypes, IsFunction
  <2>3. Comparing(r) /\ req[r].kind = "children"
    BY <1>1, <1>2, <1>3, <2>1, ComparingStays DEF Children
  <2>4. left[r] \in Seq(Stubs) /\ req[r].ids \in Seq(Collections)
    BY <1>2, <2>3, ChildrenAtWork
  <2>5. Head(left[r]) = left[r][1] /\ left[r][1] \in Stubs
    BY <1>1, <2>4, TailFacts
  <2>6. CASE req[r].start = 0
    <3>1. PICK f : /\ Mixing(f, req[r].ids) /\ Begins(req[r].row, f[Len(req[r].ids)])
                   /\ Gathering(f, req[r].ids, left[r], kept[r])
      BY <1>2, <2>3, <2>6, ChildrenAtWork DEF ChildrenAgree, PageAgrees
    <3>2. /\ Brief(left[r][1].of)
          /\ Gathering(f, req[r].ids, Tail(left[r]), Interleaved(kept[r], Showable(left[r][1].of)))
      BY <1>1, <2>4, <3>1, GatheringMoves
    <3>3. Wanted(r) = c
      BY <1>1 DEF Wanted, Asks
    <3>4. c \in Collections /\ c # NoName /\ c # List
      BY <2>5, WorldAssumption DEF Stubs
    <3>5. seen[r].value = labels[c]
      BY <1>0, <1>1, <2>3, <3>3, <3>4, FoundThere DEF AtPlex
    <3>6. page = Showable(c)
      BY <2>5, <2>6, <3>2, <3>5, WholePage DEF page
    <3>7. Gathering(f, req[r].ids, left'[r], kept'[r])
      BY <2>2, <2>5, <3>2, <3>6
    <3>8. ChildrenAgree(req[r], todo'[r], left'[r], kept'[r])
      BY <2>2, <3>1, <3>7 DEF ChildrenAgree, PageAgrees
    <3> QED
      BY <2>3, <3>8 DEF Agreement
  <2>7. CASE req[r].start # 0
    BY <2>3, <2>7 DEF Agreement
  <2> QED
    BY <2>6, <2>7
<1> QED
  BY <1>1, <1>3, AgreeingStep

\* A transform is done, and what it has kept is what the next one begins with.
LEMMA FinishAgrees ==
    ASSUME AgreeInv, NEW r \in Requests, FinishTransform(r)
    PROVE  AgreeingInv(r)'
<1>0. CompleteInv /\ SlotTypes
  BY DEF AgreeInv, CompleteInv, SharedInv, TypeInv
<1>1. /\ todo[r] # <<>> /\ left[r] = <<>> /\ UNCHANGED <<world, req, failed>>
      /\ todo' = [todo EXCEPT ![r] = Tail(todo[r])]
      /\ left' = [left EXCEPT ![r] = kept[r]] /\ kept' = [kept EXCEPT ![r] = <<>>]
  BY DEF FinishTransform, Busy
<1>2. todo'[r] = Tail(todo[r]) /\ left'[r] = kept[r] /\ kept'[r] = <<>>
  BY <1>0, <1>1 DEF SlotTypes, IsFunction
<1>3. ASSUME Comparing(r)'
      PROVE  Agreement(req[r], todo'[r], left'[r], kept'[r])
  <2>1. Comparing(r)
    BY <1>1, <1>3, ComparingStays
  <2>2. CASE req[r].kind = "home" /\ req[r].skips
    <3>1. todo[r] = <<"visibility">> /\ Each(kept[r], TheirKind)
      BY <1>1, <2>1, <2>2, HomeAtWork DEF HomeAgrees
    <3>2. todo'[r] = <<>> /\ Each(kept'[r], TheirKind)
      BY <1>2, <3>1, EmptyKinds
    <3> QED
      BY <1>2, <2>2, <3>1, <3>2 DEF Agreement, HomeAgrees
  <2>3. CASE req[r].kind = "home" /\ ~req[r].skips
    <3>1. Completing(r) /\ MixedRows(Head(todo[r]), <<>>, kept[r], req[r])
      BY <1>1, <2>1, <2>3, HomeAtWork
    <3>2. Tail(todo[r]) \in HomeRests /\ <<Head(todo[r]), StageOf(Tail(todo[r]))>> \in Turns
      BY <1>0, <1>1, <3>1, AtWork
    <3>3. MixedRows(StageOf(Tail(todo[r])), kept[r], <<>>, req[r])
      BY <3>1, <3>2, MixedTurns
    <3> QED
      BY <1>2, <2>3, <3>2, <3>3 DEF Agreement, HomeAgrees
  <2>4. CASE req[r].kind = "children" /\ req[r].start = 0
    <3> DEFINE ids == req[r].ids
    <3>1. /\ kept[r] \in Seq(Item) /\ ids \in Seq(Collections) /\ Len(ids) \in Nat
          /\ todo[r] = ChildrenChain \/ todo[r] \in Seq(ChildrenTransforms)
      BY <2>1, <2>4, ChildrenAtWork
    <3>2. PICK f : /\ Mixing(f, ids) /\ Begins(req[r].row, f[Len(ids)])
                   /\ PageAgrees(req[r], f, todo[r], left[r], kept[r])
      BY <2>1, <2>4, ChildrenAtWork DEF ChildrenAgree
    <3> DEFINE all == f[Len(ids)]
    <3>3. Len(all) \in Nat
      BY <3>1, <3>2, MixingItems, LenProperties
    <3>4. Runs(<<>>, kept[r], all)
      <4>1. CASE todo[r] = ChildrenChain
        <5>1. Gathering(f, ids, <<>>, kept[r])
          BY <1>1, <3>2, <4>1 DEF PageAgrees
        <5> QED
          BY <3>1, <3>2, <5>1, GatheringTurns
      <4>2. CASE todo[r] # ChildrenChain
        <5>1. Runs(kept[r], <<>>, all)
          BY <1>1, <3>2, <4>2 DEF PageAgrees
        <5> HIDE DEF all
        <5> QED
          BY <3>1, <3>3, <5>1, RunsTurns
      <4> QED
        BY <4>1, <4>2
    <3>5. Tail(todo[r]) # ChildrenChain
      <4>1. CASE todo[r] = ChildrenChain
        <5>1. Head(Tail(todo[r])) = "restriction" /\ Head(ChildrenChain) = "library"
          BY <4>1 DEF ChildrenChain
        <5> QED
          BY <5>1
      <4>2. CASE todo[r] \in Seq(ChildrenTransforms)
        <5>1. Tail(todo[r]) \in Seq(ChildrenTransforms)
          BY <1>1, <4>2, TailFacts
        <5>2. ChildrenChain \notin Seq(ChildrenTransforms)
          BY TailFacts, NotALibrary
        <5> QED
          BY <5>1, <5>2
      <4> QED
        BY <3>1, <4>1, <4>2
    <3>6. PageAgrees(req[r], f, todo'[r], left'[r], kept'[r])
      BY <1>2, <3>4, <3>5 DEF PageAgrees
    <3>7. ChildrenAgree(req[r], todo'[r], left'[r], kept'[r])
      BY <3>2, <3>6 DEF ChildrenAgree
    <3> QED
      BY <2>4, <3>7 DEF Agreement
  <2> QED
    BY <2>2, <2>3, <2>4 DEF Agreement
<1> QED
  BY <1>1, <1>3, AgreeingStep

\* A lookup leaves rows and items alone.
LEMMA LookAgrees ==
    ASSUME AgreeInv, NEW r \in Requests, Look(r)
    PROVE  AgreeingInv(r)'
<1>0. SlotTypes
  BY DEF AgreeInv, CompleteInv, SharedInv, TypeInv
<1>1. UNCHANGED <<world, req, todo, left, kept>>
  BY DEF Look
<1>2. failed' = failed \/ failed' = [failed EXCEPT ![r] = TRUE]
  BY DEF Look
<1>3. failed[r] => failed'[r]
  BY <1>0, <1>2 DEF SlotTypes
<1>4. Comparing(r)' => Comparing(r)
  BY <1>1, <1>3, ComparingStays
<1>5. Comparing(r) => Agreement(req[r], todo[r], left[r], kept[r])
  BY DEF AgreeInv, AgreeingInv
<1> QED
  BY <1>1, <1>4, <1>5, AgreeingStep

-----------------------------------------------------------------------------
\* A request begins with what its kind begins with.
LEMMA BeginAgrees ==
    ASSUME AgreeInv, NEW r \in Requests, NEW request, NEW chain, NEW children,
           Begin(r, request, chain, children),
           changes = 0 /\ ~failed'[r] /\ config.interleave /\ WholeRows(request.raw)
               => Agreement(request, chain, children, <<>>)
    PROVE  AgreeingInv(r)'
<1>0. SlotTypes
  BY DEF AgreeInv, CompleteInv, SharedInv, TypeInv
<1>1. /\ UNCHANGED <<config, labels, changes>>
      /\ req' = [req EXCEPT ![r] = request] /\ todo' = [todo EXCEPT ![r] = chain]
      /\ left' = [left EXCEPT ![r] = children] /\ kept' = [kept EXCEPT ![r] = <<>>]
  BY DEF Begin, world
<1>2. req'[r] = request /\ todo'[r] = chain /\ left'[r] = children /\ kept'[r] = <<>>
  BY <1>0, <1>1 DEF SlotTypes, IsFunction
<1>3. ASSUME Comparing(r)' PROVE Agreement(req[r], todo[r], left[r], kept[r])'
  <2> DEFINE q == req'[r]
             rest == todo'[r]
             xs == left'[r]
             ys == kept'[r]
  <2>1. WholeRows(request.raw)
    BY <1>1, <1>2, <1>3, AgreementLasts DEF Comparing, WholeRows, Whole
  <2>2. Agreement(q, rest, xs, ys)
    BY <1>1, <1>2, <1>3, <2>1 DEF Comparing
  <2> QED
    BY <1>1, <2>2, AgreementLasts
<1> QED
  BY <1>3 DEF AgreeingInv

\* A home screen: the rows of Plex, which lead to Plex.
LEMMA HomeBeginsWhole ==
    ASSUME NEW a \in Accounts, NEW q, q.raw = HomeRows[a], q.kind = "home", q.skips \in BOOLEAN,
           WholeRows(q.raw)
    PROVE  Agreement(q, HomeChain(q.skips), q.raw, <<>>)
<1>1. q.raw \in Seq(Hub)
  BY WorldAssumption
<1>2. ASSUME NEW n \in 1..Len(q.raw)
      PROVE  /\ ~q.raw[n].ours
             /\ q.raw[n].key # NoKey => \A k \in 1..Len(q.raw[n].key) : q.raw[n].key[k] = q.raw[n].of
  BY RawKeys
<1>3. Each(q.raw, WholeKind) /\ Each(q.raw, KinOf(q))
  BY <1>1, <1>2, WholeRowKinds
<1>4. Each(q.raw, TheirKind)
  BY <1>1, <1>2, ElementOfSeq DEF Each, TheirKind
<1>5. CASE q.skips
  <2>1. HomeChain(q.skips) = <<"visibility">> /\ Each(<<>>, TheirKind)
    BY <1>5, EmptyKinds DEF HomeChain
  <2> QED
    BY <1>4, <1>5, <2>1 DEF Agreement, HomeAgrees
<1>6. CASE ~q.skips
  <2>1. HomeChain(q.skips) \in HomeRests /\ StageOf(HomeChain(q.skips)) = "visibility"
    BY <1>6 DEF HomeChain, HomeRests, StageOf
  <2>2. \A S : Each(<<>>, S)
    BY EmptyKinds
  <2>3. MixedRows("visibility", q.raw, <<>>, q)
    BY <1>3, <2>2 DEF MixedRows
  <2> QED
    BY <1>6, <2>1, <2>3 DEF Agreement, HomeAgrees
<1> QED
  BY <1>5, <1>6

LEMMA AskHomeAgrees ==
    ASSUME AgreeInv, NEW r \in Requests, AskHome(r)
    PROVE  AgreeingInv(r)'
<1>1. PICK c \in Clients :
          Begin(r, HomeOf(NoRequest, c, HomeRows[c.account]), HomeChain(c.skips), HomeRows[c.account])
  BY DEF AskHome, HomeOf
<1>2. c \in Client /\ HomeRows[c.account] \in Seq(Hub) /\ c.skips \in BOOLEAN /\ c.account \in Accounts
  BY WorldAssumption DEF Client
<1> DEFINE request == HomeOf(NoRequest, c, HomeRows[c.account])
<1>3. request.kind = "home" /\ request.raw = HomeRows[c.account] /\ request.skips = c.skips
  BY <1>2, BlankType, HomeRecord
<1>4. Begin(r, request, HomeChain(request.skips), request.raw)
  BY <1>1, <1>3
<1> HIDE DEF request
<1>5. WholeRows(request.raw) => Agreement(request, HomeChain(request.skips), request.raw, <<>>)
  BY <1>2, <1>3, HomeBeginsWhole
<1> QED
  BY <1>4, <1>5, BeginAgrees

LEMMA AskPageAgrees ==
    ASSUME AgreeInv, NEW r \in Requests, AskPage(r)
    PROVE  AgreeingInv(r)'
<1>1. PICK a \in Accounts, page \in Pages :
          Begin(r, PageOn(NoRequest, a, RawItems(page)), PolicyChain, RawItems(page))
  BY DEF AskPage, PageOn
<1>2. RawItems(page) \in Seq(Item)
  BY RawPage
<1> DEFINE request == PageOn(NoRequest, a, RawItems(page))
<1>3. request.kind = "page"
  BY <1>2, BlankType, PageRecord
<1>4. Begin(r, request, PolicyChain, RawItems(page))
  BY <1>1
<1> HIDE DEF request
<1>5. Agreement(request, PolicyChain, RawItems(page), <<>>)
  BY <1>3 DEF Agreement
<1> QED
  BY <1>4, <1>5, BeginAgrees

\* A refresh: the collections of the key of a row that was shown.
LEMMA StubGathers ==
    ASSUME NEW ids \in Seq(Collections), NEW f, Mixing(f, ids), config.interleave
    PROVE  Gathering(f, ids, Stub(ids), <<>>)
<1>1. Len(ids) \in Nat
  BY LenProperties
<1> DEFINE e(n) == [is |-> "collection", of |-> ids[n]]
           xs == [n \in 1..Len(ids) |-> e(n)]
<1>2. Stub(ids) = xs
  BY Zenon DEF Stub
<1>3. \A n \in 1..Len(ids) : e(n).of = ids[n]
  OBVIOUS
<1> HIDE DEF e
<1>4. Len(xs) = Len(ids) /\ \A n \in 1..Len(xs) : xs[n].of = ids[Len(ids) - Len(xs) + n]
  BY <1>1, <1>3
<1>5. Len(ids) - Len(xs) = 0 /\ f[0] = <<>>
  BY <1>1, <1>4 DEF Mixing
<1> HIDE DEF xs
<1>6. Gathering(f, ids, xs, <<>>)
  BY <1>1, <1>4, <1>5 DEF Gathering
<1> QED
  BY <1>2, <1>6, Zenon

LEMMA ChildrenBegin ==
    ASSUME AgreeInv, NEW r \in Requests, Comparing(r), req[r].kind = "home", todo[r] = <<>>,
           NEW n \in 1..Len(left[r]), left[r][n].ours, left[r][n].key \notin {NoKey, <<>>},
           NEW q, q.kind = "children", q.ids = left[r][n].key, q.row = left[r][n].items
    PROVE  Agreement(q, ChildrenChain, Stub(q.ids), <<>>)
<1> DEFINE row == left[r][n]
<1>1. left[r] \in Seq(Hub) /\ HomeAgrees(req[r], <<>>, left[r], kept[r])
  BY HomeAtWork
<1>2. row \in Hub
  BY <1>1, ElementOfSeq
<1>3. ~req[r].skips
  BY <1>1 DEF HomeAgrees, Each, TheirKind
<1>4. row \in ShownKind
  BY <1>1, <1>3 DEF HomeAgrees, StageOf, MixedRows, Each
<1> HIDE DEF row
<1>5. q.ids \in Seq(Collections) /\ q.ids = row.key /\ q.row = row.items
  BY <1>2, HubFacts DEF row
<1>6. row.key # NoKey /\ row.key # <<>>
  BY DEF row
<1>7. PICK f : Mixing(f, q.ids) /\ Begins(q.row, f[Len(q.ids)])
  BY <1>4, <1>5, <1>6 DEF ShownKind
<1>8. Gathering(f, q.ids, Stub(q.ids), <<>>)
  BY <1>5, <1>7, StubGathers DEF Comparing
<1> QED
  BY <1>7, <1>8 DEF Agreement, ChildrenAgree, PageAgrees

LEMMA RefreshBegins ==
    ASSUME AgreeInv, NEW r \in Requests, Refresh(r)
    PROVE  AgreeingInv(r)'
<1>0. /\ todo[r] = <<>> /\ req[r].kind = "home" /\ failed' = failed
      /\ Home(r) /\ req[r] \in Request
  <2>1. todo[r] = <<>> /\ req[r].kind = "home" /\ failed' = failed
    BY DEF Refresh, Idle
  <2>2. Home(r) /\ req[r] \in Request
    BY <2>1, HomeWork DEF AgreeInv, CompleteInv, SharedInv, TypeInv, SlotTypes
  <2> QED
    BY <2>1, <2>2
<1>1. PICK n \in 1..Len(left[r]) :
          left[r][n].ours /\ (AskChildren(r, left[r][n]) \/ AskDefault(r, left[r][n]))
  BY DEF Refresh
<1> DEFINE row == left[r][n]
<1>2. row \in Hub
  BY <1>0, ElementOfSeq DEF Home
<1>3. row.items \in Seq(Item) /\ row.key \in Seq(Collections) \cup {NoKey}
  BY <1>2, HubFacts
<1>4. CASE AskChildren(r, row)
  <2>1. PICK start \in Starts :
            Begin(r, ChildrenOf(req[r], row.key, start, row.items), ChildrenChain, Stub(row.key))
    BY <1>4 DEF AskChildren, ChildrenOf
  <2>2. row.key \notin {NoKey, <<>>} /\ row.key \in Seq(Collections) /\ start \in Nat
    BY <1>3, <1>4, WorldAssumption DEF AskChildren
  <2> DEFINE request == ChildrenOf(req[r], row.key, start, row.items)
  <2>3. /\ request.kind = "children" /\ request.raw = req[r].raw
        /\ request.ids = row.key /\ request.row = row.items
    BY <1>0, <1>3, <2>2, ChildrenRecord, ChildrenSlots
  <2>4. Begin(r, request, ChildrenChain, Stub(request.ids))
    BY <2>1, <2>3
  <2> HIDE DEF request
  <2>5. ASSUME changes = 0 /\ ~failed'[r] /\ config.interleave /\ WholeRows(request.raw)
        PROVE  Agreement(request, ChildrenChain, Stub(request.ids), <<>>)
    <3>1. Comparing(r)
      BY <1>0, <2>3, <2>5 DEF Comparing
    <3> QED
      BY <1>0, <1>1, <2>2, <2>3, <3>1, ChildrenBegin
  <2> QED
    BY <2>4, <2>5, BeginAgrees
<1>5. CASE AskDefault(r, row)
  <2>1. PICK raw \in {req[r].raw[k] : k \in 1..Len(req[r].raw)} :
            Begin(r, DefaultOf(req[r], row.items), DefaultChain, raw.items)
    BY <1>5 DEF AskDefault, DefaultOf
  <2> DEFINE request == DefaultOf(req[r], row.items)
  <2>2. request.kind = "default"
    BY <1>0, <1>3, DefaultRecord
  <2>3. Begin(r, request, DefaultChain, raw.items)
    BY <2>1
  <2> HIDE DEF request
  <2>4. Agreement(request, DefaultChain, raw.items, <<>>)
    BY <2>2 DEF Agreement
  <2> QED
    BY <2>3, <2>4, BeginAgrees
<1> QED
  BY <1>1, <1>4, <1>5

-----------------------------------------------------------------------------
\* What is known of a request that nobody touches lasts.
LEMMA AgreeingLasts ==
    ASSUME NEW r, UNCHANGED world, AgreeingInv(r),
           req'[r] = req[r], todo'[r] = todo[r], left'[r] = left[r], kept'[r] = kept[r],
           failed'[r] = failed[r]
    PROVE  AgreeingInv(r)'
<1>1. Comparing(r)' => Comparing(r)
  BY ComparingStays
<1> QED
  BY <1>1, AgreeingStep DEF AgreeingInv

LEMMA RequestStepAgrees ==
    ASSUME AgreeInv, NEW r \in Requests, RequestStep(r)
    PROVE  AgreeInv'
<1>0. CompleteInv /\ CompleteInv' /\ TypeInv /\ UNCHANGED world
  BY RequestStepProgress, WorldStays DEF AgreeInv, CompleteInv, SharedInv
<1>1. AgreeingInv(r)'
  BY AskHomeAgrees, AskPageAgrees, RefreshBegins, LookAgrees, FilterAgrees, ChangeAgrees, MixAgrees,
     FinishAgrees DEF RequestStep
<1>2. ASSUME NEW q \in Requests \ {r}
      PROVE  AgreeingInv(q)'
  <2>1. /\ req'[q] = req[q] /\ todo'[q] = todo[q] /\ left'[q] = left[q] /\ kept'[q] = kept[q]
        /\ failed'[q] = failed[q]
    BY <1>0, OthersStay
  <2>2. AgreeingInv(q)
    BY DEF AgreeInv
  <2> QED
    BY <1>0, <2>1, <2>2, AgreeingLasts
<1> QED
  BY <1>0, <1>1, <1>2 DEF AgreeInv

\* Every step keeps the invariant, and so every reachable state has it.
LEMMA NextAgrees == AgreeInv /\ [Next]_vars => AgreeInv'
<1> SUFFICES ASSUME AgreeInv, [Next]_vars PROVE AgreeInv'
  OBVIOUS
<1>0. CompleteInv' /\ changes \in Nat
  <2>1. CompleteInv /\ CompleteInv'
    BY NextProgress DEF AgreeInv
  <2> QED
    BY <2>1, WorldAssumption DEF CompleteInv, SharedInv, TypeInv, WorldTypes
<1>1. ASSUME NEW r \in Requests, RequestStep(r)
      PROVE  AgreeInv'
  BY <1>1, RequestStepAgrees
<1>2. ASSUME changes' = changes + 1
      PROVE  AgreeInv'
  <2>1. changes' # 0
    BY <1>0, <1>2
  <2> QED
    BY <1>0, <2>1 DEF AgreeInv, AgreeingInv, Comparing
<1>3. CASE UNCHANGED vars
  <2>1. UNCHANGED world /\ UNCHANGED slots
    BY <1>3 DEF vars
  <2>2. ASSUME NEW r \in Requests
        PROVE  AgreeingInv(r)'
    <3>1. AgreeingInv(r)
      BY DEF AgreeInv
    <3> QED
      BY <2>1, <3>1, AgreeingLasts DEF slots
  <2> QED
    BY <1>0, <2>2 DEF AgreeInv
<1>4. ASSUME NEW c \in Collections, Relabel(c) \/ \E a \in Accounts : Share(a, c)
      PROVE  AgreeInv'
  BY <1>2, <1>4 DEF Relabel, Share
<1>5. CASE Reload
  BY <1>2, <1>5 DEF Reload
<1>6. ASSUME NEW a \in Accounts, NEW name \in Names, Forget(a, name)
      PROVE  AgreeInv'
  BY <1>2, <1>6 DEF Forget
<1> QED
  BY <1>1, <1>3, <1>4, <1>5, <1>6 DEF Next

LEMMA InitAgrees == Init => AgreeInv
<1> SUFFICES ASSUME Init PROVE AgreeInv
  OBVIOUS
<1>1. ASSUME NEW r \in Requests
      PROVE  AgreeingInv(r)
  <2>1. req[r].kind = "none"
    BY BlankType DEF Init
  <2> QED
    BY <2>1 DEF AgreeingInv, Comparing
<1> QED
  BY <1>1, InitProgress DEF AgreeInv

LEMMA AgreeingHolds == Spec => []AgreeInv
BY InitAgrees, NextAgrees, PTL DEF Spec

\* Sequences of items, the ids of one of which the other begins with.
LEMMA BeginningIds ==
    ASSUME NEW a \in Seq(Item), NEW b \in Seq(Item), Len(a) <= Len(b),
           \A n \in 1..Len(a) : a[n].id = b[n].id
    PROVE  Len(IdsOf(a)) <= Len(IdsOf(b)) /\ SubSeq(IdsOf(b), 1, Len(IdsOf(a))) = IdsOf(a)
<1>1. ASSUME NEW s \in Seq(Item)
      PROVE  /\ IdsOf(s) \in Seq(Items) /\ Len(IdsOf(s)) = Len(s) /\ Len(s) \in Nat
             /\ \A n \in 1..Len(s) : IdsOf(s)[n] = s[n].id
  <2>1. Len(s) \in Nat /\ \A n \in 1..Len(s) : s[n] \in Item /\ s[n].id \in Items
    BY LenProperties, ElementOfSeq, ItemFacts
  <2> DEFINE e(n) == s[n].id
  <2>2. \A n \in 1..Len(s) : e(n) \in Items
    BY <2>1
  <2> HIDE DEF e
  <2>3. [n \in 1..Len(s) |-> e(n)] \in Seq(Items)
    BY <2>1, <2>2, IsASeq
  <2>4. IdsOf(s) \in Seq(Items)
    BY <2>3, Zenon DEF IdsOf, e
  <2> QED
    BY <2>1, <2>4 DEF IdsOf
<1> DEFINE row == IdsOf(a)
           page == IdsOf(b)
<1>2. /\ row \in Seq(Items) /\ page \in Seq(Items) /\ Len(row) = Len(a) /\ Len(page) = Len(b)
      /\ Len(row) \in Nat /\ Len(page) \in Nat
      /\ \A n \in 1..Len(row) : row[n] = page[n]
  BY <1>1
<1> HIDE DEF row, page
<1>3. /\ SubSeq(page, 1, Len(row)) \in Seq(Items) /\ Len(SubSeq(page, 1, Len(row))) = Len(row)
      /\ \A n \in 1..Len(row) : SubSeq(page, 1, Len(row))[n] = page[n]
  BY <1>2, SubSeqFacts
<1>4. SubSeq(page, 1, Len(row)) = row
  BY <1>2, <1>3, SeqEqual
<1> QED
  BY <1>2, <1>4 DEF row, page

(***************************************************************************)
(* The refresh of a collection row begins with what the row showed, of     *)
(* however many collections the row is merged, for rows that come whole    *)
(* (Comparable), while nothing changes at Plex and no lookup fails: home   *)
(* screen and refresh filter each collection alike and mix them alike.     *)
(***************************************************************************)
THEOREM AgreeCorrect == Spec => []RefreshAgrees
<1>1. ASSUME AgreeInv PROVE RefreshAgrees
  <2> SUFFICES ASSUME NEW r \in Requests, Comparable(r), config.interleave PROVE Agrees(r)
    BY DEF RefreshAgrees
  <2>1. Comparing(r) /\ req[r].kind = "children" /\ todo[r] = <<>> /\ req[r].start = 0
    BY DEF Comparable, Done, Idle, Comparing
  <2>2. req[r] \in Request /\ left[r] \in Seq(Item) /\ req[r].ids \in Seq(Collections)
    BY <1>1, <2>1, ChildrenAtWork, NotALibrary
       DEF AgreeInv, CompleteInv, SharedInv, TypeInv, SlotTypes
  <2>3. req[r].row \in Seq(Item)
    BY <2>2 DEF Request
  <2>4. PICK f : /\ Mixing(f, req[r].ids) /\ Begins(req[r].row, f[Len(req[r].ids)])
                 /\ PageAgrees(req[r], f, <<>>, left[r], kept[r])
    BY <1>1, <2>1, ChildrenAtWork DEF ChildrenAgree
  <2> DEFINE all == f[Len(req[r].ids)]
             row == req[r].row
             page == left[r]
  <2>5. Len(all) \in Nat
    BY <2>2, <2>4, MixingItems, LenProperties
  <2>6. Begins(row, all) /\ Runs(<<>>, page, all)
    BY <2>4, NotALibrary DEF PageAgrees
  <2> HIDE DEF all, row, page
  <2>7. Len(page) \in Nat /\ Len(row) \in Nat
    BY <2>2, <2>3, LenProperties DEF row, page
  <2>8. Len(page) = Len(all) /\ \A n \in 1..Len(page) : page[n].id = all[n].id
    BY <2>5, <2>6, <2>7 DEF Runs
  <2>9. Len(row) <= Len(page) /\ \A n \in 1..Len(row) : row[n].id = page[n].id
    BY <2>5, <2>6, <2>7, <2>8 DEF Begins
  <2> QED
    BY <2>2, <2>3, <2>9, BeginningIds DEF Agrees, row, page
<1> QED
  BY <1>1, AgreeingHolds, PTL
=============================================================================
