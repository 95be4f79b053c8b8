----------------------------- MODULE ListFacts -----------------------------
(***************************************************************************)
(* Lemmas about numbers, lists and sums that the proofs of several         *)
(* components cite.  Induction is stated for a set, not for a formula: a   *)
(* proof that uses it defines the set of numbers, or of lists, for which   *)
(* its claim holds.                                                        *)
(***************************************************************************)
EXTENDS Lists, Functions, FiniteSetTheorems, TLAPS

-----------------------------------------------------------------------------
(* Induction. *)

Beyond(k, n) == {j \in 1 .. n : j > k}

LEMMA SomeLast ==
  ASSUME NEW n \in Nat, NEW T \in SUBSET (1 .. n), T # {}
  PROVE  \E k \in T : \A j \in T : j <= k
<1> DEFINE Tails == {Beyond(k, n) : k \in T}
           Less == StrictSubsetOrdering(1 .. n)
<1>1. Tails \subseteq FiniteSubsetsOf(1 .. n)
  <2>1. IsFiniteSet(1 .. n)
    BY FS_Interval
  <2>2. FiniteSubsetsOf(1 .. n) = SUBSET (1 .. n)
    BY <2>1, FS_FiniteSubsetsOfFinite
  <2>3. \A k : Beyond(k, n) \in SUBSET (1 .. n)
    BY DEF Beyond
  <2> QED
    BY <2>2, <2>3
<1>2. Tails # {}
  <2>1. PICK some \in T : TRUE
    OBVIOUS
  <2>2. Beyond(some, n) \in Tails
    OBVIOUS
  <2> QED
    BY <2>2
<1>3. PICK tail \in Tails : \A b \in Tails : ~ (<<b, tail>> \in Less)
  <2> HIDE DEF Tails, Less
  <2>1. IsWellFoundedOn(Less, FiniteSubsetsOf(1 .. n))
    BY FS_StrictSubsetOrderingWellFounded DEF Less
  <2> QED
    BY <1>1, <1>2, <2>1, WFMin
<1>4. PICK k \in T : tail = Beyond(k, n)
  OBVIOUS
<1>5. \A j \in T : j <= k
  <2> SUFFICES ASSUME NEW j \in T, j > k PROVE FALSE
    OBVIOUS
  <2>1. Beyond(j, n) \subseteq Beyond(k, n) /\ j \in Beyond(k, n) /\ j \notin Beyond(j, n)
    BY DEF Beyond
  <2>2. <<Beyond(j, n), tail>> \in Less
    BY <1>4, <2>1 DEF StrictSubsetOrdering, Beyond
  <2> QED
    BY <1>3, <2>2
<1> QED
  BY <1>5

\* A set of numbers that has 0, and the next of each of its numbers, has all.
LEMMA NatInduct ==
  ASSUME NEW S, 0 \in S, \A n \in Nat : n \in S => n + 1 \in S
  PROVE  Nat \subseteq S
<1> SUFFICES ASSUME NEW n \in Nat, n \notin S PROVE FALSE
  OBVIOUS
<1> DEFINE T == {k \in 1 .. n + 1 : k - 1 \in S}
<1>1. T \in SUBSET (1 .. n + 1) /\ 1 \in T
  OBVIOUS
<1>2. PICK k \in T : \A j \in T : j <= k
  <2> HIDE DEF T
  <2>1. n + 1 \in Nat /\ T # {}
    BY <1>1
  <2> QED
    BY <1>1, <2>1, SomeLast
<1>3. k - 1 \in Nat /\ k - 1 \in S /\ k <= n
  OBVIOUS
<1>4. k \in S /\ k + 1 \in T
  BY <1>3
<1> QED
  BY <1>2, <1>3, <1>4

\* A list is empty, or one with an element behind it.
LEMMA ListInduct ==
  ASSUME NEW T, NEW S, <<>> \in S,
         \A s \in Seq(T), x \in T : s \in S => Append(s, x) \in S
  PROVE  Seq(T) \subseteq S
<1> DEFINE Lengths == {n \in Nat : \A s \in Seq(T) : Len(s) = n => s \in S}
<1>1. 0 \in Lengths
  <2>1. \A s \in Seq(T) : Len(s) = 0 => s = <<>>
    OBVIOUS
  <2> QED
    BY <2>1
<1>2. ASSUME NEW n \in Nat, n \in Lengths PROVE n + 1 \in Lengths
  <2> SUFFICES ASSUME NEW s \in Seq(T), Len(s) = n + 1 PROVE s \in S
    OBVIOUS
  <2> DEFINE front == [i \in 1 .. n |-> s[i]]
  <2>1. \A i \in 1 .. n + 1 : s[i] \in T
    OBVIOUS
  <2>2. front \in Seq(T) /\ Len(front) = n /\ \A i \in 1 .. n : front[i] = s[i]
    BY <2>1
  <2>3. s[n + 1] \in T /\ front \in S
    BY <1>2, <2>1, <2>2
  <2> HIDE DEF front
  <2>4. Append(front, s[n + 1]) = s
    BY <2>2, <2>1
  <2> QED
    BY <2>2, <2>3, <2>4
<1>3. Nat \subseteq Lengths
  <2> HIDE DEF Lengths
  <2> QED
    BY <1>1, <1>2, NatInduct
<1> QED
  BY <1>3

-----------------------------------------------------------------------------
(* What is in a list. *)

In(i, s) == \E a \in 1 .. Len(s) : s[a] = i

LEMMA TailFacts ==
  ASSUME NEW T, NEW s \in Seq(T), s # <<>>
  PROVE  /\ Tail(s) \in Seq(T) /\ Len(Tail(s)) = Len(s) - 1 /\ Len(s) \in Nat \ {0}
         /\ Head(s) = s[1] /\ Head(s) \in T /\ In(Head(s), s)
         /\ \A a \in 1 .. Len(s) - 1 : Tail(s)[a] = s[a + 1] /\ a + 1 \in 1 .. Len(s)
         /\ \A i : In(i, s) <=> i = Head(s) \/ In(i, Tail(s))
<1> DEFINE n == Len(s)
<1>1. n \in Nat \ {0} /\ Head(s) = s[1] /\ Len(Tail(s)) = n - 1 /\ Tail(s) \in Seq(T)
  OBVIOUS
<1>2. \A a \in 1 .. n - 1 : Tail(s)[a] = s[a + 1] /\ a + 1 \in 1 .. n
  OBVIOUS
<1>3. \A a \in 1 .. n : a = 1 \/ (a - 1 \in 1 .. n - 1 /\ Tail(s)[a - 1] = s[a])
  BY <1>1, <1>2
<1>4. Head(s) \in T /\ In(Head(s), s)
  BY <1>1 DEF In
<1>5. ASSUME NEW i PROVE In(i, s) <=> i = Head(s) \/ In(i, Tail(s))
  <2>1. ASSUME NEW a \in 1 .. n, s[a] = i PROVE i = Head(s) \/ In(i, Tail(s))
    BY <1>1, <1>3, <2>1 DEF In
  <2>2. ASSUME NEW a \in 1 .. n - 1, Tail(s)[a] = i PROVE In(i, s)
    BY <1>2, <2>2 DEF In
  <2>3. In(Head(s), s)
    BY <1>4
  <2> QED
    BY <1>1, <2>1, <2>2, <2>3 DEF In
<1> QED
  BY <1>1, <1>2, <1>4, <1>5

LEMMA AppendFacts ==
  ASSUME NEW T, NEW s \in Seq(T), NEW x \in T
  PROVE  /\ Append(s, x) \in Seq(T) /\ Len(Append(s, x)) = Len(s) + 1 /\ Len(s) \in Nat
         /\ Append(s, x)[Len(s) + 1] = x
         /\ \A a \in 1 .. Len(s) : Append(s, x)[a] = s[a]
         /\ \A i : In(i, Append(s, x)) <=> i = x \/ In(i, s)
<1> DEFINE t == Append(s, x)
           n == Len(s)
<1>1. /\ t \in Seq(T) /\ Len(t) = n + 1 /\ n \in Nat /\ t[n + 1] = x
      /\ \A a \in 1 .. n : t[a] = s[a]
  OBVIOUS
<1> HIDE DEF t
<1>2. \A a \in 1 .. n + 1 : a = n + 1 \/ a \in 1 .. n
  BY <1>1
<1>3. n + 1 \in 1 .. n + 1 /\ \A a \in 1 .. n : a \in 1 .. n + 1
  BY <1>1
<1>4. ASSUME NEW i PROVE In(i, t) <=> i = x \/ In(i, s)
  BY <1>1, <1>2, <1>3 DEF In
<1> QED
  BY <1>1, <1>4 DEF t

LEMMA ConcatFacts ==
  ASSUME NEW T, NEW s \in Seq(T), NEW t \in Seq(T)
  PROVE  /\ s \o t \in Seq(T) /\ Len(s \o t) = Len(s) + Len(t) /\ Len(s) \in Nat /\ Len(t) \in Nat
         /\ \A a \in 1 .. Len(s) : (s \o t)[a] = s[a]
         /\ \A b \in 1 .. Len(t) : (s \o t)[Len(s) + b] = t[b]
         /\ \A a \in 1 .. Len(s) + Len(t) : a \in 1 .. Len(s) \/ a - Len(s) \in 1 .. Len(t)
         /\ \A i : In(i, s \o t) <=> In(i, s) \/ In(i, t)
<1> DEFINE u == s \o t
           n == Len(s)
           m == Len(t)
<1>1. /\ u \in Seq(T) /\ Len(u) = n + m /\ n \in Nat /\ m \in Nat
      /\ \A a \in 1 .. n : u[a] = s[a]
      /\ \A b \in 1 .. m : u[n + b] = t[b]
  OBVIOUS
<1> HIDE DEF u
<1>2. \A a \in 1 .. n + m : a \in 1 .. n \/ (a - n \in 1 .. m /\ n + (a - n) = a)
  BY <1>1
<1>3. (\A a \in 1 .. n : a \in 1 .. n + m) /\ (\A b \in 1 .. m : n + b \in 1 .. n + m)
  BY <1>1
<1>4. ASSUME NEW i PROVE In(i, u) <=> In(i, s) \/ In(i, t)
  <2>1. ASSUME NEW a \in 1 .. n, s[a] = i PROVE In(i, u)
    BY <1>1, <1>3, <2>1 DEF In
  <2>2. ASSUME NEW b \in 1 .. m, t[b] = i PROVE In(i, u)
    BY <1>1, <1>3, <2>2 DEF In
  <2>3. ASSUME NEW a \in 1 .. n + m, u[a] = i PROVE In(i, s) \/ In(i, t)
    <3>1. CASE a \in 1 .. n
      BY <1>1, <2>3, <3>1 DEF In
    <3>2. CASE a \notin 1 .. n
      <4>1. PICK b \in 1 .. m : n + b = a
        BY <1>2, <3>2
      <4>2. t[b] = i
        BY <1>1, <2>3, <4>1
      <4> QED
        BY <4>2 DEF In
    <3> QED
      BY <3>1, <3>2
  <2> QED
    BY <1>1, <2>1, <2>2, <2>3 DEF In
<1> QED
  BY <1>1, <1>2, <1>4 DEF u

-----------------------------------------------------------------------------
(* The part of a list that is kept. *)

\* f has, for each i, what is kept of the first i elements of s.
UpTo(f, s, keep, n) ==
  f = [i \in 0 .. n |->
         IF i = 0 THEN <<>>
         ELSE IF s[i] \in keep THEN Append(f[i - 1], s[i]) ELSE f[i - 1]]

LEMMA UpToSteps ==
  ASSUME NEW f, NEW s, NEW keep, NEW n \in Nat, UpTo(f, s, keep, n)
  PROVE  /\ f[0] = <<>>
         /\ \A i \in 1 .. n : f[i] = IF s[i] \in keep THEN Append(f[i - 1], s[i]) ELSE f[i - 1]
<1>1. PICK g : g = f
  OBVIOUS
<1>2. f = [i \in 0 .. n |->
         IF i = 0 THEN <<>>
         ELSE IF s[i] \in keep THEN Append(g[i - 1], s[i]) ELSE g[i - 1]]
  BY <1>1 DEF UpTo
<1>3. 0 \in 0 .. n /\ \A i \in 1 .. n : i \in 0 .. n /\ i # 0
  OBVIOUS
<1> QED
  BY <1>1, <1>2, <1>3

LEMMA UpToExists ==
  ASSUME NEW s, NEW keep, NEW n \in Nat
  PROVE  \E f : UpTo(f, s, keep, n)
<1> DEFINE Good == {k \in Nat : \E f : UpTo(f, s, keep, k)}
<1>1. 0 \in Good
  <2> DEFINE f == [i \in 0 .. 0 |-> <<>>]
  <2>1. UpTo(f, s, keep, 0)
    BY DEF UpTo
  <2> QED
    BY <2>1
<1>2. ASSUME NEW k \in Nat, k \in Good PROVE k + 1 \in Good
  <2>1. PICK f : UpTo(f, s, keep, k)
    BY <1>2
  <2> DEFINE last == IF s[k + 1] \in keep THEN Append(f[k], s[k + 1]) ELSE f[k]
             g == [i \in 0 .. k + 1 |-> IF i = k + 1 THEN last ELSE f[i]]
  <2>2. /\ f[0] = <<>>
        /\ \A i \in 1 .. k : f[i] = IF s[i] \in keep THEN Append(f[i - 1], s[i]) ELSE f[i - 1]
    BY <2>1, UpToSteps
  <2>3. g[k + 1] = last /\ \A i \in 0 .. k : g[i] = f[i]
    BY DEF g
  <2>4. ASSUME NEW i \in 0 .. k + 1
        PROVE  (IF i = k + 1 THEN last ELSE f[i]) =
                 IF i = 0 THEN <<>>
                 ELSE IF s[i] \in keep THEN Append(g[i - 1], s[i]) ELSE g[i - 1]
    <3> HIDE DEF g
    <3>1. CASE i = 0
      BY <2>2, <3>1
    <3>2. CASE i = k + 1
      <4>1. g[i - 1] = f[k] /\ i # 0
        BY <2>3, <3>2
      <4> QED
        BY <3>2, <4>1
    <3>3. CASE i \in 1 .. k
      <4>1. g[i - 1] = f[i - 1] /\ i # 0 /\ i # k + 1
        BY <2>3, <3>3
      <4> QED
        BY <2>2, <3>3, <4>1
    <3> QED
      BY <3>1, <3>2, <3>3
  <2>5. UpTo(g, s, keep, k + 1)
    <3>1. PICK h : h = g
      OBVIOUS
    <3>2. h = [i \in 0 .. k + 1 |-> IF i = 0 THEN <<>>
                 ELSE IF s[i] \in keep THEN Append(h[i - 1], s[i]) ELSE h[i - 1]]
      BY <2>4, <3>1
    <3> QED
      BY <3>1, <3>2 DEF UpTo
  <2> QED
    BY <2>5
<1> HIDE DEF Good
<1>3. Nat \subseteq Good
  BY <1>1, <1>2, NatInduct
<1> QED
  BY <1>3 DEF Good

\* What is kept of the first k elements depends on them alone.
LEMMA UpToAgrees ==
  ASSUME NEW f, NEW g, NEW s, NEW t, NEW keep, NEW n \in Nat, NEW m \in Nat, NEW k \in Nat,
         UpTo(f, s, keep, n), UpTo(g, t, keep, m), k <= n, k <= m,
         \A i \in 1 .. k : s[i] = t[i]
  PROVE  f[k] = g[k]
<1> DEFINE Same == {j \in Nat : j <= k => f[j] = g[j]}
<1>1. f[0] = <<>> /\ g[0] = <<>>
  BY UpToSteps
<1>2. 0 \in Same
  BY <1>1
<1>3. ASSUME NEW j \in Nat, j \in Same PROVE j + 1 \in Same
  <2> SUFFICES ASSUME j + 1 <= k PROVE f[j + 1] = g[j + 1]
    OBVIOUS
  <2>1. j + 1 \in 1 .. n /\ j + 1 \in 1 .. m /\ s[j + 1] = t[j + 1] /\ (j + 1) - 1 = j
    OBVIOUS
  <2>2. f[j + 1] = IF s[j + 1] \in keep THEN Append(f[j], s[j + 1]) ELSE f[j]
    BY <2>1, UpToSteps
  <2>3. g[j + 1] = IF t[j + 1] \in keep THEN Append(g[j], t[j + 1]) ELSE g[j]
    BY <2>1, UpToSteps
  <2>4. f[j] = g[j]
    BY <1>3
  <2> QED
    BY <2>1, <2>2, <2>3, <2>4
<1> HIDE DEF Same
<1>4. Nat \subseteq Same
  BY <1>2, <1>3, NatInduct
<1> QED
  BY <1>4 DEF Same

LEMMA OnlyUpTo ==
  ASSUME NEW s, NEW keep, Len(s) \in Nat
  PROVE  \E f : UpTo(f, s, keep, Len(s)) /\ Only(s, keep) = f[Len(s)]
<1> DEFINE R(g) == UpTo(g, s, keep, Len(s))
<1>1. Only(s, keep) = (CHOOSE g : R(g))[Len(s)]
  BY DEF Only, UpTo
<1> HIDE DEF R
<1>2. \E g : R(g)
  BY UpToExists DEF R
<1>3. R(CHOOSE g : R(g))
  BY <1>2
<1> QED
  BY <1>1, <1>3 DEF R

LEMMA OnlyEmpty ==
  ASSUME NEW keep
  PROVE  Only(<<>>, keep) = <<>>
<1>1. PICK f : UpTo(f, <<>>, keep, 0) /\ Only(<<>>, keep) = f[0]
  <2>1. Len(<<>>) = 0
    OBVIOUS
  <2> QED
    BY <2>1, OnlyUpTo
<1> QED
  BY <1>1, UpToSteps

LEMMA OnlyAppend ==
  ASSUME NEW T, NEW s \in Seq(T), NEW x \in T, NEW keep
  PROVE  Only(Append(s, x), keep) = IF x \in keep THEN Append(Only(s, keep), x) ELSE Only(s, keep)
<1>1. PICK n \in Nat : n = Len(s)
  OBVIOUS
<1> DEFINE t == Append(s, x)
<1>2. Len(t) = n + 1 /\ t[n + 1] = x /\ \A i \in 1 .. n : t[i] = s[i]
  BY <1>1
<1> HIDE DEF t
<1>3. PICK f : UpTo(f, s, keep, n) /\ Only(s, keep) = f[n]
  BY <1>1, OnlyUpTo
<1>4. PICK g : UpTo(g, t, keep, n + 1) /\ Only(t, keep) = g[n + 1]
  BY <1>2, OnlyUpTo
<1>5. g[n] = f[n]
  BY <1>2, <1>3, <1>4, UpToAgrees
<1>6. g[n + 1] = IF t[n + 1] \in keep THEN Append(g[n], t[n + 1]) ELSE g[n]
  BY <1>4, UpToSteps
<1> QED
  BY <1>2, <1>3, <1>4, <1>5, <1>6 DEF t

\* It is a list of elements that are kept, and no longer than the whole.
LEMMA OnlyType ==
  ASSUME NEW T, NEW s \in Seq(T), NEW keep
  PROVE  /\ Only(s, keep) \in Seq(T \cap keep) /\ Only(s, keep) \in Seq(T)
         /\ Len(Only(s, keep)) <= Len(s)
<1> DEFINE Good == {t \in Seq(T) : /\ Only(t, keep) \in Seq(T \cap keep)
                                  /\ Len(Only(t, keep)) <= Len(t)}
<1>1. <<>> \in Good
  <2>1. <<>> \in Seq(T) /\ <<>> \in Seq(T \cap keep) /\ Len(<<>>) <= Len(<<>>)
    OBVIOUS
  <2> QED
    BY <2>1, OnlyEmpty
<1>2. ASSUME NEW t \in Seq(T), NEW x \in T, t \in Good PROVE Append(t, x) \in Good
  <2>1. PICK u \in Seq(T \cap keep) : u = Only(t, keep) /\ Len(u) <= Len(t)
    BY <1>2
  <2>2. Len(Append(t, x)) = Len(t) + 1 /\ Len(t) \in Nat /\ Len(u) \in Nat /\ Append(t, x) \in Seq(T)
    OBVIOUS
  <2>3. CASE x \in keep
    <3>1. Only(Append(t, x), keep) = Append(u, x)
      BY <2>1, <2>3, OnlyAppend
    <3>2. Append(u, x) \in Seq(T \cap keep) /\ Len(Append(u, x)) = Len(u) + 1
      <4>1. x \in T \cap keep /\ u \in Seq(T \cap keep)
        BY <2>1, <2>3
      <4> HIDE <2>1
      <4> QED
        BY <4>1
    <3>3. Len(u) + 1 <= Len(t) + 1
      BY <2>1, <2>2
    <3> QED
      BY <2>2, <3>1, <3>2, <3>3
  <2>4. CASE x \notin keep
    <3>1. Only(Append(t, x), keep) = u
      BY <2>1, <2>4, OnlyAppend
    <3> QED
      BY <2>1, <2>2, <3>1
  <2> QED
    BY <2>3, <2>4
<1>3. s \in Good
  <2> HIDE DEF Good
  <2> QED
    BY <1>1, <1>2, ListInduct
<1> QED
  BY <1>3

\* Nothing goes from a list of which everything is kept.
LEMMA OnlyAll ==
  ASSUME NEW keep, NEW s \in Seq(keep)
  PROVE  Only(s, keep) = s
<1> DEFINE Good == {t \in Seq(keep) : Only(t, keep) = t}
<1>1. <<>> \in Good
  BY OnlyEmpty
<1>2. ASSUME NEW t \in Seq(keep), NEW x \in keep, t \in Good PROVE Append(t, x) \in Good
  <2>1. Only(Append(t, x), keep) = Append(Only(t, keep), x)
    BY OnlyAppend
  <2> QED
    BY <1>2, <2>1
<1>3. s \in Good
  <2> HIDE DEF Good
  <2> QED
    BY <1>1, <1>2, ListInduct
<1> QED
  BY <1>3

\* place[i] is where the i-th of the m elements of u, which is what is kept of
\* s, stands among the n elements of s.
Places(place, s, n, u, m, keep) ==
  /\ place \in [1 .. m -> 1 .. n]
  /\ \A i, j \in 1 .. m : i < j => place[i] < place[j]
  /\ \A i \in 1 .. m : u[i] = s[place[i]]
  /\ \A k \in 1 .. n : s[k] \in keep => \E i \in 1 .. m : place[i] = k

LEMMA PlacesMore ==
  ASSUME NEW n \in Nat, NEW m \in Nat, NEW s, NEW u, NEW keep, NEW place,
         Places(place, s, n, u, m, keep),
         NEW t, \A i \in 1 .. n : t[i] = s[i],
         NEW v, \A i \in 1 .. m : v[i] = u[i], v[m + 1] = t[n + 1]
  PROVE  \E p : Places(p, t, n + 1, v, m + 1, keep)
<1> DEFINE p == [i \in 1 .. m + 1 |-> IF i = m + 1 THEN n + 1 ELSE place[i]]
<1>1. /\ place \in [1 .. m -> 1 .. n]
      /\ \A i, j \in 1 .. m : i < j => place[i] < place[j]
      /\ \A i \in 1 .. m : u[i] = s[place[i]]
      /\ \A k \in 1 .. n : s[k] \in keep => \E i \in 1 .. m : place[i] = k
  BY DEF Places
<1>2. p \in [1 .. m + 1 -> 1 .. n + 1] /\ p[m + 1] = n + 1 /\ \A i \in 1 .. m : p[i] = place[i] /\ place[i] \in 1 .. n
  BY <1>1
<1>3. \A i \in 1 .. m + 1 : i = m + 1 \/ i \in 1 .. m
  OBVIOUS
<1> HIDE DEF p
<1>4. ASSUME NEW i \in 1 .. m + 1, NEW j \in 1 .. m + 1, i < j PROVE p[i] < p[j]
  <2>1. i \in 1 .. m
    BY <1>4
  <2>2. CASE j = m + 1
    BY <1>2, <2>1, <2>2
  <2>3. CASE j \in 1 .. m
    BY <1>1, <1>2, <1>4, <2>1, <2>3
  <2> QED
    BY <1>3, <2>2, <2>3
<1>5. ASSUME NEW i \in 1 .. m + 1 PROVE v[i] = t[p[i]]
  <2>1. CASE i = m + 1
    BY <1>2, <2>1
  <2>2. CASE i \in 1 .. m
    <3>1. p[i] = place[i] /\ place[i] \in 1 .. n /\ u[i] = s[place[i]] /\ v[i] = u[i]
      BY <1>1, <1>2, <2>2
    <3>2. t[place[i]] = s[place[i]]
      BY <3>1
    <3> QED
      BY <3>1, <3>2
  <2> QED
    BY <1>3, <2>1, <2>2
<1>6. ASSUME NEW k \in 1 .. n + 1, t[k] \in keep PROVE \E i \in 1 .. m + 1 : p[i] = k
  <2>1. CASE k = n + 1
    BY <1>2, <2>1
  <2>2. CASE k \in 1 .. n
    <3>1. PICK i \in 1 .. m : place[i] = k
      BY <1>1, <1>6, <2>2
    <3> QED
      BY <1>2, <3>1
  <2> QED
    BY <2>1, <2>2
<1>7. Places(p, t, n + 1, v, m + 1, keep)
  BY <1>2, <1>4, <1>5, <1>6 DEF Places
<1> QED
  BY <1>7

LEMMA PlacesSame ==
  ASSUME NEW n \in Nat, NEW m \in Nat, NEW s, NEW u, NEW keep, NEW place,
         Places(place, s, n, u, m, keep),
         NEW t, \A i \in 1 .. n : t[i] = s[i], t[n + 1] \notin keep
  PROVE  Places(place, t, n + 1, u, m, keep)
<1>1. /\ place \in [1 .. m -> 1 .. n]
      /\ \A i, j \in 1 .. m : i < j => place[i] < place[j]
      /\ \A i \in 1 .. m : u[i] = s[place[i]]
      /\ \A k \in 1 .. n : s[k] \in keep => \E i \in 1 .. m : place[i] = k
  BY DEF Places
<1>2. place \in [1 .. m -> 1 .. n + 1]
  BY <1>1
<1>3. \A i \in 1 .. m : u[i] = t[place[i]]
  BY <1>1
<1>4. \A k \in 1 .. n + 1 : t[k] \in keep => k \in 1 .. n /\ s[k] \in keep
  OBVIOUS
<1> QED
  BY <1>1, <1>2, <1>3, <1>4 DEF Places

\* What is kept stands in the order it had, and nothing that is to be kept goes.
LEMMA OnlyPlaces ==
  ASSUME NEW T, NEW s \in Seq(T), NEW keep
  PROVE  \E place : Places(place, s, Len(s), Only(s, keep), Len(Only(s, keep)), keep)
<1> DEFINE Found(t) == \E place : Places(place, t, Len(t), Only(t, keep), Len(Only(t, keep)), keep)
           Good == {t \in Seq(T) : Found(t)}
<1>1. <<>> \in Good
  <2>1. Len(<<>>) = 0 /\ 1 .. 0 = {} /\ <<>> \in [{} -> {}] /\ <<>> \in Seq(T)
    OBVIOUS
  <2>2. Places(<<>>, <<>>, 0, <<>>, 0, keep)
    BY <2>1 DEF Places
  <2>3. Found(<<>>)
    BY <2>1, <2>2, OnlyEmpty
  <2> QED
    BY <2>1, <2>3
<1>2. ASSUME NEW t \in Seq(T), NEW x \in T, t \in Good PROVE Append(t, x) \in Good
  <2> DEFINE more == Append(t, x)
  <2>1. PICK u \in Seq(T) : u = Only(t, keep)
    BY OnlyType
  <2>2. PICK n \in Nat, m \in Nat : n = Len(t) /\ m = Len(u)
    OBVIOUS
  <2>3. PICK place : Places(place, t, n, u, m, keep)
    BY <1>2, <2>1, <2>2
  <2>4. more \in Seq(T) /\ Len(more) = n + 1 /\ more[n + 1] = x /\ \A i \in 1 .. n : more[i] = t[i]
    BY <2>2
  <2>5. CASE x \in keep
    <3> DEFINE v == Append(u, x)
    <3>1. Len(v) = m + 1 /\ v[m + 1] = x /\ \A i \in 1 .. m : v[i] = u[i]
      BY <2>2
    <3>2. Only(more, keep) = v
      BY <2>1, <2>5, OnlyAppend
    <3> HIDE DEF v, more
    <3>3. \E p : Places(p, more, n + 1, v, m + 1, keep)
      <4>1. \A i \in 1 .. n : more[i] = t[i]
        BY <2>4
      <4>2. /\ \A i \in 1 .. m : v[i] = u[i]
            /\ v[m + 1] = more[n + 1]
        BY <2>4, <3>1
      <4> QED
        BY <2>3, <4>1, <4>2, PlacesMore
    <3>4. Found(more)
      <4> HIDE DEF Places
      <4> QED
        BY <2>4, <3>1, <3>2, <3>3
    <3> QED
      BY <2>4, <3>4 DEF more
  <2>6. CASE x \notin keep
    <3>1. Only(more, keep) = u
      BY <2>1, <2>6, OnlyAppend
    <3> HIDE DEF more
    <3>2. Places(place, more, n + 1, u, m, keep)
      BY <2>3, <2>4, <2>6, PlacesSame
    <3>3. Found(more)
      BY <2>2, <2>4, <3>1, <3>2
    <3> QED
      BY <2>4, <3>3 DEF more
  <2> QED
    BY <2>5, <2>6
<1>3. s \in Good
  <2> HIDE DEF Good
  <2> QED
    BY <1>1, <1>2, ListInduct
<1> QED
  BY <1>3

\* The same, of elements and not of places.
Kept(s, u, keep) ==
  /\ \A i \in 1 .. Len(u) : u[i] \in keep /\ \E k \in 1 .. Len(s) : s[k] = u[i]
  /\ \A k \in 1 .. Len(s) : s[k] \in keep => \E i \in 1 .. Len(u) : u[i] = s[k]
  /\ \A i, j \in 1 .. Len(u) : i < j =>
       \E k, l \in 1 .. Len(s) : k < l /\ s[k] = u[i] /\ s[l] = u[j]

LEMMA OnlyKeeps ==
  ASSUME NEW T, NEW s \in Seq(T), NEW keep, NEW u, u = Only(s, keep)
  PROVE  u \in Seq(T) /\ Kept(s, u, keep)
<1>1. PICK place : Places(place, s, Len(s), u, Len(u), keep)
  BY OnlyPlaces
<1>2. u \in Seq(T \cap keep) /\ u \in Seq(T)
  BY OnlyType
<1>3. \A i \in 1 .. Len(u) : u[i] \in keep
  BY <1>2
<1>4. PICK n, m : n = Len(s) /\ m = Len(u)
  OBVIOUS
<1>5. /\ place \in [1 .. m -> 1 .. n]
      /\ \A i, j \in 1 .. m : i < j => place[i] < place[j]
      /\ \A i \in 1 .. m : u[i] = s[place[i]]
      /\ \A k \in 1 .. n : s[k] \in keep => \E i \in 1 .. m : place[i] = k
  BY <1>1, <1>4 DEF Places
<1>6. \A i \in 1 .. m : place[i] \in 1 .. n /\ s[place[i]] = u[i]
  BY <1>5
<1>7. \A i, j \in 1 .. m : i < j =>
        \E k, l \in 1 .. n : k < l /\ s[k] = u[i] /\ s[l] = u[j]
  BY <1>5, <1>6
<1>8. \A k \in 1 .. n : s[k] \in keep => \E i \in 1 .. m : u[i] = s[k]
  BY <1>5
<1> QED
  BY <1>2, <1>3, <1>4, <1>6, <1>7, <1>8 DEF Kept

-----------------------------------------------------------------------------
(* The sum of what a function has for the elements of a finite set. *)

Some(s) == CHOOSE x \in s : TRUE

Level(S, n) == {s \in SUBSET S : Cardinality(s) <= n}

\* g has the sum for each subset of S of at most n elements.
Sums(g, f, S, n) ==
  g = [s \in Level(S, n) |-> IF s = {} THEN 0 ELSE f[Some(s)] + g[s \ {Some(s)}]]

LEMMA SomeFacts ==
  ASSUME NEW s, IsFiniteSet(s), s # {}
  PROVE  /\ Some(s) \in s /\ IsFiniteSet(s \ {Some(s)})
         /\ Cardinality(s) \in Nat \ {0} /\ Cardinality(s \ {Some(s)}) = Cardinality(s) - 1
<1>1. Some(s) \in s
  BY DEF Some
<1> QED
  BY <1>1, FS_RemoveElement, FS_CardinalityType, FS_EmptySet

LEMMA SumsSteps ==
  ASSUME NEW g, NEW f, NEW S, NEW n \in Nat, Sums(g, f, S, n), NEW s \in Level(S, n)
  PROVE  g[s] = IF s = {} THEN 0 ELSE f[Some(s)] + g[s \ {Some(s)}]
<1>1. PICK h : h = g
  OBVIOUS
<1>2. g = [t \in Level(S, n) |-> IF t = {} THEN 0 ELSE f[Some(t)] + h[t \ {Some(t)}]]
  BY <1>1 DEF Sums
<1> QED
  BY <1>1, <1>2

LEMMA SumsExist ==
  ASSUME NEW f, NEW S, IsFiniteSet(S), NEW n \in Nat
  PROVE  \E g : Sums(g, f, S, n)
<1> DEFINE Good == {k \in Nat : \E g : Sums(g, f, S, k)}
<1>0. \A s \in SUBSET S : IsFiniteSet(s) /\ Cardinality(s) \in Nat /\ (Cardinality(s) = 0 <=> s = {})
  BY FS_Subset, FS_CardinalityType, FS_EmptySet
<1>1. 0 \in Good
  <2> DEFINE g == [s \in Level(S, 0) |-> 0]
  <2>1. \A s \in Level(S, 0) : s = {}
    BY <1>0 DEF Level
  <2>2. Sums(g, f, S, 0)
    BY <2>1 DEF Sums
  <2> QED
    BY <2>2
<1>2. ASSUME NEW k \in Nat, k \in Good PROVE k + 1 \in Good
  <2>1. PICK g : Sums(g, f, S, k)
    BY <1>2
  <2> DEFINE h == [s \in Level(S, k + 1) |->
                     IF s \in Level(S, k) THEN g[s] ELSE f[Some(s)] + g[s \ {Some(s)}]]
  <2>2. \A s \in Level(S, k) : s \in Level(S, k + 1) /\ h[s] = g[s]
    <3>1. \A s \in Level(S, k) : s \in Level(S, k + 1)
      BY <1>0 DEF Level
    <3> QED
      BY <3>1
  <2>3. ASSUME NEW s \in Level(S, k + 1)
        PROVE  (IF s \in Level(S, k) THEN g[s] ELSE f[Some(s)] + g[s \ {Some(s)}]) =
                 IF s = {} THEN 0 ELSE f[Some(s)] + h[s \ {Some(s)}]
    <3> HIDE DEF h
    <3>1. IsFiniteSet(s) /\ s \in SUBSET S /\ Cardinality(s) \in Nat /\ Cardinality(s) <= k + 1
      BY <1>0 DEF Level
    <3>2. CASE s = {}
      <4>1. s \in Level(S, k)
        BY <1>0, <3>1, <3>2 DEF Level
      <4> QED
        BY <2>1, <3>2, <4>1, SumsSteps
    <3>3. CASE s # {}
      <4>1. s \ {Some(s)} \in Level(S, k)
        BY <3>1, <3>3, SomeFacts DEF Level
      <4>2. h[s \ {Some(s)}] = g[s \ {Some(s)}]
        BY <2>2, <4>1
      <4>3. s \in Level(S, k) => g[s] = f[Some(s)] + g[s \ {Some(s)}]
        BY <2>1, <3>3, SumsSteps
      <4> QED
        BY <3>3, <4>2, <4>3
    <3> QED
      BY <3>2, <3>3
  <2>4. Sums(h, f, S, k + 1)
    <3>1. PICK i : i = h
      OBVIOUS
    <3>2. i = [s \in Level(S, k + 1) |-> IF s = {} THEN 0 ELSE f[Some(s)] + i[s \ {Some(s)}]]
      BY <2>3, <3>1
    <3> QED
      BY <3>1, <3>2 DEF Sums
  <2> QED
    BY <2>4
<1> HIDE DEF Good
<1>3. Nat \subseteq Good
  BY <1>1, <1>2, NatInduct
<1> QED
  BY <1>3 DEF Good

LEMMA SumsAgree ==
  ASSUME NEW g, NEW h, NEW f, NEW S, NEW T, NEW n \in Nat, NEW m \in Nat,
         Sums(g, f, S, n), Sums(h, f, T, m), NEW s, IsFiniteSet(s),
         s \in Level(S, n), s \in Level(T, m)
  PROVE  g[s] = h[s]
<1> DEFINE Same == {k \in Nat : \A t \in Level(S, n) \cap Level(T, m) :
                      IsFiniteSet(t) /\ Cardinality(t) = k => g[t] = h[t]}
<1>a. \A t \in Level(S, n) : g[t] = IF t = {} THEN 0 ELSE f[Some(t)] + g[t \ {Some(t)}]
  BY SumsSteps
<1>b. \A t \in Level(T, m) : h[t] = IF t = {} THEN 0 ELSE f[Some(t)] + h[t \ {Some(t)}]
  BY SumsSteps
<1>1. 0 \in Same
  <2> SUFFICES ASSUME NEW t \in Level(S, n) \cap Level(T, m), IsFiniteSet(t), Cardinality(t) = 0
               PROVE  g[t] = h[t]
    OBVIOUS
  <2>1. t = {}
    BY FS_EmptySet
  <2>2. g[t] = 0
    BY <1>a, <2>1
  <2>3. h[t] = 0
    BY <1>b, <2>1
  <2> QED
    BY <2>2, <2>3
<1>2. ASSUME NEW k \in Nat, k \in Same PROVE k + 1 \in Same
  <2> SUFFICES ASSUME NEW t \in Level(S, n) \cap Level(T, m), IsFiniteSet(t), Cardinality(t) = k + 1
               PROVE  g[t] = h[t]
    OBVIOUS
  <2>1. t # {}
    BY FS_EmptySet
  <2> DEFINE u == t \ {Some(t)}
  <2>2. IsFiniteSet(u) /\ Cardinality(u) = k
    BY <2>1, SomeFacts
  <2>3. u \in Level(S, n) \cap Level(T, m)
    BY <2>2 DEF Level
  <2>4. g[u] = h[u]
    BY <1>2, <2>2, <2>3
  <2>5. g[t] = f[Some(t)] + g[u]
    BY <1>a, <2>1
  <2>6. h[t] = f[Some(t)] + h[u]
    BY <1>b, <2>1
  <2> QED
    BY <2>4, <2>5, <2>6
<1> HIDE DEF Same
<1>3. Nat \subseteq Same
  BY <1>1, <1>2, NatInduct
<1>4. Cardinality(s) \in Same
  BY <1>3, FS_CardinalityType
<1> QED
  BY <1>4 DEF Same

LEMMA SumIs ==
  ASSUME NEW f, NEW S, IsFiniteSet(S)
  PROVE  /\ Cardinality(S) \in Nat /\ S \in Level(S, Cardinality(S))
         /\ \E g : Sums(g, f, S, Cardinality(S)) /\ SumFunctionOnSet(f, S) = g[S]
<1> DEFINE R(g) == Sums(g, f, S, Cardinality(S))
<1>1. Cardinality(S) \in Nat
  BY FS_CardinalityType
<1>2. Level(S, Cardinality(S)) = SUBSET S
  <2>1. ASSUME NEW s \in SUBSET S PROVE Cardinality(s) <= Cardinality(S)
    BY FS_Subset
  <2> QED
    BY <2>1 DEF Level
<1>3. SumFunctionOnSet(f, S) = (CHOOSE g : R(g))[S]
  BY <1>2 DEF SumFunctionOnSet, FoldFunctionOnSet, MapThenFoldSet, Sums, Some
<1> HIDE DEF R
<1>4. \E g : R(g)
  BY <1>1, SumsExist DEF R
<1>5. R(CHOOSE g : R(g))
  BY <1>4
<1> QED
  BY <1>1, <1>2, <1>3, <1>5 DEF R

LEMMA SumUnfolds ==
  ASSUME NEW f, NEW S, IsFiniteSet(S)
  PROVE  SumFunctionOnSet(f, S) =
           IF S = {} THEN 0 ELSE f[Some(S)] + SumFunctionOnSet(f, S \ {Some(S)})
<1>1. PICK g : Sums(g, f, S, Cardinality(S)) /\ SumFunctionOnSet(f, S) = g[S]
  BY SumIs
<1>0. Cardinality(S) \in Nat /\ S \in Level(S, Cardinality(S))
  BY SumIs
<1>2. g[S] = IF S = {} THEN 0 ELSE f[Some(S)] + g[S \ {Some(S)}]
  <2> DEFINE n == Cardinality(S)
  <2>1. n \in Nat /\ S \in Level(S, n) /\ Sums(g, f, S, n)
    BY <1>0, <1>1
  <2> HIDE DEF n
  <2> QED
    BY <2>1, SumsSteps
<1>3. CASE S # {}
  <2> DEFINE T == S \ {Some(S)}
  <2>1. IsFiniteSet(T) /\ Cardinality(T) \in Nat /\ Cardinality(T) <= Cardinality(S)
    <3>1. IsFiniteSet(T) /\ Cardinality(T) = Cardinality(S) - 1
      BY <1>3, SomeFacts
    <3>2. Cardinality(S) \in Nat \ {0}
      BY <1>3, SomeFacts
    <3> HIDE DEF T
    <3> QED
      BY <3>1, <3>2
  <2>2. T \in Level(S, Cardinality(S))
    BY <2>1 DEF Level
  <2> HIDE DEF T
  <2>3. PICK h : Sums(h, f, T, Cardinality(T)) /\ SumFunctionOnSet(f, T) = h[T]
    BY <2>1, SumIs
  <2>4. g[T] = h[T]
    BY <1>1, <2>1, <2>2, <2>3, SumIs, SumsAgree
  <2> QED
    BY <1>1, <1>2, <1>3, <2>3, <2>4 DEF T
<1> QED
  BY <1>1, <1>2, <1>3

\* The sum of f over S is the fold of the community modules.
SumOf(f, S) == SumFunctionOnSet(f, S)

LEMMA SumEmpty ==
  ASSUME NEW f
  PROVE  SumOf(f, {}) = 0
<1>1. IsFiniteSet({})
  BY FS_EmptySet
<1> QED
  BY <1>1, SumUnfolds DEF SumOf

LEMMA SumType ==
  ASSUME NEW S, IsFiniteSet(S), NEW f, \A x \in S : f[x] \in Nat
  PROVE  SumOf(f, S) \in Nat
<1> DEFINE Good == {k \in Nat : \A T \in SUBSET S : Cardinality(T) = k => SumOf(f, T) \in Nat}
<1>0. \A T \in SUBSET S : IsFiniteSet(T)
  BY FS_Subset
<1>1. 0 \in Good
  <2> SUFFICES ASSUME NEW T \in SUBSET S, Cardinality(T) = 0 PROVE SumOf(f, T) \in Nat
    OBVIOUS
  <2>1. T = {}
    BY <1>0, FS_EmptySet
  <2> QED
    BY <2>1, SumEmpty
<1>2. ASSUME NEW k \in Nat, k \in Good PROVE k + 1 \in Good
  <2> SUFFICES ASSUME NEW T \in SUBSET S, Cardinality(T) = k + 1 PROVE SumOf(f, T) \in Nat
    OBVIOUS
  <2>1. T # {}
    BY <1>0, FS_EmptySet
  <2>2. Some(T) \in T /\ Cardinality(T \ {Some(T)}) = k
    BY <1>0, <2>1, SomeFacts
  <2>3. SumOf(f, T \ {Some(T)}) \in Nat
    BY <1>2, <2>2
  <2>4. SumOf(f, T) = f[Some(T)] + SumOf(f, T \ {Some(T)})
    BY <1>0, <2>1, SumUnfolds DEF SumOf
  <2> QED
    BY <2>2, <2>3, <2>4
<1> HIDE DEF Good
<1>3. Nat \subseteq Good
  BY <1>1, <1>2, NatInduct
<1>4. Cardinality(S) \in Good
  BY <1>3, FS_CardinalityType
<1> QED
  BY <1>4 DEF Good

\* Which element is taken first does not matter.
LEMMA SumRemove ==
  ASSUME NEW S, IsFiniteSet(S), NEW f, \A x \in S : f[x] \in Nat, NEW y \in S
  PROVE  SumOf(f, S) = f[y] + SumOf(f, S \ {y})
<1> DEFINE Good == {k \in Nat : \A T \in SUBSET S : Cardinality(T) = k =>
                      \A x \in T : SumOf(f, T) = f[x] + SumOf(f, T \ {x})}
<1>0. \A T \in SUBSET S : IsFiniteSet(T)
  BY FS_Subset
<1>1. 0 \in Good
  <2>1. \A T \in SUBSET S : Cardinality(T) = 0 => T = {}
    BY <1>0, FS_EmptySet
  <2> QED
    BY <2>1
<1>2. ASSUME NEW k \in Nat, k \in Good PROVE k + 1 \in Good
  <2> SUFFICES ASSUME NEW T \in SUBSET S, Cardinality(T) = k + 1, NEW x \in T
               PROVE  SumOf(f, T) = f[x] + SumOf(f, T \ {x})
    OBVIOUS
  <2> DEFINE z == Some(T)
  <2>1. z \in T /\ Cardinality(T \ {z}) = k
    <3>1. IsFiniteSet(T) /\ T # {}
      BY <1>0
    <3>2. z \in T /\ Cardinality(T \ {z}) = Cardinality(T) - 1
      BY <3>1, SomeFacts
    <3> HIDE DEF z
    <3> QED
      BY <3>2
  <2>2. SumOf(f, T) = f[z] + SumOf(f, T \ {z})
    BY <1>0, SumUnfolds DEF SumOf
  <2> HIDE DEF z
  <2>3. Cardinality(T \ {x}) = k
    <3>1. Cardinality(T \ {x}) = Cardinality(T) - 1
      BY <1>0, FS_RemoveElement
    <3> QED
      BY <3>1
  <2>4. CASE z = x
    BY <2>2, <2>4
  <2>5. CASE z # x
    <3>1. SumOf(f, T \ {z}) = f[x] + SumOf(f, (T \ {z}) \ {x})
      BY <1>2, <2>1, <2>5
    <3>2. SumOf(f, T \ {x}) = f[z] + SumOf(f, (T \ {x}) \ {z})
      BY <1>2, <2>1, <2>3, <2>5
    <3>3. (T \ {z}) \ {x} = (T \ {x}) \ {z}
      OBVIOUS
    <3> DEFINE r == SumOf(f, (T \ {x}) \ {z})
    <3>4. r \in Nat
      BY <1>0, SumType
    <3>5. SumOf(f, T) = f[z] + (f[x] + r)
      BY <2>2, <3>1, <3>3
    <3>6. f[x] \in Nat /\ f[z] \in Nat
      BY <2>1
    <3>7. SumOf(f, T \ {x}) = f[z] + r
      BY <3>2
    <3> HIDE DEF r
    <3> QED
      BY <3>4, <3>5, <3>6, <3>7
  <2> QED
    BY <2>4, <2>5
<1> HIDE DEF Good
<1>3. Nat \subseteq Good
  BY <1>1, <1>2, NatInduct
<1>4. Cardinality(S) \in Good
  BY <1>3, FS_CardinalityType
<1> QED
  BY <1>4 DEF Good

LEMMA SumAdd ==
  ASSUME NEW S, IsFiniteSet(S), NEW y, y \notin S, NEW f, \A x \in S \cup {y} : f[x] \in Nat
  PROVE  SumOf(f, S \cup {y}) = f[y] + SumOf(f, S)
<1>1. IsFiniteSet(S \cup {y}) /\ (S \cup {y}) \ {y} = S
  BY FS_AddElement
<1> DEFINE T == S \cup {y}
<1>2. y \in T /\ IsFiniteSet(T) /\ \A x \in T : f[x] \in Nat
  BY <1>1
<1>3. SumOf(f, T) = f[y] + SumOf(f, T \ {y})
  <2> HIDE DEF T
  <2> QED
    BY <1>2, SumRemove
<1> QED
  BY <1>1, <1>3

\* A smaller set with smaller values has a smaller sum.
LEMMA SumLess ==
  ASSUME NEW S, IsFiniteSet(S), NEW f, NEW g,
         \A x \in S : f[x] \in Nat /\ g[x] \in Nat /\ f[x] <= g[x], NEW T \in SUBSET S
  PROVE  SumOf(f, T) <= SumOf(g, S)
<1> DEFINE Good == {k \in Nat : \A U \in SUBSET S : Cardinality(U) = k =>
                      \A V \in SUBSET U : SumOf(f, V) <= SumOf(g, U)}
<1>0. \A U \in SUBSET S : IsFiniteSet(U)
  BY FS_Subset
<1>1. 0 \in Good
  <2> SUFFICES ASSUME NEW U \in SUBSET S, Cardinality(U) = 0, NEW V \in SUBSET U
               PROVE  SumOf(f, V) <= SumOf(g, U)
    OBVIOUS
  <2>1. U = {} /\ V = {}
    BY <1>0, FS_EmptySet
  <2> QED
    BY <2>1, SumEmpty
<1>2. ASSUME NEW k \in Nat, k \in Good PROVE k + 1 \in Good
  <2> SUFFICES ASSUME NEW U \in SUBSET S, Cardinality(U) = k + 1, NEW V \in SUBSET U
               PROVE  SumOf(f, V) <= SumOf(g, U)
    OBVIOUS
  <2> DEFINE z == Some(U)
  <2>0. IsFiniteSet(U) /\ U # {}
    BY <1>0, FS_EmptySet
  <2>1. z \in U /\ Cardinality(U \ {z}) = k
    <3>1. z \in U /\ Cardinality(U \ {z}) = Cardinality(U) - 1
      BY <2>0, SomeFacts
    <3> HIDE DEF z
    <3> QED
      BY <3>1
  <2> HIDE DEF z
  <2>2. SumOf(g, U) = g[z] + SumOf(g, U \ {z})
    BY <1>0, <2>1, SumRemove
  <2>3. SumOf(f, V \ {z}) <= SumOf(g, U \ {z})
    BY <1>2, <2>1
  <2>4. SumOf(f, V \ {z}) \in Nat
    BY <1>0, SumType
  <2>5. SumOf(g, U \ {z}) \in Nat
    BY <1>0, SumType
  <2>6. f[z] \in Nat /\ g[z] \in Nat /\ f[z] <= g[z]
    BY <2>1
  <2>7. CASE z \in V
    <3>1. SumOf(f, V) = f[z] + SumOf(f, V \ {z})
      BY <1>0, <2>7, SumRemove
    <3> QED
      BY <2>2, <2>3, <2>4, <2>5, <2>6, <3>1
  <2>8. CASE z \notin V
    <3>1. V \ {z} = V
      BY <2>8
    <3>2. SumOf(f, V) <= SumOf(g, U \ {z}) /\ SumOf(f, V) \in Nat
      BY <2>3, <2>4, <3>1
    <3> QED
      BY <2>2, <2>5, <2>6, <3>2
  <2> QED
    BY <2>7, <2>8
<1> HIDE DEF Good
<1>3. Nat \subseteq Good
  BY <1>1, <1>2, NatInduct
<1>4. Cardinality(S) \in Good
  BY <1>3, FS_CardinalityType
<1> QED
  BY <1>4 DEF Good
=============================================================================
