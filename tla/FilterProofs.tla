---------------------------- MODULE FilterProofs ----------------------------
(***************************************************************************)
(* Proofs about CitationFilter: however a model's answer is cut into deltas, *)
(* what the streaming filter lets through and what it holds back are the     *)
(* sanitized answer, for any characters, sources and patience.  The two      *)
(* loops are recursive functions; that there are such functions, and what    *)
(* they compute, is proved by induction, with sets in place of predicates.   *)
(***************************************************************************)
EXTENDS CitationFilter, FiniteSetTheorems, SequenceTheorems, TLAPS

(***************************************************************************)
(* Induction.                                                              *)
(***************************************************************************)

\* A set of numbers has a least one, or one could go down forever through the
\* finitely many below.
LEMMA Least ==
    ASSUME NEW T \in SUBSET Nat, T # {}
    PROVE  \E n \in T : \A m \in T : n <= m
  <1> SUFFICES ASSUME \A n \in T : \E m \in T : m < n PROVE FALSE
    OBVIOUS
  <1> PICK n \in T : TRUE
    OBVIOUS
  <1> DEFINE L == {i \in 0 .. n : \A m \in T : i <= m}
             f == [i \in L |-> i + 1]
  <1>1. IsFiniteSet(L) /\ 0 \in L
    <2>1. IsFiniteSet(0 .. n) /\ L \subseteq 0 .. n
      BY FS_Interval
    <2> QED
      BY <2>1, FS_Subset
  <1>2. IsFiniteSet(L \ {0}) /\ Cardinality(L \ {0}) < Cardinality(L)
    <2> HIDE DEF L
    <2>1. Cardinality(L) \in Nat
      BY <1>1, FS_CardinalityType
    <2>2. IsFiniteSet(L \ {0}) /\ Cardinality(L \ {0}) = Cardinality(L) - 1
      BY <1>1, FS_RemoveElement, Zenon
    <2> QED
      BY <2>1, <2>2
  <1>3. f \in [L -> L \ {0}]
    OBVIOUS
  <1>4. \E i, j \in L : i # j /\ f[i] = f[j]
    <2> HIDE DEF L, f
    <2> QED
      BY <1>1, <1>2, <1>3, FS_PigeonHole
  <1> QED
    BY <1>4

\* Complete induction, for a set that stands for the predicate.
LEMMA NatInd ==
    ASSUME NEW T, \A n \in Nat : (\A m \in 0 .. n - 1 : m \in T) => n \in T
    PROVE  \A n \in Nat : n \in T
  <1> SUFFICES ASSUME Nat \ T # {} PROVE FALSE
    OBVIOUS
  <1>1. PICK n \in Nat \ T : \A m \in Nat \ T : n <= m
    BY Least
  <1> QED
    BY <1>1

\* A recursive definition with one call: f stops with base, or goes on with next
\* and combines what comes back.
Equation(f, D, Stop, next, base, comb) ==
    \A x \in D : f[x] = IF x \in Stop THEN base[x] ELSE comb[x][f[next[x]]]

\* There is such a function when next is smaller.
LEMMA Recursion ==
    ASSUME NEW S, NEW V, NEW Stop \in SUBSET S,
           NEW size \in [S -> Nat], NEW next \in [S -> S],
           \A x \in S \ Stop : size[next[x]] < size[x],
           NEW base \in [S -> V], NEW comb \in [S -> [V -> V]]
    PROVE  \E f \in [S -> V] : Equation(f, S, Stop, next, base, comb)
  <1> DEFINE Upto(n) == {x \in S : size[x] <= n}
             Approx(n) == {f \in [Upto(n) -> V] : Equation(f, Upto(n), Stop, next, base, comb)}
             A(n) == CHOOSE f \in Approx(n) : TRUE
  <1>1. \A x \in S \ Stop : size[next[x]] \in 0 .. size[x] - 1 /\ next[x] \in S
    OBVIOUS
  <1>2. ASSUME NEW n \in Nat, NEW m \in Nat, NEW g \in Approx(n), NEW h \in Approx(m)
        PROVE  \A x \in S : size[x] <= n /\ size[x] <= m => g[x] = h[x]
    <2> DEFINE T == {k \in Nat : \A x \in S :
                        size[x] = k /\ k <= n /\ k <= m => g[x] = h[x]}
    <2>1. ASSUME NEW k \in Nat, \A l \in 0 .. k - 1 : l \in T PROVE k \in T
      <3> SUFFICES ASSUME NEW x \in S, size[x] = k, k <= n, k <= m PROVE g[x] = h[x]
        OBVIOUS
      <3>1. x \in Upto(n) /\ x \in Upto(m)
        OBVIOUS
      <3>2. /\ g[x] = IF x \in Stop THEN base[x] ELSE comb[x][g[next[x]]]
            /\ h[x] = IF x \in Stop THEN base[x] ELSE comb[x][h[next[x]]]
        BY <3>1 DEF Equation
      <3>3. x \notin Stop => g[next[x]] = h[next[x]]
        BY <1>1, <2>1
      <3> QED
        BY <3>2, <3>3
    <2>2. \A k \in Nat : k \in T
      <3> HIDE DEF T
      <3> QED
        BY <2>1, NatInd
    <2> QED
      BY <2>2
  <1> HIDE DEF Upto, Approx
  <1>3. ASSUME NEW x \in S \ Stop, Approx(size[x]) # {}, Approx(size[next[x]]) # {}
        PROVE  A(size[x])[next[x]] = A(size[next[x]])[next[x]]
    <2>1. A(size[x]) \in Approx(size[x]) /\ A(size[next[x]]) \in Approx(size[next[x]])
      BY <1>3
    <2> HIDE DEF A
    <2> QED
      BY <1>1, <1>2, <2>1
  <1>4. ASSUME NEW x \in S, Approx(size[x]) # {}
        PROVE  /\ A(size[x])[x] = IF x \in Stop THEN base[x]
                                  ELSE comb[x][A(size[x])[next[x]]]
               /\ A(size[x])[x] \in V
    <2>1. A(size[x]) \in Approx(size[x])
      BY <1>4
    <2> HIDE DEF A
    <2> QED
      BY <2>1 DEF Approx, Upto, Equation
  <1>5. \A n \in Nat : Approx(n) # {}
    <2> DEFINE T == {n \in Nat : Approx(n) # {}}
    <2>1. ASSUME NEW n \in Nat, \A m \in 0 .. n - 1 : m \in T PROVE n \in T
      <3> DEFINE v(x) == IF x \in Stop THEN base[x] ELSE comb[x][A(size[next[x]])[next[x]]]
                 g == [x \in Upto(n) |-> v(x)]
      <3>1. ASSUME NEW x \in S, size[x] <= n, x \notin Stop
            PROVE  /\ next[x] \in Upto(n) /\ Approx(size[next[x]]) # {}
                   /\ v(next[x]) = A(size[next[x]])[next[x]]
        <4> DEFINE y == next[x]
        <4>1. y \in S /\ size[y] \in 0 .. n - 1
          BY <1>1, <3>1
        <4>2. Approx(size[y]) # {} /\ (y \notin Stop => Approx(size[next[y]]) # {})
          <5>1. y \notin Stop => size[next[y]] \in 0 .. n - 1
            BY <1>1, <4>1
          <5> QED
            BY <2>1, <4>1, <5>1
        <4>3. v(y) = A(size[y])[y]
          <5> HIDE DEF A, y
          <5> QED
            BY <1>3, <1>4, <4>1, <4>2
        <4>4. y \in Upto(n)
          BY <4>1 DEF Upto
        <4> QED
          BY <4>2, <4>3, <4>4
      <3>2. \A x \in Upto(n) : v(x) \in V
        <4> SUFFICES ASSUME NEW x \in S, size[x] <= n PROVE v(x) \in V
          BY DEF Upto
        <4>1. CASE x \in Stop
          BY <4>1
        <4>2. CASE x \notin Stop
          <5>1. A(size[next[x]])[next[x]] \in V
            BY <1>4, <3>1, <4>2
          <5> HIDE DEF A
          <5> QED
            BY <4>2, <5>1
        <4> QED
          BY <4>1, <4>2
      <3>3. \A x \in Upto(n) : g[x] = IF x \in Stop THEN base[x] ELSE comb[x][g[next[x]]]
        <4> SUFFICES ASSUME NEW x \in S, size[x] <= n
                     PROVE  v(x) = IF x \in Stop THEN base[x] ELSE comb[x][g[next[x]]]
          BY DEF Upto
        <4>1. x \notin Stop => g[next[x]] = A(size[next[x]])[next[x]]
          BY <3>1
        <4> HIDE DEF g, A
        <4> QED
          BY <4>1
      <3> HIDE DEF v
      <3>4. g \in Approx(n)
        BY <3>2, <3>3 DEF Approx, Equation
      <3> QED
        BY <3>4
    <2>2. \A n \in Nat : n \in T
      <3> HIDE DEF T
      <3> QED
        BY <2>1, NatInd
    <2> QED
      BY <2>2
  <1> DEFINE f == [x \in S |-> A(size[x])[x]]
  <1>6. f \in [S -> V]
    <2> SUFFICES ASSUME NEW x \in S PROVE A(size[x])[x] \in V
      OBVIOUS
    <2> QED
      BY <1>4, <1>5
  <1>7. ASSUME NEW x \in S
        PROVE  f[x] = IF x \in Stop THEN base[x] ELSE comb[x][f[next[x]]]
    <2>1. Approx(size[x]) # {} /\ Approx(size[next[x]]) # {}
      BY <1>5
    <2>2. A(size[x])[x] = IF x \in Stop THEN base[x] ELSE comb[x][A(size[x])[next[x]]]
      BY <1>4, <2>1
    <2>3. x \notin Stop => A(size[x])[next[x]] = A(size[next[x]])[next[x]]
      BY <1>3, <2>1
    <2> HIDE DEF A
    <2> QED
      BY <2>2, <2>3
  <1> HIDE DEF f
  <1> QED
    BY <1>6, <1>7 DEF Equation

(***************************************************************************)
(* Texts.                                                                  *)
(***************************************************************************)

\* A text is its beginning and its end.
LEMMA Cut ==
    ASSUME NEW S, NEW t \in Seq(S), NEW n \in 0 .. Len(t)
    PROVE  /\ First(t, n) \in Seq(S) /\ Len(First(t, n)) = n
           /\ After(t, n) \in Seq(S) /\ Len(After(t, n)) = Len(t) - n
           /\ \A i \in 1 .. n : First(t, n)[i] = t[i]
           /\ \A i \in 1 .. Len(t) - n : After(t, n)[i] = t[n + i]
           /\ t = First(t, n) \o After(t, n)
  <1>1. /\ Len(t) \in Nat /\ \A i \in 1 .. Len(t) : t[i] \in S
    BY LenProperties
  <1>2. /\ First(t, n) \in Seq(S) /\ Len(First(t, n)) = n
        /\ \A i \in 1 .. n : First(t, n)[i] = t[i]
    <2>1. \A i \in 1 .. n : t[i] \in S
      BY <1>1
    <2>2. /\ SubSeq(t, 1, n) \in Seq(S)
          /\ Len(SubSeq(t, 1, n)) = IF 1 <= n THEN n - 1 + 1 ELSE 0
          /\ \A i \in 1 .. n - 1 + 1 : SubSeq(t, 1, n)[i] = t[1 + i - 1]
      BY <2>1, SubSeqProperties
    <2> QED
      BY <1>1, <2>2 DEF First
  <1>3. /\ After(t, n) \in Seq(S) /\ Len(After(t, n)) = Len(t) - n
        /\ \A i \in 1 .. Len(t) - n : After(t, n)[i] = t[n + i]
    <2>1. \A i \in n + 1 .. Len(t) : t[i] \in S
      BY <1>1
    <2>2. /\ SubSeq(t, n + 1, Len(t)) \in Seq(S)
          /\ Len(SubSeq(t, n + 1, Len(t))) = IF n + 1 <= Len(t) THEN Len(t) - (n + 1) + 1 ELSE 0
          /\ \A i \in 1 .. Len(t) - (n + 1) + 1 :
                SubSeq(t, n + 1, Len(t))[i] = t[(n + 1) + i - 1]
      BY <1>1, <2>1, SubSeqProperties
    <2> QED
      BY <1>1, <2>2 DEF After
  <1>4. t = First(t, n) \o After(t, n)
    <2> DEFINE f == First(t, n)
               a == After(t, n)
    <2> HIDE DEF f, a
    <2>1. /\ f \o a \in Seq(S) /\ Len(f \o a) = Len(t)
          /\ \A i \in 1 .. Len(t) : (f \o a)[i] = IF i <= n THEN f[i] ELSE a[i - n]
      BY <1>1, <1>2, <1>3, ConcatProperties DEF f, a
    <2>2. \A i \in 1 .. Len(t) : t[i] = (f \o a)[i]
      BY <1>1, <1>2, <1>3, <2>1 DEF f, a
    <2> QED
      BY <2>1, <2>2, SeqEqual DEF f, a
  <1> QED
    BY <1>2, <1>3, <1>4

\* Two texts, one behind the other.
LEMMA Both ==
    ASSUME NEW S, NEW t \in Seq(S), NEW u \in Seq(S)
    PROVE  /\ t \o u \in Seq(S) /\ Len(t \o u) = Len(t) + Len(u)
           /\ Len(t) \in Nat /\ Len(u) \in Nat
           /\ \A i \in 1 .. Len(t) : (t \o u)[i] = t[i]
           /\ \A i \in 1 .. Len(u) : (t \o u)[Len(t) + i] = u[i]
  <1>1. /\ t \o u \in Seq(S) /\ Len(t \o u) = Len(t) + Len(u)
        /\ \A i \in 1 .. Len(t) + Len(u) :
              (t \o u)[i] = IF i <= Len(t) THEN t[i] ELSE u[i - Len(t)]
    BY ConcatProperties
  <1>2. Len(t) \in Nat /\ Len(u) \in Nat
    BY LenProperties
  <1> QED
    BY <1>1, <1>2

\* Three texts in two groupings, under a name that keeps the provers from looking
\* for it everywhere.
Associate(s, t, u) == (s \o t) \o u = s \o (t \o u)

\* How they are grouped makes no difference.
LEMMA Grouped == \A s, t, u \in Seq(Char) : Associate(s, t, u)
  <1> TAKE s, t, u \in Seq(Char)
  <1> QED
    BY ConcatAssociative DEF Associate

\* Cutting the first of two texts.
LEMMA CutFirst ==
    ASSUME NEW S, NEW t \in Seq(S), NEW u \in Seq(S), NEW n \in 0 .. Len(t)
    PROVE  First(t \o u, n) = First(t, n) /\ After(t \o u, n) = After(t, n) \o u
  <1> DEFINE v == t \o u
  <1>1. /\ v \in Seq(S) /\ Len(v) = Len(t) + Len(u) /\ Len(t) \in Nat /\ Len(u) \in Nat
        /\ \A i \in 1 .. Len(t) : v[i] = t[i]
        /\ \A i \in 1 .. Len(u) : v[Len(t) + i] = u[i]
    BY Both
  <1> HIDE DEF v
  <1>2. /\ First(v, n) \in Seq(S) /\ Len(First(v, n)) = n
        /\ After(v, n) \in Seq(S) /\ Len(After(v, n)) = Len(v) - n
        /\ \A i \in 1 .. n : First(v, n)[i] = v[i]
        /\ \A i \in 1 .. Len(v) - n : After(v, n)[i] = v[n + i]
    <2>1. n \in 0 .. Len(v)
      BY <1>1
    <2> QED
      BY <1>1, <2>1, Cut
  <1>3. /\ First(t, n) \in Seq(S) /\ Len(First(t, n)) = n
        /\ After(t, n) \in Seq(S) /\ Len(After(t, n)) = Len(t) - n
        /\ \A i \in 1 .. n : First(t, n)[i] = t[i]
        /\ \A i \in 1 .. Len(t) - n : After(t, n)[i] = t[n + i]
    BY Cut
  <1>4. First(v, n) = First(t, n)
    <2>1. ASSUME NEW i \in 1 .. n PROVE First(v, n)[i] = First(t, n)[i]
      <3>1. i \in 1 .. Len(t)
        BY <1>1
      <3>2. First(v, n)[i] = v[i] /\ First(t, n)[i] = t[i] /\ v[i] = t[i]
        BY <1>1, <1>2, <1>3, <3>1
      <3> QED
        BY <3>2
    <2> QED
      BY <1>2, <1>3, <2>1, SeqEqual
  <1>5. After(v, n) = After(t, n) \o u
    <2>1. PICK a \in Seq(S) : a = After(t, n)
      BY <1>3
    <2>2. PICK w \in Seq(S) : w = After(v, n)
      BY <1>2
    <2>3. /\ a \o u \in Seq(S) /\ Len(a \o u) = Len(a) + Len(u)
          /\ \A i \in 1 .. Len(a) : (a \o u)[i] = a[i]
          /\ \A i \in 1 .. Len(u) : (a \o u)[Len(a) + i] = u[i]
      BY Both
    <2>4. /\ Len(a) = Len(t) - n /\ Len(w) = Len(t) + Len(u) - n
          /\ \A i \in 1 .. Len(a) : a[i] = t[n + i]
          /\ \A i \in 1 .. Len(w) : w[i] = v[n + i]
      <3>1. Len(a) = Len(t) - n /\ Len(w) = Len(v) - n
        BY <1>2, <1>3, <2>1, <2>2
      <3>2. \A i \in 1 .. Len(a) : a[i] = t[n + i]
        BY <1>3, <2>1, <3>1
      <3>3. \A i \in 1 .. Len(w) : w[i] = v[n + i]
        BY <1>2, <2>2, <3>1
      <3> QED
        BY <1>1, <3>1, <3>2, <3>3
    <2>5. ASSUME NEW i \in 1 .. Len(w) PROVE w[i] = (a \o u)[i]
      <3>1. CASE i <= Len(a)
        BY <1>1, <2>3, <2>4, <3>1
      <3>2. CASE i > Len(a)
        <4>1. i - Len(a) \in 1 .. Len(u) /\ n + i = Len(t) + (i - Len(a))
              /\ Len(a) + (i - Len(a)) = i
          BY <1>1, <2>4, <3>2
        <4>2. (a \o u)[Len(a) + (i - Len(a))] = u[i - Len(a)]
          BY <2>3, <4>1
        <4>3. v[Len(t) + (i - Len(a))] = u[i - Len(a)]
          BY <1>1, <4>1
        <4> QED
          BY <2>4, <4>1, <4>2, <4>3
      <3> QED
        BY <1>1, <2>4, <3>1, <3>2
    <2>6. Len(w) = Len(a \o u)
      BY <1>1, <2>3, <2>4
    <2>7. w = a \o u
      BY <2>3, <2>5, <2>6, SeqEqual
    <2> QED
      BY <2>1, <2>2, <2>7
  <1> QED
    BY <1>4, <1>5 DEF v

\* Where a character is first.
LEMMA Found ==
    ASSUME NEW S, NEW t \in Seq(S), NEW char
    PROVE  \/ Find(t, char) = 0 /\ \A i \in 1 .. Len(t) : t[i] # char
           \/ /\ Find(t, char) \in 1 .. Len(t) /\ t[Find(t, char)] = char
              /\ \A i \in 1 .. Find(t, char) - 1 : t[i] # char
  <1> DEFINE I == {i \in 1 .. Len(t) : t[i] = char}
  <1>1. Len(t) \in Nat
    BY LenProperties
  <1>2. Find(t, char) = IF I # {} THEN Min(I) ELSE 0
    BY DEF Find, SelectInSeq
  <1>3. CASE I = {}
    BY <1>2, <1>3
  <1>4. CASE I # {}
    <2>1. I \in SUBSET Nat
      BY <1>1
    <2>2. \E n \in I : \A m \in I : n <= m
      BY <1>4, <2>1, Least
    <2>3. Min(I) \in I /\ \A m \in I : Min(I) <= m
      <3> HIDE DEF I
      <3> QED
        BY <2>2 DEF Min
    <2>4. Find(t, char) \in I /\ \A m \in I : Find(t, char) <= m
      BY <1>2, <1>4, <2>3
    <2>5. \A i \in 1 .. Find(t, char) - 1 : i \in 1 .. Len(t) /\ i \notin I
      <3> HIDE DEF I
      <3>1. Find(t, char) \in 1 .. Len(t)
        BY <2>4 DEF I
      <3> QED
        BY <1>1, <2>4, <3>1
    <2> QED
      BY <2>4, <2>5
  <1> QED
    BY <1>3, <1>4

(***************************************************************************)
(* Citations.                                                              *)
(***************************************************************************)

\* A citation has one closing bracket, at its end.
LEMMA CitationShape ==
    ASSUME NEW s \in Text, IsCitation(s)
    PROVE  /\ Len(s) \in Nat /\ Len(s) > 3 /\ s[1] = "[" /\ s[Len(s)] = "]"
           /\ \A i \in 1 .. Len(s) - 1 : s[i] # "]"
  <1>1. Len(s) \in Nat /\ Len(s) > 3 /\ \A i \in 1 .. Len(s) : s[i] \in Char
    BY LenProperties DEF IsCitation, Text
  <1>2. PICK d \in Seq(Char) : d = Id(s) /\ Len(d) = Len(s) - 3
    <2>1. \A i \in 3 .. Len(s) - 1 : s[i] \in Char
      BY <1>1
    <2>2. /\ SubSeq(s, 3, Len(s) - 1) \in Seq(Char)
          /\ Len(SubSeq(s, 3, Len(s) - 1))
                = IF 3 <= Len(s) - 1 THEN (Len(s) - 1) - 3 + 1 ELSE 0
      BY <1>1, <2>1, SubSeqProperties
    <2>3. Id(s) \in Seq(Char) /\ Len(Id(s)) = Len(s) - 3
      BY <1>1, <2>2 DEF Id
    <2> QED
      BY <2>3
  <1>4. \A i \in 1 .. Len(d) : d[i] \in Digits
    <2>1. DOMAIN d = 1 .. Len(d)
      BY LenProperties
    <2> QED
      BY <1>2, <2>1 DEF IsCitation, ToSet
  <1>3. "[" \in Char /\ "c" \in Char /\ "]" \in Char
    BY CharAssumption
  <1>5. PICK p \in Seq(Char) : p = <<"[", "c">>
    <2>1. <<"[", "c">> \in Seq(Char)
      BY <1>3
    <2> QED
      BY <2>1
  <1>6. Len(p) = 2 /\ p[1] = "[" /\ p[2] = "c"
    BY <1>5
  <1>7. PICK e \in Seq(Char) : e = <<"]">>
    <2>1. <<"]">> \in Seq(Char)
      BY <1>3
    <2> QED
      BY <2>1
  <1>8. Len(e) = 1 /\ e[1] = "]"
    BY <1>7
  <1>9. PICK q \in Seq(Char) : q = p \o d
    BY Both
  <1>10. /\ Len(q) = 2 + Len(d)
         /\ \A i \in 1 .. 2 : q[i] = p[i]
         /\ \A i \in 1 .. Len(d) : q[2 + i] = d[i]
    <2>1. /\ p \o d \in Seq(Char) /\ Len(p \o d) = Len(p) + Len(d)
          /\ \A i \in 1 .. Len(p) : (p \o d)[i] = p[i]
          /\ \A i \in 1 .. Len(d) : (p \o d)[Len(p) + i] = d[i]
      BY Both
    <2>2. Len(p) = 2
      BY <1>6
    <2> QED
      BY <1>9, <2>1, <2>2
  <1>11. s = q \o e
    BY <1>2, <1>5, <1>7, <1>9 DEF IsCitation, Citation
  <1>12. /\ \A i \in 1 .. Len(q) : s[i] = q[i]
         /\ \A i \in 1 .. 1 : s[Len(q) + i] = e[i]
    <2>1. /\ \A i \in 1 .. Len(q) : (q \o e)[i] = q[i]
          /\ \A i \in 1 .. Len(e) : (q \o e)[Len(q) + i] = e[i]
      BY Both
    <2> QED
      BY <1>8, <1>11, <2>1
  <1>13. s[1] = "[" /\ s[Len(s)] = "]"
    BY <1>1, <1>2, <1>6, <1>8, <1>10, <1>12
  <1>14. ASSUME NEW i \in 1 .. Len(s) - 1 PROVE s[i] # "]"
    <2>1. i \in 1 .. Len(q) /\ s[i] = q[i]
      <3>1. i \in 1 .. Len(q)
        BY <1>1, <1>2, <1>10
      <3> QED
        BY <1>12, <3>1
    <2>2. CASE i \in 1 .. 2
      BY <1>6, <1>10, <2>1, <2>2
    <2>3. CASE i \notin 1 .. 2
      <3>1. i - 2 \in 1 .. Len(d) /\ 2 + (i - 2) = i
        BY <1>2, <1>10, <2>1, <2>3
      <3>2. q[2 + (i - 2)] = d[i - 2] /\ d[i - 2] \in Digits
        BY <1>4, <1>10, <3>1
      <3> QED
        BY <2>1, <3>1, <3>2, CharAssumption
    <2> QED
      BY <2>2, <2>3
  <1> QED
    BY <1>1, <1>13, <1>14

\* A text begins with at most one citation, which ends at the first closing
\* bracket.
LEMMA OneEnd ==
    ASSUME NEW t \in Text, NEW n \in Ends(t)
    PROVE  /\ n \in 4 .. Len(t) /\ t[1] = "[" /\ t[n] = "]"
           /\ n = Find(t, "]")
  <1>1. t \in Seq(Char) /\ Len(t) \in Nat /\ DOMAIN t = 1 .. Len(t)
    BY LenProperties DEF Text
  <1>2. n \in 1 .. Len(t) /\ IsCitation(First(t, n))
    BY <1>1 DEF Ends
  <1>3. PICK s \in Seq(Char) : s = First(t, n)
    BY <1>1, <1>2, Cut
  <1>4. Len(s) = n /\ \A i \in 1 .. n : s[i] = t[i]
    <2>1. n \in 0 .. Len(t)
      BY <1>1, <1>2
    <2>2. /\ Len(First(t, n)) = n
          /\ \A i \in 1 .. n : First(t, n)[i] = t[i]
      BY <1>1, <2>1, Cut
    <2> QED
      BY <1>3, <2>2
  <1>5. /\ n > 3 /\ s[1] = "[" /\ s[n] = "]"
        /\ \A i \in 1 .. n - 1 : s[i] # "]"
    BY <1>2, <1>3, <1>4, CitationShape DEF Text
  <1>6. /\ t[1] = "[" /\ t[n] = "]"
        /\ \A i \in 1 .. n - 1 : t[i] # "]"
    BY <1>2, <1>4, <1>5
  <1>7. \/ Find(t, "]") = 0 /\ \A i \in 1 .. Len(t) : t[i] # "]"
        \/ /\ Find(t, "]") \in 1 .. Len(t) /\ t[Find(t, "]")] = "]"
           /\ \A i \in 1 .. Find(t, "]") - 1 : t[i] # "]"
    BY <1>1, Found
  <1>8. n = Find(t, "]")
    BY <1>1, <1>2, <1>6, <1>7
  <1> QED
    BY <1>1, <1>2, <1>5, <1>6, <1>8

\* What is kept of a citation is text.
LEMMA KeptIsText == \A s \in Text : Kept(s) \in Text
  BY EmptySeq DEF Kept, Text

(***************************************************************************)
(* What the two loops compute.                                             *)
(***************************************************************************)

\* The substitution, piece by piece.
LEMMA SanitizeUnfolds ==
    /\ \A t \in Text : Sanitize[t] \in Text
    /\ Sanitize[<<>>] = <<>>
    /\ \A t \in Text : t # <<>> /\ Ends(t) = {} =>
          Sanitize[t] = First(t, 1) \o Sanitize[After(t, 1)]
    /\ \A t \in Text : \A n \in Ends(t) :
          Sanitize[t] = Kept(First(t, n)) \o Sanitize[After(t, n)]
  <1> DEFINE N(t) == IF Ends(t) = {} THEN 1 ELSE CHOOSE n \in Ends(t) : TRUE
             P(t) == IF Ends(t) = {} THEN First(t, 1) ELSE Kept(First(t, N(t)))
             body(f, t) ==
                IF t = <<>> THEN <<>>
                ELSE IF Ends(t) = {} THEN First(t, 1) \o f[After(t, 1)]
                ELSE LET n == CHOOSE n \in Ends(t) : TRUE
                     IN  Kept(First(t, n)) \o f[After(t, n)]
  <1>1. ASSUME NEW t \in Text, t # <<>>
        PROVE  /\ N(t) \in 1 .. Len(t) /\ Len(t) \in Nat
               /\ P(t) \in Text /\ After(t, N(t)) \in Text
               /\ Len(After(t, N(t))) < Len(t)
    <2>1. t \in Seq(Char) /\ Len(t) \in Nat /\ Len(t) >= 1
      BY <1>1, EmptySeq DEF Text
    <2>2. N(t) \in 1 .. Len(t)
      <3>1. CASE Ends(t) = {}
        BY <2>1, <3>1
      <3>2. CASE Ends(t) # {}
        <4>1. N(t) \in Ends(t)
          BY <3>2
        <4> HIDE DEF N
        <4>2. N(t) \in 4 .. Len(t)
          BY <4>1, OneEnd
        <4> QED
          BY <2>1, <4>2
      <3> QED
        BY <3>1, <3>2
    <2> HIDE DEF N
    <2>3. N(t) \in 0 .. Len(t) /\ 1 \in 0 .. Len(t)
      BY <2>1, <2>2
    <2>4. /\ First(t, 1) \in Text /\ First(t, N(t)) \in Text /\ After(t, N(t)) \in Text
          /\ Len(After(t, N(t))) = Len(t) - N(t)
      BY <2>1, <2>3, Cut DEF Text
    <2>5. P(t) \in Text
      BY <2>4, KeptIsText
    <2> QED
      BY <2>1, <2>2, <2>4, <2>5
  <1>2. <<>> \in Text /\ Len(<<>>) = 0
    BY EmptySeq DEF Text
  <1>3. ASSUME NEW f, NEW t \in Text
        PROVE  body(f, t) = IF t = <<>> THEN <<>> ELSE P(t) \o f[After(t, N(t))]
    OBVIOUS
  <1> HIDE DEF N, P
  <1>4. \E f \in [Text -> Text] : \A t \in Text :
           f[t] = IF t = <<>> THEN <<>> ELSE P(t) \o f[After(t, N(t))]
    <2> DEFINE Stop == {t \in Text : t = <<>>}
               size == [t \in Text |-> Len(t)]
               next == [t \in Text |-> IF t = <<>> THEN t ELSE After(t, N(t))]
               base == [t \in Text |-> <<>>]
               comb == [t \in Text |-> [v \in Text |-> IF t = <<>> THEN <<>> ELSE P(t) \o v]]
    <2>1. Stop \in SUBSET Text /\ size \in [Text -> Nat] /\ base \in [Text -> Text]
      BY <1>2, LenProperties DEF Text
    <2>2. next \in [Text -> Text] /\ \A t \in Text \ Stop : size[next[t]] < size[t]
      BY <1>1
    <2>3. comb \in [Text -> [Text -> Text]]
      <3>1. \A t, v \in Text : t # <<>> => P(t) \o v \in Text
        BY <1>1, Both DEF Text
      <3> QED
        BY <1>2, <3>1
    <2>4. \E f \in [Text -> Text] : Equation(f, Text, Stop, next, base, comb)
      <3> HIDE DEF Stop, size, next, base, comb
      <3> QED
        BY <2>1, <2>2, <2>3, Recursion
    <2>5. PICK f \in [Text -> Text] : Equation(f, Text, Stop, next, base, comb)
      BY <2>4
    <2>6. ASSUME NEW t \in Text
          PROVE  f[t] = IF t = <<>> THEN <<>> ELSE P(t) \o f[After(t, N(t))]
      <3>1. f[t] = IF t \in Stop THEN base[t] ELSE comb[t][f[next[t]]]
        <4> HIDE DEF Stop, size, next, base, comb
        <4> QED
          BY <2>5 DEF Equation
      <3>2. CASE t = <<>>
        BY <3>1, <3>2
      <3>3. CASE t # <<>>
        <4>1. next[t] = After(t, N(t)) /\ f[After(t, N(t))] \in Text
          BY <1>1, <3>3
        <4>2. f[t] = comb[t][f[After(t, N(t))]]
          <5> HIDE DEF comb, next
          <5> QED
            BY <3>1, <3>3, <4>1
        <4> QED
          BY <3>3, <4>1, <4>2
      <3> QED
        BY <3>2, <3>3
    <2> QED
      BY <2>6
  <1>5. \E f : f = [t \in Text |-> body(f, t)]
    <2>1. PICK f \in [Text -> Text] : \A t \in Text :
             f[t] = IF t = <<>> THEN <<>> ELSE P(t) \o f[After(t, N(t))]
      BY <1>4
    <2>2. \A t \in Text : f[t] = body(f, t)
      BY <1>3, <2>1
    <2> HIDE DEF body
    <2>3. f = [t \in Text |-> body(f, t)]
      BY <2>2
    <2> QED
      BY <2>3
  <1>6. Sanitize = [t \in Text |-> body(Sanitize, t)]
    BY <1>5, Zenon DEF Sanitize
  <1>7. \A t \in Text :
           Sanitize[t] = IF t = <<>> THEN <<>> ELSE P(t) \o Sanitize[After(t, N(t))]
    <2>1. \A t \in Text : Sanitize[t] = body(Sanitize, t)
      <3> HIDE DEF body
      <3> QED
        BY <1>6
    <2> QED
      BY <1>3, <2>1
  <1>8. \A t \in Text : Sanitize[t] \in Text
    <2> DEFINE T == {n \in Nat : \A t \in Text : Len(t) = n => Sanitize[t] \in Text}
    <2>1. ASSUME NEW n \in Nat, \A m \in 0 .. n - 1 : m \in T PROVE n \in T
      <3> SUFFICES ASSUME NEW t \in Text, Len(t) = n PROVE Sanitize[t] \in Text
        OBVIOUS
      <3>1. CASE t = <<>>
        BY <1>2, <1>7, <3>1
      <3>2. CASE t # <<>>
        <4>1. After(t, N(t)) \in Text /\ Len(After(t, N(t))) \in 0 .. n - 1
          BY <1>1, <3>2, LenProperties DEF Text
        <4>2. Sanitize[After(t, N(t))] \in Text
          BY <2>1, <4>1
        <4>3. P(t) \o Sanitize[After(t, N(t))] \in Text
          BY <1>1, <3>2, <4>2, Both DEF Text
        <4> QED
          BY <1>7, <3>2, <4>3
      <3> QED
        BY <3>1, <3>2
    <2>2. \A n \in Nat : n \in T
      <3> HIDE DEF T
      <3> QED
        BY <2>1, NatInd
    <2> QED
      BY <2>2, LenProperties DEF Text
  <1>9. \A t \in Text : \A n \in Ends(t) : t # <<>> /\ n = N(t)
    <2> SUFFICES ASSUME NEW t \in Text, NEW n \in Ends(t) PROVE t # <<>> /\ n = N(t)
      OBVIOUS
    <2>1. N(t) \in Ends(t)
      BY DEF N
    <2>2. n = Find(t, "]") /\ N(t) = Find(t, "]") /\ n \in 4 .. Len(t)
      BY <2>1, OneEnd
    <2> QED
      BY <1>2, <2>2
  <1> QED
    BY <1>2, <1>7, <1>8, <1>9 DEF N, P

\* One turn of the loop that puts out some text and goes on with what is behind.
Outputs(t, out, n) == [Drain[After(t, n)] EXCEPT !.out = out \o @]

\* The loop of feed, turn by turn.
LEMMA DrainUnfolds ==
    ASSUME NEW t \in Text
    PROVE  /\ Drain[t] \in [out : Text, pending : Text]
           /\ Find(t, "[") = 0 => Drain[t] = [out |-> t, pending |-> <<>>]
           /\ Find(t, "[") > 1 =>
                 Drain[t] = Outputs(t, First(t, Find(t, "[") - 1), Find(t, "[") - 1)
           /\ Find(t, "[") = 1 =>
                 IF Find(t, "]") = 0 /\ Held(t)
                 THEN Drain[t] = [out |-> <<>>, pending |-> t]
                 ELSE IF IsCitation(First(t, Find(t, "]")))
                 THEN Drain[t] = Outputs(t, Kept(First(t, Find(t, "]"))), Find(t, "]"))
                 ELSE Drain[t] = Outputs(t, First(t, 1), 1)
  <1> DEFINE V == [out : Text, pending : Text]
             Whole(s) == Find(s, "[") = 0
             Open(s) == ~Whole(s) /\ ~(Find(s, "[") > 1)
             Waits(s) == Open(s) /\ Find(s, "]") = 0 /\ Held(s)
             Cites(s) == Open(s) /\ ~Waits(s) /\ IsCitation(First(s, Find(s, "]")))
             Stops(s) == Whole(s) \/ Waits(s)
             B(s) == IF Whole(s) THEN [out |-> s, pending |-> <<>>]
                     ELSE [out |-> <<>>, pending |-> s]
             N(s) == IF Find(s, "[") > 1 THEN Find(s, "[") - 1
                     ELSE IF Cites(s) THEN Find(s, "]") ELSE 1
             P(s) == IF Cites(s) THEN Kept(First(s, N(s))) ELSE First(s, N(s))
             body(f, s) ==
                LET Output(out, n) == [f[After(s, n)] EXCEPT !.out = out \o @]
                    opening == Find(s, "[")
                    closing == Find(s, "]")
                IN  IF opening = 0 THEN [out |-> s, pending |-> <<>>]
                    ELSE IF opening > 1 THEN Output(First(s, opening - 1), opening - 1)
                    ELSE IF closing = 0 /\ Held(s) THEN [out |-> <<>>, pending |-> s]
                    ELSE IF IsCitation(First(s, closing))
                         THEN Output(Kept(First(s, closing)), closing)
                    ELSE Output(First(s, 1), 1)
             Turn(f, s) == IF Stops(s) THEN B(s)
                           ELSE [f[After(s, N(s))] EXCEPT !.out = P(s) \o @]
  <1>1. <<>> \in Text /\ \A s \in Text : B(s) \in V
    BY EmptySeq DEF Text
  <1>2. ASSUME NEW s \in Text, ~Stops(s)
        PROVE  /\ P(s) \in Text /\ After(s, N(s)) \in Text
               /\ Len(s) \in Nat /\ Len(After(s, N(s))) < Len(s)
    <2>1. s \in Seq(Char) /\ Len(s) \in Nat
      BY LenProperties DEF Text
    <2>2. Find(s, "[") \in 1 .. Len(s)
      <3>1. Find(s, "[") = 0 \/ Find(s, "[") \in 1 .. Len(s)
        BY <2>1, Found
      <3> QED
        BY <1>2, <3>1
    <2>3. Cites(s) => Find(s, "]") \in 1 .. Len(s)
      <3>1. ASSUME Find(s, "]") = 0 PROVE ~IsCitation(First(s, Find(s, "]")))
        <4>1. Len(First(s, 0)) = 0
          BY <2>1, Cut
        <4> QED
          BY <3>1, <4>1 DEF IsCitation
      <3>2. Find(s, "]") = 0 \/ Find(s, "]") \in 1 .. Len(s)
        BY <2>1, Found
      <3> QED
        BY <3>1, <3>2
    <2>4. N(s) \in 1 .. Len(s)
      BY <2>1, <2>2, <2>3
    <2> HIDE DEF N, Stops, Cites
    <2>5. /\ First(s, N(s)) \in Text /\ After(s, N(s)) \in Text
          /\ Len(After(s, N(s))) = Len(s) - N(s)
      <3>1. N(s) \in 0 .. Len(s)
        BY <2>1, <2>4
      <3> QED
        BY <2>1, <3>1, Cut DEF Text
    <2>6. P(s) \in Text
      BY <2>5, KeptIsText
    <2> QED
      BY <2>1, <2>4, <2>5, <2>6
  <1>3. ASSUME NEW f, NEW s \in Text PROVE body(f, s) = Turn(f, s)
    <2>1. CASE Whole(s)
      BY <2>1
    <2>2. CASE Find(s, "[") > 1
      BY <2>2
    <2>3. CASE Waits(s)
      BY <2>3
    <2>4. CASE Cites(s)
      BY <2>4
    <2>5. CASE Open(s) /\ ~Waits(s) /\ ~Cites(s)
      BY <2>5
    <2> QED
      BY <2>1, <2>2, <2>3, <2>4, <2>5
  <1> HIDE DEF N, P, B, Stops
  <1>4. \E f \in [Text -> V] : \A s \in Text : f[s] = Turn(f, s)
    <2> DEFINE Stop == {s \in Text : Stops(s)}
               size == [s \in Text |-> Len(s)]
               next == [s \in Text |-> IF Stops(s) THEN s ELSE After(s, N(s))]
               base == [s \in Text |-> B(s)]
               comb == [s \in Text |-> [v \in V |->
                           IF Stops(s) THEN B(s) ELSE [v EXCEPT !.out = P(s) \o @]]]
    <2>1. Stop \in SUBSET Text /\ size \in [Text -> Nat] /\ base \in [Text -> V]
      BY <1>1, LenProperties DEF Text
    <2>2. next \in [Text -> Text] /\ \A s \in Text \ Stop : size[next[s]] < size[s]
      BY <1>2
    <2>3. comb \in [Text -> [V -> V]]
      <3>1. ASSUME NEW s \in Text, ~Stops(s), NEW v \in V
            PROVE  [v EXCEPT !.out = P(s) \o @] \in V
        <4>1. P(s) \o v.out \in Text
          BY <1>2, <3>1, Both DEF Text
        <4> QED
          BY <4>1
      <3> HIDE DEF V
      <3> QED
        BY <1>1, <3>1
    <2>4. \E f \in [Text -> V] : Equation(f, Text, Stop, next, base, comb)
      <3> HIDE DEF Stop, size, next, base, comb, V
      <3> QED
        BY <2>1, <2>2, <2>3, Recursion
    <2>5. PICK f \in [Text -> V] : Equation(f, Text, Stop, next, base, comb)
      BY <2>4
    <2> HIDE DEF V
    <2>6. ASSUME NEW s \in Text PROVE f[s] = Turn(f, s)
      <3>1. f[s] = IF s \in Stop THEN base[s] ELSE comb[s][f[next[s]]]
        <4> HIDE DEF Stop, size, next, base, comb
        <4> QED
          BY <2>5 DEF Equation
      <3>2. CASE Stops(s)
        BY <3>1, <3>2
      <3>3. CASE ~Stops(s)
        <4>1. next[s] = After(s, N(s)) /\ f[After(s, N(s))] \in V
          BY <1>2, <3>3
        <4>2. f[s] = comb[s][f[After(s, N(s))]]
          <5> HIDE DEF comb, next
          <5> QED
            BY <3>1, <3>3, <4>1
        <4> QED
          BY <3>3, <4>1, <4>2
      <3> QED
        BY <3>2, <3>3
    <2> QED
      BY <2>6
  <1>5. \E f : f = [s \in Text |-> body(f, s)]
    <2>1. PICK f \in [Text -> V] : \A s \in Text : f[s] = Turn(f, s)
      BY <1>4
    <2> HIDE DEF body, Turn
    <2>2. \A s \in Text : f[s] = body(f, s)
      BY <1>3, <2>1
    <2>3. f = [s \in Text |-> body(f, s)]
      BY <2>2
    <2> QED
      BY <2>3
  <1>6. Drain = [s \in Text |-> body(Drain, s)]
    BY <1>5, Zenon DEF Drain
  <1>7. \A s \in Text : Drain[s] = Turn(Drain, s)
    <2> HIDE DEF body, Turn
    <2>1. \A s \in Text : Drain[s] = body(Drain, s)
      BY <1>6
    <2> QED
      BY <1>3, <2>1
  <1>8. \A s \in Text : Drain[s] \in V
    <2> DEFINE T == {n \in Nat : \A s \in Text : Len(s) = n => Drain[s] \in V}
    <2>1. ASSUME NEW n \in Nat, \A m \in 0 .. n - 1 : m \in T PROVE n \in T
      <3> SUFFICES ASSUME NEW s \in Text, Len(s) = n PROVE Drain[s] \in V
        OBVIOUS
      <3>1. CASE Stops(s)
        BY <1>1, <1>7, <3>1
      <3>2. CASE ~Stops(s)
        <4>1. After(s, N(s)) \in Text /\ Len(After(s, N(s))) \in 0 .. n - 1
          BY <1>2, <3>2, LenProperties DEF Text
        <4>2. Drain[After(s, N(s))] \in V
          BY <2>1, <4>1
        <4>3. P(s) \o Drain[After(s, N(s))].out \in Text
          BY <1>2, <3>2, <4>2, Both DEF Text
        <4> QED
          BY <1>7, <3>2, <4>2, <4>3
      <3> QED
        BY <3>1, <3>2
    <2>2. \A n \in Nat : n \in T
      <3> HIDE DEF T
      <3> QED
        BY <2>1, NatInd
    <2> QED
      BY <2>2, LenProperties DEF Text
  <1>9. Drain[t] = body(Drain, t)
    BY <1>3, <1>7
  <1> QED
    BY <1>8, <1>9 DEF Outputs

(***************************************************************************)
(* Filtering is sanitizing.                                                *)
(***************************************************************************)

\* A text without a character.
Lacks(t, char) == \A i \in 1 .. Len(t) : t[i] # char

\* A text is its first character and the rest.
LEMMA FirstOfText ==
    ASSUME NEW t \in Text, t # <<>>
    PROVE  /\ First(t, 1) \in Seq(Char) /\ After(t, 1) \in Seq(Char)
           /\ t = First(t, 1) \o After(t, 1)
           /\ Len(t) \in Nat \ {0} /\ Len(After(t, 1)) = Len(t) - 1
           /\ \A char : Lacks(t, char) => t[1] # char /\ Lacks(After(t, 1), char)
  <1>1. t \in Seq(Char) /\ Len(t) \in Nat \ {0} /\ 1 \in 0 .. Len(t)
    BY EmptySeq DEF Text
  <1>2. /\ First(t, 1) \in Seq(Char) /\ After(t, 1) \in Seq(Char)
        /\ t = First(t, 1) \o After(t, 1)
        /\ Len(After(t, 1)) = Len(t) - 1
        /\ \A i \in 1 .. Len(t) - 1 : After(t, 1)[i] = t[1 + i]
    <2>1. PICK n \in 0 .. Len(t) : n = 1
      BY <1>1
    <2>2. /\ First(t, n) \in Seq(Char) /\ After(t, n) \in Seq(Char)
          /\ t = First(t, n) \o After(t, n)
          /\ Len(After(t, n)) = Len(t) - n
          /\ \A i \in 1 .. Len(t) - n : After(t, n)[i] = t[n + i]
      BY <1>1, Cut
    <2> QED
      BY <2>1, <2>2
  <1>3. ASSUME NEW char, Lacks(t, char) PROVE t[1] # char /\ Lacks(After(t, 1), char)
    <2>1. t[1] # char
      BY <1>1, <1>3 DEF Lacks
    <2>2. ASSUME NEW i \in 1 .. Len(t) - 1 PROVE After(t, 1)[i] # char
      <3>1. 1 + i \in 1 .. Len(t)
        BY <1>1
      <3>2. t[1 + i] # char
        BY <1>3, <3>1 DEF Lacks
      <3> QED
        BY <1>2, <3>2
    <2> QED
      BY <1>2, <2>1, <2>2 DEF Lacks
  <1> QED
    BY <1>1, <1>2, <1>3

\* What a text has, a longer one has.
LEMMA StillTooLong ==
    ASSUME NEW t \in Text, NEW u \in Text, TooLong(u)
    PROVE  TooLong(t \o u)
  <1>1. t \in Seq(Char) /\ u \in Seq(Char) /\ Len(t) \in Nat /\ Len(u) \in Nat
        /\ Len(t \o u) = Len(t) + Len(u)
    BY Both DEF Text
  <1>2. PICK i \in 0 .. Len(u), j \in 0 .. Len(u) :
           /\ IsCitation(SubSeq(u, i + 1, j)) /\ Len(SubSeq(u, i + 1, j)) > Patience + 1
    <2>1. PICK s \in SubSeqs(u) : IsCitation(s) /\ Len(s) > Patience + 1
      BY DEF TooLong
    <2>2. PICK i \in 0 .. Len(u), j \in 0 .. Len(u) : s = SubSeq(u, i + 1, j)
      BY DEF SubSeqs
    <2> QED
      BY <2>1, <2>2
  <1>3. i + 1 <= j
    <2> SUFFICES ASSUME j < i + 1 PROVE FALSE
      BY <1>1
    <2>1. SubSeq(u, i + 1, j) = <<>>
      BY <1>1, SubSeqEmpty
    <2> QED
      BY <1>2, <2>1 DEF IsCitation
  <1>4. SubSeq(t \o u, Len(t) + i + 1, Len(t) + j) = SubSeq(u, i + 1, j)
    <2> DEFINE m == Len(t) + i + 1
               n == Len(t) + j
    <2>1. /\ m \in Len(t) + 1 .. Len(t) + Len(u)
          /\ n \in Len(t) + 1 .. Len(t) + Len(u)
          /\ m - Len(t) = i + 1 /\ n - Len(t) = j
      BY <1>1, <1>3
    <2> HIDE DEF m, n
    <2>2. SubSeq(t \o u, m, n) = SubSeq(u, m - Len(t), n - Len(t))
      BY <1>1, <2>1, SubSeqOfConcat2
    <2> QED
      BY <2>1, <2>2 DEF m, n
  <1>5. PICK k \in 0 .. Len(t \o u), l \in 0 .. Len(t \o u) : k = Len(t) + i /\ l = Len(t) + j
    BY <1>1
  <1>6. SubSeq(t \o u, k + 1, l) = SubSeq(u, i + 1, j)
    BY <1>4, <1>5
  <1>7. SubSeq(t \o u, k + 1, l) \in SubSeqs(t \o u)
    BY DEF SubSeqs
  <1> QED
    BY <1>2, <1>6, <1>7 DEF TooLong

\* Without opening brackets a text goes through as it is.
LEMMA PlainText ==
    ASSUME NEW u \in Text
    PROVE  \A t \in Text : Lacks(t, "[") => Sanitize[t \o u] = t \o Sanitize[u]
  <1> DEFINE T == {n \in Nat : \A t \in Text :
                     Len(t) = n /\ Lacks(t, "[") => Sanitize[t \o u] = t \o Sanitize[u]}
  <1>0. Sanitize[u] \in Text /\ u \in Seq(Char) /\ Sanitize[u] \in Seq(Char)
    BY SanitizeUnfolds DEF Text
  <1>1. ASSUME NEW n \in Nat, \A m \in 0 .. n - 1 : m \in T PROVE n \in T
    <2> SUFFICES ASSUME NEW t \in Text, Len(t) = n, Lacks(t, "[")
                 PROVE  Sanitize[t \o u] = t \o Sanitize[u]
      OBVIOUS
    <2>1. CASE t = <<>>
      BY <1>0, <2>1, ConcatEmptySeq
    <2>2. CASE t # <<>>
      <3>1. t \in Seq(Char) /\ Len(t) \in Nat \ {0} /\ t[1] # "["
        BY <2>2, FirstOfText DEF Text
      <3>2. PICK f \in Seq(Char), a \in Seq(Char) :
               /\ f = First(t, 1) /\ a = After(t, 1) /\ t = f \o a /\ Len(a) = n - 1
               /\ Lacks(a, "[")
        BY <2>2, FirstOfText
      <3>4. Sanitize[a \o u] = a \o Sanitize[u]
        <4>1. n - 1 \in 0 .. n - 1
          BY <3>1
        <4> QED
          BY <1>1, <3>2, <4>1 DEF Text
      <3>5. PICK v \in Seq(Char) : v = t \o u
        BY <1>0, <3>1, Both
      <3>6. Len(v) > 0 /\ v[1] = t[1]
        BY <1>0, <3>1, <3>5, Both
      <3>7. v # <<>> /\ Ends(v) = {}
        BY <3>1, <3>6, OneEnd DEF Text
      <3>8. Sanitize[v] = First(v, 1) \o Sanitize[After(v, 1)]
        BY <3>7, SanitizeUnfolds DEF Text
      <3>9. First(v, 1) = f /\ After(v, 1) = a \o u
        <4>1. PICK m \in 0 .. Len(t) : m = 1
          BY <3>1
        <4>2. First(t \o u, m) = First(t, m) /\ After(t \o u, m) = After(t, m) \o u
          BY <1>0, <3>1, CutFirst
        <4> QED
          BY <3>2, <3>5, <4>1, <4>2
      <3>10. f \o (a \o Sanitize[u]) = (f \o a) \o Sanitize[u]
        <4> HIDE DEF T
        <4>1. PICK w \in Seq(Char) : w = Sanitize[u]
          BY <1>0
        <4>2. Associate(f, a, w)
          BY Grouped
        <4> QED
          BY <4>1, <4>2 DEF Associate
      <3> QED
        BY <3>2, <3>4, <3>5, <3>8, <3>9, <3>10
    <2> QED
      BY <2>1, <2>2
  <1>2. \A n \in Nat : n \in T
    <2> HIDE DEF T
    <2> QED
      BY <1>1, NatInd
  <1> QED
    BY <1>2, LenProperties DEF Text

\* Nor is there anything to remove without closing ones.
LEMMA UnclosedText == \A t \in Text : Lacks(t, "]") => Sanitize[t] = t
  <1> DEFINE T == {n \in Nat : \A t \in Text :
                     Len(t) = n /\ Lacks(t, "]") => Sanitize[t] = t}
  <1>1. ASSUME NEW n \in Nat, \A m \in 0 .. n - 1 : m \in T PROVE n \in T
    <2> SUFFICES ASSUME NEW t \in Text, Len(t) = n, Lacks(t, "]") PROVE Sanitize[t] = t
      OBVIOUS
    <2>1. CASE t = <<>>
      BY <2>1, SanitizeUnfolds
    <2>2. CASE t # <<>>
      <3>1. t \in Seq(Char) /\ Len(t) \in Nat \ {0}
        BY <2>2, FirstOfText DEF Text
      <3>2. PICK f \in Seq(Char), a \in Seq(Char) :
               /\ f = First(t, 1) /\ a = After(t, 1) /\ t = f \o a /\ Len(a) = n - 1
               /\ Lacks(a, "]")
        BY <2>2, FirstOfText
      <3>4. Sanitize[a] = a
        <4>1. n - 1 \in 0 .. n - 1
          BY <3>1
        <4> QED
          BY <1>1, <3>2, <4>1 DEF Text
      <3>5. Ends(t) = {}
        <4> SUFFICES ASSUME NEW m \in Ends(t) PROVE FALSE
          OBVIOUS
        <4>1. m \in 1 .. Len(t) /\ t[m] = "]"
          BY <3>1, OneEnd
        <4> QED
          BY <4>1 DEF Lacks
      <3> QED
        BY <2>2, <3>2, <3>4, <3>5, SanitizeUnfolds
    <2> QED
      BY <2>1, <2>2
  <1>2. \A n \in Nat : n \in T
    <2> HIDE DEF T
    <2> QED
      BY <1>1, NatInd
  <1> QED
    BY <1>2, LenProperties DEF Text

\* Instead of t one may write out, and go on with rest.
Passes(t, out, rest) ==
    \A future \in Seq(Char) : ~TooLong(t \o future) =>
        Sanitize[t \o future] = out \o Sanitize[rest \o future]

\* What the loop does with a text: what it outputs is final, what it keeps is
\* short and the end of the text, and together they will be the sanitized text,
\* whatever is still to come.
Right(t, d) ==
    /\ d.out \in Seq(Char) /\ d.pending \in Seq(Char)
    /\ Len(d.pending) <= Patience /\ Lacks(d.pending, "]")
    /\ \E past \in Seq(Char) : t = past \o d.pending
    /\ Passes(t, d.out, d.pending)

\* One turn that outputs something and goes on with the rest.
LEMMA TurnIsRight ==
    ASSUME NEW t \in Seq(Char), NEW piece \in Seq(Char), NEW n \in 1 .. Len(t),
           Right(After(t, n), Drain[After(t, n)]),
           Drain[t] = Outputs(t, piece, n),
           Passes(t, piece, After(t, n))
    PROVE  Right(t, Drain[t])
  <1>1. PICK f \in Seq(Char), r \in Seq(Char) :
           f = First(t, n) /\ r = After(t, n) /\ t = f \o r
    <2>1. n \in 0 .. Len(t)
      OBVIOUS
    <2> QED
      BY <2>1, Cut
  <1>2. Drain[r] \in [out : Text, pending : Text]
    BY DrainUnfolds DEF Text
  <1>3. PICK o \in Seq(Char), p \in Seq(Char) : o = Drain[r].out /\ p = Drain[r].pending
    BY <1>2 DEF Text
  <1>4. Drain[t].out = piece \o o /\ Drain[t].pending = p
    BY <1>1, <1>2, <1>3 DEF Outputs
  <1>5. /\ Len(p) <= Patience /\ Lacks(p, "]")
        /\ \E past \in Seq(Char) : r = past \o p
        /\ Passes(r, o, p)
    BY <1>1, <1>3 DEF Right
  <1>6. \E past \in Seq(Char) : t = past \o p
    <2>1. PICK past \in Seq(Char) : r = past \o p
      BY <1>5
    <2>2. Associate(f, past, p)
      BY Grouped
    <2>3. f \o past \in Seq(Char)
      BY Both
    <2> QED
      BY <1>1, <2>1, <2>2, <2>3 DEF Associate
  <1>7. ASSUME NEW future \in Seq(Char), ~TooLong(t \o future)
        PROVE  Sanitize[t \o future] = (piece \o o) \o Sanitize[p \o future]
    <2>1. t \o future = f \o (r \o future)
      <3>1. Associate(f, r, future)
        BY Grouped
      <3> QED
        BY <1>1, <3>1 DEF Associate
    <2>2. r \o future \in Seq(Char) /\ p \o future \in Seq(Char)
      BY Both
    <2>3. ~TooLong(r \o future)
      BY <1>7, <2>1, <2>2, StillTooLong DEF Text
    <2>4. PICK s \in Seq(Char) : s = Sanitize[p \o future]
      BY <2>2, SanitizeUnfolds DEF Text
    <2>5. Sanitize[r \o future] = o \o s
      BY <1>5, <2>3, <2>4 DEF Passes
    <2>6. Sanitize[t \o future] = piece \o Sanitize[r \o future]
      BY <1>1, <1>7 DEF Passes
    <2>7. Associate(piece, o, s)
      BY Grouped
    <2> QED
      BY <2>4, <2>5, <2>6, <2>7 DEF Associate
  <1>8. piece \o o \in Seq(Char)
    BY Both
  <1> QED
    BY <1>4, <1>5, <1>6, <1>7, <1>8 DEF Right, Passes

\* A bracket that opens no citation is put out.
LEMMA BracketIsText ==
    ASSUME NEW t \in Seq(Char), NEW u \in Seq(Char), t # <<>>,
           Find(t, "]") = 0 => ~Held(t),
           ~IsCitation(First(t, Find(t, "]"))),
           ~TooLong(t \o u)
    PROVE  Ends(t \o u) = {}
  <1> SUFFICES ASSUME NEW m \in Ends(t \o u) PROVE FALSE
    OBVIOUS
  <1>1. PICK v \in Seq(Char) : v = t \o u
    BY Both
  <1>2. /\ Len(v) = Len(t) + Len(u) /\ Len(t) \in Nat /\ Len(u) \in Nat
        /\ \A i \in 1 .. Len(t) : v[i] = t[i]
    BY <1>1, Both
  <1>3. m \in 4 .. Len(v) /\ v[m] = "]" /\ m = Find(v, "]")
    BY <1>1, OneEnd DEF Text
  <1>4. IsCitation(First(v, m))
    BY <1>1 DEF Ends
  <1>5. \A i \in 1 .. m - 1 : v[i] # "]"
    BY <1>3, Found
  <1>6. \/ Find(t, "]") = 0 /\ \A i \in 1 .. Len(t) : t[i] # "]"
        \/ /\ Find(t, "]") \in 1 .. Len(t) /\ t[Find(t, "]")] = "]"
           /\ \A i \in 1 .. Find(t, "]") - 1 : t[i] # "]"
    BY Found
  <1>7. CASE m <= Len(t)
    <2>1. t[m] = "]" /\ m \in 1 .. Len(t)
      BY <1>2, <1>3, <1>7
    <2>2. m = Find(t, "]")
      <3>1. Find(t, "]") \in 1 .. Len(t) /\ t[Find(t, "]")] = "]" /\ ~(m < Find(t, "]"))
        BY <1>6, <2>1
      <3>2. ~(Find(t, "]") < m)
        BY <1>2, <1>3, <1>5, <3>1
      <3> QED
        BY <1>2, <2>1, <3>1, <3>2
    <2>3. m \in 0 .. Len(t)
      BY <2>1
    <2>4. First(t \o u, m) = First(t, m)
      BY <2>3, CutFirst
    <2> QED
      BY <1>1, <1>4, <2>2, <2>4
  <1>8. CASE m > Len(t)
    <2>1. Find(t, "]") = 0
      <3>1. ASSUME Find(t, "]") \in 1 .. Len(t), t[Find(t, "]")] = "]" PROVE FALSE
        <4>1. Find(t, "]") \in 1 .. m - 1 /\ v[Find(t, "]")] = "]"
          BY <1>2, <1>3, <1>8, <3>1
        <4> QED
          BY <1>5, <4>1
      <3> QED
        BY <1>6, <3>1
    <2>2. Len(t) > Patience
      BY <1>2, <2>1, FilterAssumption DEF Held
    <2>3. Len(First(v, m)) = m
      <3>1. m \in 0 .. Len(v)
        BY <1>3
      <3> QED
        BY <3>1, Cut
    <2>4. Len(First(v, m)) > Patience + 1
      BY <1>2, <1>3, <1>8, <2>2, <2>3, FilterAssumption
    <2>5. First(v, m) \in SubSeqs(v)
      <3>1. m \in 0 .. Len(v) /\ 0 \in 0 .. Len(v)
        BY <1>2, <1>3
      <3>2. First(v, m) = SubSeq(v, 0 + 1, m)
        BY DEF First
      <3> QED
        BY <3>1, <3>2 DEF SubSeqs
    <2> QED
      BY <1>1, <1>4, <2>4, <2>5 DEF TooLong
  <1> QED
    BY <1>2, <1>3, <1>7, <1>8


\* The two parts of a text.
LEMMA Parts ==
    ASSUME NEW t \in Seq(Char), NEW k \in 0 .. Len(t)
    PROVE  \E f \in Seq(Char), r \in Seq(Char) :
              /\ f = First(t, k) /\ r = After(t, k) /\ t = f \o r
              /\ Len(f) = k /\ \A i \in 1 .. k : f[i] = t[i]
  BY Cut

\* The loop is right about every text.
LEMMA DrainIsRight == \A t \in Text : Right(t, Drain[t])
  <1> DEFINE T == {n \in Nat : \A t \in Text : Len(t) = n => Right(t, Drain[t])}
  <1>1. ASSUME NEW n \in Nat, \A m \in 0 .. n - 1 : m \in T PROVE n \in T
    <2> SUFFICES ASSUME NEW t \in Text, Len(t) = n PROVE Right(t, Drain[t])
      OBVIOUS
    <2>1. t \in Seq(Char) /\ Len(t) \in Nat /\ Patience \in Nat /\ <<>> \in Seq(Char)
      BY LenProperties, FilterAssumption, EmptySeq DEF Text
    <2>2. ASSUME NEW k \in 1 .. Len(t)
          PROVE  Right(After(t, k), Drain[After(t, k)])
      <3>1. k \in 0 .. Len(t)
        BY <2>1
      <3>2. After(t, k) \in Text /\ Len(After(t, k)) = n - k
        BY <2>1, <3>1, Cut DEF Text
      <3>3. n - k \in 0 .. n - 1
        BY <2>1
      <3>4. n - k \in T
        BY <1>1, <3>3
      <3> QED
        BY <3>2, <3>4
    <2> HIDE DEF T
    <2>3. \/ Find(t, "[") = 0 /\ Lacks(t, "[")
          \/ /\ Find(t, "[") \in 1 .. Len(t) /\ t[Find(t, "[")] = "["
             /\ \A i \in 1 .. Find(t, "[") - 1 : t[i] # "["
      BY <2>1, Found DEF Lacks
    <2>4. CASE Find(t, "[") = 0
      <3>1. Drain[t].out = t /\ Drain[t].pending = <<>>
        <4>1. Drain[t] = [out |-> t, pending |-> <<>>]
          BY <2>4, DrainUnfolds
        <4> QED
          BY <4>1
      <3>2. Lacks(t, "[")
        BY <2>3, <2>4
      <3>3. ASSUME NEW future \in Seq(Char), ~TooLong(t \o future)
            PROVE  Sanitize[t \o future] = t \o Sanitize[<<>> \o future]
        <4>1. <<>> \o future = future
          BY ConcatEmptySeq
        <4> QED
          BY <3>2, <4>1, PlainText DEF Text
      <3>4. t = t \o <<>> /\ Len(<<>>) = 0 /\ Lacks(<<>>, "]")
        BY <2>1, ConcatEmptySeq DEF Lacks
      <3> QED
        BY <2>1, <3>1, <3>3, <3>4 DEF Right, Passes
    <2>5. CASE Find(t, "[") > 1
      <3>1. PICK k \in 1 .. Len(t) : k = Find(t, "[") - 1
        BY <2>1, <2>3, <2>5
      <3>2. k \in 0 .. Len(t)
        BY <2>1
      <3>3. PICK f \in Seq(Char), r \in Seq(Char) :
               /\ f = First(t, k) /\ r = After(t, k) /\ t = f \o r
               /\ Len(f) = k /\ \A i \in 1 .. k : f[i] = t[i]
        BY <2>1, <3>2, Parts
      <3>4. Lacks(f, "[")
        <4>1. \A i \in 1 .. k : t[i] # "["
          BY <2>3, <2>5, <3>1
        <4> QED
          BY <3>3, <4>1 DEF Lacks
      <3>5. ASSUME NEW future \in Seq(Char), ~TooLong(t \o future)
            PROVE  Sanitize[t \o future] = f \o Sanitize[r \o future]
        <4>1. t \o future = f \o (r \o future)
          <5>1. Associate(f, r, future)
            BY Grouped
          <5> QED
            BY <3>3, <5>1 DEF Associate
        <4>2. r \o future \in Seq(Char)
          BY Both
        <4> QED
          BY <3>4, <4>1, <4>2, PlainText DEF Text
      <3>6. Drain[t] = Outputs(t, f, k)
        BY <2>5, <3>1, <3>3, DrainUnfolds
      <3>7. Passes(t, f, After(t, k))
        BY <3>3, <3>5 DEF Passes
      <3>8. Right(After(t, k), Drain[After(t, k)])
        BY <2>2
      <3> QED
        BY <2>1, <3>6, <3>7, <3>8, TurnIsRight
    <2>6. CASE Find(t, "[") = 1 /\ Find(t, "]") = 0 /\ Held(t)
      <3>1. Drain[t].out = <<>> /\ Drain[t].pending = t
        <4>1. Drain[t] = [out |-> <<>>, pending |-> t]
          BY <2>6, DrainUnfolds
        <4> QED
          BY <4>1
      <3>2. Lacks(t, "]") /\ Len(t) <= Patience
        BY <2>1, <2>6, Found DEF Lacks, Held
      <3>3. t = <<>> \o t
        BY <2>1, ConcatEmptySeq
      <3>4. ASSUME NEW future \in Seq(Char)
            PROVE  Sanitize[t \o future] = <<>> \o Sanitize[t \o future]
        <4>1. t \o future \in Seq(Char)
          BY <2>1, Both
        <4>2. Sanitize[t \o future] \in Seq(Char)
          BY <4>1, SanitizeUnfolds DEF Text
        <4> QED
          BY <4>2, ConcatEmptySeq
      <3> QED
        BY <2>1, <3>1, <3>2, <3>3, <3>4 DEF Right, Passes
    <2>7. CASE /\ Find(t, "[") = 1 /\ ~(Find(t, "]") = 0 /\ Held(t))
               /\ IsCitation(First(t, Find(t, "]")))
      <3>1. Find(t, "]") \in 1 .. Len(t)
        <4>1. ASSUME Find(t, "]") = 0 PROVE FALSE
          <5>1. Len(First(t, 0)) = 0
            <6>1. 0 \in 0 .. Len(t)
              BY <2>1
            <6> QED
              BY <2>1, <6>1, Cut
          <5> QED
            BY <2>7, <4>1, <5>1 DEF IsCitation
        <4> QED
          BY <2>1, <4>1, Found
      <3>2. PICK k \in 1 .. Len(t) : k = Find(t, "]")
        BY <3>1
      <3>3. k \in 0 .. Len(t)
        BY <2>1
      <3>4. PICK f \in Seq(Char), r \in Seq(Char) :
               f = First(t, k) /\ r = After(t, k) /\ t = f \o r
        BY <2>1, <3>3, Parts
      <3>5. PICK piece \in Seq(Char) : piece = Kept(f)
        BY KeptIsText DEF Text
      <3>6. ASSUME NEW future \in Seq(Char), ~TooLong(t \o future)
            PROVE  Sanitize[t \o future] = piece \o Sanitize[r \o future]
        <4>1. First(t \o future, k) = f /\ After(t \o future, k) = r \o future
          BY <2>1, <3>3, <3>4, CutFirst
        <4>2. t \o future \in Text /\ k \in DOMAIN (t \o future)
          <5>1. PICK v \in Seq(Char) : v = t \o future
            BY <2>1, Both
          <5>2. Len(v) = Len(t) + Len(future) /\ Len(future) \in Nat
            BY <2>1, <5>1, Both
          <5>3. DOMAIN v = 1 .. Len(v)
            BY LenProperties
          <5> QED
            BY <2>1, <5>1, <5>2, <5>3 DEF Text
        <4>3. k \in Ends(t \o future)
          BY <2>7, <3>2, <3>4, <4>1, <4>2 DEF Ends
        <4>4. Sanitize[t \o future]
                 = Kept(First(t \o future, k)) \o Sanitize[After(t \o future, k)]
          BY <4>2, <4>3, SanitizeUnfolds
        <4> QED
          BY <3>5, <4>1, <4>4
      <3>7. Drain[t] = Outputs(t, piece, k)
        BY <2>7, <3>2, <3>4, <3>5, DrainUnfolds
      <3>8. Passes(t, piece, After(t, k))
        BY <3>4, <3>6 DEF Passes
      <3>9. Right(After(t, k), Drain[After(t, k)])
        BY <2>2
      <3> QED
        BY <2>1, <3>7, <3>8, <3>9, TurnIsRight
    <2>8. CASE /\ Find(t, "[") = 1 /\ ~(Find(t, "]") = 0 /\ Held(t))
               /\ ~IsCitation(First(t, Find(t, "]")))
      <3>1. PICK k \in 1 .. Len(t) : k = 1
        BY <2>1, <2>3, <2>8
      <3>2. k \in 0 .. Len(t)
        BY <2>1
      <3>3. PICK f \in Seq(Char), r \in Seq(Char) :
               f = First(t, k) /\ r = After(t, k) /\ t = f \o r
        BY <2>1, <3>2, Parts
      <3>4. t # <<>>
        BY <2>1, <3>1, EmptySeq
      <3>5. ASSUME NEW future \in Seq(Char), ~TooLong(t \o future)
            PROVE  Sanitize[t \o future] = f \o Sanitize[r \o future]
        <4>1. First(t \o future, k) = f /\ After(t \o future, k) = r \o future
          BY <2>1, <3>2, <3>3, CutFirst
        <4>2. t \o future \in Text /\ t \o future # <<>>
          <5>1. PICK v \in Seq(Char) : v = t \o future
            BY <2>1, Both
          <5>2. Len(v) = Len(t) + Len(future) /\ Len(future) \in Nat
            BY <2>1, <5>1, Both
          <5>3. Len(v) # 0
            BY <2>1, <3>1, <5>2
          <5> QED
            BY <5>1, <5>3, EmptySeq DEF Text
        <4>3. Ends(t \o future) = {}
          BY <2>1, <2>8, <3>4, <3>5, BracketIsText
        <4>4. Sanitize[t \o future]
                 = First(t \o future, 1) \o Sanitize[After(t \o future, 1)]
          BY <4>2, <4>3, SanitizeUnfolds
        <4> QED
          BY <3>1, <4>1, <4>4
      <3>6. Drain[t] = Outputs(t, f, k)
        BY <2>8, <3>1, <3>3, DrainUnfolds
      <3>7. Passes(t, f, After(t, k))
        BY <3>3, <3>5 DEF Passes
      <3>8. Right(After(t, k), Drain[After(t, k)])
        BY <2>2
      <3> QED
        BY <2>1, <3>6, <3>7, <3>8, TurnIsRight
    <2> QED
      BY <2>1, <2>3, <2>4, <2>5, <2>6, <2>7, <2>8
  <1>2. \A n \in Nat : n \in T
    <2> HIDE DEF T
    <2> QED
      BY <1>1, NatInd
  <1> QED
    BY <1>2, LenProperties DEF Text

(***************************************************************************)
(* The filter.                                                             *)
(***************************************************************************)

\* Before the first delta.
LEMMA NothingFed == Right(<<>>, [out |-> <<>>, pending |-> <<>>])
  <1>1. <<>> \in Seq(Char) /\ Len(<<>>) = 0 /\ <<>> = <<>> \o <<>> /\ Patience \in Nat
    BY FilterAssumption
  <1>2. Passes(<<>>, <<>>, <<>>)
    <2> SUFFICES ASSUME NEW future \in Seq(Char)
                 PROVE  Sanitize[<<>> \o future] = <<>> \o Sanitize[<<>> \o future]
      BY DEF Passes
    <2>1. <<>> \o future = future /\ Sanitize[future] \in Seq(Char)
      BY ConcatEmptySeq, SanitizeUnfolds DEF Text
    <2> QED
      BY <2>1, ConcatEmptySeq
  <1>3. Lacks(<<>>, "]")
    BY DEF Lacks
  <1>4. PICK e \in Seq(Char) : e = <<>>
    BY <1>1
  <1>5. /\ Len(e) <= Patience /\ Lacks(e, "]") /\ Passes(e, e, e)
        /\ \E past \in Seq(Char) : e = past \o e
    <2>1. Lacks(e, "]") /\ Passes(e, e, e)
      BY <1>2, <1>3, <1>4, Zenon
    <2>2. Len(e) = 0 /\ e = e \o e
      BY <1>4
    <2>3. Len(e) <= Patience
      BY <2>2, FilterAssumption
    <2> QED
      BY <2>1, <2>2, <2>3, Zenon
  <1>6. Right(e, [out |-> e, pending |-> e])
    BY <1>5 DEF Right
  <1> QED
    BY <1>4, <1>6

\* What the filter has put out and what it holds back stay right when a delta is
\* fed to it, whatever the delta and wherever it cuts the model's answer: the
\* output is final, and the pending text is a short end of the answer.
THEOREM FeedIsRight ==
    ASSUME NEW t \in Text, NEW out \in Text, NEW pending \in Text, NEW delta \in Text,
           Right(t, [out |-> out, pending |-> pending])
    PROVE  Right(t \o delta, [out |-> out \o Feed(pending, delta).out,
                              pending |-> Feed(pending, delta).pending])
  <1>1. /\ t \in Seq(Char) /\ out \in Seq(Char) /\ pending \in Seq(Char)
        /\ delta \in Seq(Char)
    BY DEF Text
  <1>2. PICK mid \in Seq(Char) : mid = pending \o delta
    BY <1>1, Both
  <1>3. Right(mid, Drain[mid]) /\ Drain[mid] = Feed(pending, delta)
    BY <1>2, DrainIsRight DEF Feed, Text
  <1>4. PICK o \in Seq(Char), p \in Seq(Char) :
           o = Feed(pending, delta).out /\ p = Feed(pending, delta).pending
    BY <1>3 DEF Right
  <1>5. /\ Len(p) <= Patience /\ Lacks(p, "]")
        /\ \E past \in Seq(Char) : mid = past \o p
        /\ Passes(mid, o, p)
    BY <1>3, <1>4 DEF Right
  <1>6. PICK past \in Seq(Char) : t = past \o pending
    BY DEF Right
  <1>7. Passes(t, out, pending)
    BY DEF Right
  <1>8. t \o delta = past \o mid
    <2>1. Associate(past, pending, delta)
      BY <1>1, Grouped
    <2> QED
      BY <1>2, <1>6, <2>1 DEF Associate
  <1>9. \E before \in Seq(Char) : t \o delta = before \o p
    <2>1. PICK second \in Seq(Char) : mid = second \o p
      BY <1>5
    <2>2. Associate(past, second, p) /\ past \o second \in Seq(Char)
      BY Grouped, Both
    <2> QED
      BY <1>8, <2>1, <2>2 DEF Associate
  <1>10. ASSUME NEW future \in Seq(Char), ~TooLong((t \o delta) \o future)
         PROVE  Sanitize[(t \o delta) \o future] = (out \o o) \o Sanitize[p \o future]
    <2>1. PICK rest \in Seq(Char) : rest = delta \o future
      BY <1>1, Both
    <2>2. (t \o delta) \o future = t \o rest
      <3>1. Associate(t, delta, future)
        BY <1>1, Grouped
      <3> QED
        BY <2>1, <3>1 DEF Associate
    <2>3. pending \o rest = mid \o future
      <3>1. Associate(pending, delta, future)
        BY <1>1, Grouped
      <3> QED
        BY <1>2, <2>1, <3>1 DEF Associate
    <2>4. (t \o delta) \o future = past \o (mid \o future)
      <3>1. Associate(past, mid, future)
        BY Grouped
      <3> QED
        BY <1>8, <3>1 DEF Associate
    <2>5. mid \o future \in Seq(Char) /\ p \o future \in Seq(Char)
      BY Both
    <2>6. ~TooLong(mid \o future)
      BY <1>10, <2>4, <2>5, StillTooLong DEF Text
    <2>7. PICK s \in Seq(Char) : s = Sanitize[p \o future]
      BY <2>5, SanitizeUnfolds DEF Text
    <2>8. Sanitize[mid \o future] = o \o s
      BY <1>5, <2>6, <2>7 DEF Passes
    <2>9. Sanitize[t \o rest] = out \o Sanitize[pending \o rest]
      BY <1>7, <1>10, <2>2 DEF Passes
    <2>10. Associate(out, o, s)
      BY <1>1, Grouped
    <2> QED
      BY <2>2, <2>3, <2>7, <2>8, <2>9, <2>10 DEF Associate
  <1>11. out \o o \in Seq(Char)
    BY <1>1, Both
  <1> QED
    BY <1>4, <1>5, <1>9, <1>10, <1>11 DEF Right, Passes

\* At the end of the answer, what was put out and what is still held back are
\* the sanitized answer.
THEOREM FilterIsSanitize ==
    ASSUME NEW t \in Text, NEW out \in Text, NEW pending \in Text,
           Right(t, [out |-> out, pending |-> pending]), ~TooLong(t)
    PROVE  Sanitize[t] = out \o pending
  <1>1. t \o <<>> = t /\ pending \o <<>> = pending /\ <<>> \in Seq(Char)
    BY ConcatEmptySeq, EmptySeq DEF Text
  <1>2. Passes(t, out, pending) /\ Lacks(pending, "]")
    BY DEF Right
  <1>3. Sanitize[t] = out \o Sanitize[pending]
    BY <1>1, <1>2 DEF Passes
  <1> QED
    BY <1>2, <1>3, UnclosedText
=============================================================================
