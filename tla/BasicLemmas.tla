---------------------------- MODULE BasicLemmas ----------------------------
(***************************************************************************)
(* Facts that the proofs of several modules cite: about least elements,    *)
(* quotients, and sequences, where they say what the community modules'    *)
(* operators return, index by index.                                       *)
(***************************************************************************)
EXTENDS Integers, WellFoundedInduction, SequenceTheorems, SequencesExt, TLAPS

(* A nonempty set of naturals has a least element.                         *)
LEMMA NatHasLeast ==
  ASSUME NEW T \in SUBSET Nat, T # {}
  PROVE  \E x \in T : \A y \in T : x <= y
  <1> DEFINE R == {p \in Nat \X Nat : p[1] < p[2]}
  <1>1. OpToRel(<, Nat) = R
    BY DEF OpToRel
  <1>2. IsWellFoundedOn(R, Nat)
    BY <1>1, NatLessThanWellFounded, Zenon
  <1> HIDE DEF R
  <1>3. PICK x \in T : \A y \in T : ~ (<<y, x>> \in R)
    BY <1>2, WFMin, Zenon
  <1>4. ASSUME NEW y \in T  PROVE x <= y
    <2>1. x \in Nat /\ y \in Nat /\ <<y, x>> \in Nat \X Nat
      OBVIOUS
    <2>2. <<y, x>> \notin R
      BY <1>3
    <2>3. ~ (<<y, x>>[1] < <<y, x>>[2])
      BY <2>1, <2>2, Zenon DEF R
    <2>4. QED BY <2>1, <2>3
  <1>5. QED BY <1>4

(* Min chooses that element.                                               *)
LEMMA MinIsLeast ==
  ASSUME NEW T \in SUBSET Nat, T # {}
  PROVE  Min(T) \in T /\ \A y \in T : Min(T) <= y
  BY NatHasLeast DEF Min

(* Induction on naturals, with the property as a set.                      *)
LEMMA NatInducts ==
  ASSUME NEW P \in SUBSET Nat, 0 \in P, \A n \in P : n + 1 \in P
  PROVE  P = Nat
  <1> DEFINE T == Nat \ P
  <1>1. SUFFICES ASSUME T # {} PROVE FALSE
    OBVIOUS
  <1>2. PICK x \in T : \A y \in T : x <= y
    BY <1>1, NatHasLeast
  <1>3. x # 0 /\ x - 1 \in Nat
    OBVIOUS
  <1>4. x - 1 \in P
    BY <1>2, <1>3
  <1>5. x - 1 + 1 = x
    OBVIOUS
  <1>6. QED BY <1>4, <1>5, <1>2

(* Induction on naturals, from all that are smaller, with the property as  *)
(* a set.                                                                  *)
LEMMA StrongInducts ==
  ASSUME NEW P \in SUBSET Nat, \A n \in Nat : (\A m \in 0 .. n - 1 : m \in P) => n \in P
  PROVE  P = Nat
  <1> DEFINE T == Nat \ P
  <1>1. SUFFICES ASSUME T # {} PROVE FALSE
    OBVIOUS
  <1>2. PICK x \in T : \A y \in T : x <= y
    BY <1>1, NatHasLeast
  <1>3. \A m \in 0 .. x - 1 : m \in P
    BY <1>2
  <1>4. QED BY <1>3

(* p is the function that recursion on what h makes of an argument defines, *)
(* up to n.                                                                *)
Recurs(S, x, h, g, p, n) ==
  /\ p \in [0 .. n -> S]
  /\ \A k \in 0 .. n : p[k] = IF k = 0 THEN x ELSE g[<<k, p[h[k]]>>]

(* Recursion on what h makes of an argument, from x at 0, with values in S. *)
Recursive(S, x, h, g) ==
  /\ x \in S /\ h \in [Nat -> Nat] /\ g \in [Nat \X S -> S]
  /\ \A n \in Nat \ {0} : h[n] < n

(* It defines a function.                                                  *)
LEMMA Recursion ==
  ASSUME NEW S, NEW x, NEW h, NEW g, Recursive(S, x, h, g)
  PROVE  \E f \in [Nat -> S] : \A n \in Nat : f[n] = IF n = 0 THEN x ELSE g[<<n, f[h[n]]>>]
  <1> USE DEF Recursive
  <1> DEFINE R(p, n) == Recurs(S, x, h, g, p, n)
  <1>1. \A n \in Nat : \E p : R(p, n)
    <2> DEFINE P == {n \in Nat : \E p : R(p, n)}
    <2>1. 0 \in P
      <3>1. R([k \in 0 .. 0 |-> x], 0)
        BY DEF Recurs
      <3>2. QED BY <3>1
    <2>2. ASSUME NEW n \in P PROVE n + 1 \in P
      <3>1. PICK p : R(p, n)
        OBVIOUS
      <3> DEFINE q == [k \in 0 .. n + 1 |-> IF k = n + 1 THEN g[<<n + 1, p[h[n + 1]]>>] ELSE p[k]]
      <3>2. \A k \in 1 .. n + 1 : h[k] \in 0 .. n /\ h[k] < k
        OBVIOUS
      <3>3. p \in [0 .. n -> S]
        BY <3>1 DEF Recurs
      <3>4. g[<<n + 1, p[h[n + 1]]>>] \in S
        <4>1. p[h[n + 1]] \in S
          BY <3>2, <3>3
        <4>2. <<n + 1, p[h[n + 1]]>> \in Nat \X S
          BY <4>1
        <4>3. QED BY <4>2
      <3>5. q \in [0 .. n + 1 -> S]
        BY <3>3, <3>4
      <3>6. ASSUME NEW k \in 0 .. n + 1
            PROVE  q[k] = IF k = 0 THEN x ELSE g[<<k, q[h[k]]>>]
        <4>1. k # 0 => h[k] \in 0 .. n
          BY <3>2
        <4>2. k # 0 => q[h[k]] = p[h[k]]
          BY <4>1
        <4>3. CASE k = n + 1
          <5>1. k # 0 /\ q[k] = g[<<k, p[h[k]]>>]
            BY <4>3
          <5>2. QED BY <4>2, <5>1
        <4>4. CASE k # n + 1
          <5>1. k \in 0 .. n /\ q[k] = p[k]
            BY <4>4
          <5>2. p[k] = IF k = 0 THEN x ELSE g[<<k, p[h[k]]>>]
            BY <3>1, <5>1 DEF Recurs
          <5>3. QED BY <4>2, <5>1, <5>2
        <4>5. QED BY <4>3, <4>4
      <3>7. R(q, n + 1)
        BY <3>5, <3>6 DEF Recurs
      <3>8. QED BY <3>7
    <2>3. P = Nat
      <3> HIDE DEF P
      <3>1. P \in SUBSET Nat
        BY DEF P
      <3>2. QED BY <2>1, <2>2, <3>1, NatInducts
    <2>4. QED BY <2>3
  <1>2. ASSUME NEW n \in Nat, NEW m \in Nat, NEW p, NEW q, R(p, n), R(q, m)
        PROVE  \A k \in Nat : k <= n /\ k <= m => p[k] = q[k]
    <2> DEFINE P == {k \in Nat : k <= n /\ k <= m => p[k] = q[k]}
    <2>1. ASSUME NEW k \in Nat, \A l \in 0 .. k - 1 : l \in P PROVE k \in P
      <3>1. SUFFICES ASSUME k <= n, k <= m PROVE p[k] = q[k]
        OBVIOUS
      <3>2. k # 0 => h[k] \in 0 .. k - 1
        OBVIOUS
      <3>3. k # 0 => p[h[k]] = q[h[k]]
        BY <2>1, <3>1, <3>2
      <3>4. /\ p[k] = IF k = 0 THEN x ELSE g[<<k, p[h[k]]>>]
            /\ q[k] = IF k = 0 THEN x ELSE g[<<k, q[h[k]]>>]
        <4>1. k \in 0 .. n /\ k \in 0 .. m
          BY <3>1
        <4>2. QED BY <1>2, <4>1 DEF Recurs
      <3>5. QED BY <3>3, <3>4
    <2>2. P = Nat
      <3> HIDE DEF P
      <3>1. P \in SUBSET Nat
        BY DEF P
      <3>2. QED BY <2>1, <3>1, StrongInducts
    <2>3. QED BY <2>2
  <1> DEFINE c(n) == CHOOSE p : R(p, n)
             f == [n \in Nat |-> c(n)[n]]
  <1>3. \A n \in Nat : R(c(n), n)
    BY <1>1
  <1> HIDE DEF c
  <1>4. ASSUME NEW n \in Nat PROVE f[n] \in S /\ f[n] = IF n = 0 THEN x ELSE g[<<n, f[h[n]]>>]
    <2>1. n # 0 => h[n] \in 0 .. n - 1
      OBVIOUS
    <2>2. n # 0 => c(n)[h[n]] = c(h[n])[h[n]]
      BY <1>2, <1>3, <2>1
    <2>3. n # 0 => f[h[n]] = c(n)[h[n]]
      BY <2>1, <2>2
    <2>4. c(n) \in [0 .. n -> S] /\ c(n)[n] = IF n = 0 THEN x ELSE g[<<n, c(n)[h[n]]>>]
      BY <1>3 DEF Recurs
    <2>5. f[n] = c(n)[n] /\ n \in 0 .. n
      OBVIOUS
    <2>6. f[n] \in S
      BY <2>4, <2>5
    <2>7. f[n] = IF n = 0 THEN x ELSE g[<<n, f[h[n]]>>]
      <3>1. CASE n = 0  BY <2>4, <2>5, <3>1
      <3>2. CASE n # 0
        <4>1. f[n] = g[<<n, c(n)[h[n]]>>]
          BY <2>4, <2>5, <3>2
        <4>2. QED BY <2>3, <3>2, <4>1
      <3>3. QED BY <3>1, <3>2
    <2>8. QED BY <2>6, <2>7
  <1>5. f \in [Nat -> S]
    BY <1>4
  <1> HIDE DEF f
  <1>6. QED BY <1>4, <1>5

(* Division leaves a remainder ...                                         *)
LEMMA Division ==
  /\ \A x \in Int, d \in Nat \ {0} : /\ (x % d) \in 0 .. d - 1 /\ (x \div d) \in Int
                                     /\ x = (d * (x \div d)) + (x % d)
  /\ \A d \in Nat \ {0}, a, b \in Int : a <= b => d * a <= d * b
  OBVIOUS

(* ... and one quotient only leaves a remainder less than the divisor.     *)
LEMMA OneQuotient ==
  \A d \in Nat \ {0}, q, x \in Int : \A r \in 0 .. d - 1 : x = d * q + r => x \div d = q
  <1> SUFFICES ASSUME NEW d \in Nat \ {0}, NEW q \in Int, NEW x \in Int, NEW r \in 0 .. d - 1,
                      x = d * q + r
               PROVE  x \div d = q
    OBVIOUS
  <1>1. PICK p \in Int : p = x \div d
    BY Division
  <1>2. PICK s \in 0 .. d - 1 : s = x % d
    BY Division
  <1>3. x = d * p + s
    BY <1>1, <1>2, Division
  <1>4. ASSUME p < q PROVE FALSE
    <2>1. d * (p + 1) <= d * q
      BY <1>4, Division
    <2>2. d * (p + 1) = d * p + d
      OBVIOUS
    <2>3. QED BY <1>3, <2>1, <2>2
  <1>5. ASSUME q < p PROVE FALSE
    <2>1. d * (q + 1) <= d * p
      BY <1>5, Division
    <2>2. d * (q + 1) = d * q + d
      OBVIOUS
    <2>3. QED BY <1>3, <2>1, <2>2
  <1>6. QED BY <1>1, <1>4, <1>5

(* InsertAt(s, i, e) is s with e put in at i, what is from i on moved up   *)
(* by one.                                                                 *)
LEMMA InsertAtFacts ==
  ASSUME NEW S, NEW s \in Seq(S), NEW i \in 1 .. Len(s) + 1, NEW e \in S
  PROVE  /\ InsertAt(s, i, e) \in Seq(S)
         /\ Len(InsertAt(s, i, e)) = Len(s) + 1
         /\ InsertAt(s, i, e)[i] = e
         /\ \A j \in 1 .. i - 1 : InsertAt(s, i, e)[j] = s[j]
         /\ \A j \in i + 1 .. Len(s) + 1 : InsertAt(s, i, e)[j] = s[j - 1]
  <1> DEFINE a == SubSeq(s, 1, i - 1)
             b == SubSeq(s, i, Len(s))
             c == a \o <<e>>
  <1>1. a \in Seq(S) /\ Len(a) = i - 1 /\ \A j \in 1 .. i - 1 : a[j] = s[j]
     OBVIOUS
  <1>2. /\ b \in Seq(S) /\ Len(b) = Len(s) - i + 1
        /\ \A j \in 1 .. Len(s) - i + 1 : b[j] = s[j + i - 1]
     OBVIOUS
  <1>3. InsertAt(s, i, e) = c \o b
     BY DEF InsertAt
  <1> HIDE DEF a, b
  <1>4. /\ c \in Seq(S) /\ Len(c) = i
        /\ \A j \in 1 .. i : c[j] = IF j < i THEN s[j] ELSE e
     BY <1>1
  <1> HIDE DEF c
  <1> DEFINE d == c \o b
  <1>5. /\ d \in Seq(S) /\ Len(d) = Len(s) + 1
        /\ \A j \in 1 .. Len(s) + 1 : d[j] = IF j <= i THEN c[j] ELSE b[j - i]
     <2>1. /\ d \in Seq(S)
           /\ Len(d) = Len(c) + Len(b)
           /\ \A j \in 1 .. Len(c) + Len(b) :
                d[j] = IF j <= Len(c) THEN c[j] ELSE b[j - Len(c)]
       BY <1>2, <1>4, ConcatProperties, Zenon
     <2>2. QED BY <2>1, <1>2, <1>4
  <1>6. ASSUME NEW j \in 1 .. Len(s) + 1
        PROVE  d[j] = IF j < i THEN s[j] ELSE IF j = i THEN e ELSE s[j - 1]
     <2> HIDE DEF d
     <2>1. CASE j <= i  BY <2>1, <1>4, <1>5
     <2>2. CASE j > i
       <3>1. j - i \in 1 .. Len(s) - i + 1  BY <2>2
       <3>2. b[j - i] = s[j - i + i - 1]  BY <3>1, <1>2
       <3>3. QED BY <3>2, <2>2, <1>5
     <2>3. QED BY <2>1, <2>2
  <1>7. QED  BY <1>3, <1>5, <1>6

(* Tail drops the first element.                                           *)
LEMMA TailFacts ==
  ASSUME NEW S, NEW s \in Seq(S), s # <<>>
  PROVE  /\ Tail(s) \in Seq(S) /\ Len(Tail(s)) = Len(s) - 1
         /\ \A j \in 1 .. Len(s) - 1 : Tail(s)[j] = s[j + 1]
         /\ Head(s) = s[1] /\ Len(s) \in Nat \ {0}
  OBVIOUS

(* Cons(e, s) puts e before s.                                             *)
LEMMA ConsFacts ==
  ASSUME NEW S, NEW s \in Seq(S), NEW e \in S
  PROVE  /\ Cons(e, s) \in Seq(S) /\ Len(Cons(e, s)) = Len(s) + 1
         /\ \A j \in 1 .. Len(s) + 1 : Cons(e, s)[j] = IF j = 1 THEN e ELSE s[j - 1]
  BY DEF Cons

(* Front drops the last element, which is Last.                            *)
LEMMA FrontFacts ==
  ASSUME NEW S, NEW s \in Seq(S), s # <<>>
  PROVE  /\ Front(s) \in Seq(S) /\ Len(Front(s)) = Len(s) - 1
         /\ \A j \in 1 .. Len(s) - 1 : Front(s)[j] = s[j]
         /\ Last(s) = s[Len(s)] /\ Last(s) \in S /\ Len(s) \in Nat \ {0}
  <1>1. Len(s) \in Nat \ {0}
    OBVIOUS
  <1>2. Len(s) - 1 <= Len(s) /\ Len(s) \in 1 .. Len(s)
    BY <1>1
  <1>3. s[Len(s)] \in S
    BY <1>2
  <1> DEFINE f == SubSeq(s, 1, Len(s) - 1)
  <1>4. f \in Seq(S) /\ Len(f) = Len(s) - 1 /\ \A j \in 1 .. Len(s) - 1 : f[j] = s[j]
    <2>1. Len(s) - 1 \in Nat /\ 1 .. Len(s) - 1 \subseteq 1 .. Len(s)
      BY <1>1
    <2>2. \A j \in 1 .. Len(s) - 1 : s[j] \in S
      BY <2>1
    <2>3. f = [j \in 1 .. Len(s) - 1 |-> s[j]]
      BY <2>1
    <2> HIDE DEF f
    <2>4. f \in Seq(S)
      BY <2>1, <2>2, <2>3
    <2>5. Len(f) = Len(s) - 1
      BY <2>1, <2>3, <2>4
    <2>6. QED BY <2>1, <2>2, <2>3, <2>4, <2>5
  <1>5. QED BY <1>1, <1>3, <1>4 DEF Front, Last

(* Reverse(s): the first comes last.  What is put at the front of s is put *)
(* at the end of its reverse, and what is taken off the end is taken off   *)
(* the head.                                                               *)
LEMMA ReverseFacts ==
  ASSUME NEW S, NEW s \in Seq(S)
  PROVE  /\ Reverse(s) \in Seq(S)
         /\ Reverse(s) = <<>> <=> s = <<>>
         /\ \A e \in S : Reverse(Cons(e, s)) = Append(Reverse(s), e)
         /\ s # <<>> => /\ Head(Reverse(s)) = Last(s)
                        /\ Tail(Reverse(s)) = Reverse(Front(s))
  <1> DEFINE n == Len(s)
             r == Reverse(s)
  <1>1. n \in Nat /\ DOMAIN s = 1 .. n /\ \A i \in 1 .. n : s[i] \in S
    BY ElementOfSeq
  <1>2. r = [i \in 1 .. n |-> s[n - i + 1]]
    BY DEF Reverse
  <1>3. r \in Seq(S) /\ Len(r) = n
    <2>1. \A i \in 1 .. n : n - i + 1 \in 1 .. n
      BY <1>1
    <2>2. \A i \in 1 .. n : s[n - i + 1] \in S
      BY <1>1, <2>1
    <2> HIDE DEF n, r
    <2>3. r \in Seq(S)
      BY <1>1, <1>2, <2>2
    <2>4. QED BY <1>1, <1>2, <2>3
  <1>4. r = <<>> <=> n = 0
    BY <1>1, <1>3
  <1>5. s = <<>> <=> n = 0
    BY <1>1
  <1>6. ASSUME NEW e \in S  PROVE Reverse(Cons(e, s)) = Append(r, e)
    <2> DEFINE c == Cons(e, s)
    <2>1. /\ c \in Seq(S) /\ Len(c) = n + 1
          /\ \A j \in 1 .. n + 1 : c[j] = IF j = 1 THEN e ELSE s[j - 1]
      BY ConsFacts
    <2>2. Reverse(c) = [i \in 1 .. n + 1 |-> c[n + 1 - i + 1]]
      BY <2>1 DEF Reverse
    <2> HIDE DEF c, n, r
    <2>3. /\ Append(r, e) \in Seq(S) /\ Len(Append(r, e)) = n + 1
          /\ \A i \in 1 .. n + 1 : Append(r, e)[i] = IF i = n + 1 THEN e ELSE r[i]
      BY <1>1, <1>3
    <2>4. ASSUME NEW i \in 1 .. n + 1  PROVE c[n + 1 - i + 1] = Append(r, e)[i]
      <3>1. CASE i = n + 1
        <4>1. n + 1 - i + 1 = 1 /\ 1 \in 1 .. n + 1
          BY <1>1, <3>1
        <4>2. QED BY <2>1, <2>3, <3>1, <4>1
      <3>2. CASE i # n + 1
        <4> DEFINE k == n + 1 - i + 1
        <4>1. i \in 1 .. n /\ k \in 1 .. n + 1 /\ k # 1 /\ k - 1 = n - i + 1
          BY <1>1, <3>2
        <4> HIDE DEF k
        <4>2. c[k] = s[k - 1]
          BY <2>1, <4>1
        <4>3. c[k] = r[i]
          BY <1>2, <4>1, <4>2
        <4>4. QED BY <2>3, <3>2, <4>3 DEF k
      <3>3. QED BY <3>1, <3>2
    <2>5. DOMAIN Reverse(c) = 1 .. n + 1 /\ Reverse(c) \in Seq(S) /\ Len(Reverse(c)) = n + 1
      <3>1. \A i \in 1 .. n + 1 : c[n + 1 - i + 1] \in S
        BY <2>3, <2>4, ElementOfSeq
      <3> DEFINE m == n + 1
      <3>2. m \in Nat /\ Reverse(c) = [i \in 1 .. m |-> c[m - i + 1]]
            /\ \A i \in 1 .. m : c[m - i + 1] \in S
        BY <1>1, <2>2, <3>1
      <3> HIDE DEF m
      <3>3. Reverse(c) \in Seq(S)
        BY <3>2
      <3>4. DOMAIN Reverse(c) = 1 .. m /\ Len(Reverse(c)) = m
        BY <3>2, <3>3
      <3>5. QED BY <3>3, <3>4 DEF m
    <2>6. \A i \in 1 .. n + 1 : Reverse(c)[i] = Append(r, e)[i]
      BY <2>2, <2>4
    <2>7. Reverse(c) = Append(r, e)
      BY <2>3, <2>5, <2>6, SeqEqual
    <2>8. QED BY <2>7 DEF c
  <1>7. ASSUME s # <<>>  PROVE Head(r) = Last(s) /\ Tail(r) = Reverse(Front(s))
    <2> DEFINE f == Front(s)
    <2>1. /\ f \in Seq(S) /\ Len(f) = n - 1
          /\ \A j \in 1 .. n - 1 : f[j] = s[j]
          /\ Last(s) = s[n] /\ n \in Nat \ {0}
      BY <1>7, FrontFacts
    <2>2. Reverse(f) = [i \in 1 .. n - 1 |-> f[n - 1 - i + 1]]
      BY <2>1 DEF Reverse
    <2>3. /\ Tail(r) \in Seq(S) /\ Len(Tail(r)) = n - 1 /\ Head(r) = r[1]
          /\ \A i \in 1 .. n - 1 : Tail(r)[i] = r[i + 1]
      <3>1. r # <<>>
        BY <1>4, <2>1
      <3>2. QED BY <3>1, <1>3, TailFacts
    <2> HIDE DEF f, n, r
    <2>4. Head(r) = Last(s)
      <3>1. 1 \in 1 .. n /\ n - 1 + 1 = n
        BY <2>1
      <3>2. QED BY <1>2, <2>1, <2>3, <3>1
    <2>5. ASSUME NEW i \in 1 .. n - 1  PROVE f[n - 1 - i + 1] = Tail(r)[i]
      <3>1. /\ i + 1 \in 1 .. n /\ n - 1 - i + 1 \in 1 .. n - 1
            /\ n - 1 - i + 1 = n - (i + 1) + 1
        BY <2>1
      <3>2. QED BY <1>2, <2>1, <2>3, <3>1
    <2>6. Reverse(f) \in Seq(S) /\ Len(Reverse(f)) = n - 1
      <3>1. \A i \in 1 .. n - 1 : f[n - 1 - i + 1] \in S
        BY <2>3, <2>5, ElementOfSeq
      <3>2. Reverse(f) \in Seq(S)
        BY <2>1, <2>2, <3>1
      <3>3. QED BY <2>1, <2>2, <3>2
    <2>7. \A i \in 1 .. n - 1 : Reverse(f)[i] = Tail(r)[i]
      BY <2>2, <2>5
    <2>8. Reverse(f) = Tail(r)
      BY <2>3, <2>6, <2>7, SeqEqual
    <2>9. QED BY <2>4, <2>8 DEF f
  <1>8. QED BY <1>3, <1>4, <1>5, <1>6, <1>7 DEF r


(* A nonempty sequence is its front and its last.                          *)
LEMMA FrontAndLast ==
  ASSUME NEW S, NEW s \in Seq(S), s # <<>>
  PROVE  \E r \in Seq(S), x \in S : s = Append(r, x) /\ Len(r) = Len(s) - 1
  <1>1. Front(s) \in Seq(S) /\ Last(s) \in S /\ Len(Front(s)) = Len(s) - 1
    BY FrontFacts
  <1>2. s = Append(Front(s), Last(s))
    <2> DEFINE a == Append(Front(s), Last(s))
    <2>1. a \in Seq(S) /\ Len(a) = Len(s) /\ Len(s) \in Nat \ {0}
      BY <1>1
    <2>2. \A j \in 1 .. Len(s) - 1 : a[j] = s[j]
      BY <1>1, FrontFacts
    <2>3. a[Len(s)] = s[Len(s)]
      BY <1>1, FrontFacts
    <2>4. \A j \in 1 .. Len(s) : a[j] = s[j]
      BY <2>1, <2>2, <2>3
    <2>5. QED BY <2>1, <2>4, SeqEqual
  <1>3. QED BY <1>1, <1>2

(* Induction on sequences, which grow at the end.                          *)
LEMMA SeqInducts ==
  ASSUME NEW S, NEW P \in SUBSET Seq(S), <<>> \in P,
         \A s \in P, x \in S : Append(s, x) \in P
  PROVE  P = Seq(S)
  <1> DEFINE T == {n \in Nat : \A s \in Seq(S) : Len(s) = n => s \in P}
  <1>1. 0 \in T
    <2>1. \A s \in Seq(S) : Len(s) = 0 => s = <<>>
      OBVIOUS
    <2>2. QED BY <2>1
  <1>2. ASSUME NEW n \in T PROVE n + 1 \in T
    <2>1. SUFFICES ASSUME NEW s \in Seq(S), Len(s) = n + 1 PROVE s \in P
      OBVIOUS
    <2>2. s # <<>>
      BY <2>1
    <2>3. PICK r \in Seq(S), x \in S : s = Append(r, x) /\ Len(r) = Len(s) - 1
      BY <2>2, FrontAndLast
    <2>4. r \in P
      BY <2>1, <2>3
    <2>5. QED BY <2>3, <2>4
  <1>3. T = Nat
    <2> HIDE DEF T
    <2>1. T \in SUBSET Nat
      BY DEF T
    <2>2. QED BY <1>1, <1>2, <2>1, NatInducts
  <1>4. ASSUME NEW s \in Seq(S) PROVE s \in P
    <2>1. Len(s) \in T
      BY <1>3
    <2>2. QED BY <2>1
  <1>5. QED BY <1>4

-----------------------------------------------------------------------------
(* g holds the concatenations of the first members of s, as FlattenSeq     *)
(* computes them.                                                          *)
Flattens(g, s) == g = [i \in 1 .. Len(s) |-> IF i = 1 THEN s[i] ELSE g[i - 1] \o s[i]]

(* There is such a function for every sequence of sequences ...            *)
LEMMA FlattenExists ==
  ASSUME NEW S, NEW s \in Seq(Seq(S))
  PROVE  \E g \in [1 .. Len(s) -> Seq(S)] : Flattens(g, s)
  <1> DEFINE P == {r \in Seq(Seq(S)) : \E g \in [1 .. Len(r) -> Seq(S)] : Flattens(g, r)}
  <1>1. <<>> \in P
    <2> DEFINE g == [i \in 1 .. 0 |-> {}]
    <2>1. g \in [1 .. Len(<<>>) -> Seq(S)]
      OBVIOUS
    <2>2. Flattens(g, <<>>)
      BY DEF Flattens
    <2> HIDE DEF g
    <2>3. <<>> \in Seq(Seq(S))
      OBVIOUS
    <2>4. QED BY <2>1, <2>2, <2>3
  <1>2. ASSUME NEW r \in P, NEW x \in Seq(S) PROVE Append(r, x) \in P
    <2>1. r \in Seq(Seq(S))
      OBVIOUS
    <2>2. PICK g \in [1 .. Len(r) -> Seq(S)] : Flattens(g, r)
      OBVIOUS
    <2> DEFINE n == Len(r)
               a == Append(r, x)
               last == IF n = 0 THEN x ELSE g[n] \o x
               h == [i \in 1 .. n + 1 |-> IF i = n + 1 THEN last ELSE g[i]]
    <2>3. n \in Nat /\ a \in Seq(Seq(S)) /\ Len(a) = n + 1 /\ a[n + 1] = x
          /\ \A i \in 1 .. n : a[i] = r[i]
      BY <2>1
    <2>4. last \in Seq(S)
      <3>1. n # 0 => n \in 1 .. n
        BY <2>3
      <3>2. n # 0 => g[n] \in Seq(S)
        BY <3>1
      <3>3. QED BY <3>2, ConcatProperties
    <2>5. h \in [1 .. Len(a) -> Seq(S)]
      <3> HIDE DEF last
      <3>1. \A i \in 1 .. n + 1 : i = n + 1 \/ i \in 1 .. n
        BY <2>3
      <3>2. \A i \in 1 .. n : g[i] \in Seq(S)
        OBVIOUS
      <3>3. QED BY <2>3, <2>4, <3>1, <3>2
    <2>6. ASSUME NEW i \in 1 .. n + 1
          PROVE  h[i] = IF i = 1 THEN a[i] ELSE h[i - 1] \o a[i]
      <3>1. CASE i = n + 1
        <4>1. CASE n = 0  BY <3>1, <4>1, <2>3
        <4>2. CASE n # 0
          <5>1. h[i] = g[n] \o x /\ i # 1 /\ i - 1 = n /\ n \in 1 .. n + 1 /\ n # n + 1
            BY <3>1, <4>2, <2>3
          <5>2. h[n] = g[n]
            BY <5>1
          <5>3. QED BY <5>1, <5>2, <2>3, <3>1
        <4>3. QED BY <4>1, <4>2
      <3>2. CASE i # n + 1
        <4>1. i \in 1 .. n
          BY <3>2, <2>3
        <4>2. h[i] = g[i] /\ a[i] = r[i]
          BY <4>1, <2>3, <3>2
        <4>3. g[i] = IF i = 1 THEN r[i] ELSE g[i - 1] \o r[i]
          BY <4>1, <2>2 DEF Flattens
        <4>4. i # 1 => h[i - 1] = g[i - 1]
          BY <4>1, <2>3
        <4>5. QED BY <4>2, <4>3, <4>4
      <3>3. QED BY <3>1, <3>2
    <2>7. Flattens(h, a)
      <3> HIDE DEF last
      <3>1. h = [i \in 1 .. n + 1 |-> h[i]]
        OBVIOUS
      <3> HIDE DEF h
      <3>2. h = [i \in 1 .. n + 1 |-> IF i = 1 THEN a[i] ELSE h[i - 1] \o a[i]]
        BY <3>1, <2>6, Zenon
      <3>3. QED BY <3>2, <2>3 DEF Flattens
    <2>8. QED BY <2>3, <2>5, <2>7
  <1>3. P = Seq(Seq(S))
    <2> HIDE DEF P
    <2>1. P \in SUBSET Seq(Seq(S))
      BY DEF P
    <2>2. QED BY <1>1, <1>2, <2>1, SeqInducts
  <1>4. QED BY <1>3

(* ... and only one, whose last value FlattenSeq returns.                  *)
LEMMA FlattenUnique ==
  ASSUME NEW S, NEW s \in Seq(Seq(S)), NEW g, Flattens(g, s)
  PROVE  /\ g \in [1 .. Len(s) -> Seq(S)]
         /\ s # <<>> => FlattenSeq(s) = g[Len(s)]
  <1> DEFINE n == Len(s)
  <1>1. n \in Nat /\ \A i \in 1 .. n : s[i] \in Seq(S)
    BY ElementOfSeq
  <1>2. ASSUME NEW h, Flattens(h, s)
        PROVE  \A i \in 1 .. n : h[i] \in Seq(S) /\ h[i] = g[i]
    <2> DEFINE T == {i \in Nat : i + 1 \in 1 .. n => h[i + 1] \in Seq(S) /\ h[i + 1] = g[i + 1]}
    <2>0. \A i \in 1 .. n : /\ h[i] = IF i = 1 THEN s[i] ELSE h[i - 1] \o s[i]
                            /\ g[i] = IF i = 1 THEN s[i] ELSE g[i - 1] \o s[i]
      BY <1>2 DEF Flattens
    <2>1. 0 \in T
      BY <1>1, <2>0
    <2>2. ASSUME NEW i \in T PROVE i + 1 \in T
      <3>1. SUFFICES ASSUME i + 1 + 1 \in 1 .. n
                     PROVE  h[i + 1 + 1] \in Seq(S) /\ h[i + 1 + 1] = g[i + 1 + 1]
        OBVIOUS
      <3>2. i + 1 \in 1 .. n /\ i \in Nat /\ i + 1 + 1 # 1 /\ i + 1 + 1 - 1 = i + 1
        BY <3>1, <1>1
      <3>3. h[i + 1] \in Seq(S) /\ h[i + 1] = g[i + 1]
        BY <3>2
      <3>4. /\ h[i + 1 + 1] = h[i + 1] \o s[i + 1 + 1]
            /\ g[i + 1 + 1] = g[i + 1] \o s[i + 1 + 1]
        <4> DEFINE j == i + 1 + 1
        <4>1. /\ h[j] = IF j = 1 THEN s[j] ELSE h[j - 1] \o s[j]
              /\ g[j] = IF j = 1 THEN s[j] ELSE g[j - 1] \o s[j]
          BY <3>1, <2>0
        <4>2. j # 1 /\ j - 1 = i + 1
          BY <3>2
        <4>3. h[j] = h[i + 1] \o s[j] /\ g[j] = g[i + 1] \o s[j]
          BY <4>1, <4>2
        <4>4. QED BY <4>3
      <3>5. s[i + 1 + 1] \in Seq(S)
        BY <3>1, <1>1
      <3>6. QED BY <3>3, <3>4, <3>5, ConcatProperties
    <2>3. T = Nat
      <3> HIDE DEF T
      <3>1. T \in SUBSET Nat
        BY DEF T
      <3>2. QED BY <2>1, <2>2, <3>1, NatInducts
    <2>4. ASSUME NEW i \in 1 .. n PROVE h[i] \in Seq(S) /\ h[i] = g[i]
      <3>1. i - 1 \in Nat /\ i - 1 + 1 = i
        BY <1>1
      <3>2. i - 1 \in T
        BY <2>3, <3>1
      <3>3. QED BY <3>1, <3>2
    <2>5. QED BY <2>4
  <1>3. \A i \in 1 .. n : g[i] \in Seq(S)
    BY <1>2
  <1>4. g \in [1 .. n -> Seq(S)]
    BY <1>3 DEF Flattens
  <1>5. ASSUME s # <<>> PROVE FlattenSeq(s) = g[n]
    <2> DEFINE c == CHOOSE f : f = [i \in 1 .. Len(s) |-> IF i = 1 THEN s[i] ELSE f[i - 1] \o s[i]]
    <2>1. n \in 1 .. n
      BY <1>1, <1>5
    <2>2. FlattenSeq(s) = c[n]
      BY <2>1, <1>1, <1>5 DEF FlattenSeq
    <2>3. \E f : f = [i \in 1 .. Len(s) |-> IF i = 1 THEN s[i] ELSE f[i - 1] \o s[i]]
      <3>1. g = [i \in 1 .. Len(s) |-> IF i = 1 THEN s[i] ELSE g[i - 1] \o s[i]]
        BY DEF Flattens
      <3>2. QED BY <3>1
    <2>4. c = [i \in 1 .. Len(s) |-> IF i = 1 THEN s[i] ELSE c[i - 1] \o s[i]]
      BY <2>3
    <2> HIDE DEF c
    <2>5. Flattens(c, s)
      BY <2>4 DEF Flattens
    <2>6. QED BY <1>2, <2>1, <2>2, <2>5
  <1>6. QED BY <1>4, <1>5

(* FlattenSeq, one member after the other.                                 *)
LEMMA FlattenFacts ==
  ASSUME NEW S
  PROVE  /\ FlattenSeq(<<>>) = <<>>
         /\ \A s \in Seq(Seq(S)) : FlattenSeq(s) \in Seq(S)
         /\ \A s \in Seq(Seq(S)), x \in Seq(S) : FlattenSeq(Append(s, x)) = FlattenSeq(s) \o x
  <1>1. FlattenSeq(<<>>) = <<>>
    BY DEF FlattenSeq
  <1>2. ASSUME NEW s \in Seq(Seq(S)) PROVE FlattenSeq(s) \in Seq(S)
    <2>1. CASE s = <<>>
      <3>1. <<>> \in Seq(S)
        OBVIOUS
      <3>2. QED BY <2>1, <1>1, <3>1
    <2>2. CASE s # <<>>
      <3>1. PICK g \in [1 .. Len(s) -> Seq(S)] : Flattens(g, s)
        BY FlattenExists
      <3>2. FlattenSeq(s) = g[Len(s)] /\ Len(s) \in 1 .. Len(s)
        BY <2>2, <3>1, FlattenUnique
      <3>3. QED BY <3>2
    <2>3. QED BY <2>1, <2>2
  <1>3. ASSUME NEW s \in Seq(Seq(S)), NEW x \in Seq(S)
        PROVE  FlattenSeq(Append(s, x)) = FlattenSeq(s) \o x
    <2> DEFINE a == Append(s, x)
               n == Len(s)
    <2>1. /\ n \in Nat /\ a \in Seq(Seq(S)) /\ Len(a) = n + 1 /\ a # <<>> /\ a[n + 1] = x
          /\ \A i \in 1 .. n : a[i] = s[i]
      <3>1. n \in Nat /\ a \in Seq(Seq(S)) /\ Len(a) = n + 1
        OBVIOUS
      <3>2. a[n + 1] = x /\ \A i \in 1 .. n : a[i] = s[i]
        OBVIOUS
      <3> HIDE DEF a
      <3>3. a # <<>>
        BY <3>1
      <3>4. QED BY <3>1, <3>2, <3>3
    <2> HIDE DEF a
    <2>2. PICK h \in [1 .. Len(a) -> Seq(S)] : Flattens(h, a)
      BY <2>1, FlattenExists
    <2>3. \A i \in 1 .. n + 1 : h[i] = IF i = 1 THEN a[i] ELSE h[i - 1] \o a[i]
      BY <2>1, <2>2 DEF Flattens
    <2>4. FlattenSeq(a) = h[n + 1]
      BY <2>1, <2>2, FlattenUnique
    <2>5. CASE s = <<>>
      <3>1. n = 0 /\ h[1] = a[1] /\ a[1] = x
        BY <2>1, <2>3, <2>5
      <3>2. FlattenSeq(s) = <<>>
        BY <2>5, <1>1
      <3>3. <<>> \o x = x
        OBVIOUS
      <3>4. FlattenSeq(a) = x
        BY <2>4, <3>1
      <3>5. QED BY <3>2, <3>3, <3>4 DEF a
    <2>6. CASE s # <<>>
      <3> DEFINE g == [i \in 1 .. n |-> h[i]]
      <3>0. n # 0 /\ n \in 1 .. n /\ n + 1 \in 1 .. n + 1 /\ n + 1 # 1 /\ n + 1 - 1 = n
        BY <2>1, <2>6
      <3>1. \A i \in 1 .. n : g[i] = IF i = 1 THEN s[i] ELSE g[i - 1] \o s[i]
        <4> SUFFICES ASSUME NEW i \in 1 .. n
                     PROVE  g[i] = IF i = 1 THEN s[i] ELSE g[i - 1] \o s[i]
          OBVIOUS
        <4>1. i \in 1 .. n + 1 /\ (i # 1 => i - 1 \in 1 .. n)
          BY <2>1
        <4>2. g[i] = h[i] /\ (i # 1 => g[i - 1] = h[i - 1])
          BY <4>1
        <4>3. h[i] = IF i = 1 THEN s[i] ELSE h[i - 1] \o s[i]
          BY <4>1, <2>1, <2>3
        <4>4. QED BY <4>2, <4>3
      <3>2. Flattens(g, s)
        <4>1. g = [i \in 1 .. n |-> g[i]]
          OBVIOUS
        <4> HIDE DEF g
        <4>2. g = [i \in 1 .. n |-> IF i = 1 THEN s[i] ELSE g[i - 1] \o s[i]]
          BY <3>1, <4>1, Zenon
        <4>3. QED BY <4>2 DEF Flattens
      <3>3. FlattenSeq(s) = g[n] /\ g[n] = h[n]
        BY <2>6, <3>0, <3>2, FlattenUnique
      <3>4. h[n + 1] = h[n] \o x
        <4>1. PICK m \in 1 .. n + 1 : m = n + 1
          BY <3>0
        <4>2. h[m] = IF m = 1 THEN a[m] ELSE h[m - 1] \o a[m]
          BY <2>3
        <4>3. QED BY <4>1, <4>2, <2>1, <3>0
      <3>5. QED BY <2>4, <3>3, <3>4 DEF a
    <2>7. QED BY <2>5, <2>6
  <1>4. QED BY <1>1, <1>2, <1>3

(* Concatenation with something appended, ...                              *)
LEMMA ConcatAppend ==
  ASSUME NEW S, NEW s \in Seq(S), NEW t \in Seq(S), NEW x \in S
  PROVE  s \o Append(t, x) = Append(s \o t, x)
  OBVIOUS

(* ... its head and its tail, ...                                          *)
LEMMA EndsOfConcat ==
  ASSUME NEW S, NEW s \in Seq(S), NEW t \in Seq(S), s # <<>>
  PROVE  Head(s \o t) = Head(s) /\ Tail(s \o t) = Tail(s) \o t
  OBVIOUS

(* ... and with a third sequence, for all at once.                         *)
LEMMA Associates ==
  ASSUME NEW S
  PROVE  \A a, b, c \in Seq(S) : (a \o b) \o c = a \o (b \o c)
  OBVIOUS

(* FlattenSeq distributes over concatenation ...                           *)
LEMMA FlattenConcat ==
  ASSUME NEW S, NEW s \in Seq(Seq(S)), NEW t \in Seq(Seq(S))
  PROVE  FlattenSeq(s \o t) = FlattenSeq(s) \o FlattenSeq(t)
  <1> DEFINE P == {r \in Seq(Seq(S)) : FlattenSeq(s \o r) = FlattenSeq(s) \o FlattenSeq(r)}
  <1>1. <<>> \in P
    <2>1. s \o <<>> = s /\ <<>> \in Seq(Seq(S))
      OBVIOUS
    <2>2. FlattenSeq(s) \o <<>> = FlattenSeq(s)
      BY FlattenFacts
    <2>3. QED BY <2>1, <2>2, FlattenFacts
  <1>2. ASSUME NEW r \in P, NEW x \in Seq(S) PROVE Append(r, x) \in P
    <2>1. r \in Seq(Seq(S)) /\ FlattenSeq(s \o r) = FlattenSeq(s) \o FlattenSeq(r)
      OBVIOUS
    <2>2. s \o r \in Seq(Seq(S)) /\ Append(r, x) \in Seq(Seq(S))
      BY <2>1
    <2>3. s \o Append(r, x) = Append(s \o r, x)
      BY <2>1, ConcatAppend, SMTT(30)
    <2>4. FlattenSeq(s \o Append(r, x)) = (FlattenSeq(s) \o FlattenSeq(r)) \o x
      BY <2>1, <2>2, <2>3, FlattenFacts
    <2>5. FlattenSeq(s) \in Seq(S) /\ FlattenSeq(r) \in Seq(S)
      BY <2>1, FlattenFacts
    <2>6. (FlattenSeq(s) \o FlattenSeq(r)) \o x = FlattenSeq(s) \o (FlattenSeq(r) \o x)
      <3>1. x \in Seq(S)
        OBVIOUS
      <3> HIDE DEF P
      <3>2. \A a, b, c \in Seq(S) : (a \o b) \o c = a \o (b \o c)
        BY Associates, SMTT(30)
      <3>3. QED BY <2>5, <3>1, <3>2, Zenon
    <2>7. FlattenSeq(Append(r, x)) = FlattenSeq(r) \o x
      BY <2>1, FlattenFacts
    <2>8. QED BY <2>2, <2>4, <2>6, <2>7
  <1>3. P = Seq(Seq(S))
    <2> HIDE DEF P
    <2>1. P \in SUBSET Seq(Seq(S))
      BY DEF P
    <2>2. QED BY <1>1, <1>2, <2>1, SeqInducts
  <1>4. QED BY <1>3

(* ... and takes the first member first.                                   *)
LEMMA FlattenHead ==
  ASSUME NEW S, NEW s \in Seq(Seq(S)), s # <<>>
  PROVE  FlattenSeq(s) = Head(s) \o FlattenSeq(Tail(s))
  <1>1. /\ Head(s) \in Seq(S) /\ Tail(s) \in Seq(Seq(S)) /\ <<Head(s)>> \in Seq(Seq(S))
        /\ s = <<Head(s)>> \o Tail(s)
    OBVIOUS
  <1>2. FlattenSeq(<<Head(s)>>) = Head(s)
    <2>1. <<Head(s)>> = Append(<<>>, Head(s)) /\ <<>> \o Head(s) = Head(s) /\ <<>> \in Seq(Seq(S))
      BY <1>1
    <2>2. QED BY <1>1, <2>1, FlattenFacts
  <1>3. QED BY <1>1, <1>2, FlattenConcat

(* z is x followed by y.                                                   *)
Cat(x, y, z) ==
  /\ z = x \o y /\ Len(z) = Len(x) + Len(y)
  /\ x # <<>> => z # <<>> /\ z[1] = x[1]

(* Empty members leave nothing.                                            *)
LEMMA FlattenEmpties ==
  ASSUME NEW S, NEW s \in Seq(Seq(S)), \A i \in 1 .. Len(s) : s[i] = <<>>
  PROVE  FlattenSeq(s) = <<>>
  <1> DEFINE P == {r \in Seq(Seq(S)) : (\A i \in 1 .. Len(r) : r[i] = <<>>) => FlattenSeq(r) = <<>>}
  <1>1. <<>> \in P
    BY FlattenFacts
  <1>2. ASSUME NEW r \in P, NEW x \in Seq(S) PROVE Append(r, x) \in P
    <2>0. r \in Seq(Seq(S)) /\ Append(r, x) \in Seq(Seq(S)) /\ Len(r) \in Nat
      OBVIOUS
    <2>1. SUFFICES ASSUME \A i \in 1 .. Len(r) + 1 : Append(r, x)[i] = <<>>
                   PROVE  FlattenSeq(Append(r, x)) = <<>>
      <3>1. Len(Append(r, x)) = Len(r) + 1
        OBVIOUS
      <3>2. QED BY <2>0, <3>1
    <2>2. x = <<>> /\ \A i \in 1 .. Len(r) : r[i] = <<>>
      <3>1. Len(r) + 1 \in 1 .. Len(r) + 1 /\ Append(r, x)[Len(r) + 1] = x
        BY <2>0
      <3>2. \A i \in 1 .. Len(r) : i \in 1 .. Len(r) + 1 /\ Append(r, x)[i] = r[i]
        OBVIOUS
      <3>3. QED BY <2>0, <2>1, <3>1, <3>2
    <2>3. FlattenSeq(r) = <<>>
      BY <2>2
    <2>4. FlattenSeq(Append(r, x)) = <<>> \o <<>>
      BY <2>0, <2>2, <2>3, FlattenFacts
    <2>5. QED BY <2>4
  <1>3. P = Seq(Seq(S))
    <2> HIDE DEF P
    <2>1. P \in SUBSET Seq(Seq(S))
      BY DEF P
    <2>2. QED BY <1>1, <1>2, <2>1, SeqInducts
  <1>4. QED BY <1>3

(* Sequences that agree and are cut at the same place have equal parts.    *)
LEMMA SplitEqual ==
  ASSUME NEW S, NEW a \in Seq(S), NEW b \in Seq(S), NEW c \in Seq(S), NEW d \in Seq(S),
         a \o b = c \o d, Len(a) = Len(c)
  PROVE  a = c /\ b = d
  <1>1. /\ Len(a) \in Nat /\ Len(b) \in Nat /\ Len(d) \in Nat
        /\ Len(a \o b) = Len(a) + Len(b) /\ Len(c \o d) = Len(c) + Len(d)
    OBVIOUS
  <1>2. /\ \A i \in 1 .. Len(a) : (a \o b)[i] = a[i] /\ (c \o d)[i] = c[i]
        /\ \A i \in 1 .. Len(b) : (a \o b)[i + Len(a)] = b[i]
        /\ \A i \in 1 .. Len(d) : (c \o d)[i + Len(a)] = d[i]
    <2>1. \A u, v \in Seq(S) : /\ \A i \in 1 .. Len(u) : (u \o v)[i] = u[i]
                              /\ \A i \in 1 .. Len(v) : (u \o v)[i + Len(u)] = v[i]
      <3> TAKE u, v \in Seq(S)
      <3>1. Len(u) \in Nat /\ Len(v) \in Nat
        OBVIOUS
      <3>2. ASSUME NEW i \in 1 .. Len(v)  PROVE (u \o v)[i + Len(u)] = v[i]
        <4>1. i + Len(u) \in 1 .. Len(u) + Len(v) /\ ~ (i + Len(u) <= Len(u)) /\ i + Len(u) - Len(u) = i
          BY <3>1
        <4>2. QED BY <4>1
      <3>3. QED BY <3>2
    <2>2. /\ \A i \in 1 .. Len(a) : (a \o b)[i] = a[i]
          /\ \A i \in 1 .. Len(b) : (a \o b)[i + Len(a)] = b[i]
      BY <2>1, Zenon
    <2>3. /\ \A i \in 1 .. Len(c) : (c \o d)[i] = c[i]
          /\ \A i \in 1 .. Len(d) : (c \o d)[i + Len(c)] = d[i]
      BY <2>1, Zenon
    <2>4. QED BY <2>2, <2>3
  <1>3. Len(b) = Len(d)
    BY <1>1
  <1>4. /\ \A i \in 1 .. Len(a) : a[i] = c[i]
        /\ \A i \in 1 .. Len(b) : b[i] = d[i]
    BY <1>2, <1>3
  <1>5. QED BY <1>3, <1>4, SeqEqual

(* A sequence that agrees with one and then with another is both of them.  *)
LEMMA ConcatParts ==
  ASSUME NEW S, NEW a \in Seq(S), NEW b \in Seq(S), NEW c \in Seq(S),
         Len(c) = Len(a) + Len(b),
         \A k \in 1 .. Len(a) : c[k] = a[k],
         \A k \in 1 .. Len(b) : c[Len(a) + k] = b[k]
  PROVE  a \o b = c
  <1>1. Len(a) \in Nat /\ Len(b) \in Nat
    OBVIOUS
  <1>2. a \o b \in Seq(S) /\ Len(a \o b) = Len(a) + Len(b)
    OBVIOUS
  <1>3. ASSUME NEW k \in 1 .. Len(a) + Len(b)  PROVE (a \o b)[k] = c[k]
    <2>1. CASE k <= Len(a)
      <3>1. k \in 1 .. Len(a) /\ (a \o b)[k] = a[k]
        BY <1>1, <2>1
      <3>2. QED BY <3>1
    <2>2. CASE ~ (k <= Len(a))
      <3>1. k - Len(a) \in 1 .. Len(b) /\ Len(a) + (k - Len(a)) = k
        BY <1>1, <2>2
      <3>2. (a \o b)[k] = b[k - Len(a)]
        BY <1>1, <2>2
      <3>3. c[Len(a) + (k - Len(a))] = b[k - Len(a)]
        BY <3>1
      <3>4. QED BY <3>1, <3>2, <3>3
    <2>3. QED BY <2>1, <2>2
  <1>4. QED BY <1>2, <1>3, SeqEqual

(* c is s from i on, a and b are its parts up to j and from there. *)
CutUp(s, i, j, a, b, c) ==
  /\ a = SubSeq(s, i + 1, j) /\ b = SubSeq(s, j + 1, Len(s)) /\ c = SubSeq(s, i + 1, Len(s))
  /\ a = SubSeq(c, 1, Len(a)) /\ c = a \o b
  /\ Len(a) + i = j /\ Len(b) + j = Len(s)

(* A sequence can be cut in two at j, from i on, ...                       *)
LEMMA Cut ==
  ASSUME NEW S, NEW s \in Seq(S), NEW i \in 0 .. Len(s), NEW j \in i .. Len(s)
  PROVE  \E a, b, c \in Seq(S) : CutUp(s, i, j, a, b, c)
  <1>1. /\ Len(s) \in Nat /\ i \in Nat /\ j \in Nat /\ i <= j /\ j <= Len(s)
        /\ \A k \in 1 .. Len(s) : s[k] \in S
    BY ElementOfSeq
  <1>2. ASSUME NEW m \in 0 .. Len(s), NEW n \in m .. Len(s)
        PROVE  /\ SubSeq(s, m + 1, n) \in Seq(S) /\ Len(SubSeq(s, m + 1, n)) = n - m
               /\ \A k \in 1 .. n - m : SubSeq(s, m + 1, n)[k] = s[m + k]
    <2>1. m + 1 \in Int /\ n \in Int /\ \A k \in m + 1 .. n : s[k] \in S
      BY <1>1
    <2>2. /\ SubSeq(s, m + 1, n) \in Seq(S)
          /\ Len(SubSeq(s, m + 1, n)) = IF m + 1 <= n THEN n - (m + 1) + 1 ELSE 0
          /\ \A k \in 1 .. n - (m + 1) + 1 : SubSeq(s, m + 1, n)[k] = s[(m + 1) + k - 1]
      BY <2>1, SubSeqProperties
    <2>3. (IF m + 1 <= n THEN n - (m + 1) + 1 ELSE 0) = n - m /\ n - (m + 1) + 1 = n - m
      BY <1>1
    <2>4. \A k \in 1 .. n - m : (m + 1) + k - 1 = m + k
      BY <1>1
    <2>5. QED BY <2>2, <2>3, <2>4
  <1>3. PICK a \in Seq(S) : /\ a = SubSeq(s, i + 1, j) /\ Len(a) = j - i
                            /\ \A k \in 1 .. j - i : a[k] = s[i + k]
    <2>1. j \in i .. Len(s) /\ i \in 0 .. Len(s)
      OBVIOUS
    <2>2. QED BY <1>2, <2>1
  <1>4. PICK b \in Seq(S) : /\ b = SubSeq(s, j + 1, Len(s)) /\ Len(b) = Len(s) - j
                            /\ \A k \in 1 .. Len(s) - j : b[k] = s[j + k]
    <2>1. Len(s) \in j .. Len(s) /\ j \in 0 .. Len(s)
      BY <1>1
    <2>2. QED BY <1>2, <2>1
  <1>5. PICK c \in Seq(S) : /\ c = SubSeq(s, i + 1, Len(s)) /\ Len(c) = Len(s) - i
                            /\ \A k \in 1 .. Len(s) - i : c[k] = s[i + k]
    <2>1. Len(s) \in i .. Len(s) /\ i \in 0 .. Len(s)
      BY <1>1
    <2>2. QED BY <1>2, <2>1
  <1>6. /\ \A k \in 1 .. Len(a) : k \in 1 .. Len(s) - i /\ c[k] = a[k]
        /\ \A k \in 1 .. Len(b) : c[Len(a) + k] = b[k]
    <2>1. ASSUME NEW k \in 1 .. Len(a)  PROVE k \in 1 .. Len(s) - i /\ c[k] = a[k]
      <3>1. k \in 1 .. j - i /\ k \in 1 .. Len(s) - i
        BY <1>1, <1>3
      <3>2. QED BY <1>3, <1>5, <3>1
    <2>2. ASSUME NEW k \in 1 .. Len(b)  PROVE c[Len(a) + k] = b[k]
      <3>1. k \in 1 .. Len(s) - j /\ Len(a) + k \in 1 .. Len(s) - i /\ i + (Len(a) + k) = j + k
        BY <1>1, <1>3, <1>4
      <3>2. c[Len(a) + k] = s[i + (Len(a) + k)] /\ b[k] = s[j + k]
        BY <1>4, <1>5, <3>1
      <3>3. QED BY <3>1, <3>2
    <2>3. QED BY <2>1, <2>2
  <1>7. c = a \o b
    <2>1. Len(a) = j - i /\ Len(b) = Len(s) - j /\ Len(c) = Len(s) - i
      BY <1>3, <1>4, <1>5, Zenon
    <2>2. Len(c) = Len(a) + Len(b)
      BY <1>1, <2>1
    <2>3. \A k \in 1 .. Len(a) : c[k] = a[k]
      BY <1>6, Zenon
    <2>4. \A k \in 1 .. Len(b) : c[Len(a) + k] = b[k]
      BY <1>6, Zenon
    <2>5. a \o b = c
      BY <2>2, <2>3, <2>4, ConcatParts, Zenon
    <2>6. QED BY <2>5
  <1>8. a = SubSeq(c, 1, j - i)
    <2>1. 1 \in Int /\ j - i \in Int /\ \A k \in 1 .. j - i : c[k] \in S
      <3>1. \A k \in 1 .. j - i : k \in 1 .. Len(c)
        BY <1>1, <1>5
      <3>2. QED BY <1>1, <3>1, ElementOfSeq
    <2>2. /\ SubSeq(c, 1, j - i) \in Seq(S)
          /\ Len(SubSeq(c, 1, j - i)) = IF 1 <= j - i THEN j - i - 1 + 1 ELSE 0
          /\ \A k \in 1 .. j - i - 1 + 1 : SubSeq(c, 1, j - i)[k] = c[1 + k - 1]
      BY <2>1, SubSeqProperties
    <2>3. PICK e \in Seq(S) : e = SubSeq(c, 1, j - i)
      BY <2>2
    <2>4. Len(e) = Len(a) /\ \A k \in 1 .. Len(a) : e[k] = c[k]
      BY <1>1, <1>3, <2>2, <2>3
    <2>5. \A k \in 1 .. Len(a) : e[k] = a[k]
      BY <1>6, <2>4
    <2>6. e = a
      BY <2>4, <2>5, SeqEqual
    <2>7. QED BY <2>3, <2>6
  <1>9. /\ a = SubSeq(s, i + 1, j) /\ b = SubSeq(s, j + 1, Len(s)) /\ c = SubSeq(s, i + 1, Len(s))
        /\ Len(a) = j - i /\ Len(b) = Len(s) - j
    BY <1>3, <1>4, <1>5, Zenon
  <1>10. Len(a) + i = j /\ Len(b) + j = Len(s) /\ a = SubSeq(c, 1, Len(a))
    BY <1>1, <1>8, <1>9
  <1>11. CutUp(s, i, j, a, b, c)
    BY <1>7, <1>9, <1>10, Zenon DEF CutUp
  <1>12. QED BY <1>11

(* ... and from the start.                                                 *)
LEMMA CutAt ==
  ASSUME NEW S, NEW s \in Seq(S), NEW j \in 0 .. Len(s)
  PROVE  \E a, b \in Seq(S) : CutUp(s, 0, j, a, b, s)
  <1>1. Len(s) \in Nat /\ j \in Nat
    OBVIOUS
  <1>2. PICK i \in 0 .. Len(s) : i = 0
    BY <1>1
  <1>3. j \in i .. Len(s) /\ i + 1 = 1
    BY <1>1, <1>2
  <1>4. PICK a, b, c \in Seq(S) : CutUp(s, i, j, a, b, c)
    BY <1>3, Cut
  <1>5. SubSeq(s, 1, Len(s)) = s
    BY SubSeqFull
  <1>6. c = s
    BY <1>3, <1>4, <1>5, Zenon DEF CutUp
  <1>7. QED BY <1>2, <1>4, <1>6

(* What a concatenation leaves when its first part is cut off.             *)
LEMMA CutFirst ==
  ASSUME NEW S, NEW a \in Seq(S), NEW b \in Seq(S), NEW s \in Seq(S), s = a \o b
  PROVE  SubSeq(s, Len(a) + 1, Len(s)) = b
  <1>1. Len(s) = Len(a) + Len(b) /\ Len(a) \in Nat /\ Len(b) \in Nat
    OBVIOUS
  <1>2. PICK j \in 0 .. Len(s) : j = Len(a)
    BY <1>1
  <1>3. PICK r, t \in Seq(S) : CutUp(s, 0, j, r, t, s)
    BY CutAt
  <1>4. t = SubSeq(s, j + 1, Len(s)) /\ s = r \o t /\ Len(r) + 0 = j
    BY <1>3, Zenon DEF CutUp
  <1>5. r \o t = a \o b /\ Len(r) = Len(a)
    <2>1. Len(r) \in Nat
      OBVIOUS
    <2>2. Len(r) = Len(a)
      BY <1>2, <1>4, <2>1
    <2>3. QED BY <1>4, <2>2
  <1>6. t = b
    BY <1>5, SplitEqual
  <1>7. QED BY <1>2, <1>4, <1>6

-----------------------------------------------------------------------------
(* A sequence without elements is <<>>.                                    *)
LEMMA Empties ==
  ASSUME NEW S
  PROVE  \A x \in Seq(S) : Len(x) \in Nat /\ (x = <<>> <=> Len(x) = 0)
  OBVIOUS

(* Any two sequences can be concatenated, ...                              *)
LEMMA Cats ==
  ASSUME NEW S
  PROVE  \A x, y \in Seq(S) : \E z \in Seq(S) : Cat(x, y, z)
  <1> TAKE x, y \in Seq(S)
  <1>1. x \o y \in Seq(S) /\ Len(x \o y) = Len(x) + Len(y)
    BY ConcatProperties
  <1>2. x # <<>> => x \o y # <<>> /\ (x \o y)[1] = x[1]
    OBVIOUS
  <1>3. Cat(x, y, x \o y)
    BY <1>1, <1>2, Zenon DEF Cat
  <1>4. QED BY <1>1, <1>3, Zenon

(* ... in either order.                                                    *)
LEMMA CatsAssociate ==
  ASSUME NEW S
  PROVE  \A x, y, z \in Seq(S) : \A xy, yz, w :
           Cat(x, y, xy) /\ Cat(y, z, yz) /\ Cat(xy, z, w) => Cat(x, yz, w)
  <1> TAKE x, y, z \in Seq(S)
  <1>1. (x \o y) \o z = x \o (y \o z)
    OBVIOUS
  <1>2. y \o z \in Seq(S) /\ Len(x \o (y \o z)) = Len(x) + Len(y \o z)
    OBVIOUS
  <1>3. x # <<>> => x \o (y \o z) # <<>> /\ (x \o (y \o z))[1] = x[1]
    <2>1. \A t \in Seq(S) : x # <<>> => x \o t # <<>> /\ (x \o t)[1] = x[1]
      OBVIOUS
    <2>2. QED BY <1>2, <2>1, Zenon
  <1>4. ASSUME NEW xy, NEW yz, NEW w, Cat(x, y, xy), Cat(y, z, yz), Cat(xy, z, w)
        PROVE  Cat(x, yz, w)
    <2>1. xy = x \o y /\ yz = y \o z /\ w = xy \o z
      BY <1>4, Zenon DEF Cat
    <2>2. w = x \o (y \o z)
      BY <1>1, <2>1, Zenon
    <2>3. Cat(x, y \o z, x \o (y \o z))
      BY <1>2, <1>3, Zenon DEF Cat
    <2>4. QED BY <2>1, <2>2, <2>3, Zenon
  <1>5. QED BY <1>4, Zenon

(* The same of three given sequences.                                      *)
LEMMA CatRight ==
  ASSUME NEW S, NEW x \in Seq(S), NEW y \in Seq(S), NEW z \in Seq(S), NEW xy, NEW yz, NEW w,
         Cat(x, y, xy), Cat(y, z, yz), Cat(xy, z, w)
  PROVE  Cat(x, yz, w)
  BY CatsAssociate, Zenon

(* What is equal to a concatenation is one.                                *)
LEMMA CatIs ==
  ASSUME NEW S, NEW x \in Seq(S), NEW y \in Seq(S), NEW z, z = x \o y
  PROVE  z \in Seq(S) /\ Cat(x, y, z)
  <1>1. PICK w \in Seq(S) : Cat(x, y, w)
    BY Cats
  <1>2. w = z
    BY <1>1, Zenon DEF Cat
  <1>3. QED BY <1>1, <1>2

(* Equal concatenations whose first parts are equally long have equal      *)
(* parts.                                                                  *)
LEMMA CatSplits ==
  ASSUME NEW S, NEW a \in Seq(S), NEW b \in Seq(S), NEW c \in Seq(S), NEW d \in Seq(S),
         NEW z, Cat(a, b, z), Cat(c, d, z), Len(a) = Len(c)
  PROVE  a = c /\ b = d
  <1>1. a \o b = c \o d
    BY DEF Cat
  <1>2. QED BY <1>1, SplitEqual

(* x and t are a and b with the head of b moved to the end of a.           *)
HeadMoved(a, b, x, t) ==
  /\ x = Append(a, Head(b)) /\ t = Tail(b)
  /\ x \o t = a \o b
  /\ Len(x) = Len(a) + 1 /\ Len(b) = Len(t) + 1

(* It can be moved.                                                        *)
LEMMA Moves ==
  ASSUME NEW S, NEW a \in Seq(S), NEW b \in Seq(S), b # <<>>
  PROVE  \E x, t \in Seq(S) : HeadMoved(a, b, x, t)
  <1>1. PICK h \in S, t \in Seq(S) : h = Head(b) /\ t = Tail(b)
    <2>1. Head(b) \in S /\ Tail(b) \in Seq(S)
      OBVIOUS
    <2>2. QED BY <2>1
  <1>2. b = <<h>> \o t /\ Len(b) = Len(t) + 1
    BY <1>1
  <1>3. PICK e \in Seq(S) : e = <<h>>
    <2>1. <<h>> \in Seq(S)
      OBVIOUS
    <2>2. QED BY <2>1
  <1>4. PICK x \in Seq(S) : Cat(a, e, x)
    BY Cats
  <1>5. x = Append(a, h) /\ Len(x) = Len(a) + 1
    <2>1. a \o <<h>> = Append(a, h) /\ Len(<<h>>) = 1
      OBVIOUS
    <2>2. QED BY <1>3, <1>4, <2>1, Zenon DEF Cat
  <1>6. Cat(e, t, b)
    BY <1>2, <1>3, CatIs
  <1>7. PICK z \in Seq(S) : Cat(x, t, z)
    BY Cats
  <1>8. Cat(a, b, z)
    BY <1>4, <1>6, <1>7, CatsAssociate, Zenon
  <1>9. x \o t = a \o b
    BY <1>7, <1>8, Zenon DEF Cat
  <1>10. HeadMoved(a, b, x, t)
    BY <1>1, <1>2, <1>5, <1>9, Zenon DEF HeadMoved
  <1>11. QED BY <1>10

(* h, which is a and m, and t are the first three and the last two of five *)
(* sequences, r is all of them.                                            *)
FiveParts(a, b, c, d, e, m, h, t, r) ==
  /\ Cat(b, c, m) /\ Cat(a, m, h) /\ Cat(d, e, t) /\ Cat(h, t, r)
  /\ FlattenSeq(<<a, b, c, d, e>>) = r

(* FlattenSeq of five, with the first three taken before the last two.     *)
LEMMA FiveFacts ==
  ASSUME NEW S, NEW a \in Seq(S), NEW b \in Seq(S), NEW c \in Seq(S), NEW d \in Seq(S), NEW e \in Seq(S)
  PROVE  \E m, h, t, r \in Seq(S) : FiveParts(a, b, c, d, e, m, h, t, r)
  <1>0. \A x, y \in Seq(S) : \E z \in Seq(S) : Cat(x, y, z)
    BY Cats
  <1>1. PICK t \in Seq(S) : Cat(d, e, t)
    BY <1>0, Zenon
  <1>2. PICK m \in Seq(S) : Cat(b, c, m)
    BY <1>0, Zenon
  <1>3. PICK h \in Seq(S) : Cat(a, m, h)
    BY <1>0, Zenon
  <1>4. PICK ct \in Seq(S) : Cat(c, t, ct)
    BY <1>0, Zenon
  <1>5. PICK mt \in Seq(S) : Cat(m, t, mt)
    BY <1>0, Zenon
  <1>6. PICK r \in Seq(S) : Cat(h, t, r)
    BY <1>0, Zenon
  <1>7. \A x, y, z \in Seq(S) : \A xy, yz, w :
           Cat(x, y, xy) /\ Cat(y, z, yz) /\ Cat(xy, z, w) => Cat(x, yz, w)
    BY CatsAssociate
  <1>8. FlattenSeq(<<a, b, c, d, e>>) = a \o (b \o ct)
    <2>1. \A s \in Seq(Seq(S)) : s # <<>> => FlattenSeq(s) = Head(s) \o FlattenSeq(Tail(s))
      BY FlattenHead
    <2>2. FlattenSeq(<<e>>) = e
      <3>1. <<e>> = Append(<<>>, e) /\ <<>> \o e = e /\ <<>> \in Seq(Seq(S))
        OBVIOUS
      <3>2. QED BY <3>1, FlattenFacts
    <2>3. /\ <<d, e>> \in Seq(Seq(S)) /\ <<d, e>> # <<>> /\ Head(<<d, e>>) = d /\ Tail(<<d, e>>) = <<e>>
          /\ <<e>> \in Seq(Seq(S))
      OBVIOUS
    <2>4. FlattenSeq(<<d, e>>) = d \o e
      BY <2>1, <2>2, <2>3, Zenon
    <2>5. /\ <<c, d, e>> \in Seq(Seq(S)) /\ <<c, d, e>> # <<>> /\ Head(<<c, d, e>>) = c
          /\ Tail(<<c, d, e>>) = <<d, e>>
      OBVIOUS
    <2>6. FlattenSeq(<<c, d, e>>) = c \o (d \o e)
      BY <2>1, <2>3, <2>4, <2>5, Zenon
    <2>7. /\ <<b, c, d, e>> \in Seq(Seq(S)) /\ <<b, c, d, e>> # <<>> /\ Head(<<b, c, d, e>>) = b
          /\ Tail(<<b, c, d, e>>) = <<c, d, e>>
      OBVIOUS
    <2>8. FlattenSeq(<<b, c, d, e>>) = b \o (c \o (d \o e))
      BY <2>1, <2>5, <2>6, <2>7, Zenon
    <2>9. /\ <<a, b, c, d, e>> \in Seq(Seq(S)) /\ <<a, b, c, d, e>> # <<>>
          /\ Head(<<a, b, c, d, e>>) = a /\ Tail(<<a, b, c, d, e>>) = <<b, c, d, e>>
      OBVIOUS
    <2>10. FlattenSeq(<<a, b, c, d, e>>) = a \o (b \o (c \o (d \o e)))
      BY <2>1, <2>7, <2>8, <2>9, Zenon
    <2>11. t = d \o e /\ ct = c \o t
      BY <1>1, <1>4 DEF Cat
    <2>12. QED BY <2>10, <2>11, Zenon
  <1>9. Cat(b, ct, mt)
    BY <1>2, <1>4, <1>5, <1>7, Zenon
  <1>10. Cat(a, mt, r)
    BY <1>3, <1>5, <1>6, <1>7, Zenon
  <1>11. mt = b \o ct /\ r = a \o mt /\ r = h \o t
    BY <1>9, <1>10, <1>6 DEF Cat
  <1>12. FlattenSeq(<<a, b, c, d, e>>) = r
    BY <1>8, <1>11, Zenon
  <1>13. FiveParts(a, b, c, d, e, m, h, t, r)
    BY <1>1, <1>2, <1>3, <1>6, <1>12, Zenon DEF FiveParts
  <1>14. QED BY <1>13

-----------------------------------------------------------------------------
(* Joined(f, s): every member of s replaced by the sequence f gives for it *)

Joined(f, s) == FlattenSeq([j \in DOMAIN s |-> f[s[j]]])

(* Joined, of a sequence, of one member and of a concatenation.            *)
LEMMA JoinedFacts ==
  ASSUME NEW C, NEW S, NEW f \in [C -> Seq(S)]
  PROVE  /\ Joined(f, <<>>) = <<>>
         /\ \A s \in Seq(C) : Joined(f, s) \in Seq(S)
         /\ \A x \in C : Joined(f, <<x>>) = f[x]
         /\ \A s, t \in Seq(C) : Joined(f, s \o t) = Joined(f, s) \o Joined(f, t)
  <1>1. ASSUME NEW s \in Seq(C)
        PROVE  /\ [j \in DOMAIN s |-> f[s[j]]] \in Seq(Seq(S))
               /\ Len([j \in DOMAIN s |-> f[s[j]]]) = Len(s)
    <2>1. DOMAIN s = 1 .. Len(s) /\ Len(s) \in Nat /\ \A j \in 1 .. Len(s) : f[s[j]] \in Seq(S)
      BY ElementOfSeq
    <2>2. QED BY <2>1, IsASeq
  <1>2. Joined(f, <<>>) = <<>>
    <2>1. [j \in DOMAIN <<>> |-> f[<<>>[j]]] = <<>>
      <3>1. <<>> \in Seq(C) /\ Len(<<>>) = 0
        OBVIOUS
      <3>2. QED BY <1>1, <3>1, EmptySeq
    <2>2. QED BY <2>1, FlattenFacts DEF Joined
  <1>3. \A s \in Seq(C) : Joined(f, s) \in Seq(S)
    BY <1>1, FlattenFacts DEF Joined
  <1>4. ASSUME NEW x \in C  PROVE Joined(f, <<x>>) = f[x]
    <2>1. f[x] \in Seq(S) /\ <<x>> \in Seq(C)
      OBVIOUS
    <2>2. [j \in DOMAIN <<x>> |-> f[<<x>>[j]]] = Append(<<>>, f[x])
      <3> DEFINE m == [j \in DOMAIN <<x>> |-> f[<<x>>[j]]]
                 y == Append(<<>>, f[x])
      <3>1. m \in Seq(Seq(S)) /\ Len(m) = 1
        BY <1>1, <2>1
      <3>2. y \in Seq(Seq(S)) /\ Len(y) = 1 /\ y[1] = f[x]
        BY <2>1
      <3>3. m[1] = f[x]
        OBVIOUS
      <3> HIDE DEF m, y
      <3>4. QED BY <3>1, <3>2, <3>3, SeqEqual
    <2>3. <<>> \in Seq(Seq(S)) /\ <<>> \o f[x] = f[x]
      BY <2>1
    <2>4. QED BY <2>1, <2>2, <2>3, FlattenFacts DEF Joined
  <1>5. ASSUME NEW s \in Seq(C), NEW t \in Seq(C)
        PROVE  Joined(f, s \o t) = Joined(f, s) \o Joined(f, t)
    <2> DEFINE m == [j \in DOMAIN s |-> f[s[j]]]
               n == [j \in DOMAIN t |-> f[t[j]]]
               w == [j \in DOMAIN (s \o t) |-> f[(s \o t)[j]]]
    <2>1. s \o t \in Seq(C) /\ Len(s \o t) = Len(s) + Len(t) /\ Len(s) \in Nat /\ Len(t) \in Nat
      OBVIOUS
    <2>2. /\ m \in Seq(Seq(S)) /\ n \in Seq(Seq(S)) /\ w \in Seq(Seq(S))
          /\ Len(m) = Len(s) /\ Len(n) = Len(t) /\ Len(w) = Len(s) + Len(t)
      BY <1>1, <2>1
    <2>3. ASSUME NEW i \in 1 .. Len(s) + Len(t)  PROVE w[i] = (m \o n)[i]
      <3>1. w[i] = f[(s \o t)[i]]
        BY <2>1
      <3>2. CASE i <= Len(s)
        <4>1. i \in 1 .. Len(s) /\ (s \o t)[i] = s[i]
          BY <2>1, <3>2
        <4>2. m[i] = f[s[i]]
          BY <4>1
        <4> HIDE DEF m, n, w
        <4>3. (m \o n)[i] = m[i]
          BY <2>2, <4>1
        <4>4. QED BY <3>1, <4>1, <4>2, <4>3
      <3>3. CASE ~ (i <= Len(s))
        <4>1. i - Len(s) \in 1 .. Len(t) /\ (s \o t)[i] = t[i - Len(s)]
          BY <2>1, <3>3
        <4>2. n[i - Len(s)] = f[t[i - Len(s)]]
          BY <4>1
        <4> HIDE DEF m, n, w
        <4>3. (m \o n)[i] = n[i - Len(s)]
          <5>1. i \in 1 .. Len(m) + Len(n) /\ ~ (i <= Len(m)) /\ i - Len(m) = i - Len(s)
            BY <2>2, <3>3
          <5>2. \A x, y \in Seq(Seq(S)) : \A k \in 1 .. Len(x) + Len(y) :
                  ~ (k <= Len(x)) => (x \o y)[k] = y[k - Len(x)]
            BY ConcatProperties
          <5>3. (m \o n)[i] = n[i - Len(m)]
            BY <2>2, <5>1, <5>2, Zenon
          <5>4. QED BY <5>1, <5>3
        <4>4. QED BY <3>1, <4>1, <4>2, <4>3
      <3>4. QED BY <3>2, <3>3
    <2> HIDE DEF m, n, w
    <2>4. w = m \o n
      <3>1. m \o n \in Seq(Seq(S)) /\ Len(m \o n) = Len(s) + Len(t)
        <4>1. \A x, y \in Seq(Seq(S)) : x \o y \in Seq(Seq(S)) /\ Len(x \o y) = Len(x) + Len(y)
          BY ConcatProperties
        <4>2. QED BY <2>2, <4>1
      <3>2. QED BY <2>2, <2>3, <3>1, SeqEqual
    <2>5. FlattenSeq(w) = FlattenSeq(m) \o FlattenSeq(n)
      BY <2>2, <2>4, FlattenConcat
    <2>6. QED BY <2>5 DEF Joined, m, n, w
  <1>6. QED BY <1>2, <1>3, <1>4, <1>5

(* Joined takes the first member first and the last one last.              *)
LEMMA JoinedEnds ==
  ASSUME NEW C, NEW S, NEW f \in [C -> Seq(S)]
  PROVE  /\ \A s \in Seq(C), x \in C : Joined(f, Append(s, x)) = Joined(f, s) \o f[x]
         /\ \A s \in Seq(C) : s # <<>> => Joined(f, s) = f[Head(s)] \o Joined(f, Tail(s))
  <1>0. /\ Joined(f, <<>>) = <<>>
        /\ \A s \in Seq(C) : Joined(f, s) \in Seq(S)
        /\ \A x \in C : Joined(f, <<x>>) = f[x]
        /\ \A s, t \in Seq(C) : Joined(f, s \o t) = Joined(f, s) \o Joined(f, t)
    BY JoinedFacts
  <1>1. ASSUME NEW s \in Seq(C), NEW x \in C
        PROVE  Joined(f, Append(s, x)) = Joined(f, s) \o f[x]
    <2>1. Append(s, x) = s \o <<x>> /\ <<x>> \in Seq(C)
      OBVIOUS
    <2>2. Joined(f, s \o <<x>>) = Joined(f, s) \o Joined(f, <<x>>) /\ Joined(f, <<x>>) = f[x]
      BY <1>0, <2>1
    <2>3. QED BY <2>1, <2>2
  <1>2. ASSUME NEW s \in Seq(C), s # <<>>
        PROVE  Joined(f, s) = f[Head(s)] \o Joined(f, Tail(s))
    <2>1. /\ s = <<Head(s)>> \o Tail(s) /\ Head(s) \in C /\ Tail(s) \in Seq(C)
          /\ <<Head(s)>> \in Seq(C)
      BY <1>2
    <2>2. Joined(f, <<Head(s)>> \o Tail(s)) = Joined(f, <<Head(s)>>) \o Joined(f, Tail(s))
      BY <1>0, <2>1
    <2>3. Joined(f, <<Head(s)>>) = f[Head(s)]
      BY <1>0, <2>1
    <2>4. QED BY <2>1, <2>2, <2>3
  <1>3. QED BY <1>1, <1>2

(* If g takes f's sequence for a member back to that member, it takes a    *)
(* joined sequence back to the original one.                               *)
LEMMA JoinedBack ==
  ASSUME NEW C, NEW S, NEW f \in [C -> Seq(S)], NEW g \in [S -> Seq(C)]
  PROVE  (\A c \in C : Joined(g, f[c]) = <<c>>) =>
           \A q \in Seq(C) : Joined(g, Joined(f, q)) = q
  <1>1. /\ Joined(f, <<>>) = <<>>
        /\ \A s \in Seq(C) : Joined(f, s) \in Seq(S)
        /\ \A x \in C : Joined(f, <<x>>) = f[x]
        /\ \A s, t \in Seq(C) : Joined(f, s \o t) = Joined(f, s) \o Joined(f, t)
    BY JoinedFacts
  <1>2. /\ Joined(g, <<>>) = <<>>
        /\ \A s \in Seq(S) : Joined(g, s) \in Seq(C)
        /\ \A x \in S : Joined(g, <<x>>) = g[x]
        /\ \A s, t \in Seq(S) : Joined(g, s \o t) = Joined(g, s) \o Joined(g, t)
    BY JoinedFacts
  <1>3. /\ \A s \in Seq(C), x \in C : Joined(f, Append(s, x)) = Joined(f, s) \o f[x]
        /\ \A s \in Seq(C) : s # <<>> => Joined(f, s) = f[Head(s)] \o Joined(f, Tail(s))
    BY JoinedEnds
  <1> SUFFICES ASSUME \A c \in C : Joined(g, f[c]) = <<c>>
               PROVE  \A q \in Seq(C) : Joined(g, Joined(f, q)) = q
    OBVIOUS
  <1> DEFINE P == {q \in Seq(C) : Joined(g, Joined(f, q)) = q}
  <1>4. <<>> \in P
    <2>1. <<>> \in Seq(C)
      OBVIOUS
    <2>2. QED BY <1>1, <1>2, <2>1
  <1>5. ASSUME NEW q \in P, NEW c \in C  PROVE Append(q, c) \in P
    <2>1. q \in Seq(C) /\ Joined(g, Joined(f, q)) = q /\ f[c] \in Seq(S)
      OBVIOUS
    <2>2. Append(q, c) \in Seq(C) /\ Append(q, c) = q \o <<c>>
      BY <2>1
    <2> HIDE DEF P
    <2>3. Joined(f, Append(q, c)) = Joined(f, q) \o f[c] /\ Joined(f, q) \in Seq(S)
      BY <1>1, <1>3, <2>1
    <2>4. Joined(g, Joined(f, q) \o f[c]) = Joined(g, Joined(f, q)) \o Joined(g, f[c])
      BY <1>2, <2>1, <2>3
    <2>5. Joined(g, f[c]) = <<c>>
      OBVIOUS
    <2>6. QED BY <2>1, <2>2, <2>3, <2>4, <2>5 DEF P
  <1>6. P = Seq(C)
    <2> HIDE DEF P
    <2>1. P \in SUBSET Seq(C)
      BY DEF P
    <2>2. QED BY <1>4, <1>5, <2>1, SeqInducts
  <1>7. QED BY <1>6

(* z is a, b, c, d and e, one after the other. *)
Nested(a, b, c, d, e, x, y, w, z) == Cat(d, e, x) /\ Cat(c, x, y) /\ Cat(b, y, w) /\ Cat(a, w, z)

(* So is it when they are put together from the left, ...                  *)
LEMMA NestedFromLeft ==
  ASSUME NEW S, NEW a \in Seq(S), NEW b \in Seq(S), NEW c \in Seq(S), NEW d \in Seq(S), NEW e \in Seq(S),
         NEW p \in Seq(S), NEW q \in Seq(S), NEW r \in Seq(S), NEW z \in Seq(S),
         Cat(a, b, p), Cat(p, c, q), Cat(q, d, r), Cat(r, e, z)
  PROVE  \E x, y, w \in Seq(S) : Nested(a, b, c, d, e, x, y, w, z)
  <1>1. PICK x \in Seq(S) : Cat(d, e, x)
    BY Cats
  <1>2. Cat(q, x, z)
    BY <1>1, CatsAssociate, Zenon
  <1>3. PICK y \in Seq(S) : Cat(c, x, y)
    BY Cats
  <1>4. Cat(p, y, z)
    <2>1. Cat(p, c, q) /\ Cat(c, x, y) /\ Cat(q, x, z)
      BY <1>2, <1>3
    <2>2. QED BY <2>1, CatRight
  <1>5. PICK w \in Seq(S) : Cat(b, y, w)
    BY Cats
  <1>6. Cat(a, w, z)
    <2>1. Cat(a, b, p) /\ Cat(b, y, w) /\ Cat(p, y, z)
      BY <1>4, <1>5
    <2>2. QED BY <2>1, CatRight
  <1>7. QED BY <1>1, <1>3, <1>5, <1>6, Zenon DEF Nested

(* ... or in pairs.                                                        *)
LEMMA NestedFromPairs ==
  ASSUME NEW S, NEW a \in Seq(S), NEW b \in Seq(S), NEW c \in Seq(S), NEW d \in Seq(S), NEW e \in Seq(S),
         NEW p \in Seq(S), NEW q \in Seq(S), NEW m \in Seq(S), NEW z \in Seq(S),
         Cat(a, b, p), Cat(c, d, q), Cat(p, q, m), Cat(m, e, z)
  PROVE  \E x, y, w \in Seq(S) : Nested(a, b, c, d, e, x, y, w, z)
  <1>1. PICK y \in Seq(S) : Cat(q, e, y)
    BY Cats
  <1>2. Cat(p, y, z)
    BY <1>1, CatsAssociate, Zenon
  <1>3. PICK x \in Seq(S) : Cat(d, e, x)
    BY Cats
  <1>4. Cat(c, x, y)
    BY <1>1, <1>3, CatsAssociate, Zenon
  <1>5. PICK w \in Seq(S) : Cat(b, y, w)
    BY Cats
  <1>6. Cat(a, w, z)
    <2>1. Cat(a, b, p) /\ Cat(b, y, w) /\ Cat(p, y, z)
      BY <1>2, <1>5
    <2>2. QED BY <2>1, CatRight
  <1>7. QED BY <1>3, <1>4, <1>5, <1>6, Zenon DEF Nested

(* The members of a sequence with one more at its end, ...                 *)
LEMMA RangeAppend ==
  ASSUME NEW S, NEW s \in Seq(S), NEW x \in S
  PROVE  /\ Append(s, x) \in Seq(S) /\ Range(Append(s, x)) = Range(s) \cup {x}
         /\ IsInjective(s) /\ x \notin Range(s) => IsInjective(Append(s, x))
  <1>1. /\ Append(s, x) \in Seq(S) /\ Len(s) \in Nat
        /\ DOMAIN s = 1 .. Len(s) /\ DOMAIN Append(s, x) = 1 .. Len(s) + 1
        /\ Append(s, x)[Len(s) + 1] = x
        /\ \A i \in 1 .. Len(s) : Append(s, x)[i] = s[i]
    OBVIOUS
  <1>2. PICK t : t = Append(s, x)
    OBVIOUS
  <1>3. /\ DOMAIN t = 1 .. Len(s) + 1 /\ t[Len(s) + 1] = x
        /\ \A i \in 1 .. Len(s) : t[i] = s[i]
    BY <1>1, <1>2
  <1>4. 1 .. Len(s) + 1 = (1 .. Len(s)) \cup {Len(s) + 1}
    BY <1>1
  <1>5. Range(t) = Range(s) \cup {x}
    BY <1>1, <1>3, <1>4 DEF Range
  <1>6. ASSUME IsInjective(s), x \notin Range(s)  PROVE IsInjective(t)
    <2>1. \A i \in 1 .. Len(s) : s[i] # x
      BY <1>1, <1>6 DEF Range
    <2>2. QED BY <1>1, <1>3, <1>4, <1>6, <2>1 DEF IsInjective
  <1>7. QED BY <1>1, <1>2, <1>5, <1>6

(* ... and without the first.                                              *)
LEMMA RangeTail ==
  ASSUME NEW S, NEW s \in Seq(S), s # <<>>
  PROVE  /\ Head(s) \in S /\ Tail(s) \in Seq(S) /\ Range(s) = {Head(s)} \cup Range(Tail(s))
         /\ IsInjective(s) => IsInjective(Tail(s)) /\ Head(s) \notin Range(Tail(s))
  <1>1. /\ Tail(s) \in Seq(S) /\ Len(Tail(s)) = Len(s) - 1 /\ Head(s) = s[1] /\ Head(s) \in S
        /\ \A j \in 1 .. Len(s) - 1 : Tail(s)[j] = s[j + 1]
        /\ Len(s) \in Nat \ {0} /\ DOMAIN s = 1 .. Len(s) /\ DOMAIN Tail(s) = 1 .. Len(s) - 1
    BY TailFacts
  <1>2. PICK t, h : t = Tail(s) /\ h = Head(s)
    OBVIOUS
  <1>3. /\ DOMAIN t = 1 .. Len(s) - 1 /\ h = s[1]
        /\ \A j \in 1 .. Len(s) - 1 : t[j] = s[j + 1]
    BY <1>1, <1>2
  <1>4. Range(s) = {h} \cup Range(t)
    <2>1. ASSUME NEW i \in 1 .. Len(s)  PROVE s[i] \in {h} \cup Range(t)
      <3>1. CASE i = 1
        BY <1>3, <3>1
      <3>2. CASE i # 1
        <4>1. i - 1 \in 1 .. Len(s) - 1 /\ (i - 1) + 1 = i
          BY <1>1, <3>2
        <4>2. t[i - 1] = s[i]
          BY <1>3, <4>1
        <4>3. QED BY <1>3, <4>1, <4>2 DEF Range
      <3>3. QED BY <3>1, <3>2
    <2>2. ASSUME NEW j \in 1 .. Len(s) - 1  PROVE t[j] \in Range(s)
      <3>1. j + 1 \in 1 .. Len(s)
        BY <1>1
      <3>2. QED BY <1>1, <1>3, <3>1 DEF Range
    <2>3. h \in Range(s)
      <3>1. 1 \in 1 .. Len(s)
        BY <1>1
      <3>2. QED BY <1>1, <1>3, <3>1 DEF Range
    <2>4. \A y : y \in Range(s) <=> \E i \in 1 .. Len(s) : y = s[i]
      BY <1>1 DEF Range
    <2>5. \A y : y \in Range(t) <=> \E j \in 1 .. Len(s) - 1 : y = t[j]
      BY <1>3 DEF Range
    <2>6. QED BY <2>1, <2>2, <2>3, <2>4, <2>5
  <1>5. ASSUME IsInjective(s)  PROVE IsInjective(t) /\ h \notin Range(t)
    <2>1. \A i, j \in 1 .. Len(s) : s[i] = s[j] => i = j
      BY <1>1, <1>5 DEF IsInjective
    <2>2. ASSUME NEW i \in 1 .. Len(s) - 1, NEW j \in 1 .. Len(s) - 1, t[i] = t[j]  PROVE i = j
      <3>1. i + 1 \in 1 .. Len(s) /\ j + 1 \in 1 .. Len(s)
        BY <1>1
      <3>2. s[i + 1] = s[j + 1]
        BY <1>3, <2>2
      <3>3. i + 1 = j + 1
        BY <2>1, <3>1, <3>2
      <3>4. QED BY <3>3
    <2>3. ASSUME NEW j \in 1 .. Len(s) - 1, t[j] = h  PROVE FALSE
      <3>1. j + 1 \in 1 .. Len(s) /\ 1 \in 1 .. Len(s) /\ j + 1 # 1
        BY <1>1
      <3>2. s[j + 1] = s[1]
        BY <1>3, <2>3
      <3>3. QED BY <2>1, <3>1, <3>2
    <2>4. QED BY <1>3, <2>2, <2>3 DEF IsInjective, Range
  <1>6. QED BY <1>1, <1>2, <1>4, <1>5

(* A sequence with one more in front.                                      *)
LEMMA FrontedFacts ==
  ASSUME NEW S, NEW s \in Seq(S), NEW x \in S
  PROVE  /\ <<x>> \o s \in Seq(S) /\ <<x>> \o s # <<>>
         /\ Head(<<x>> \o s) = x /\ Tail(<<x>> \o s) = s
         /\ \A y \in S : Append(<<x>> \o s, y) = <<x>> \o Append(s, y)
         /\ s # <<>> => <<Head(s)>> \o Tail(s) = s
  OBVIOUS

=============================================================================
