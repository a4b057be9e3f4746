-------------------------------- MODULE Lemmas --------------------------------
(***************************************************************************)
(* What the proofs need to know of numbers and of queues: that a set of     *)
(* numbers has a least one, and so induction, stated of sets; and what      *)
(* inserting, removing, joining and splitting do to the elements of a queue *)
(* whose elements are all different.                                        *)
(***************************************************************************)
EXTENDS Integers, SequencesExt, SequenceTheorems, WellFoundedInduction, TLAPS

(* Induction, as facts about sets of numbers. *)
LEMMA LessThan ==
  ASSUME NEW x \in Nat, NEW y \in Nat, x < y
  PROVE  <<x, y>> \in OpToRel(<, Nat)
BY DEF OpToRel

LEMMA NatIsWellFounded ==
  \E R : IsWellFoundedOn(R, Nat) /\ \A x, y \in Nat : x < y => <<x, y>> \in R
<1>1. \A x, y \in Nat : x < y => <<x, y>> \in OpToRel(<, Nat)
  BY LessThan, Zenon
<1> QED BY <1>1, NatLessThanWellFounded, Zenon

(* A set of numbers that has one has a least one. *)
LEMMA LeastNumber ==
  ASSUME NEW S, S \subseteq Nat, S # {}
  PROVE  \E m \in S : \A n \in S : m <= n
<1>1. PICK R : IsWellFoundedOn(R, Nat) /\ \A x, y \in Nat : x < y => <<x, y>> \in R
  BY NatIsWellFounded
<1>2. PICK m \in S : \A y \in S : ~ (<<y, m>> \in R)
  <2>1. IsWellFoundedOn(R, Nat)
    BY <1>1
  <2> QED BY <2>1, WFMin, Zenon
<1>3. ASSUME NEW n \in S PROVE m <= n
  <2>1. ~ (n < m)
    BY <1>1, <1>2
  <2> QED BY <2>1
<1> QED BY <1>3

(* A set with 0 and with the successor of each of its numbers has them all.  *)
LEMMA NatIsInduced ==
  ASSUME NEW S, 0 \in S, \A n \in Nat : n \in S => n + 1 \in S
  PROVE  Nat \subseteq S
<1> SUFFICES ASSUME Nat \ S # {} PROVE FALSE
  OBVIOUS
<1>1. PICK m \in Nat \ S : \A n \in Nat \ S : m <= n
  <2>1. Nat \ S \subseteq Nat
    OBVIOUS
  <2> QED BY <2>1, LeastNumber, Zenon
<1>2. m # 0 /\ m - 1 \in Nat
  OBVIOUS
<1>3. m - 1 \in S
  BY <1>1, <1>2
<1> QED BY <1>2, <1>3

(* Induction up to a bound. *)
LEMMA InducedUpTo ==
  ASSUME NEW k \in Nat, NEW S, 0 \in S, \A n \in 1..k : n - 1 \in S => n \in S
  PROVE  0..k \subseteq S
<1> DEFINE T == S \cup {n \in Nat : n > k}
<1>1. 0 \in T
  OBVIOUS
<1>2. ASSUME NEW n \in Nat, n \in T PROVE n + 1 \in T
  <2>1. CASE n + 1 > k
    BY <2>1
  <2>2. CASE n + 1 <= k
    <3>1. n \in S /\ n + 1 \in 1..k /\ (n + 1) - 1 = n
      BY <1>2, <2>2
    <3> QED BY <3>1
  <2> QED BY <2>1, <2>2
<1> HIDE DEF T
<1>3. Nat \subseteq T
  BY <1>1, <1>2, NatIsInduced
<1> QED BY <1>3 DEF T

(* What is defined by recursion up to k. *)
IsRecursive(f, k, V, base, step) ==
    /\ f \in [0..k -> V] /\ f[0] = base
    /\ \A n \in 1..k : f[n] = step[n][f[n - 1]]

(* A function that is defined by recursion up to a bound exists. *)
LEMMA RecursionExists ==
  ASSUME NEW k \in Nat, NEW V, NEW base \in V, NEW step \in [1..k -> [V -> V]]
  PROVE  \E f : IsRecursive(f, k, V, base, step)
<1> USE DEF IsRecursive
<1> DEFINE Upto(m) == \E f : IsRecursive(f, m, V, base, step)
           S == {m \in 0..k : Upto(m)}
<1>1. Upto(0)
  <2> DEFINE f == [n \in 0..0 |-> base]
  <2>1. f \in [0..0 -> V] /\ f[0] = base
    OBVIOUS
  <2>2. \A n \in 1..0 : f[n] = step[n][f[n - 1]]
    OBVIOUS
  <2> QED BY <2>1, <2>2
<1>2. ASSUME NEW m \in 1..k, Upto(m - 1) PROVE Upto(m)
  <2>1. PICK f \in [0..(m - 1) -> V] :
           f[0] = base /\ \A n \in 1..(m - 1) : f[n] = step[n][f[n - 1]]
    BY <1>2
  <2> DEFINE g == [n \in 0..m |-> IF n = m THEN step[m][f[m - 1]] ELSE f[n]]
  <2>2. /\ g \in [0..m -> V] /\ g[m] = step[m][f[m - 1]]
        /\ \A n \in 0..(m - 1) : g[n] = f[n]
    <3>1. f[m - 1] \in V
      OBVIOUS
    <3> QED BY <3>1
  <2> HIDE DEF g
  <2>3. g[0] = base
    BY <2>1, <2>2
  <2>4. ASSUME NEW n \in 1..m PROVE g[n] = step[n][g[n - 1]]
    <3>1. CASE n = m
      BY <2>2, <3>1
    <3>2. CASE n # m
      <4>1. n \in 1..(m - 1) /\ n \in 0..(m - 1) /\ n - 1 \in 0..(m - 1)
        BY <3>2
      <4> QED BY <2>1, <2>2, <4>1
    <3> QED BY <3>1, <3>2
  <2> QED BY <2>2, <2>3, <2>4
<1>3. 0 \in S
  BY <1>1
<1>4. ASSUME NEW m \in 1..k, m - 1 \in S PROVE m \in S
  <2>1. Upto(m - 1) /\ m \in 0..k
    BY <1>4
  <2> HIDE DEF Upto
  <2>2. Upto(m)
    BY <1>2, <2>1
  <2> QED BY <2>1, <2>2
<1> HIDE DEF S
<1>5. 0..k \subseteq S
  BY <1>3, <1>4, InducedUpTo
<1>6. k \in S
  BY <1>5
<1> QED BY <1>6 DEF S

(* Min and Max are what they say. *)
LEMMA MinIsLeast ==
  ASSUME NEW S, S \subseteq Nat, S # {}
  PROVE  Min(S) \in S /\ \A n \in S : Min(S) <= n
<1>1. \E m \in S : \A n \in S : m <= n
  BY LeastNumber
<1> QED BY <1>1 DEF Min

LEMMA MaxIsGreatest ==
  ASSUME NEW S, S \subseteq Nat, S # {}, NEW b \in Nat, \A n \in S : n <= b
  PROVE  Max(S) \in S /\ \A n \in S : n <= Max(S)
<1> DEFINE Above == {u \in Nat : \A n \in S : n <= u}
<1>1. Above \subseteq Nat /\ Above # {}
  OBVIOUS
<1>2. PICK m \in Above : \A u \in Above : m <= u
  BY <1>1, LeastNumber
<1>3. m \in S
  <2> SUFFICES ASSUME m \notin S PROVE FALSE
    OBVIOUS
  <2>1. PICK x \in S : x <= m /\ x # m
    BY <1>2
  <2>2. m - 1 \in Nat /\ \A n \in S : n <= m - 1
    BY <1>2, <2>1
  <2> QED BY <1>2, <2>2
<1>4. \A n \in S : m >= n
  BY <1>2
<1> QED BY <1>3, <1>4 DEF Max

(* Multiplication of natural numbers is monotonic.                         *)
LEMMA ProductIsMonotonic ==
  ASSUME NEW a \in Nat, NEW b \in Nat, NEW c \in Nat, NEW d \in Nat,
         a <= b, c <= d
  PROVE  a * c <= b * d
<1>1. a * c <= b * c
  <2>1. b - a \in Nat /\ b = a + (b - a)
    OBVIOUS
  <2>2. b * c = a * c + (b - a) * c
    BY <2>1
  <2>3. (b - a) * c \in Nat /\ a * c \in Nat
    BY <2>1
  <2> QED BY <2>2, <2>3
<1>2. b * c <= b * d
  <2>1. d - c \in Nat /\ d = c + (d - c)
    OBVIOUS
  <2>2. b * d = b * c + b * (d - c)
    BY <2>1
  <2>3. b * (d - c) \in Nat /\ b * c \in Nat
    BY <2>1
  <2> QED BY <2>2, <2>3
<1>3. a * c \in Nat /\ b * c \in Nat /\ b * d \in Nat
  OBVIOUS
<1> QED BY <1>1, <1>2, <1>3

-----------------------------------------------------------------------------
(* Appending one queue to another that shares nothing with it. *)
LEMMA ConcatDistinct ==
  ASSUME NEW S, NEW s \in Seq(S), NEW t \in Seq(S),
         IsInjective(s), IsInjective(t), Range(s) \cap Range(t) = {}
  PROVE  /\ s \o t \in Seq(S)
         /\ IsInjective(s \o t)
         /\ Range(s \o t) = Range(s) \cup Range(t)
         /\ Len(s \o t) = Len(s) + Len(t)
<1> DEFINE u == s \o t
<1>1. /\ u \in Seq(S) /\ Len(u) = Len(s) + Len(t)
      /\ \A i \in 1..Len(s) + Len(t) : u[i] = IF i <= Len(s) THEN s[i] ELSE t[i - Len(s)]
  BY ConcatProperties
<1>2. Range(u) = Range(s) \cup Range(t)
  BY RangeConcatenation
<1>3. /\ Len(s) \in Nat /\ Len(t) \in Nat
      /\ DOMAIN s = 1..Len(s) /\ DOMAIN t = 1..Len(t) /\ DOMAIN u = 1..Len(u)
  BY <1>1, LenProperties
<1>4. ASSUME NEW i \in DOMAIN u, NEW j \in DOMAIN u, u[i] = u[j]
      PROVE  i = j
  <2>1. CASE i <= Len(s) /\ j <= Len(s)
    BY <2>1, <1>1, <1>3, <1>4 DEF IsInjective
  <2>2. CASE i > Len(s) /\ j > Len(s)
    <3>1. i - Len(s) \in DOMAIN t /\ j - Len(s) \in DOMAIN t
      BY <2>2, <1>1, <1>3
    <3>2. t[i - Len(s)] = t[j - Len(s)]
      BY <2>2, <1>1, <1>3, <1>4
    <3>3. i - Len(s) = j - Len(s)
      BY <3>1, <3>2 DEF IsInjective
    <3> QED BY <3>3, <1>3
  <2>3. CASE i <= Len(s) /\ j > Len(s)
    <3>1. s[i] \in Range(s) /\ t[j - Len(s)] \in Range(t)
      BY <2>3, <1>1, <1>3 DEF Range
    <3> QED BY <2>3, <3>1, <1>1, <1>3, <1>4
  <2>4. CASE i > Len(s) /\ j <= Len(s)
    <3>1. s[j] \in Range(s) /\ t[i - Len(s)] \in Range(t)
      BY <2>4, <1>1, <1>3 DEF Range
    <3> QED BY <2>4, <3>1, <1>1, <1>3, <1>4
  <2> QED BY <2>1, <2>2, <2>3, <2>4, <1>3
<1>5. IsInjective(u)
  BY <1>4 DEF IsInjective
<1> QED BY <1>1, <1>2, <1>5

(* A queue of one. *)
LEMMA SingletonDistinct ==
  ASSUME NEW S, NEW e \in S
  PROVE  <<e>> \in Seq(S) /\ IsInjective(<<e>>) /\ Range(<<e>>) = {e} /\ Len(<<e>>) = 1
BY DEF IsInjective, Range

(* The part of a queue between two places. *)
LEMMA SliceDistinct ==
  ASSUME NEW S, NEW s \in Seq(S), IsInjective(s),
         NEW m \in 1..Len(s) + 1, NEW n \in 0..Len(s), m <= n + 1
  PROVE  /\ SubSeq(s, m, n) \in Seq(S)
         /\ Len(SubSeq(s, m, n)) = n - m + 1
         /\ IsInjective(SubSeq(s, m, n))
         /\ Range(SubSeq(s, m, n)) = {s[i] : i \in m..n}
<1> DEFINE u == SubSeq(s, m, n)
<1>1. Len(s) \in Nat /\ DOMAIN s = 1..Len(s)
  BY LenProperties
<1>2. \A i \in m..n : s[i] \in S
  BY <1>1, ElementOfSeq
<1>3. u \in Seq(S) /\ Len(u) = n - m + 1 /\ \A i \in 1..n - m + 1 : u[i] = s[m + i - 1]
  BY <1>1, <1>2, SubSeqProperties
<1>4. DOMAIN u = 1..n - m + 1
  BY <1>3, LenProperties
<1>5. ASSUME NEW i \in DOMAIN u, NEW j \in DOMAIN u, u[i] = u[j]
      PROVE  i = j
  <2>1. m + i - 1 \in DOMAIN s /\ m + j - 1 \in DOMAIN s
    BY <1>1, <1>4
  <2>2. m + i - 1 = m + j - 1
    BY <2>1, <1>3, <1>4, <1>5 DEF IsInjective
  <2> QED BY <2>2, <1>1, <1>4
<1>6. Range(u) = {s[i] : i \in m..n}
  <2>1. ASSUME NEW e \in Range(u) PROVE e \in {s[i] : i \in m..n}
    <3>1. PICK i \in 1..n - m + 1 : e = u[i]
      BY <1>4 DEF Range
    <3>2. m + i - 1 \in m..n /\ e = s[m + i - 1]
      BY <3>1, <1>3, <1>1
    <3> QED BY <3>2
  <2>2. ASSUME NEW i \in m..n PROVE s[i] \in Range(u)
    <3>1. i - m + 1 \in DOMAIN u /\ m + (i - m + 1) - 1 = i
      BY <1>4, <1>1
    <3>2. u[i - m + 1] = s[i]
      BY <3>1, <1>3, <1>4
    <3> QED BY <3>1, <3>2 DEF Range
  <2> QED BY <2>1, <2>2
<1> QED BY <1>3, <1>5, <1>6 DEF IsInjective

(* Cutting a queue in two. *)
LEMMA SplitDistinct ==
  ASSUME NEW S, NEW s \in Seq(S), IsInjective(s), NEW n \in 0..Len(s)
  PROVE  /\ SubSeq(s, 1, n) \in Seq(S) /\ SubSeq(s, n + 1, Len(s)) \in Seq(S)
         /\ IsInjective(SubSeq(s, 1, n)) /\ IsInjective(SubSeq(s, n + 1, Len(s)))
         /\ Len(SubSeq(s, 1, n)) = n /\ Len(SubSeq(s, n + 1, Len(s))) = Len(s) - n
         /\ Range(SubSeq(s, 1, n)) \cap Range(SubSeq(s, n + 1, Len(s))) = {}
         /\ Range(SubSeq(s, 1, n)) \cup Range(SubSeq(s, n + 1, Len(s))) = Range(s)
<1> DEFINE a == SubSeq(s, 1, n)
           b == SubSeq(s, n + 1, Len(s))
<1>1. Len(s) \in Nat /\ DOMAIN s = 1..Len(s)
  BY LenProperties
<1>2. a \in Seq(S) /\ IsInjective(a) /\ Len(a) = n /\ Range(a) = {s[i] : i \in 1..n}
  <2>1. 1 \in 1..Len(s) + 1 /\ 1 <= n + 1 /\ n - 1 + 1 = n
    BY <1>1
  <2>2. /\ a \in Seq(S) /\ IsInjective(a) /\ Len(a) = n - 1 + 1
        /\ Range(a) = {s[i] : i \in 1..n}
    BY <2>1, SliceDistinct
  <2> HIDE DEF a
  <2> QED BY <2>1, <2>2
<1>3. /\ b \in Seq(S) /\ IsInjective(b) /\ Len(b) = Len(s) - n
      /\ Range(b) = {s[i] : i \in n + 1..Len(s)}
  <2>1. /\ n + 1 \in 1..Len(s) + 1 /\ Len(s) \in 0..Len(s) /\ n + 1 <= Len(s) + 1
    BY <1>1
  <2>2. /\ b \in Seq(S) /\ IsInjective(b) /\ Len(b) = Len(s) - (n + 1) + 1
        /\ Range(b) = {s[i] : i \in n + 1..Len(s)}
    BY <2>1, SliceDistinct
  <2>3. Len(s) - (n + 1) + 1 = Len(s) - n
    BY <1>1
  <2> HIDE DEF b
  <2> QED BY <2>2, <2>3
<1>4. Range(a) \cap Range(b) = {}
  <2> SUFFICES ASSUME NEW i \in 1..n, NEW j \in n + 1..Len(s), s[i] = s[j]
               PROVE  FALSE
    BY <1>2, <1>3
  <2>1. i \in DOMAIN s /\ j \in DOMAIN s /\ i # j
    BY <1>1
  <2> QED BY <2>1 DEF IsInjective
<1>5. Range(a) \cup Range(b) = Range(s)
  <2>1. 1..Len(s) = (1..n) \cup (n + 1..Len(s))
    BY <1>1
  <2>2. Range(s) = {s[i] : i \in 1..Len(s)}
    BY <1>1 DEF Range
  <2> QED BY <2>1, <2>2, <1>2, <1>3
<1> QED BY <1>2, <1>3, <1>4, <1>5

(* Inserting an element that is not there yet. *)
LEMMA InsertAtDistinct ==
  ASSUME NEW S, NEW s \in Seq(S), IsInjective(s),
         NEW k \in 1..Len(s) + 1, NEW e \in S, e \notin Range(s)
  PROVE  /\ InsertAt(s, k, e) \in Seq(S)
         /\ IsInjective(InsertAt(s, k, e))
         /\ Range(InsertAt(s, k, e)) = Range(s) \cup {e}
<1> DEFINE a == SubSeq(s, 1, k - 1)
           b == SubSeq(s, k, Len(s))
           one == <<e>>
<1>1. Len(s) \in Nat /\ k - 1 \in 0..Len(s) /\ k - 1 + 1 = k
  BY LenProperties
<1>2. /\ a \in Seq(S) /\ b \in Seq(S) /\ IsInjective(a) /\ IsInjective(b)
      /\ Range(a) \cap Range(b) = {} /\ Range(a) \cup Range(b) = Range(s)
  <2>1. \A n \in 0..Len(s) :
          /\ SubSeq(s, 1, n) \in Seq(S) /\ SubSeq(s, n + 1, Len(s)) \in Seq(S)
          /\ IsInjective(SubSeq(s, 1, n)) /\ IsInjective(SubSeq(s, n + 1, Len(s)))
          /\ Range(SubSeq(s, 1, n)) \cap Range(SubSeq(s, n + 1, Len(s))) = {}
          /\ Range(SubSeq(s, 1, n)) \cup Range(SubSeq(s, n + 1, Len(s))) = Range(s)
    BY SplitDistinct
  <2>2. SubSeq(s, (k - 1) + 1, Len(s)) = b
    BY <1>1
  <2> QED BY <1>1, <2>1, <2>2, Zenon
<1>3. one \in Seq(S) /\ IsInjective(one) /\ Range(one) = {e}
  BY SingletonDistinct
<1> HIDE DEF a, b, one
<1>4. /\ a \o one \in Seq(S) /\ IsInjective(a \o one)
      /\ Range(a \o one) = Range(a) \cup {e}
  <2>1. Range(a) \cap Range(one) = {}
    BY <1>2, <1>3
  <2> QED BY <2>1, <1>2, <1>3, ConcatDistinct
<1> DEFINE c == a \o one
<1>5. /\ c \o b \in Seq(S) /\ IsInjective(c \o b)
      /\ Range(c \o b) = Range(c) \cup Range(b)
  <2>1. Range(c) \cap Range(b) = {}
    BY <1>2, <1>4
  <2> HIDE DEF c
  <2>2. c \in Seq(S) /\ IsInjective(c)
    BY <1>4 DEF c
  <2> QED BY <2>1, <2>2, <1>2, ConcatDistinct
<1>6. InsertAt(s, k, e) = c \o b
  BY DEF InsertAt, a, b, one
<1>7. Range(c \o b) = Range(s) \cup {e}
  BY <1>2, <1>4, <1>5
<1> HIDE DEF c
<1> QED BY <1>5, <1>6, <1>7

(* Removing the element at a place. *)
LEMMA RemoveAtDistinct ==
  ASSUME NEW S, NEW s \in Seq(S), IsInjective(s), NEW k \in 1..Len(s)
  PROVE  /\ RemoveAt(s, k) \in Seq(S)
         /\ IsInjective(RemoveAt(s, k))
         /\ Range(RemoveAt(s, k)) = Range(s) \ {s[k]}
         /\ Len(RemoveAt(s, k)) = Len(s) - 1
<1> DEFINE a == SubSeq(s, 1, k - 1)
           b == SubSeq(s, k + 1, Len(s))
<1>1. Len(s) \in Nat /\ DOMAIN s = 1..Len(s)
  BY LenProperties
<1>2. /\ a \in Seq(S) /\ IsInjective(a) /\ Len(a) = k - 1
      /\ Range(a) = {s[i] : i \in 1..k - 1}
  <2>1. 1 \in 1..Len(s) + 1 /\ k - 1 \in 0..Len(s) /\ 1 <= k - 1 + 1 /\ k - 1 - 1 + 1 = k - 1
    BY <1>1
  <2> QED BY <2>1, SliceDistinct
<1>3. /\ b \in Seq(S) /\ IsInjective(b) /\ Len(b) = Len(s) - k
      /\ Range(b) = {s[i] : i \in k + 1..Len(s)}
  <2>1. /\ k + 1 \in 1..Len(s) + 1 /\ Len(s) \in 0..Len(s) /\ k + 1 <= Len(s) + 1
    BY <1>1
  <2>2. /\ b \in Seq(S) /\ IsInjective(b) /\ Len(b) = Len(s) - (k + 1) + 1
        /\ Range(b) = {s[i] : i \in k + 1..Len(s)}
    BY <2>1, SliceDistinct
  <2>3. Len(s) - (k + 1) + 1 = Len(s) - k
    BY <1>1
  <2> HIDE DEF b
  <2> QED BY <2>2, <2>3
<1>4. \A i, j \in 1..Len(s) : s[i] = s[j] => i = j
  BY <1>1 DEF IsInjective
<1>5. Range(a) \cap Range(b) = {}
  <2> SUFFICES ASSUME NEW i \in 1..k - 1, NEW j \in k + 1..Len(s), s[i] = s[j]
               PROVE  FALSE
    BY <1>2, <1>3
  <2> QED BY <1>1, <1>4
<1>6. Range(a) \cup Range(b) = Range(s) \ {s[k]}
  <2>1. ASSUME NEW i \in 1..Len(s)
        PROVE  s[i] \in Range(a) \cup Range(b) <=> s[i] # s[k]
    <3>1. CASE i = k
      <4>1. \A j \in 1..k - 1 : s[j] # s[k]
        BY <1>1, <1>4
      <4>2. \A j \in k + 1..Len(s) : s[j] # s[k]
        BY <1>1, <1>4
      <4> QED BY <3>1, <4>1, <4>2, <1>2, <1>3
    <3>2. CASE i # k
      <4>1. i \in 1..k - 1 \/ i \in k + 1..Len(s)
        BY <3>2, <1>1
      <4>2. s[i] # s[k]
        BY <3>2, <1>4
      <4> QED BY <4>1, <4>2, <1>2, <1>3
    <3> QED BY <3>1, <3>2
  <2>2. Range(s) = {s[i] : i \in 1..Len(s)}
    BY <1>1 DEF Range
  <2>3. Range(a) \cup Range(b) \subseteq Range(s)
    <3>1. 1..k - 1 \subseteq 1..Len(s) /\ k + 1..Len(s) \subseteq 1..Len(s)
      BY <1>1
    <3> QED BY <3>1, <2>2, <1>2, <1>3
  <2> QED BY <2>1, <2>2, <2>3
<1> HIDE DEF a, b
<1>7. /\ a \o b \in Seq(S) /\ IsInjective(a \o b)
      /\ Range(a \o b) = Range(a) \cup Range(b) /\ Len(a \o b) = Len(a) + Len(b)
  <2>1. a \in Seq(S) /\ IsInjective(a) /\ b \in Seq(S) /\ IsInjective(b)
    BY <1>2, <1>3
  <2> QED BY <2>1, <1>5, ConcatDistinct
<1>8. RemoveAt(s, k) = a \o b
  BY DEF RemoveAt, a, b
<1>9. Len(a \o b) = Len(s) - 1
  BY <1>1, <1>2, <1>3, <1>7
<1> QED BY <1>6, <1>7, <1>8, <1>9

(* Taking the last element off. *)
LEMMA FrontDistinct ==
  ASSUME NEW S, NEW s \in Seq(S), IsInjective(s), Len(s) > 0
  PROVE  /\ SubSeq(s, 1, Len(s) - 1) \in Seq(S)
         /\ IsInjective(SubSeq(s, 1, Len(s) - 1))
         /\ Len(SubSeq(s, 1, Len(s) - 1)) = Len(s) - 1
         /\ s[Len(s)] \in Range(s)
         /\ Range(SubSeq(s, 1, Len(s) - 1)) = Range(s) \ {s[Len(s)]}
<1> DEFINE n == Len(s) - 1
           a == SubSeq(s, 1, n)
<1>1. Len(s) \in Nat /\ DOMAIN s = 1..Len(s) /\ n \in 0..Len(s) /\ n + 1 = Len(s)
  BY LenProperties
<1> HIDE DEF n
<1>2. 1 \in 1..Len(s) + 1 /\ 1 <= n + 1 /\ n - 1 + 1 = n
  BY <1>1
<1>3. /\ a \in Seq(S) /\ IsInjective(a) /\ Len(a) = n - 1 + 1
      /\ Range(a) = {s[i] : i \in 1..n}
  BY <1>1, <1>2, SliceDistinct
<1>4. Range(s) = {s[i] : i \in 1..Len(s)}
  BY <1>1 DEF Range
<1>5. \A i \in 1..n : s[i] # s[Len(s)]
  BY <1>1 DEF IsInjective
<1>6. 1..Len(s) = (1..n) \cup {Len(s)}
  BY <1>1
<1>7. {s[i] : i \in 1..n} = {s[i] : i \in 1..Len(s)} \ {s[Len(s)]}
  BY <1>5, <1>6
<1>8. s[Len(s)] \in Range(s)
  BY <1>4, <1>6
<1> HIDE DEF a
<1>9. Len(a) = n /\ Range(a) = Range(s) \ {s[Len(s)]}
  BY <1>2, <1>3, <1>4, <1>7
<1> QED BY <1>3, <1>8, <1>9 DEF a, n

(* What is where when one element of a queue is gone. *)
LEMMA RemoveAtShifts ==
  ASSUME NEW S, NEW s \in Seq(S), NEW k \in 1..Len(s)
  PROVE  /\ RemoveAt(s, k) \in Seq(S) /\ Len(RemoveAt(s, k)) = Len(s) - 1
         /\ \A i \in 1..(Len(s) - 1) : RemoveAt(s, k)[i] = IF i < k THEN s[i] ELSE s[i + 1]
<1> DEFINE a == SubSeq(s, 1, k - 1)
           b == SubSeq(s, k + 1, Len(s))
<1>1. /\ Len(s) \in Nat /\ k \in Nat /\ 1 <= k /\ k <= Len(s)
      /\ \A i \in 1..Len(s) : s[i] \in S
  BY LenProperties, ElementOfSeq
<1>2. /\ a \in Seq(S) /\ Len(a) = k - 1 /\ \A i \in 1..(k - 1) : a[i] = s[i]
  <2>1. /\ a \in Seq(S) /\ Len(a) = (IF 1 <= k - 1 THEN k - 1 - 1 + 1 ELSE 0)
        /\ \A i \in 1..(k - 1 - 1 + 1) : a[i] = s[1 + i - 1]
    BY <1>1, SubSeqProperties
  <2> HIDE DEF a
  <2> QED BY <1>1, <2>1
<1>3. /\ b \in Seq(S) /\ Len(b) = Len(s) - k /\ \A i \in 1..(Len(s) - k) : b[i] = s[k + i]
  <2>1. /\ b \in Seq(S)
        /\ Len(b) = (IF k + 1 <= Len(s) THEN Len(s) - (k + 1) + 1 ELSE 0)
        /\ \A i \in 1..(Len(s) - (k + 1) + 1) : b[i] = s[(k + 1) + i - 1]
    BY <1>1, SubSeqProperties
  <2> HIDE DEF b
  <2> QED BY <1>1, <2>1
<1>4. RemoveAt(s, k) = a \o b
  BY DEF RemoveAt
<1> HIDE DEF a, b
<1>5. /\ a \o b \in Seq(S) /\ Len(a \o b) = Len(a) + Len(b)
      /\ \A i \in 1..(Len(a) + Len(b)) :
            (a \o b)[i] = IF i <= Len(a) THEN a[i] ELSE b[i - Len(a)]
  BY <1>2, <1>3, ConcatProperties
<1>6. Len(a \o b) = Len(s) - 1
  BY <1>1, <1>2, <1>3, <1>5
<1>7. ASSUME NEW i \in 1..(Len(s) - 1)
      PROVE  (a \o b)[i] = IF i < k THEN s[i] ELSE s[i + 1]
  <2>1. (a \o b)[i] = IF i <= k - 1 THEN a[i] ELSE b[i - (k - 1)]
    BY <1>1, <1>2, <1>3, <1>5
  <2>2. CASE i < k
    <3>1. i \in 1..(k - 1) /\ i <= k - 1
      BY <1>1, <2>2
    <3> QED BY <1>2, <2>1, <2>2, <3>1
  <2>3. CASE ~ (i < k)
    <3>1. i - (k - 1) \in 1..(Len(s) - k) /\ ~ (i <= k - 1) /\ k + (i - (k - 1)) = i + 1
      BY <1>1, <2>3
    <3> QED BY <1>3, <2>1, <2>3, <3>1
  <2> QED BY <2>2, <2>3
<1> QED BY <1>4, <1>5, <1>6, <1>7

(* Removing from the first of two queues in a row. *)
LEMMA RemoveFromFirst ==
  ASSUME NEW S, NEW a \in Seq(S), NEW b \in Seq(S), NEW k \in 1..Len(a)
  PROVE  RemoveAt(a \o b, k) = RemoveAt(a, k) \o b
<1>1. /\ k \in Nat /\ Len(a) \in Nat /\ Len(b) \in Nat /\ a \o b \in Seq(S)
      /\ Len(a \o b) = Len(a) + Len(b)
      /\ \A i \in 1..(Len(a) + Len(b)) :
            (a \o b)[i] = IF i <= Len(a) THEN a[i] ELSE b[i - Len(a)]
  BY LenProperties, ConcatProperties
<1> DEFINE c == RemoveAt(a \o b, k)
           r == RemoveAt(a, k)
<1>2. /\ c \in Seq(S) /\ Len(c) = Len(a) + Len(b) - 1
      /\ \A i \in 1..(Len(a) + Len(b) - 1) :
            c[i] = IF i < k THEN (a \o b)[i] ELSE (a \o b)[i + 1]
  <2> DEFINE u == a \o b
  <2>1. u \in Seq(S) /\ Len(u) = Len(a) + Len(b) /\ k \in 1..Len(u)
    BY <1>1
  <2> HIDE DEF u
  <2>2. /\ RemoveAt(u, k) \in Seq(S) /\ Len(RemoveAt(u, k)) = Len(u) - 1
        /\ \A i \in 1..(Len(u) - 1) : RemoveAt(u, k)[i] = IF i < k THEN u[i] ELSE u[i + 1]
    BY <2>1, RemoveAtShifts
  <2> QED BY <2>1, <2>2 DEF u
<1>3. /\ r \in Seq(S) /\ Len(r) = Len(a) - 1
      /\ \A i \in 1..(Len(a) - 1) : r[i] = IF i < k THEN a[i] ELSE a[i + 1]
  BY RemoveAtShifts
<1> HIDE DEF c, r
<1>4. /\ r \o b \in Seq(S) /\ Len(r \o b) = Len(r) + Len(b)
      /\ \A i \in 1..(Len(r) + Len(b)) :
            (r \o b)[i] = IF i <= Len(r) THEN r[i] ELSE b[i - Len(r)]
  BY <1>3, ConcatProperties
<1>5. Len(c) = Len(r \o b)
  BY <1>1, <1>2, <1>3, <1>4
<1>6. ASSUME NEW i \in 1..Len(c) PROVE c[i] = (r \o b)[i]
  <2>1. i \in 1..(Len(a) + Len(b) - 1) /\ i \in 1..(Len(r) + Len(b)) /\ i \in Nat /\ i >= 1
    BY <1>1, <1>2, <1>3
  <2>2. CASE i < k
    <3>1. i \in 1..(Len(a) + Len(b)) /\ i \in 1..(Len(a) - 1) /\ i <= Len(a) /\ i <= Len(r)
      BY <1>1, <1>3, <2>1, <2>2
    <3> QED BY <1>1, <1>2, <1>3, <1>4, <2>1, <2>2, <3>1
  <2>3. CASE ~ (i < k) /\ i <= Len(a) - 1
    <3>1. /\ i + 1 \in 1..(Len(a) + Len(b)) /\ i \in 1..(Len(a) - 1)
          /\ i + 1 <= Len(a) /\ i <= Len(r)
      BY <1>1, <1>3, <2>1, <2>3
    <3> QED BY <1>1, <1>2, <1>3, <1>4, <2>1, <2>3, <3>1
  <2>4. CASE ~ (i < k) /\ ~ (i <= Len(a) - 1)
    <3>1. /\ i + 1 \in 1..(Len(a) + Len(b)) /\ ~ (i + 1 <= Len(a)) /\ ~ (i <= Len(r))
          /\ (i + 1) - Len(a) = i - Len(r)
      BY <1>1, <1>3, <2>1, <2>4
    <3> QED BY <1>1, <1>2, <1>4, <2>1, <2>4, <3>1
  <2> QED BY <2>2, <2>3, <2>4
<1>7. c = r \o b
  BY <1>2, <1>4, <1>5, <1>6, SeqEqual
<1> QED BY <1>7 DEF c, r

(* Removing from the second of two queues in a row. *)
LEMMA RemoveFromSecond ==
  ASSUME NEW S, NEW a \in Seq(S), NEW b \in Seq(S), NEW k \in 1..Len(b)
  PROVE  RemoveAt(a \o b, Len(a) + k) = a \o RemoveAt(b, k)
<1>1. /\ k \in Nat /\ Len(a) \in Nat /\ Len(b) \in Nat /\ a \o b \in Seq(S)
      /\ Len(a \o b) = Len(a) + Len(b)
      /\ \A i \in 1..(Len(a) + Len(b)) :
            (a \o b)[i] = IF i <= Len(a) THEN a[i] ELSE b[i - Len(a)]
  BY LenProperties, ConcatProperties
<1> DEFINE m == Len(a) + k
           c == RemoveAt(a \o b, m)
           r == RemoveAt(b, k)
<1>2. m \in 1..Len(a \o b) /\ m \in Nat
  BY <1>1
<1>3. /\ c \in Seq(S) /\ Len(c) = Len(a) + Len(b) - 1
      /\ \A i \in 1..(Len(a) + Len(b) - 1) :
            c[i] = IF i < m THEN (a \o b)[i] ELSE (a \o b)[i + 1]
  <2> DEFINE u == a \o b
  <2>1. u \in Seq(S) /\ Len(u) = Len(a) + Len(b) /\ m \in 1..Len(u)
    BY <1>1, <1>2
  <2> HIDE DEF u, m
  <2>2. /\ RemoveAt(u, m) \in Seq(S) /\ Len(RemoveAt(u, m)) = Len(u) - 1
        /\ \A i \in 1..(Len(u) - 1) : RemoveAt(u, m)[i] = IF i < m THEN u[i] ELSE u[i + 1]
    BY <2>1, RemoveAtShifts
  <2> QED BY <2>1, <2>2 DEF u
<1>4. /\ r \in Seq(S) /\ Len(r) = Len(b) - 1
      /\ \A i \in 1..(Len(b) - 1) : r[i] = IF i < k THEN b[i] ELSE b[i + 1]
  BY RemoveAtShifts
<1> HIDE DEF c, r
<1>5. /\ a \o r \in Seq(S) /\ Len(a \o r) = Len(a) + Len(r)
      /\ \A i \in 1..(Len(a) + Len(r)) :
            (a \o r)[i] = IF i <= Len(a) THEN a[i] ELSE r[i - Len(a)]
  BY <1>4, ConcatProperties
<1>6. Len(c) = Len(a \o r)
  BY <1>1, <1>3, <1>4, <1>5
<1>7. ASSUME NEW i \in 1..Len(c) PROVE c[i] = (a \o r)[i]
  <2>1. i \in 1..(Len(a) + Len(b) - 1) /\ i \in 1..(Len(a) + Len(r)) /\ i \in Nat /\ i >= 1
    BY <1>1, <1>3, <1>4
  <2>2. CASE i <= Len(a)
    <3>1. i \in 1..(Len(a) + Len(b)) /\ i < m
      BY <1>1, <2>1, <2>2
    <3> QED BY <1>1, <1>3, <1>5, <2>1, <2>2, <3>1
  <2>3. CASE ~ (i <= Len(a)) /\ i < m
    <3>1. /\ i \in 1..(Len(a) + Len(b)) /\ i - Len(a) \in 1..(Len(b) - 1) /\ i - Len(a) < k
      BY <1>1, <2>1, <2>3
    <3> QED BY <1>1, <1>3, <1>4, <1>5, <2>1, <2>3, <3>1
  <2>4. CASE ~ (i <= Len(a)) /\ ~ (i < m)
    <3>1. /\ i + 1 \in 1..(Len(a) + Len(b)) /\ i - Len(a) \in 1..(Len(b) - 1)
          /\ ~ (i - Len(a) < k) /\ (i + 1) - Len(a) = (i - Len(a)) + 1
          /\ ~ (i + 1 <= Len(a))
      BY <1>1, <2>1, <2>4
    <3> HIDE DEF m
    <3> QED BY <1>1, <1>3, <1>4, <1>5, <2>1, <2>4, <3>1
  <2> QED BY <2>2, <2>3, <2>4
<1>8. c = a \o r
  BY <1>3, <1>5, <1>6, <1>7, SeqEqual
<1> QED BY <1>8 DEF c, r
=============================================================================
