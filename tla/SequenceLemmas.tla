-------------------------- MODULE SequenceLemmas ---------------------------
(***************************************************************************)
(* What the sequence operators of the community modules return, in the     *)
(* elementwise form the proofs of this project use.                        *)
(***************************************************************************)
EXTENDS Integers, Sequences, SequencesExt, Sorted, SequenceTheorems, FiniteSetTheorems,
        WellFoundedInduction, TLAPS

\* A set of naturals has a least element, which Min returns.
LEMMA MinOfNaturals ==
    ASSUME NEW I \in SUBSET Nat, I # {}
    PROVE  Min(I) \in I /\ \A j \in I : Min(I) <= j
<1>1. PICK x \in I : \A y \in I : ~(<<y, x>> \in OpToRel(<, Nat))
  BY NatLessThanWellFounded, WFMin
<1>2. \A y \in I : x <= y
  <2>. SUFFICES ASSUME NEW y \in I, y < x PROVE FALSE
    OBVIOUS
  <2>1. <<y, x>> \in Nat \X Nat /\ <<y, x>>[1] < <<y, x>>[2]
    OBVIOUS
  <2>2. <<y, x>> \in OpToRel(<, Nat)
    BY ONLY <2>1, ZenonT(30) DEF OpToRel
  <2>. QED  BY <1>1, <2>2
<1>. QED  BY <1>1, <1>2 DEF Min

\* What holds at the start and is kept by each step holds at the end: where it does
\* not hold there is a least place, and it is neither the start nor after it.
LEMMA Upwards ==
    ASSUME NEW a \in Nat, NEW b \in Nat, NEW S, a <= b, a \in S,
           \A n \in Nat : a <= n /\ n < b /\ n \in S => n + 1 \in S
    PROVE  b \in S
<1>. DEFINE out == {n \in Nat : a <= n /\ n <= b /\ n \notin S}
            m == Min(out)
<1>. SUFFICES ASSUME out # {} PROVE FALSE
  OBVIOUS
<1>1. m \in out /\ \A n \in out : m <= n
  <2>1. out \in SUBSET Nat
    OBVIOUS
  <2>. HIDE DEF out
  <2>. QED  BY ONLY <2>1, out # {}, MinOfNaturals
<1>. HIDE DEF m
<1>2. m \in Nat /\ a < m /\ m <= b /\ m \notin S
  BY <1>1
<1>3. m - 1 \in Nat /\ a <= m - 1 /\ m - 1 < b /\ m - 1 + 1 = m
  BY <1>2
<1>4. m - 1 \notin out
  BY <1>1, <1>2, <1>3
<1>5. m - 1 \in S
  BY <1>2, <1>3, <1>4
<1>. QED  BY <1>2, <1>3, <1>5

\* InsertAt shifts the elements from the insertion point on.
LEMMA InsertAtElements ==
    ASSUME NEW S, NEW q \in Seq(S), NEW pos \in 1..Len(q) + 1, NEW e \in S
    PROVE  LET r == InsertAt(q, pos, e)
           IN  /\ r \in Seq(S)
               /\ Len(r) = Len(q) + 1
               /\ r[pos] = e
               /\ \A i \in 1..pos - 1 : r[i] = q[i]
               /\ \A i \in pos + 1..Len(q) + 1 : r[i] = q[i - 1]
<1>. DEFINE a == SubSeq(q, 1, pos - 1)
            b == SubSeq(q, pos, Len(q))
<1>1. /\ a \in Seq(S) /\ Len(a) = pos - 1
      /\ \A i \in 1..pos - 1 : a[i] = q[i]
  BY SubSeqProperties
<1>2. /\ b \in Seq(S) /\ Len(b) = Len(q) - pos + 1
      /\ \A i \in 1..Len(q) - pos + 1 : b[i] = q[pos + i - 1]
  BY SubSeqProperties
<1>3. InsertAt(q, pos, e) = (a \o <<e>>) \o b
  BY DEF InsertAt
<1>. HIDE DEF a, b
<1>4. <<e>> \in Seq(S) /\ Len(<<e>>) = 1 /\ <<e>>[1] = e
  OBVIOUS
<1>5. /\ a \o <<e>> \in Seq(S) /\ Len(a \o <<e>>) = pos
      /\ \A i \in 1..pos : (a \o <<e>>)[i] = IF i < pos THEN q[i] ELSE e
  BY <1>1, <1>4, ConcatProperties
<1>. DEFINE ae == a \o <<e>>
<1>0. ae \in Seq(S) /\ b \in Seq(S)
  BY <1>2, <1>5
<1>. HIDE DEF ae
<1>6. /\ ae \o b \in Seq(S)
      /\ Len(ae \o b) = Len(ae) + Len(b)
      /\ \A i \in 1..Len(ae) + Len(b) :
            (ae \o b)[i] = IF i <= Len(ae) THEN ae[i] ELSE b[i - Len(ae)]
  BY ONLY <1>0, ConcatProperties
<1>7. Len(ae) = pos /\ Len(b) = Len(q) - pos + 1 /\ Len(q) \in Nat
  BY <1>2, <1>5 DEF ae
<1>8. /\ Len(ae \o b) = Len(q) + 1
      /\ \A i \in 1..Len(q) + 1 :
            (ae \o b)[i] = IF i <= pos THEN ae[i] ELSE b[i - pos]
  BY <1>6, <1>7
<1>9. \A i \in 1..pos : ae[i] = IF i < pos THEN q[i] ELSE e
  BY <1>5 DEF ae
<1>10. InsertAt(q, pos, e) = ae \o b
  BY <1>3 DEF ae
<1>. DEFINE r == ae \o b
<1>11. r[pos] = e /\ \A i \in 1..pos - 1 : r[i] = q[i]
  BY <1>7, <1>8, <1>9
<1>12. ASSUME NEW i \in pos + 1..Len(q) + 1
       PROVE  r[i] = q[i - 1]
  <2>1. r[i] = b[i - pos] /\ i - pos \in 1..Len(q) - pos + 1
    BY <1>7, <1>8
  <2>. QED  BY <1>2, <2>1
<1>. QED  BY <1>6, <1>8, <1>10, <1>11, <1>12

\* RemoveAt closes the gap.
LEMMA RemoveAtElements ==
    ASSUME NEW S, NEW q \in Seq(S), NEW pos \in 1..Len(q)
    PROVE  LET r == RemoveAt(q, pos)
           IN  /\ r \in Seq(S)
               /\ Len(r) = Len(q) - 1
               /\ \A i \in 1..pos - 1 : r[i] = q[i]
               /\ \A i \in pos..Len(q) - 1 : r[i] = q[i + 1]
<1>. DEFINE a == SubSeq(q, 1, pos - 1)
            b == SubSeq(q, pos + 1, Len(q))
<1>1. /\ a \in Seq(S) /\ Len(a) = pos - 1
      /\ \A i \in 1..pos - 1 : a[i] = q[i]
  BY SubSeqProperties
<1>2. /\ b \in Seq(S) /\ Len(b) = Len(q) - pos
      /\ \A i \in 1..Len(q) - pos : b[i] = q[pos + i]
  BY SubSeqProperties
<1>3. RemoveAt(q, pos) = a \o b
  BY DEF RemoveAt
<1>. HIDE DEF a, b
<1>. DEFINE r == a \o b
<1>4. /\ r \in Seq(S)
      /\ Len(r) = Len(a) + Len(b)
      /\ \A i \in 1..Len(a) + Len(b) :
            r[i] = IF i <= Len(a) THEN a[i] ELSE b[i - Len(a)]
  BY <1>1, <1>2, ConcatProperties
<1>. HIDE DEF r
<1>5. Len(r) = Len(q) - 1
  BY <1>1, <1>2, <1>4
<1>6. ASSUME NEW i \in 1..pos - 1
      PROVE  r[i] = q[i]
  BY <1>1, <1>2, <1>4
<1>7. ASSUME NEW i \in pos..Len(q) - 1
      PROVE  r[i] = q[i + 1]
  <2>0. /\ pos \in Nat /\ Len(q) \in Nat /\ i \in Nat
        /\ i \in 1..(pos - 1) + (Len(q) - pos)
        /\ ~(i <= pos - 1)
        /\ i - (pos - 1) \in 1..Len(q) - pos
    OBVIOUS
  <2>1. r[i] = b[i - (pos - 1)] /\ i - (pos - 1) \in 1..Len(q) - pos
    BY ONLY <1>1, <1>2, <1>4, <2>0
  <2>2. pos + (i - (pos - 1)) = i + 1
    OBVIOUS
  <2>3. b[i - (pos - 1)] = q[pos + (i - (pos - 1))]
    BY <1>2, <2>1
  <2>. QED  BY <2>1, <2>2, <2>3
<1>. QED  BY <1>3, <1>4, <1>5, <1>6, <1>7 DEF r

\* Front drops the last element.
LEMMA FrontElements ==
    ASSUME NEW S, NEW q \in Seq(S), q # <<>>
    PROVE  /\ Front(q) \in Seq(S)
           /\ Len(Front(q)) = Len(q) - 1
           /\ \A i \in 1..Len(q) - 1 : Front(q)[i] = q[i]
           /\ Last(q) \in S /\ Last(q) = q[Len(q)]
           /\ Len(q) \in DOMAIN q
<1>1. Len(q) \in Nat /\ Len(q) >= 1
  BY EmptySeq
<1>2. \A i \in 1..Len(q) - 1 : q[i] \in S
  OBVIOUS
<1>. DEFINE n == Len(q) - 1
            r == SubSeq(q, 1, n)
<1>3. n \in Nat /\ Len(q) = n + 1
  BY <1>1
<1>4. /\ r \in Seq(S)
      /\ Len(r) = IF 1 <= n THEN n - 1 + 1 ELSE 0
      /\ \A i \in 1..n - 1 + 1 : r[i] = q[1 + i - 1]
  <2>. HIDE DEF n
  <2>1. \A i \in 1..n : q[i] \in S
    BY <1>3
  <2>2. 1 \in Int /\ n \in Int
    BY <1>3
  <2>. QED  BY <2>1, <2>2, SubSeqProperties
<1>5. r = Front(q)
  BY DEF Front
<1>6. Last(q) \in S /\ Last(q) = q[Len(q)] /\ Len(q) \in DOMAIN q
  BY <1>1 DEF Last
<1>. HIDE DEF r, n
<1>7. Len(r) = n
  BY <1>3, <1>4
<1>8. ASSUME NEW i \in 1..n
      PROVE  r[i] = q[i]
  <2>1. i \in 1..n - 1 + 1 /\ 1 + i - 1 = i
    BY <1>3
  <2>2. r[i] = q[1 + i - 1]
    BY <1>4, <2>1
  <2>. QED  BY <2>1, <2>2
<1>. QED  BY <1>4, <1>5, <1>6, <1>7, <1>8 DEF n
\* Ascending lists the numbers of a finite set, each at one position.
LEMMA AscendingElements ==
    ASSUME NEW S \in SUBSET Int, IsFiniteSet(S)
    PROVE  /\ Cardinality(S) \in Nat
           /\ Ascending(S) \in Seq(S)
           /\ Len(Ascending(S)) = Cardinality(S)
           /\ \A x \in S : \E i \in 1..Cardinality(S) : Ascending(S)[i] = x
           /\ \A i \in 1..Cardinality(S) : Ascending(S)[i] \in S
<1>. DEFINE n == Cardinality(S)
            rank == [x \in S |-> Cardinality(UpTo(S, x))]
<1>1. n \in Nat
  BY FS_CardinalityType
<1>2. \A x \in S : /\ IsFiniteSet(UpTo(S, x))
                   /\ Cardinality(UpTo(S, x)) \in 1..n
  <2>. SUFFICES ASSUME NEW x \in S
                PROVE IsFiniteSet(UpTo(S, x)) /\ Cardinality(UpTo(S, x)) \in 1..n
    OBVIOUS
  <2>1. UpTo(S, x) \in SUBSET S /\ UpTo(S, x) # {}
    BY DEF UpTo
  <2>2. IsFiniteSet(UpTo(S, x)) /\ Cardinality(UpTo(S, x)) <= n
    BY <2>1, FS_Subset
  <2>3. Cardinality(UpTo(S, x)) \in Nat /\ Cardinality(UpTo(S, x)) # 0
    BY <2>1, <2>2, FS_CardinalityType, FS_EmptySet
  <2>. QED  BY <1>1, <2>2, <2>3
<1>3. ASSUME NEW x \in S, NEW y \in S, x < y
      PROVE  rank[x] # rank[y]
  <2>1. UpTo(S, x) \in SUBSET UpTo(S, y) /\ y \in UpTo(S, y) /\ y \notin UpTo(S, x)
    <3>1. x \in Int /\ y \in Int /\ \A z \in S : z \in Int
      OBVIOUS
    <3>2. \A z \in S : z <= x => z <= y
      BY <1>3, <3>1
    <3>3. y <= y /\ ~(y <= x)
      BY <1>3, <3>1
    <3>. QED  BY <3>2, <3>3 DEF UpTo
  <2>2. IsFiniteSet(UpTo(S, y))
    BY <1>2
  <2>3. Cardinality(UpTo(S, x)) # Cardinality(UpTo(S, y))
    BY <2>1, <2>2, FS_Subset
  <2>. QED  BY <2>3
<1>4. rank \in Injection(S, 1..n)
  <2>1. rank \in [S -> 1..n]
    BY <1>2
  <2>2. ASSUME NEW x \in S, NEW y \in S, rank[x] = rank[y]
        PROVE  x = y
    <3>. HIDE DEF rank
    <3>1. ~(x < y) /\ ~(y < x)
      BY <1>3, <2>2
    <3>. QED  BY <3>1
  <2>. HIDE DEF rank
  <2>3. DOMAIN rank = S
    BY <2>1
  <2>. QED  BY <2>1, <2>2, <2>3 DEF Injection, IsInjective
<1>5. rank \in Surjection(S, 1..n)
  <2>. HIDE DEF rank
  <2>1. IsFiniteSet(1..n) /\ Cardinality(1..n) = n
    BY <1>1, FS_Interval
  <2>. QED  BY <1>4, <2>1, FS_Injection
<1>6. \A i \in 1..n : \E x \in S : Cardinality(UpTo(S, x)) = i
  BY <1>5 DEF Surjection
<1>7. \A i \in 1..n : Ascending(S)[i] \in S /\ Cardinality(UpTo(S, Ascending(S)[i])) = i
  BY <1>6 DEF Ascending
<1>8. Ascending(S) \in Seq(S) /\ Len(Ascending(S)) = n
  <2>1. Ascending(S) \in [1..n -> S]
    BY <1>7 DEF Ascending
  <2>. QED  BY <1>1, <2>1
<1>9. ASSUME NEW x \in S
      PROVE  \E i \in 1..n : Ascending(S)[i] = x
  <2>. DEFINE i == rank[x]
  <2>1. i \in 1..n
    BY <1>2
  <2>2. Ascending(S)[i] \in S /\ rank[Ascending(S)[i]] = rank[x]
    BY <1>7, <2>1
  <2>3. Ascending(S)[i] = x
    <3>. HIDE DEF rank
    <3>. QED  BY <2>2, <1>4 DEF Injection, IsInjective
  <2>. QED  BY <2>1, <2>3
<1>. QED  BY <1>1, <1>7, <1>8, <1>9
\* A sequence is appended to.
LEMMA AppendElements ==
    ASSUME NEW S, NEW s \in Seq(S), NEW e \in S
    PROVE  /\ Append(s, e) \in Seq(S) /\ Append(s, e) # <<>>
           /\ Len(Append(s, e)) = Len(s) + 1 /\ Len(s) \in Nat
           /\ ToSet(Append(s, e)) = ToSet(s) \cup {e}
<1>. DEFINE r == Append(s, e)
<1>1. /\ r \in Seq(S) /\ Len(r) = Len(s) + 1 /\ Len(s) \in Nat
      /\ r[Len(s) + 1] = e
      /\ \A i \in 1..Len(s) : r[i] = s[i]
  OBVIOUS
<1>. HIDE DEF r
<1>2. DOMAIN s = 1..Len(s) /\ DOMAIN r = 1..Len(s) + 1
  BY <1>1
<1>3. DOMAIN r = DOMAIN s \cup {Len(s) + 1} /\ \A i \in DOMAIN s : r[i] = s[i]
  BY <1>1, <1>2
<1>4. ToSet(r) = ToSet(s) \cup {e}
  BY <1>1, <1>3 DEF ToSet
<1>. QED  BY <1>1, <1>2, <1>4 DEF r

\* The first element is taken off a sequence.
LEMMA TailElements ==
    ASSUME NEW S, NEW s \in Seq(S), s # <<>>
    PROVE  /\ Head(s) \in S /\ Tail(s) \in Seq(S)
           /\ Len(Tail(s)) = Len(s) - 1 /\ Len(s) \in Nat /\ Len(s) >= 1
           /\ ToSet(s) = {Head(s)} \cup ToSet(Tail(s))
<1>. DEFINE r == Tail(s)
<1>1. Len(s) \in Nat /\ Len(s) >= 1 /\ Head(s) = s[1] /\ s[1] \in S
  BY EmptySeq
<1>2. /\ r \in Seq(S) /\ Len(r) = Len(s) - 1
      /\ \A i \in 1..Len(s) - 1 : r[i] = s[i + 1]
  BY <1>1
<1>. HIDE DEF r
<1>3. DOMAIN s = 1..Len(s) /\ DOMAIN r = 1..Len(s) - 1
  BY <1>1, <1>2
<1>4. \A i \in DOMAIN s : i = 1 \/ (i - 1 \in DOMAIN r /\ r[i - 1] = s[i])
  <2>. SUFFICES ASSUME NEW i \in DOMAIN s, i # 1
                PROVE  i - 1 \in DOMAIN r /\ r[i - 1] = s[i]
    OBVIOUS
  <2>1. i - 1 \in 1..Len(s) - 1 /\ (i - 1) + 1 = i
    BY <1>1, <1>3
  <2>2. r[i - 1] = s[(i - 1) + 1]
    BY <1>2, <2>1
  <2>. QED  BY <1>3, <2>1, <2>2
<1>5. \A i \in DOMAIN r : i + 1 \in DOMAIN s /\ r[i] = s[i + 1]
  BY <1>1, <1>2, <1>3
<1>6. 1 \in DOMAIN s
  BY <1>1, <1>3
<1>7. ToSet(s) = {Head(s)} \cup ToSet(r)
  <2>1. ASSUME NEW x \in ToSet(s) PROVE x = s[1] \/ x \in ToSet(r)
    BY <1>4 DEF ToSet
  <2>2. ASSUME NEW x \in ToSet(r) PROVE x \in ToSet(s)
    BY <1>5 DEF ToSet
  <2>3. s[1] \in ToSet(s)
    BY <1>6 DEF ToSet
  <2>. QED  BY <1>1, <2>1, <2>2, <2>3
<1>. QED  BY <1>1, <1>2, <1>7 DEF r

----------------------------------------------------------------------------
(* Numbers, and what is computed from one number to the next.             *)

\* A bounded set of naturals has a greatest element, which Max returns.
LEMMA MaxOfNaturals ==
    ASSUME NEW I \in SUBSET Nat, I # {}, NEW top \in Nat, \A i \in I : i <= top
    PROVE  Max(I) \in I /\ \A j \in I : j <= Max(I)
<1>. DEFINE J == {top - i : i \in I}
            d == Min(J)
<1>1. J \in SUBSET Nat /\ J # {}
  <2>1. \A i \in I : top - i \in Nat
    OBVIOUS
  <2>2. PICK i \in I : TRUE
    OBVIOUS
  <2>3. top - i \in J
    OBVIOUS
  <2>. QED  BY <2>1, <2>3
<1>2. d \in J /\ \A e \in J : d <= e
  <2>. HIDE DEF J
  <2>. QED  BY <1>1, MinOfNaturals
<1>3. PICK x \in I : d = top - x
  BY <1>2
<1>4. \A j \in I : x >= j
  <2>. TAKE j \in I
  <2>1. top - j \in J
    OBVIOUS
  <2>2. top - x <= top - j
    BY <1>2, <1>3, <2>1
  <2>3. x \in Nat /\ j \in Nat
    OBVIOUS
  <2>. QED  BY ONLY <2>2, <2>3, top \in Nat
<1>5. Max(I) \in I /\ \A j \in I : Max(I) >= j
  BY <1>4, Zenon DEF Max
<1>6. Max(I) \in Nat
  BY <1>5
<1>. QED  BY <1>5, <1>6

\* Division rounds down.
LEMMA DivIs ==
    ASSUME NEW n \in Nat, NEW d \in Nat \ {0}
    PROVE  n \div d \in Nat /\ (n \div d) * d <= n /\ n < (n \div d) * d + d
<1>1. n = d * (n \div d) + (n % d) /\ n % d \in 0..d - 1 /\ n \div d \in Int
  BY Z3
<1>. DEFINE q == n \div d
            m == n % d
<1>2. n = d * q + m /\ m \in Nat /\ m < d /\ q \in Int
  BY <1>1
<1>. HIDE DEF q, m
<1>3. q >= 0
  <2>. SUFFICES ASSUME q <= -1 PROVE FALSE
    BY <1>2
  <2>1. d * q <= d * (-1)
    BY <1>2, Z3
  <2>. QED  BY <1>2, <2>1
<1>4. q * d = d * q
  BY <1>2
<1>5. q \in Nat /\ q * d <= n /\ n < q * d + d
  BY <1>2, <1>3, <1>4, Z3
<1>. QED  BY <1>5 DEF q

LEMMA DivAtLeast ==
    ASSUME NEW n \in Nat, NEW d \in Nat \ {0}, NEW p \in Nat, p * d <= n
    PROVE  p <= n \div d
<1>. DEFINE q == n \div d
<1>1. q \in Nat /\ n < q * d + d
  BY DivIs
<1>. HIDE DEF q
<1>2. ~(q + 1 <= p)
  <2>. SUFFICES ASSUME q + 1 <= p PROVE FALSE
    OBVIOUS
  <2>1. (q + 1) * d <= p * d
    BY <1>1, Z3
  <2>2. (q + 1) * d = q * d + d
    BY <1>1, Z3
  <2>3. q * d \in Nat /\ p * d \in Nat
    BY <1>1
  <2>. HIDE DEF q
  <2>. QED  BY <1>1, <2>1, <2>2, <2>3
<1>3. p <= q
  BY <1>1, <1>2
<1>. QED  BY <1>3 DEF q

LEMMA DivAtMost ==
    ASSUME NEW n \in Nat, NEW d \in Nat \ {0}, NEW p \in Nat, n <= p * d
    PROVE  n \div d <= p
<1>. DEFINE q == n \div d
<1>1. q \in Nat /\ q * d <= n
  BY DivIs
<1>. HIDE DEF q
<1>2. ~(p + 1 <= q)
  <2>. SUFFICES ASSUME p + 1 <= q PROVE FALSE
    OBVIOUS
  <2>1. (p + 1) * d <= q * d
    BY <1>1, Z3
  <2>2. (p + 1) * d = p * d + d
    BY Z3
  <2>3. q * d \in Nat /\ p * d \in Nat
    BY <1>1
  <2>. QED  BY <1>1, <2>1, <2>2, <2>3
<1>3. q <= p
  BY <1>1, <1>2
<1>. QED  BY <1>3 DEF q

Iterates(f, F, s0, a, n) == f[a] = s0 /\ \A k \in a + 1..n : f[k] = F[k][f[k - 1]]

\* What is defined from one number to the next is defined.
LEMMA Iterated ==
    ASSUME NEW S, NEW s0 \in S, NEW F \in [Nat -> [S -> S]], NEW a \in Nat, NEW n \in Nat, a <= n
    PROVE  \E f \in [a..n -> S] : Iterates(f, F, s0, a, n)
<1>. DEFINE Up(f, m) == f[a] = s0 /\ \A k \in a + 1..m : f[k] = F[k][f[k - 1]]
            N == {m \in Nat : \E f \in [a..m -> S] : Up(f, m)}
<1>1. a \in N
  <2>. DEFINE f == [k \in a..a |-> s0]
  <2>1. f \in [a..a -> S] /\ f[a] = s0 /\ a + 1..a = {}
    OBVIOUS
  <2>2. Up(f, a)
    BY <2>1
  <2>. QED  BY <2>1, <2>2
<1>2. ASSUME NEW m \in Nat, a <= m, m < n, m \in N
      PROVE  m + 1 \in N
  <2>1. PICK f \in [a..m -> S] : Up(f, m)
    BY <1>2
  <2>. DEFINE g == [k \in a..m + 1 |-> IF k = m + 1 THEN F[m + 1][f[m]] ELSE f[k]]
  <2>2. F[m + 1] \in [S -> S] /\ f[m] \in S
    BY <1>2
  <2>3. g \in [a..m + 1 -> S]
    BY <2>2
  <2>4. g[a] = s0
    BY <1>2, <2>1
  <2>5. ASSUME NEW k \in a + 1..m + 1 PROVE g[k] = F[k][g[k - 1]]
    <3>1. k - 1 \in a..m /\ k - 1 \in a..m + 1 /\ k \in a..m + 1 /\ k - 1 # m + 1
      BY <1>2
    <3>2. g[k - 1] = f[k - 1]
      BY <3>1
    <3>3. CASE k = m + 1
      <4>1. k - 1 = m
        BY <3>3
      <4>. QED  BY <3>1, <3>2, <3>3, <4>1
    <3>4. CASE k # m + 1
      <4>1. k \in a + 1..m
        BY <3>4, <1>2
      <4>2. f[k] = F[k][f[k - 1]]
        BY <2>1, <4>1
      <4>3. g[k] = f[k]
        BY <3>1, <3>4
      <4>. QED  BY <3>2, <4>2, <4>3, Zenon
    <3>. QED  BY <3>3, <3>4
  <2>. HIDE DEF g
  <2>6. Up(g, m + 1)
    BY <2>4, <2>5
  <2>. QED  BY <2>3, <2>6
<1>3. n \in N
  <2>. HIDE DEF N
  <2>. QED  BY <1>1, <1>2, Upwards
<1>. QED  BY <1>3 DEF Iterates
=============================================================================
