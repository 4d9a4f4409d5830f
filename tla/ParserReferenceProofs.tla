------------------------ MODULE ParserReferenceProofs ------------------------
(***************************************************************************)
(* Lemmas about the operators of ParserReference: the lexicographic order *)
(* of positions, the listing InLexOrder, the ordered Concatenation, and   *)
(* their relation to StateUpdate's merge_updates.  InLexOrder is defined  *)
(* by counting predecessors; these lemmas turn it into the strictly       *)
(* increasing enumeration of a finite set of positions, which is what the *)
(* scanner's loops produce.                                               *)
(***************************************************************************)
EXTENDS ParserReference, NaturalsInduction, WellFoundedInduction,
        SequenceTheorems, FiniteSetTheorems, TLAPS

\* Positions are pairs of integers.
PosT == Int \X Int

\* The members of S that come before p.
Preceding(S, p) == {u \in S : LexBefore(u, p)}

\* f lists the set S in strictly increasing order at 1..n.
IncreasingOnto(f, n, S) ==
    /\ f \in [1..n -> S]
    /\ \A q \in S : \E i \in 1..n : f[i] = q
    /\ \A i, j \in 1..n : i < j => LexBefore(f[i], f[j])

\* The positions <<i, j>> of the first k sequences of ss, as the set that
\* Concatenation lists.
PairsUpTo(ss, k) == UNION {{<<i, j>> : j \in 1 .. Len(ss[i])} : i \in 1 .. k}

\* The first k sequences of ss.
Prefix(ss, k) == [i \in 1 .. k |-> ss[i]]

\* The listing e of m positions followed by the L positions of sequence k.
AppendPositions(e, m, k, L) ==
    [r \in 1 .. m + L |-> IF r <= m THEN e[r] ELSE <<k, r - m>>]

-----------------------------------------------------------------------------
(* LexBefore is a strict total order on positions.                           *)

LEMMA LexOrder ==
    ASSUME NEW p \in PosT, NEW q \in PosT, NEW r \in PosT
    PROVE  /\ ~LexBefore(p, p)
           /\ LexBefore(p, q) => ~LexBefore(q, p)
           /\ LexBefore(p, q) /\ LexBefore(q, r) => LexBefore(p, r)
           /\ LexBefore(p, q) \/ p = q \/ LexBefore(q, p)
<1>1. p = <<p[1], p[2]>> /\ q = <<q[1], q[2]>>
      /\ p[1] \in Int /\ p[2] \in Int /\ q[1] \in Int /\ q[2] \in Int
      /\ r[1] \in Int /\ r[2] \in Int
      BY DEF PosT
<1> QED
    BY <1>1 DEF LexBefore

\* Fewer members of a finite set precede an earlier position.
LEMMA PrecedingMono ==
    ASSUME NEW S \in SUBSET PosT, IsFiniteSet(S),
           NEW p \in S, NEW q \in S, LexBefore(p, q)
    PROVE  Cardinality(Preceding(S, p)) < Cardinality(Preceding(S, q))
<1>1. Preceding(S, p) \cup {p} \subseteq Preceding(S, q)
      BY LexOrder DEF Preceding
<1>2. p \notin Preceding(S, p)
      BY LexOrder DEF Preceding
<1>3. IsFiniteSet(Preceding(S, q)) /\ Preceding(S, q) \subseteq S
      BY FS_Subset DEF Preceding
<1>4. IsFiniteSet(Preceding(S, p))
      BY FS_Subset DEF Preceding
<1>5. Cardinality(Preceding(S, p) \cup {p}) = Cardinality(Preceding(S, p)) + 1
      BY <1>2, <1>4, FS_AddElement
<1>6. Cardinality(Preceding(S, p) \cup {p}) <= Cardinality(Preceding(S, q))
      BY <1>1, <1>3, FS_Subset
<1>7. Cardinality(Preceding(S, p)) \in Nat
      BY <1>4, FS_CardinalityType
<1>8. Cardinality(Preceding(S, q)) \in Nat
      BY <1>3, FS_CardinalityType
<1> QED
    BY <1>5, <1>6, <1>7, <1>8

\* Hence the number of predecessors identifies a member.
LEMMA PrecedingInjective ==
    ASSUME NEW S \in SUBSET PosT, IsFiniteSet(S), NEW p \in S, NEW q \in S,
           Cardinality(Preceding(S, p)) = Cardinality(Preceding(S, q))
    PROVE  p = q
<1>1. Cardinality(Preceding(S, p)) \in Nat /\ Cardinality(Preceding(S, q)) \in Nat
      BY FS_Subset, FS_CardinalityType DEF Preceding
<1>2. ~LexBefore(p, q)
      <2> SUFFICES ASSUME LexBefore(p, q) PROVE FALSE
          OBVIOUS
      <2>1. Cardinality(Preceding(S, p)) < Cardinality(Preceding(S, q))
            BY PrecedingMono
      <2> QED
          BY <1>1, <2>1
<1>3. ~LexBefore(q, p)
      <2> SUFFICES ASSUME LexBefore(q, p) PROVE FALSE
          OBVIOUS
      <2>1. Cardinality(Preceding(S, q)) < Cardinality(Preceding(S, p))
            BY PrecedingMono
      <2> QED
          BY <1>1, <2>1
<1> QED
    BY <1>2, <1>3, LexOrder

\* A member has between 0 and Cardinality(S) - 1 predecessors.
LEMMA PrecedingBound ==
    ASSUME NEW S \in SUBSET PosT, IsFiniteSet(S), NEW p \in S
    PROVE  /\ IsFiniteSet(Preceding(S, p))
           /\ Cardinality(Preceding(S, p)) \in 0 .. Cardinality(S) - 1
<1>1. Preceding(S, p) \subseteq S \ {p}
      BY LexOrder DEF Preceding
<1>2. IsFiniteSet(S \ {p}) /\ Cardinality(S \ {p}) = Cardinality(S) - 1
      BY FS_RemoveElement
<1>3. IsFiniteSet(Preceding(S, p))
      /\ Cardinality(Preceding(S, p)) <= Cardinality(S) - 1
      BY <1>1, <1>2, FS_Subset
<1> QED
    BY <1>3, FS_CardinalityType

\* The member with r - 1 predecessors is the r-th one InLexOrder lists.
LEMMA InLexOrderAt ==
    ASSUME NEW S \in SUBSET PosT, IsFiniteSet(S), NEW p \in S,
           NEW r \in 1 .. Cardinality(S),
           Cardinality(Preceding(S, p)) = r - 1
    PROVE  InLexOrder(S)[r] = p
<1>1. \A u \in S : Cardinality(Preceding(S, u)) = r - 1 => u = p
      BY PrecedingInjective
<1>2. (CHOOSE u \in S : Cardinality({q \in S : LexBefore(q, u)}) = r - 1) = p
      BY <1>1 DEF Preceding
<1> QED
    BY <1>2 DEF InLexOrder

(***************************************************************************)
(* InLexOrder lists a finite set of positions in increasing order, the    *)
(* r-th member having r - 1 predecessors.  Counting predecessors maps S  *)
(* one-to-one into 1..Cardinality(S), so onto it: every rank is taken.   *)
(***************************************************************************)
LEMMA InLexOrderEnumerates ==
    ASSUME NEW S \in SUBSET PosT, IsFiniteSet(S)
    PROVE  /\ IncreasingOnto(InLexOrder(S), Cardinality(S), S)
           /\ \A r \in 1 .. Cardinality(S) :
                  Cardinality(Preceding(S, InLexOrder(S)[r])) = r - 1
<1> DEFINE n == Cardinality(S)
           c == [p \in S |-> Cardinality(Preceding(S, p)) + 1]
<1>1. n \in Nat
      BY FS_CardinalityType DEF n
<1>0. \A p \in S : Cardinality(Preceding(S, p)) \in 0 .. n - 1
      <2> TAKE p \in S
      <2> QED
          BY PrecedingBound DEF n
<1>2. c \in Injection(S, 1 .. n)
      <2>1. c \in [S -> 1 .. n]
            BY <1>0, <1>1 DEF c
      <2>2. \A p, q \in S : c[p] = c[q] => p = q
            <3> SUFFICES ASSUME NEW p \in S, NEW q \in S, c[p] = c[q] PROVE p = q
                OBVIOUS
            <3>1. Cardinality(Preceding(S, p)) = Cardinality(Preceding(S, q))
                  BY <1>0, <1>1 DEF c
            <3> QED
                BY <3>1, PrecedingInjective
      <2> QED
          BY <2>1, <2>2 DEF Injection, IsInjective
<1>3. c \in Surjection(S, 1 .. n)
      <2>1. IsFiniteSet(1 .. n) /\ Cardinality(1 .. n) = n
            BY <1>1, FS_Interval DEF n
      <2> QED
          BY <1>2, <2>1, FS_Injection
<1>4. ASSUME NEW r \in 1 .. n
      PROVE  /\ InLexOrder(S)[r] \in S
             /\ Cardinality(Preceding(S, InLexOrder(S)[r])) = r - 1
      <2>1. PICK p \in S : c[p] = r
            BY <1>3 DEF Surjection
      <2>2. Cardinality(Preceding(S, p)) = r - 1
            BY <2>1, PrecedingBound DEF c
      <2>3. InLexOrder(S)[r] = p
            BY <2>2, InLexOrderAt
      <2> QED
          BY <2>2, <2>3
<1>5. InLexOrder(S) \in [1 .. n -> S]
      <2>1. InLexOrder(S) = [r \in 1 .. n |->
                               CHOOSE p \in S :
                                 Cardinality({q \in S : LexBefore(q, p)}) = r - 1]
            BY DEF InLexOrder, n
      <2> QED
          BY <1>4, <2>1, Zenon
<1>6. \A q \in S : \E i \in 1 .. n : InLexOrder(S)[i] = q
      <2> SUFFICES ASSUME NEW q \in S PROVE \E i \in 1 .. n : InLexOrder(S)[i] = q
          OBVIOUS
      <2> DEFINE k == Cardinality(Preceding(S, q)) + 1
      <2>1. k \in 1 .. Cardinality(S) /\ Cardinality(Preceding(S, q)) = k - 1
            BY <1>0, <1>1 DEF n, k
      <2>2. InLexOrder(S)[k] = q
            BY <2>1, InLexOrderAt
      <2> QED
          BY <2>1, <2>2 DEF n
<1>7. \A i, j \in 1 .. n : i < j => LexBefore(InLexOrder(S)[i], InLexOrder(S)[j])
      <2> SUFFICES ASSUME NEW i \in 1 .. n, NEW j \in 1 .. n, i < j
                   PROVE  LexBefore(InLexOrder(S)[i], InLexOrder(S)[j])
          OBVIOUS
      <2> DEFINE a == InLexOrder(S)[i]
                 b == InLexOrder(S)[j]
      <2>1. a \in S /\ b \in S
            /\ Cardinality(Preceding(S, a)) = i - 1
            /\ Cardinality(Preceding(S, b)) = j - 1
            BY <1>4
      <2>2. a # b
            BY <2>1
      <2>3. ~LexBefore(b, a)
            <3> SUFFICES ASSUME LexBefore(b, a) PROVE FALSE
                OBVIOUS
            <3>1. Cardinality(Preceding(S, b)) < Cardinality(Preceding(S, a))
                  BY <2>1, PrecedingMono
            <3> QED
                BY <2>1, <3>1
      <2> QED
          BY <2>1, <2>2, <2>3, LexOrder
<1> QED
    BY <1>4, <1>5, <1>6, <1>7 DEF IncreasingOnto

(***************************************************************************)
(* Conversely, a listing of S in increasing order is InLexOrder(S): its   *)
(* r-th member has exactly the r - 1 earlier members as predecessors.    *)
(***************************************************************************)
LEMMA IncreasingOntoIsInLexOrder ==
    ASSUME NEW S \in SUBSET PosT, NEW n \in Nat, NEW f, IncreasingOnto(f, n, S)
    PROVE  /\ IsFiniteSet(S)
           /\ Cardinality(S) = n
           /\ InLexOrder(S) = f
<1>1. /\ f \in [1 .. n -> S]
      /\ \A q \in S : \E i \in 1 .. n : f[i] = q
      /\ \A i, j \in 1 .. n : i < j => LexBefore(f[i], f[j])
      BY DEF IncreasingOnto
<1>2. \A i, j \in 1 .. n : LexBefore(f[i], f[j]) => i < j
      <2> SUFFICES ASSUME NEW i \in 1 .. n, NEW j \in 1 .. n, LexBefore(f[i], f[j])
                   PROVE  i < j
          OBVIOUS
      <2>1. f[i] \in PosT /\ f[j] \in PosT
            BY <1>1
      <2>2. i # j
            BY <2>1, LexOrder
      <2>3. ~(j < i)
            BY <1>1, <2>1, LexOrder
      <2> QED
          BY <2>2, <2>3
<1>3. \A i, j \in 1 .. n : f[i] = f[j] => i = j
      <2> SUFFICES ASSUME NEW i \in 1 .. n, NEW j \in 1 .. n, f[i] = f[j]
                   PROVE  i = j
          OBVIOUS
      <2>1. f[i] \in PosT
            BY <1>1
      <2>2. ~LexBefore(f[i], f[j])
            BY <2>1, LexOrder
      <2> QED
          BY <1>1, <2>2
<1>4. IsFiniteSet(S) /\ Cardinality(S) = n
      <2>1. f \in Bijection(1 .. n, S)
            BY <1>1, <1>3 DEF Bijection, Injection, Surjection, IsInjective
      <2>2. ExistsBijection(1 .. n, S)
            BY <2>1 DEF ExistsBijection
      <2> QED
          BY <2>2, FS_NatBijection, FS_CountingElements
<1>5. ASSUME NEW r \in 1 .. n
      PROVE  Cardinality(Preceding(S, f[r])) = r - 1
      <2> DEFINE g == [i \in 1 .. r - 1 |-> f[i]]
      <2>1. g \in [1 .. r - 1 -> Preceding(S, f[r])]
            BY <1>1 DEF g, Preceding
      <2>2. \A u \in Preceding(S, f[r]) : \E i \in 1 .. r - 1 : g[i] = u
            <3> SUFFICES ASSUME NEW u \in Preceding(S, f[r])
                         PROVE  \E i \in 1 .. r - 1 : g[i] = u
                OBVIOUS
            <3>1. PICK i \in 1 .. n : f[i] = u
                  BY <1>1 DEF Preceding
            <3>2. i < r
                  BY <1>2, <3>1 DEF Preceding
            <3> QED
                BY <3>1, <3>2 DEF g
      <2>3. \A i, j \in 1 .. r - 1 : g[i] = g[j] => i = j
            <3> SUFFICES ASSUME NEW i \in 1 .. r - 1, NEW j \in 1 .. r - 1, g[i] = g[j]
                         PROVE  i = j
                OBVIOUS
            <3>1. i \in 1 .. n /\ j \in 1 .. n /\ f[i] = f[j]
                  BY DEF g
            <3> QED
                BY <1>3, <3>1
      <2>4. g \in Bijection(1 .. r - 1, Preceding(S, f[r]))
            <3>1. DOMAIN g = 1 .. r - 1
                  BY DEF g
            <3> QED
                BY <2>1, <2>2, <2>3, <3>1, Zenon
                   DEF Bijection, Injection, Surjection, IsInjective
      <2> QED
          BY <2>4, FS_CountingElements DEF ExistsBijection
<1>6. \A r \in 1 .. n : InLexOrder(S)[r] = f[r]
      BY <1>1, <1>4, <1>5, InLexOrderAt
<1>7. InLexOrder(S) = [r \in 1 .. n |->
                         CHOOSE p \in S :
                           Cardinality({q \in S : LexBefore(q, p)}) = r - 1]
      BY <1>4 DEF InLexOrder
<1> QED
    BY <1>1, <1>4, <1>6, <1>7

-----------------------------------------------------------------------------
(* Concatenation.                                                           *)

(***************************************************************************)
(* The positions of sequence k all come after those of the sequences      *)
(* before it: listing the latter, then <<k, 1>>, ..., <<k, Len(ss[k])>>,  *)
(* lists the positions of the first k sequences in increasing order.      *)
(***************************************************************************)
LEMMA AppendPositionsIncreasing ==
    ASSUME NEW X, NEW ss \in Seq(Seq(X)), NEW k \in 1 .. Len(ss),
           NEW e, NEW m \in Nat, IncreasingOnto(e, m, PairsUpTo(ss, k - 1))
    PROVE  IncreasingOnto(AppendPositions(e, m, k, Len(ss[k])), m + Len(ss[k]),
                          PairsUpTo(ss, k))
<1> DEFINE L  == Len(ss[k])
           g  == AppendPositions(e, m, k, L)
           P0 == PairsUpTo(ss, k - 1)
           P1 == PairsUpTo(ss, k)
<1>1. /\ e \in [1 .. m -> P0]
      /\ \A q \in P0 : \E i \in 1 .. m : e[i] = q
      /\ \A i, j \in 1 .. m : i < j => LexBefore(e[i], e[j])
      BY DEF IncreasingOnto, P0
<1>2. \A q \in P1 : q[1] \in 1 .. k /\ q[2] \in 1 .. Len(ss[q[1]])
                    /\ q = <<q[1], q[2]>>
      BY DEF P1, PairsUpTo
<1>3. \A q \in P1 : q[1] < k => q \in P0
      BY DEF P0, P1, PairsUpTo
<1>4. P0 \subseteq P1
      BY DEF P0, P1, PairsUpTo
<1>5. L \in Nat
      OBVIOUS
<1>6. \A r \in 1 .. m + L : r > m => g[r] = <<k, r - m>> /\ g[r] \in P1
      BY DEF g, AppendPositions, P1, PairsUpTo, L
<1>7. \A r \in 1 .. m + L : r <= m => g[r] = e[r]
      BY DEF g, AppendPositions
<1>8. g \in [1 .. m + L -> P1]
      <2>1. g = [r \in 1 .. m + L |-> g[r]]
            BY DEF g, AppendPositions
      <2>2. \A r \in 1 .. m + L : g[r] \in P1
            BY <1>1, <1>4, <1>5, <1>6, <1>7
      <2> QED
          BY <2>1, <2>2
<1>9. \A q \in P1 : \E r \in 1 .. m + L : g[r] = q
      <2> SUFFICES ASSUME NEW q \in P1 PROVE \E r \in 1 .. m + L : g[r] = q
          OBVIOUS
      <2>1. CASE q[1] < k
            <3>1. PICK i \in 1 .. m : e[i] = q
                  BY <1>1, <1>3, <2>1
            <3>2. i \in 1 .. m + L /\ g[i] = e[i]
                  BY <1>5, <1>7
            <3> QED
                BY <3>1, <3>2
      <2>2. CASE q[1] = k
            <3>1. q[2] \in 1 .. L /\ q = <<k, q[2]>>
                  BY <1>2, <2>2
            <3>2. m + q[2] \in 1 .. m + L /\ m + q[2] > m
                  BY <1>5, <3>1
            <3>3. g[m + q[2]] = <<k, (m + q[2]) - m>>
                  BY <1>6, <3>2
            <3>4. (m + q[2]) - m = q[2]
                  BY <1>5, <3>1
            <3> QED
                BY <3>1, <3>2, <3>3, <3>4
      <2> QED
          BY <1>2, <2>1, <2>2
<1>10. \A r, s \in 1 .. m + L : r < s => LexBefore(g[r], g[s])
      <2> SUFFICES ASSUME NEW r \in 1 .. m + L, NEW s \in 1 .. m + L, r < s
                   PROVE  LexBefore(g[r], g[s])
          OBVIOUS
      <2>1. CASE s <= m
            BY <1>1, <1>7, <2>1
      <2>2. CASE r <= m /\ s > m
            <3>1. e[r] \in P0
                  BY <1>1, <2>2
            <3>2. e[r][1] \in 1 .. k - 1
                  <4>1. PICK i \in 1 .. k - 1 :
                               e[r] \in {<<i, j>> : j \in 1 .. Len(ss[i])}
                        BY <3>1, Zenon DEF P0, PairsUpTo
                  <4>2. PICK j \in 1 .. Len(ss[i]) : e[r] = <<i, j>>
                        BY <4>1, Zenon
                  <4> QED
                      BY <4>2
            <3>3. g[r] = e[r] /\ g[s] = <<k, s - m>>
                  BY <1>6, <1>7, <2>2
            <3> QED
                BY <3>2, <3>3 DEF LexBefore
      <2>3. CASE r > m
            BY <1>6, <2>3 DEF LexBefore
      <2> QED
          BY <2>1, <2>2, <2>3
<1> QED
    BY <1>5, <1>8, <1>9, <1>10 DEF IncreasingOnto

(***************************************************************************)
(* The positions of the first k sequences form a finite set: by induction *)
(* on k (a least k without an increasing listing would have one for       *)
(* k - 1, which AppendPositionsIncreasing extends).                        *)
(***************************************************************************)
LEMMA PairsUpToFinite ==
    ASSUME NEW X, NEW ss \in Seq(Seq(X)), NEW k \in 0 .. Len(ss)
    PROVE  /\ PairsUpTo(ss, k) \subseteq PosT
           /\ IsFiniteSet(PairsUpTo(ss, k))
<1> DEFINE Listed(i) == \E e : \E m \in Nat : IncreasingOnto(e, m, PairsUpTo(ss, i))
           Bad == {i \in 0 .. Len(ss) : ~Listed(i)}
<1>1. PairsUpTo(ss, k) \subseteq PosT
      BY DEF PairsUpTo, PosT
<1>2. Bad = {}
      <2> SUFFICES ASSUME Bad # {} PROVE FALSE
          OBVIOUS
      <2>1. Bad \subseteq Nat
            BY DEF Bad
      <2>2. PICK x \in Bad : \A y \in Bad : ~(<<y, x>> \in OpToRel(<, Nat))
            BY <2>1, NatLessThanWellFounded, WFMin, Zenon
      <2>3. x # 0
            <3>1. PairsUpTo(ss, 0) = {}
                  BY DEF PairsUpTo
            <3>2. IncreasingOnto(<<>>, 0, PairsUpTo(ss, 0))
                  BY <3>1 DEF IncreasingOnto
            <3> QED
                BY <3>2 DEF Bad, Listed
      <2>4. x - 1 \in Nat /\ x \in Nat /\ x \in 1 .. Len(ss) /\ x - 1 < x
            BY <2>3 DEF Bad
      <2>5. <<x - 1, x>> \in OpToRel(<, Nat)
            BY <2>4, Zenon DEF OpToRel
      <2>6. x - 1 \notin Bad
            BY <2>2, <2>5, Zenon
      <2>7. PICK e : \E m \in Nat : IncreasingOnto(e, m, PairsUpTo(ss, x - 1))
            BY <2>4, <2>6 DEF Bad, Listed
      <2>8. PICK m \in Nat : IncreasingOnto(e, m, PairsUpTo(ss, x - 1))
            BY <2>7
      <2>9. IncreasingOnto(AppendPositions(e, m, x, Len(ss[x])), m + Len(ss[x]),
                           PairsUpTo(ss, x))
            BY <2>4, <2>8, AppendPositionsIncreasing
      <2>10. m + Len(ss[x]) \in Nat
            BY <2>4
      <2> QED
          BY <2>9, <2>10 DEF Bad, Listed
<1>3. PICK e : \E m \in Nat : IncreasingOnto(e, m, PairsUpTo(ss, k))
      BY <1>2 DEF Bad, Listed
<1>4. PICK m \in Nat : IncreasingOnto(e, m, PairsUpTo(ss, k))
      BY <1>3
<1> QED
    BY <1>1, <1>4, IncreasingOntoIsInLexOrder

\* Membership in PairsUpTo.
LEMMA PairsUpToMember ==
    ASSUME NEW ss, NEW k, NEW q
    PROVE  q \in PairsUpTo(ss, k)
             <=> \E i \in 1 .. k : \E j \in 1 .. Len(ss[i]) : q = <<i, j>>
BY DEF PairsUpTo

\* Concatenation lists the values at the positions of all its sequences.
LEMMA ConcatenationUnfold ==
    ASSUME NEW ss
    PROVE  Concatenation(ss)
             = [r \in DOMAIN InLexOrder(PairsUpTo(ss, Len(ss))) |->
                  ss[InLexOrder(PairsUpTo(ss, Len(ss)))[r][1]]
                    [InLexOrder(PairsUpTo(ss, Len(ss)))[r][2]]]
BY Zenon DEF Concatenation, PairsUpTo

\* Concatenation of the first k sequences, read off the listing of their
\* positions.
LEMMA ConcatenationPrefix ==
    ASSUME NEW X, NEW ss \in Seq(Seq(X)), NEW k \in 0 .. Len(ss)
    PROVE  /\ IncreasingOnto(InLexOrder(PairsUpTo(ss, k)),
                             Cardinality(PairsUpTo(ss, k)), PairsUpTo(ss, k))
           /\ Cardinality(PairsUpTo(ss, k)) \in Nat
           /\ Concatenation(Prefix(ss, k))
                = [r \in 1 .. Cardinality(PairsUpTo(ss, k)) |->
                     ss[InLexOrder(PairsUpTo(ss, k))[r][1]]
                       [InLexOrder(PairsUpTo(ss, k))[r][2]]]
           /\ Concatenation(Prefix(ss, k)) \in Seq(X)
<1> DEFINE pre == Prefix(ss, k)
           P   == PairsUpTo(ss, k)
           o   == InLexOrder(P)
           n   == Cardinality(P)
<1>1. P \subseteq PosT /\ IsFiniteSet(P)
      BY PairsUpToFinite DEF P
<1>2. IncreasingOnto(o, n, P) /\ n \in Nat
      BY <1>1, InLexOrderEnumerates, FS_CardinalityType DEF o, n
<1>3. Len(pre) = k /\ \A i \in 1 .. k : pre[i] = ss[i]
      BY DEF pre, Prefix
<1>4. PairsUpTo(pre, Len(pre)) = P
      <2>1. ASSUME NEW q PROVE q \in PairsUpTo(pre, k) <=> q \in PairsUpTo(ss, k)
            <3>1. q \in PairsUpTo(pre, k)
                    <=> \E i \in 1 .. k : \E j \in 1 .. Len(pre[i]) : q = <<i, j>>
                  BY DEF PairsUpTo
            <3>2. q \in PairsUpTo(ss, k)
                    <=> \E i \in 1 .. k : \E j \in 1 .. Len(ss[i]) : q = <<i, j>>
                  BY DEF PairsUpTo
            <3> QED
                BY <1>3, <3>1, <3>2
      <2> QED
          BY <1>3, <2>1 DEF P
<1>5. Concatenation(pre) = [r \in DOMAIN o |-> pre[o[r][1]][o[r][2]]]
      <2>1. Concatenation(pre)
              = [r \in DOMAIN InLexOrder(PairsUpTo(pre, Len(pre))) |->
                   pre[InLexOrder(PairsUpTo(pre, Len(pre)))[r][1]]
                      [InLexOrder(PairsUpTo(pre, Len(pre)))[r][2]]]
            BY ConcatenationUnfold
      <2> QED
          BY <1>4, <2>1 DEF o
<1>6. o \in [1 .. n -> P]
      BY <1>2 DEF IncreasingOnto
<1>7. \A r \in 1 .. n : o[r][1] \in 1 .. k /\ o[r][2] \in 1 .. Len(ss[o[r][1]])
      <2> SUFFICES ASSUME NEW r \in 1 .. n
                   PROVE  o[r][1] \in 1 .. k /\ o[r][2] \in 1 .. Len(ss[o[r][1]])
          OBVIOUS
      <2>1. o[r] \in P
            BY <1>6
      <2> QED
          BY <2>1, PairsUpToMember DEF P
<1>8. \A r \in 1 .. n :
          /\ pre[o[r][1]][o[r][2]] = ss[o[r][1]][o[r][2]]
          /\ ss[o[r][1]][o[r][2]] \in X
      BY <1>3, <1>7
<1>9. Concatenation(pre) = [r \in 1 .. n |-> ss[o[r][1]][o[r][2]]]
      BY <1>5, <1>6, <1>8
<1>10. Concatenation(pre) \in Seq(X)
      <2> DEFINE c == [r \in 1 .. n |-> ss[o[r][1]][o[r][2]]]
      <2>1. c \in [1 .. n -> X]
            BY <1>8 DEF c
      <2> HIDE DEF c
      <2>2. c \in Seq(X)
            BY <1>2, <2>1, SMT
      <2> QED
          BY <1>9, <2>2 DEF c
<1> QED
    BY <1>2, <1>9, <1>10 DEF pre, P, o, n

(***************************************************************************)
(* The ordered concatenation of k sequences is that of the first k - 1    *)
(* followed by the k-th: it is the fold of \o that merge_updates computes. *)
(***************************************************************************)
LEMMA ConcatenationAppend ==
    ASSUME NEW X, NEW ss \in Seq(Seq(X)), NEW k \in 1 .. Len(ss)
    PROVE  Concatenation(Prefix(ss, k))
             = Concatenation(Prefix(ss, k - 1)) \o ss[k]
<1> DEFINE P0 == PairsUpTo(ss, k - 1)
           o0 == InLexOrder(P0)
           m  == Cardinality(P0)
           L  == Len(ss[k])
           g  == AppendPositions(o0, m, k, L)
           C0 == Concatenation(Prefix(ss, k - 1))
<1>0. k - 1 \in 0 .. Len(ss)
      OBVIOUS
<1>1. /\ IncreasingOnto(o0, m, P0)
      /\ m \in Nat
      /\ C0 = [r \in 1 .. m |-> ss[o0[r][1]][o0[r][2]]]
      /\ C0 \in Seq(X)
      BY <1>0, ConcatenationPrefix DEF P0, o0, m, C0
<1>2. IncreasingOnto(g, m + L, PairsUpTo(ss, k))
      BY <1>1, AppendPositionsIncreasing DEF g, L
<1>3. PairsUpTo(ss, k) \subseteq PosT
      BY PairsUpToFinite
<1>4. m + L \in Nat /\ L \in Nat /\ ss[k] \in Seq(X)
      BY <1>1 DEF L
<1>5. InLexOrder(PairsUpTo(ss, k)) = g /\ Cardinality(PairsUpTo(ss, k)) = m + L
      BY <1>2, <1>3, <1>4, IncreasingOntoIsInLexOrder
<1>6. Concatenation(Prefix(ss, k))
        = [r \in 1 .. m + L |-> ss[g[r][1]][g[r][2]]]
      <2>0. k \in 0 .. Len(ss)
            OBVIOUS
      <2>1. Concatenation(Prefix(ss, k))
              = [r \in 1 .. Cardinality(PairsUpTo(ss, k)) |->
                   ss[InLexOrder(PairsUpTo(ss, k))[r][1]]
                     [InLexOrder(PairsUpTo(ss, k))[r][2]]]
            BY <2>0, ConcatenationPrefix
      <2> QED
          BY <1>5, <2>1 DEF g
<1>7. \A r \in 1 .. m + L : r <= m => g[r] = o0[r]
      BY <1>1, <1>4 DEF g, AppendPositions
<1>8. \A r \in 1 .. m + L : r > m => g[r] = <<k, r - m>>
      BY <1>1, <1>4 DEF g, AppendPositions
<1>9. /\ C0 \o ss[k] \in Seq(X)
      /\ Len(C0 \o ss[k]) = m + L
      /\ \A r \in 1 .. m + L :
             (C0 \o ss[k])[r] = IF r <= m THEN C0[r] ELSE ss[k][r - m]
      <2>1. Len(C0) = m /\ C0 \in Seq(X) /\ ss[k] \in Seq(X) /\ Len(ss[k]) = L
            BY <1>1, <1>4 DEF L
      <2>2. /\ C0 \o ss[k] \in Seq(X)
            /\ Len(C0 \o ss[k]) = Len(C0) + Len(ss[k])
            /\ \A r \in 1 .. Len(C0) + Len(ss[k]) :
                   (C0 \o ss[k])[r] = IF r <= Len(C0) THEN C0[r] ELSE ss[k][r - Len(C0)]
            BY <2>1, ConcatProperties
      <2> QED
          BY <2>1, <2>2
<1>10. \A r \in 1 .. m + L :
           ss[g[r][1]][g[r][2]] = IF r <= m THEN C0[r] ELSE ss[k][r - m]
      <2> SUFFICES ASSUME NEW r \in 1 .. m + L
                   PROVE  ss[g[r][1]][g[r][2]] = IF r <= m THEN C0[r] ELSE ss[k][r - m]
          OBVIOUS
      <2>1. CASE r <= m
            <3>1. g[r] = o0[r] /\ r \in 1 .. m
                  BY <1>1, <1>4, <1>7, <2>1
            <3>2. C0[r] = ss[o0[r][1]][o0[r][2]]
                  BY <1>1, <3>1
            <3> QED
                BY <2>1, <3>1, <3>2
      <2>2. CASE ~(r <= m)
            <3>1. g[r] = <<k, r - m>>
                  BY <1>1, <1>4, <1>8, <2>2
            <3> QED
                BY <2>2, <3>1
      <2> QED
          BY <2>1, <2>2
<1>11. Concatenation(Prefix(ss, k)) \in Seq(X)
      <2>0. k \in 0 .. Len(ss)
            OBVIOUS
      <2> QED
          BY <2>0, ConcatenationPrefix, Zenon
<1>12. C0 \o ss[k] = [r \in 1 .. m + L |-> IF r <= m THEN C0[r] ELSE ss[k][r - m]]
      <2>1. DOMAIN (C0 \o ss[k]) = 1 .. m + L
            <3>1. DOMAIN (C0 \o ss[k]) = 1 .. Len(C0 \o ss[k])
                  BY <1>9, LenProperties
            <3> QED
                BY <1>9, <3>1
      <2>2. C0 \o ss[k] = [r \in DOMAIN (C0 \o ss[k]) |-> (C0 \o ss[k])[r]]
            BY <1>9, LenProperties
      <2> QED
          BY <1>9, <2>1, <2>2
<1> QED
    BY <1>6, <1>10, <1>12 DEF C0

\* The concatenation of no sequences is empty.
LEMMA ConcatenationEmpty ==
    ASSUME NEW X, NEW ss \in Seq(Seq(X))
    PROVE  Concatenation(Prefix(ss, 0)) = << >>
<1>1. PairsUpTo(ss, 0) = {}
      BY DEF PairsUpTo
<1>2. Cardinality(PairsUpTo(ss, 0)) = 0
      BY <1>1, FS_EmptySet
<1>3. 0 \in 0 .. Len(ss)
      OBVIOUS
<1>4. Concatenation(Prefix(ss, 0))
        = [r \in 1 .. Cardinality(PairsUpTo(ss, 0)) |->
             ss[InLexOrder(PairsUpTo(ss, 0))[r][1]]
               [InLexOrder(PairsUpTo(ss, 0))[r][2]]]
      BY <1>3, ConcatenationPrefix
<1> QED
    BY <1>2, <1>4

\* The ordered concatenation of sequences over X is a sequence over X.
LEMMA ConcatenationType ==
    ASSUME NEW X, NEW ss \in Seq(Seq(X))
    PROVE  Concatenation(ss) \in Seq(X)
<1>1. Prefix(ss, Len(ss)) = ss
      BY DEF Prefix
<1> QED
    BY <1>1, ConcatenationPrefix

-----------------------------------------------------------------------------
(* merge_updates.                                                           *)

(***************************************************************************)
(* StateUpdate::merge_updates concatenates, field by field and in order,  *)
(* the updates it is given: the left fold of Merge is the ordered         *)
(* Concatenation of section 4.4.  By induction on the fold's index.       *)
(***************************************************************************)
LEMMA MergeUpdatesConcatenation ==
    ASSUME NEW us \in Seq(StateUpdateT)
    PROVE  MergeUpdates(us)
             = [in    |-> Concatenation([r \in 1 .. Len(us) |-> us[r].in]),
                out   |-> Concatenation([r \in 1 .. Len(us) |-> us[r].out]),
                nodes |-> Concatenation([r \in 1 .. Len(us) |-> us[r].nodes])]
<1> DEFINE f == CHOOSE h : h = [k \in 0 .. Len(us) |->
                                  IF k = 0 THEN EmptyUpdate
                                  ELSE Merge(h[k - 1], us[k])]
           ins   == [r \in 1 .. Len(us) |-> us[r].in]
           outs  == [r \in 1 .. Len(us) |-> us[r].out]
           nodes == [r \in 1 .. Len(us) |-> us[r].nodes]
           Folded(k) == [in    |-> Concatenation(Prefix(ins, k)),
                         out   |-> Concatenation(Prefix(outs, k)),
                         nodes |-> Concatenation(Prefix(nodes, k))]
<1>1. MergeUpdates(us) = f[Len(us)]
      BY DEF MergeUpdates
<1>2. Len(us) \in Nat
      OBVIOUS
<1>3. /\ ins \in Seq(Seq(EnrichedAccount))
      /\ outs \in Seq(Seq(EnrichedAccount))
      /\ nodes \in Seq(Seq(EnrichedPathNode))
      /\ Len(ins) = Len(us) /\ Len(outs) = Len(us) /\ Len(nodes) = Len(us)
      <2>1. \A r \in 1 .. Len(us) : /\ us[r].in \in Seq(EnrichedAccount)
                                    /\ us[r].out \in Seq(EnrichedAccount)
                                    /\ us[r].nodes \in Seq(EnrichedPathNode)
            <3> TAKE r \in 1 .. Len(us)
            <3>1. us[r] \in StateUpdateT
                  OBVIOUS
            <3> QED
                BY <3>1, Zenon DEF StateUpdateT
      <2>2. ins \in Seq(Seq(EnrichedAccount)) /\ Len(ins) = Len(us)
            BY <2>1, IsASeq DEF ins
      <2>3. outs \in Seq(Seq(EnrichedAccount)) /\ Len(outs) = Len(us)
            BY <2>1, IsASeq DEF outs
      <2>4. nodes \in Seq(Seq(EnrichedPathNode)) /\ Len(nodes) = Len(us)
            BY <2>1, IsASeq DEF nodes
      <2> QED
          BY <2>2, <2>3, <2>4
<1> HIDE DEF f
<1>4. f = [k \in 0 .. Len(us) |-> IF k = 0 THEN EmptyUpdate ELSE Merge(f[k - 1], us[k])]
      <2>1. FiniteNatInductiveDefHypothesis(f, EmptyUpdate,
                                            LAMBDA v, k : Merge(v, us[k]), 0, Len(us))
            BY DEF FiniteNatInductiveDefHypothesis, f
      <2>2. FiniteNatInductiveDefConclusion(f, EmptyUpdate,
                                            LAMBDA v, k : Merge(v, us[k]), 0, Len(us))
            BY <1>2, <2>1, FiniteNatInductiveDef, Zenon
      <2> QED
          BY <2>2 DEF FiniteNatInductiveDefConclusion
<1> DEFINE Bad == {k \in 0 .. Len(us) : f[k] # Folded(k)}
<1>5. Bad = {}
      <2> SUFFICES ASSUME Bad # {} PROVE FALSE
          OBVIOUS
      <2>1. Bad \subseteq Nat
            BY DEF Bad
      <2>2. PICK x \in Bad : \A y \in Bad : ~(<<y, x>> \in OpToRel(<, Nat))
            BY <2>1, NatLessThanWellFounded, WFMin, Zenon
      <2>3. x # 0
            <3>1. Folded(0) = EmptyUpdate
                  BY <1>3, ConcatenationEmpty DEF Folded, EmptyUpdate
            <3>2. f[0] = EmptyUpdate
                  BY <1>4
            <3> QED
                BY <3>1, <3>2 DEF Bad
      <2>4. x - 1 \in Nat /\ x \in Nat /\ x \in 1 .. Len(us) /\ x - 1 < x
            BY <2>3 DEF Bad
      <2>5. <<x - 1, x>> \in OpToRel(<, Nat)
            BY <2>4, Zenon DEF OpToRel
      <2>6. f[x - 1] = Folded(x - 1)
            <3>1. x - 1 \in 0 .. Len(us)
                  BY <2>4
            <3> QED
                BY <2>2, <2>5, <3>1, Zenon DEF Bad
      <2>7. f[x] = Merge(Folded(x - 1), us[x])
            <3>1. x # 0 /\ x \in 0 .. Len(us)
                  BY <2>4
            <3>2. f[x] = Merge(f[x - 1], us[x])
                  BY <1>4, <3>1
            <3> QED
                BY <2>6, <3>2, Zenon
      <2>8. /\ Concatenation(Prefix(ins, x)) = Concatenation(Prefix(ins, x - 1)) \o ins[x]
            /\ Concatenation(Prefix(outs, x)) = Concatenation(Prefix(outs, x - 1)) \o outs[x]
            /\ Concatenation(Prefix(nodes, x)) = Concatenation(Prefix(nodes, x - 1)) \o nodes[x]
            BY <1>3, <2>4, ConcatenationAppend
      <2>9. ins[x] = us[x].in /\ outs[x] = us[x].out /\ nodes[x] = us[x].nodes
            BY <2>4 DEF ins, outs, nodes
      <2>10. f[x] = Folded(x)
            BY <2>7, <2>8, <2>9 DEF Merge, Folded
      <2> QED
          BY <2>10 DEF Bad
<1>6. f[Len(us)] = Folded(Len(us))
      BY <1>2, <1>5 DEF Bad
<1>7. /\ Prefix(ins, Len(us)) = ins
      /\ Prefix(outs, Len(us)) = outs
      /\ Prefix(nodes, Len(us)) = nodes
      BY DEF Prefix, ins, outs, nodes
<1> QED
    BY <1>1, <1>6, <1>7 DEF Folded, ins, outs, nodes

=============================================================================
