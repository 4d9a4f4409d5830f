--------------------------- MODULE BlockStreamProofs ---------------------------
(***************************************************************************)
(* Lemmas about the block stream's operators (BlockStream): least and     *)
(* greatest elements of sets of slots, and where a stream begins.  Both   *)
(* binaries' proofs use them.                                              *)
(***************************************************************************)
EXTENDS BlockStream, WellFoundedInduction, TLAPS

\* A nonempty set of naturals has a least element.
LEMMA NatSetHasLeast ==
    ASSUME NEW T, T \subseteq Nat, T # {}
    PROVE  \E x \in T : \A y \in T : x <= y
<1>1. PICK x \in T : \A y \in T : ~(<<y, x>> \in OpToRel(<, Nat))
      BY NatLessThanWellFounded, WFMin, Zenon
<1>2. ASSUME NEW y \in T PROVE x <= y
      <2>1. x \in Nat /\ y \in Nat
            OBVIOUS
      <2>2. ~(<<y, x>> \in OpToRel(<, Nat))
            BY <1>1
      <2>3. ASSUME y < x PROVE FALSE
            <3>1. <<y, x>> \in OpToRel(<, Nat)
                  BY <2>1, <2>3, Zenon DEF OpToRel
            <3> QED
                BY <2>2, <3>1
      <2> QED
          BY <2>1, <2>3
<1> QED
    BY <1>2

\* An element below every element of S is Min(S).
LEMMA MinIsLeast ==
    ASSUME NEW S, S \subseteq Int, NEW m \in S, \A y \in S : m <= y
    PROVE  Min(S) = m
<1>1. Min(S) \in S /\ \A y \in S : Min(S) <= y
      BY DEF Min
<1>2. Min(S) <= m /\ m <= Min(S)
      BY <1>1
<1>3. Min(S) \in Int /\ m \in Int
      BY <1>1
<1> QED
    BY <1>2, <1>3

\* An element above every element of S is Max(S).
LEMMA MaxIsGreatest ==
    ASSUME NEW S, S \subseteq Int, NEW m \in S, \A y \in S : y <= m
    PROVE  Max(S) = m
<1>1. Max(S) \in S /\ \A y \in S : Max(S) >= y
      BY DEF Max
<1>2. Max(S) >= m /\ Max(S) <= m
      BY <1>1
<1>3. Max(S) \in Int /\ m \in Int
      BY <1>1
<1> QED
    BY <1>2, <1>3

-----------------------------------------------------------------------------
\* When some block follows slot l, the stream for last_indexed_slot l
\* begins with a block after l.
LEMMA FirstStreamedAfter ==
    ASSUME NEW l \in Int, \E b \in Blocks : b > l
    PROVE  /\ FirstStreamed(l) \in Blocks
           /\ FirstStreamed(l) > l
<1> DEFINE S == {b \in Blocks : b > l}
<1>1. S \subseteq Nat /\ S # {}
      BY BlocksAssumption
<1>2. PICK x \in S : \A y \in S : x <= y
      BY <1>1, NatSetHasLeast
<1>3. Min(S) = x
      BY <1>1, <1>2, MinIsLeast
<1> QED
    BY <1>3 DEF FirstStreamed

=============================================================================
