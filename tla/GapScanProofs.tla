--------------------------- MODULE GapScanProofs ---------------------------
(* Facts about the gap scan for every set of stored blocks and every       *)
(* configured start block.                                                 *)
EXTENDS GapScan, WellFoundedInduction, TLAPS

(* A non-empty set of natural numbers has a least element. *)
LEMMA NatHasLeast ==
    ASSUME NEW T, T \subseteq Nat, T # {}
    PROVE  \E x \in T : \A y \in T : x <= y
<1> DEFINE R == OpToRel(<, Nat)
<1>1. IsWellFoundedOn(R, Nat)
  BY NatLessThanWellFounded
<1>2. \A x, y \in T : y < x => <<y, x>> \in R
  BY DEF OpToRel
<1> HIDE DEF R
<1>3. PICK x \in T : \A y \in T : ~ (<<y, x>> \in R)
  BY <1>1, WFMin
<1>4. ASSUME NEW y \in T PROVE x <= y
  <2>1. ~(y < x)
    BY <1>2, <1>3
  <2>2. x \in Nat /\ y \in Nat
    OBVIOUS
  <2> QED BY <2>1, <2>2
<1> QED BY <1>4

(* MIN returns an element of the set it is applied to, and a lower bound. *)
LEMMA LeastIsLeast ==
    ASSUME NEW T, T \subseteq Nat, T # {}
    PROVE  Least(T) \in T /\ \A x \in T : Least(T) <= x
BY NatHasLeast DEF Least

(* The row after a gap end is not stored, and conversely. *)
LEMMA GapEndIffSuccessorAbsent ==
    ASSUME NEW S, S \subseteq Nat, NEW from \in Nat, NEW b \in Window(S, from)
    PROVE  IsGapEnd(Window(S, from), b) <=> (b + 1) \notin S
<1> DEFINE W == Window(S, from)
           L == Later(W, b)
<1>1. W \subseteq Nat /\ L \subseteq Nat /\ b \in Nat /\ b >= from
  BY DEF Window, Later
<1>2. (b + 1) \in S <=> (b + 1) \in L
  BY <1>1 DEF Window, Later
<1>3. \A x \in L : x >= b + 1
  BY <1>1 DEF Later
<1> HIDE DEF W, L
<1>4. CASE L = {}
  BY <1>2, <1>4 DEF IsGapEnd, W, L
<1>5. CASE L # {}
  <2>1. Least(L) \in L /\ \A x \in L : Least(L) <= x
    BY <1>1, <1>5, LeastIsLeast
  <2> DEFINE k == Least(L)
  <2>2. k \in L /\ k \in Nat /\ k >= b + 1 /\ b \in Nat
    BY <2>1, <1>1, <1>3
  <2>3. IsGapEnd(W, b) <=> k > b + 1
    BY <1>5 DEF IsGapEnd, L
  <2>4. \A x \in L : k <= x
    BY <2>1
  <2> HIDE DEF k
  <2>5. k > b + 1 => (b + 1) \notin L
    BY <2>2, <2>4
  <2>6. (b + 1) \notin L => k > b + 1
    BY <2>2
  <2> QED BY <2>3, <2>5, <2>6, <1>2 DEF W
<1> QED BY <1>4, <1>5

(* What the candidates of the query are. *)
LEMMA CandidatesAreAbsent ==
    ASSUME NEW S, S \subseteq Nat, NEW from \in Nat
    PROVE  /\ Candidates(S, from) \subseteq Nat
           /\ \A c \in Candidates(S, from) : c >= from /\ c \notin S
           /\ from \notin S => from \in Candidates(S, from)
           /\ \A b \in Nat : (b >= from /\ b \in S /\ (b + 1) \notin S)
                                => (b + 1) \in Candidates(S, from)
<1> DEFINE W == Window(S, from)
<1>1. W \subseteq Nat /\ \A b \in W : b >= from
  BY DEF Window
<1>2. \A b \in W : IsGapEnd(W, b) <=> (b + 1) \notin S
  BY GapEndIffSuccessorAbsent
<1>3. \A b \in Nat : b \in S /\ b >= from => b \in W
  BY DEF Window
<1> HIDE DEF W
<1>4. Candidates(S, from) =
        {c \in {from} : c \notin S} \cup {b + 1 : b \in {x \in W : IsGapEnd(W, x)}}
  BY DEF Candidates, W
<1> QED BY <1>1, <1>2, <1>3, <1>4

(* Every block from the configured start up to the resume point is stored. *)
THEOREM ResumeSkipsNothing ==
    ASSUME NEW S, S \subseteq Nat, NEW from \in Nat
    PROVE  /\ ResumeBlockNum(S, from) \in Nat
           /\ ResumeBlockNum(S, from) >= from
           /\ \A n \in from..(ResumeBlockNum(S, from) - 1) : n \in S
<1> DEFINE C == Candidates(S, from)
           r == ResumeBlockNum(S, from)
<1>1. C \subseteq Nat /\ \A c \in C : c >= from
  BY CandidatesAreAbsent
<1>4. \A b \in Nat : (b >= from /\ b \in S /\ (b + 1) \notin S) => (b + 1) \in C
  BY CandidatesAreAbsent
<1>2. CASE C = {}
  BY <1>2 DEF ResumeBlockNum
<1>3. CASE C # {}
  <2>1. r \in C /\ \A c \in C : r <= c
    BY <1>1, <1>3, LeastIsLeast DEF ResumeBlockNum
  <2>2. r \in Nat /\ r >= from
    BY <2>1, <1>1
  <2> HIDE DEF r
  <2>3. ASSUME NEW n \in from..(r - 1), n \notin S
        PROVE  FALSE
    <3> DEFINE T == {m \in Nat : m >= from /\ m < r /\ m \notin S}
    <3>1. n \in T
      BY <2>2, <2>3
    <3>2. PICK m \in T : \A y \in T : m <= y
      BY <3>1, NatHasLeast
    <3>5. ~ (r <= m)
      BY <2>2
    <3>3. CASE m = from
      <4>1. from \in C
        BY <3>3, CandidatesAreAbsent
      <4> QED BY <4>1, <2>1, <3>3, <3>5
    <3>4. CASE m # from
      <4>1. m - 1 \in Nat /\ m - 1 >= from
        BY <3>2, <3>4
      <4>2. m - 1 \in S
        BY <3>2, <4>1, <2>2
      <4>3. (m - 1) + 1 = m /\ m \notin S
        BY <3>2
      <4>4. ((m - 1) + 1) \in C
        <5>1. ((m - 1) + 1) \notin S
          BY <4>3
        <5> HIDE DEF C
        <5> QED BY <4>1, <4>2, <5>1, <1>4
      <4>5. m \in C
        BY <4>3, <4>4
      <4> QED BY <4>5, <2>1, <3>5
    <3> QED BY <3>3, <3>4
  <2> QED BY <2>2, <2>3 DEF r
<1> QED BY <1>2, <1>3

(* Over a bounded table, resumeBlockNum returns the first absent block.    *)
THEOREM ResumeIsFirstAbsent ==
    ASSUME NEW S, S \subseteq Nat, NEW from \in Nat,
           NEW top \in Nat, \A x \in S : x <= top
    PROVE  IsFirstAbsent(S, from, ResumeBlockNum(S, from))
<1> DEFINE C == Candidates(S, from)
<1>1. C \subseteq Nat /\ \A c \in C : c \notin S
  BY CandidatesAreAbsent
<1>2. C # {}
  <2>1. CASE from \notin S
    BY <2>1, CandidatesAreAbsent
  <2>2. CASE from \in S
    <3> DEFINE D == {top - x : x \in {y \in S : y >= from}}
    <3>1. D \subseteq Nat /\ (top - from) \in D
      BY <2>2
    <3>2. PICK d \in D : \A y \in D : d <= y
      BY <3>1, NatHasLeast
    <3>3. PICK x \in S : x >= from /\ d = top - x
      BY <3>2
    <3>4. (x + 1) \notin S
      <4>1. SUFFICES ASSUME (x + 1) \in S PROVE FALSE
        OBVIOUS
      <4>2. (top - (x + 1)) \in D
        BY <4>1, <3>3
      <4> QED BY <4>2, <3>2, <3>3
    <3>5. (x + 1) \in C
      BY <3>3, <3>4, CandidatesAreAbsent
    <3> QED BY <3>5
  <2> QED BY <2>1, <2>2
<1>3. ResumeBlockNum(S, from) \in C
  BY <1>1, <1>2, LeastIsLeast DEF ResumeBlockNum
<1> QED BY <1>1, <1>3, ResumeSkipsNothing DEF IsFirstAbsent
=============================================================================
