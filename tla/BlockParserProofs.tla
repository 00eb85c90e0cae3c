-------------------------- MODULE BlockParserProofs --------------------------
(***************************************************************************)
(* What Parse makes of a block, for every block of every length: lemmas on *)
(* sequences that are flattened, and from them the place of every position *)
(* in the result.                                                          *)
(***************************************************************************)
EXTENDS BlockParser, GapScanProofs, SequenceTheorems

(* A sequence, of whatever elements. *)
IsSeq(s) == s \in Seq(Range(s))

-----------------------------------------------------------------------------
(* Sequences. *)

LEMMA SeqIsSeq ==
    ASSUME NEW S, NEW s \in Seq(S)
    PROVE  IsSeq(s) /\ Range(s) \subseteq S
BY SeqOfRange, RangeOfSeq DEF IsSeq

LEMMA IsSeqFacts ==
    ASSUME NEW s, IsSeq(s)
    PROVE  /\ Len(s) \in Nat /\ DOMAIN s = 1..Len(s)
           /\ Range(s) = {s[i] : i \in 1..Len(s)}
           /\ s = <<>> <=> Len(s) = 0
<1>1. s \in Seq(Range(s))
  BY DEF IsSeq
<1>2. Len(s) \in Nat /\ DOMAIN s = 1..Len(s)
  BY <1>1, LenProperties
<1>3. s = <<>> <=> Len(s) = 0
  BY <1>1, EmptySeq
<1> QED BY <1>2, <1>3 DEF Range

(* A function on 1 .. n is a sequence. *)
LEMMA FunctionIsSeq ==
    ASSUME NEW n \in Nat, NEW S, NEW f \in [1..n -> S]
    PROVE  IsSeq(f) /\ Len(f) = n /\ f \in Seq(S)
<1>1. f \in Seq(S) /\ Len(f) = n
  OBVIOUS
<1> QED BY <1>1, SeqIsSeq

LEMMA EmptyIsSeq == IsSeq(<<>>) /\ Range(<<>>) = {} /\ Len(<<>>) = 0
<1>1. IsSeq(<<>>) /\ Len(<<>>) = 0
  BY SeqIsSeq, EmptySeq
<1> QED BY <1>1, IsSeqFacts

LEMMA OneIsSeq ==
    ASSUME NEW x
    PROVE  IsSeq(<<x>>) /\ Range(<<x>>) = {x} /\ Len(<<x>>) = 1 /\ <<x>>[1] = x
<1> DEFINE s == <<x>>
<1>1. s \in Seq({x}) /\ Len(s) = 1 /\ s[1] = x
  OBVIOUS
<1> HIDE DEF s
<1>2. IsSeq(s)
  BY <1>1, SeqIsSeq
<1>3. Range(s) = {s[i] : i \in 1..1}
  BY <1>1, <1>2, IsSeqFacts
<1> QED BY <1>1, <1>2, <1>3 DEF s

LEMMA ConcatIsSeq ==
    ASSUME NEW s, NEW t, IsSeq(s), IsSeq(t)
    PROVE  /\ IsSeq(s \o t) /\ Range(s \o t) = Range(s) \cup Range(t)
           /\ Len(s \o t) = Len(s) + Len(t)
           /\ \A i \in 1..(Len(s) + Len(t)) :
                 (s \o t)[i] = IF i <= Len(s) THEN s[i] ELSE t[i - Len(s)]
<1> DEFINE S == Range(s) \cup Range(t)
<1>1. s \in Seq(S) /\ t \in Seq(S)
  BY SeqMonotonic DEF IsSeq
<1> HIDE DEF S
<1>2. Range(s \o t) = Range(s) \cup Range(t)
  BY <1>1, RangeConcatenation
<1>3. /\ s \o t \in Seq(S)
      /\ Len(s \o t) = Len(s) + Len(t)
      /\ \A i \in 1..(Len(s) + Len(t)) :
            (s \o t)[i] = IF i <= Len(s) THEN s[i] ELSE t[i - Len(s)]
  BY <1>1, ConcatProperties
<1>4. IsSeq(s \o t)
  BY <1>3, SeqIsSeq
<1> QED BY <1>2, <1>3, <1>4

(* One element for each of another sequence. *)
LEMMA MapIsSeq ==
    ASSUME NEW s, IsSeq(s), NEW f, f = [i \in DOMAIN s |-> f[i]]
    PROVE  IsSeq(f) /\ Len(f) = Len(s) /\ Range(f) = {f[i] : i \in 1..Len(s)}
<1>1. Len(s) \in Nat /\ DOMAIN s = 1..Len(s)
  BY IsSeqFacts
<1>2. f \in [1..Len(s) -> Range(f)]
  BY <1>1 DEF Range
<1>3. IsSeq(f) /\ Len(f) = Len(s)
  BY <1>1, <1>2, FunctionIsSeq
<1> QED BY <1>3, IsSeqFacts

(* A sequence keeps its first element when another is put behind it. *)
LEMMA BehindIsSeq ==
    ASSUME NEW s, NEW t, IsSeq(s), Len(s) >= 1, IsSeq(t)
    PROVE  /\ IsSeq(s \o t) /\ Len(s \o t) >= 1 /\ (s \o t)[1] = s[1]
           /\ Range(s \o t) = Range(s) \cup Range(t)
<1>1. Len(s) \in Nat /\ Len(t) \in Nat
  BY IsSeqFacts
<1>2. 1 \in 1..(Len(s) + Len(t)) /\ 1 <= Len(s)
  BY <1>1
<1> QED BY <1>1, <1>2, ConcatIsSeq

-----------------------------------------------------------------------------
(* Flattened sequences. *)

(* s puts the elements of the first k lists one after the other. *)
Puts(s, lists, k) ==
    /\ IsSeq(s)
    /\ Range(s) = UNION {Range(lists[i]) : i \in 1..k}
    /\ \A p, q \in 1..Len(s) : p < q =>
          \E i, j \in 1..k : \E a \in 1..Len(lists[i]), c \in 1..Len(lists[j]) :
             /\ s[p] = lists[i][a] /\ s[q] = lists[j][c]
             /\ i < j \/ (i = j /\ a < c)

LEMMA PutsOne ==
    ASSUME NEW lists, IsSeq(lists[1])
    PROVE  Puts(lists[1], lists, 1)
<1>1. Range(lists[1]) = UNION {Range(lists[i]) : i \in 1..1}
  OBVIOUS
<1> QED BY <1>1 DEF Puts

LEMMA PutsNext ==
    ASSUME NEW lists, NEW k \in Nat, k >= 1, NEW s, Puts(s, lists, k),
           \A i \in 1..(k + 1) : IsSeq(lists[i])
    PROVE  Puts(s \o lists[k + 1], lists, k + 1)
<1> DEFINE t == lists[k + 1]
           r == s \o t
<1>0. IsSeq(s) /\ IsSeq(t) /\ k \in 1..(k + 1) /\ (k + 1) \in 1..(k + 1)
  BY DEF Puts
<1>1. /\ IsSeq(r) /\ Range(r) = Range(s) \cup Range(t) /\ Len(r) = Len(s) + Len(t)
      /\ \A i \in 1..(Len(s) + Len(t)) : r[i] = IF i <= Len(s) THEN s[i] ELSE t[i - Len(s)]
  BY <1>0, ConcatIsSeq
<1>2. Len(s) \in Nat /\ Range(s) = {s[i] : i \in 1..Len(s)} /\ Len(t) \in Nat
  BY <1>0, IsSeqFacts
<1>3. Range(r) = UNION {Range(lists[i]) : i \in 1..(k + 1)}
  <2>1. 1..(k + 1) = (1..k) \cup {k + 1}
    OBVIOUS
  <2> QED BY <1>1, <2>1 DEF Puts
<1>4. \A p \in 1..Len(s) : \E i \in 1..k : \E a \in 1..Len(lists[i]) : s[p] = lists[i][a]
  <2> SUFFICES ASSUME NEW p \in 1..Len(s)
               PROVE  \E i \in 1..k : \E a \in 1..Len(lists[i]) : s[p] = lists[i][a]
    OBVIOUS
  <2>1. s[p] \in UNION {Range(lists[i]) : i \in 1..k}
    BY <1>2 DEF Puts
  <2>2. PICK i \in 1..k : s[p] \in Range(lists[i])
    BY <2>1
  <2>3. IsSeq(lists[i])
    <3>1. i \in 1..(k + 1)
      OBVIOUS
    <3> QED BY <3>1
  <2>4. Range(lists[i]) = {lists[i][a] : a \in 1..Len(lists[i])}
    BY <2>3, IsSeqFacts
  <2> QED BY <2>2, <2>4
<1> HIDE DEF r
<1>5. ASSUME NEW p \in 1..Len(r), NEW q \in 1..Len(r), p < q
      PROVE  \E i, j \in 1..(k + 1) : \E a \in 1..Len(lists[i]), c \in 1..Len(lists[j]) :
                /\ r[p] = lists[i][a] /\ r[q] = lists[j][c]
                /\ i < j \/ (i = j /\ a < c)
  <2>1. CASE q <= Len(s)
    <3>1. r[p] = s[p] /\ r[q] = s[q] /\ p \in 1..Len(s) /\ q \in 1..Len(s)
      BY <1>1, <1>2, <1>5, <2>1
    <3>2. PICK i \in 1..k, j \in 1..k : \E a \in 1..Len(lists[i]), c \in 1..Len(lists[j]) :
             /\ s[p] = lists[i][a] /\ s[q] = lists[j][c]
             /\ i < j \/ (i = j /\ a < c)
      BY <1>5, <3>1 DEF Puts
    <3>3. i \in 1..(k + 1) /\ j \in 1..(k + 1)
      OBVIOUS
    <3> QED BY <3>1, <3>2, <3>3
  <2>2. CASE q > Len(s) /\ p <= Len(s)
    <3>1. r[p] = s[p] /\ r[q] = t[q - Len(s)] /\ p \in 1..Len(s) /\ q - Len(s) \in 1..Len(t)
      BY <1>1, <1>2, <1>5, <2>2
    <3>2. PICK i \in 1..k : \E a \in 1..Len(lists[i]) : s[p] = lists[i][a]
      BY <1>4, <3>1
    <3>3. PICK a \in 1..Len(lists[i]) : s[p] = lists[i][a]
      BY <3>2
    <3>4. i \in 1..(k + 1) /\ i < k + 1
      OBVIOUS
    <3> QED BY <1>0, <3>1, <3>3, <3>4
  <2>3. CASE p > Len(s)
    <3>1. /\ r[p] = t[p - Len(s)] /\ r[q] = t[q - Len(s)] /\ p - Len(s) < q - Len(s)
          /\ p - Len(s) \in 1..Len(t) /\ q - Len(s) \in 1..Len(t)
      BY <1>1, <1>2, <1>5, <2>3
    <3> QED BY <1>0, <3>1
  <2> QED BY <1>1, <1>2, <2>1, <2>2, <2>3
<1> QED BY <1>1, <1>3, <1>5 DEF Puts, r

(* Any number of lists are put one after the other. *)
LEMMA FlattenPuts ==
    ASSUME NEW n \in Nat, NEW lists, IsSeq(lists), Len(lists) = n, \A i \in 1..n : IsSeq(lists[i])
    PROVE  Puts(FlattenSeq(lists), lists, n)
<1>1. CASE n = 0
  <2>1. FlattenSeq(lists) = <<>>
    BY <1>1, IsSeqFacts DEF FlattenSeq
  <2>2. UNION {Range(lists[i]) : i \in 1..n} = {}
    BY <1>1
  <2> QED BY <2>1, <2>2, EmptyIsSeq DEF Puts
<1>2. CASE n # 0
  <2> DEFINE Concatenates(f, k) ==
               f = [i \in 1..k |-> IF i = 1 THEN lists[i] ELSE f[i - 1] \o lists[i]]
             Missing == {k \in 1..n : ~ \E f : Concatenates(f, k)}
  <2>1. \E f : Concatenates(f, n)
    <3>0. n \in 1..n
      BY <1>2
    <3> HIDE DEF Concatenates
    <3>6. Missing \subseteq Nat
      OBVIOUS
    <3>1. SUFFICES ASSUME Missing # {} PROVE FALSE
      BY <3>0
    <3>2. PICK k \in Missing : \A j \in Missing : k <= j
      <4> HIDE DEF Missing
      <4> QED BY <3>6, <3>1, NatHasLeast
    <3>3. k \in 1..n /\ ~ \E f : Concatenates(f, k)
      BY <3>2
    <3> USE DEF Concatenates
    <3>4. CASE k = 1
      <4> DEFINE g == [i \in 1..1 |-> lists[i]]
      <4>1. Concatenates(g, 1)
        OBVIOUS
      <4> QED BY <3>3, <3>4, <4>1
    <3>5. CASE k # 1
      <4>1. k - 1 \in 1..n /\ ~ (k <= k - 1)
        BY <3>3, <3>5
      <4>2. k - 1 \notin Missing
        BY <3>2, <4>1
      <4>3. PICK f : Concatenates(f, k - 1)
        BY <4>1, <4>2
      <4> DEFINE g == [i \in 1..k |-> IF i = k THEN f[k - 1] \o lists[k] ELSE f[i]]
      <4>4. \A i \in 1..k : g[i] = IF i = 1 THEN lists[i] ELSE g[i - 1] \o lists[i]
        <5> SUFFICES ASSUME NEW i \in 1..k
                     PROVE  g[i] = IF i = 1 THEN lists[i] ELSE g[i - 1] \o lists[i]
          OBVIOUS
        <5>1. CASE i = k
          <6>1. g[i] = f[k - 1] \o lists[k] /\ g[i - 1] = f[i - 1]
            BY <3>3, <3>5, <5>1
          <6> QED BY <3>5, <5>1, <6>1
        <5>2. CASE i # k
          <6>1. i \in 1..(k - 1) /\ g[i] = f[i] /\ (i # 1 => g[i - 1] = f[i - 1])
            BY <3>3, <5>2
          <6>2. f[i] = IF i = 1 THEN lists[i] ELSE f[i - 1] \o lists[i]
            BY <4>3, <6>1
          <6> QED BY <6>1, <6>2
        <5> QED BY <5>1, <5>2
      <4>5. g = [i \in 1..k |-> g[i]]
        OBVIOUS
      <4> HIDE DEF g
      <4>6. g = [i \in 1..k |-> IF i = 1 THEN lists[i] ELSE g[i - 1] \o lists[i]]
        BY <4>4, <4>5
      <4> QED BY <3>3, <4>6
    <3> QED BY <3>4, <3>5
  <2>2. PICK f : Concatenates(f, n) /\ FlattenSeq(lists) = f[n]
    <3> DEFINE f == CHOOSE f : Concatenates(f, n)
    <3>1. Concatenates(f, n)
      BY <2>1
    <3>2. FlattenSeq(lists) = f[n]
      BY <1>2 DEF FlattenSeq
    <3> HIDE DEF f
    <3> QED BY <3>1, <3>2
  <2> DEFINE Unlike == {k \in 1..n : ~ Puts(f[k], lists, k)}
  <2>3. \A i \in 1..n : f[i] = IF i = 1 THEN lists[i] ELSE f[i - 1] \o lists[i]
    BY <2>2
  <2>4. Unlike = {}
    <3>0. Unlike \subseteq Nat
      OBVIOUS
    <3>1. SUFFICES ASSUME Unlike # {} PROVE FALSE
      OBVIOUS
    <3>2. PICK k \in Unlike : \A j \in Unlike : k <= j
      <4> HIDE DEF Unlike
      <4> QED BY <3>0, <3>1, NatHasLeast
    <3>3. k \in 1..n /\ ~ Puts(f[k], lists, k)
      BY <3>2
    <3>4. CASE k = 1
      <4>1. f[1] = lists[1] /\ IsSeq(lists[1])
        BY <2>3, <3>3, <3>4
      <4> QED BY <3>3, <3>4, <4>1, PutsOne
    <3>5. CASE k # 1
      <4> DEFINE j == k - 1
      <4>1. j \in 1..n /\ ~ (k <= j) /\ j >= 1 /\ j \in Nat /\ j + 1 = k
        BY <3>3, <3>5
      <4>2. j \notin Unlike
        BY <3>2, <4>1
      <4>3. Puts(f[j], lists, j)
        BY <4>1, <4>2
      <4>4. f[k] = f[j] \o lists[j + 1]
        BY <2>3, <3>3, <3>5, <4>1
      <4>5. \A i \in 1..(j + 1) : IsSeq(lists[i])
        BY <3>3, <4>1
      <4> HIDE DEF j
      <4>6. Puts(f[j] \o lists[j + 1], lists, j + 1)
        BY <4>1, <4>3, <4>5, PutsNext
      <4> QED BY <3>3, <4>1, <4>4, <4>6
    <3> QED BY <3>4, <3>5
  <2>5. n \in 1..n
    BY <1>2
  <2> QED BY <2>2, <2>4, <2>5
<1> QED BY <1>1, <1>2

(* A list of at most one record, with this position. *)
AtMostOne(list, num) == list = <<>> \/ \E x : list = <<x>> /\ x.txNum = num

(* s is the records of such lists, in the order of the positions.          *)
Numbered(s, lists, n) ==
    /\ \A p \in 1..Len(s) :
          \E i \in 1..n : s[p].txNum = i - 1 /\ lists[i] # <<>> /\ lists[i][1] = s[p]
    /\ \A p, q \in 1..Len(s) : p < q => s[p].txNum < s[q].txNum
    /\ \A i \in 1..n : lists[i] = <<>> \/ \E p \in 1..Len(s) : s[p].txNum = i - 1

LEMMA PutsNumbered ==
    ASSUME NEW n \in Nat, NEW lists, NEW s, Puts(s, lists, n),
           \A i \in 1..n : AtMostOne(lists[i], i - 1)
    PROVE  Numbered(s, lists, n)
<1>1. ASSUME NEW i \in 1..n
      PROVE  IsSeq(lists[i]) /\ (lists[i] = <<>> \/ \E x : lists[i] = <<x>> /\ x.txNum = i - 1)
  <2>1. lists[i] = <<>> \/ \E x : lists[i] = <<x>> /\ x.txNum = i - 1
    BY DEF AtMostOne
  <2>2. CASE lists[i] = <<>>
    BY <2>2, EmptyIsSeq
  <2>3. CASE lists[i] # <<>>
    <3>1. PICK x : lists[i] = <<x>>
      BY <2>1, <2>3
    <3> QED BY <2>1, <3>1, OneIsSeq
  <2> QED BY <2>2, <2>3
<1>2. /\ Range(s) = UNION {Range(lists[i]) : i \in 1..n}
      /\ \A p, q \in 1..Len(s) : p < q =>
            \E i, j \in 1..n : \E a \in 1..Len(lists[i]), c \in 1..Len(lists[j]) :
               /\ s[p] = lists[i][a] /\ s[q] = lists[j][c]
               /\ i < j \/ (i = j /\ a < c)
      /\ IsSeq(s)
  BY DEF Puts
<1>3. Len(s) \in Nat /\ Range(s) = {s[p] : p \in 1..Len(s)}
  BY <1>2, IsSeqFacts
<1>4. \A i \in 1..n : \A a \in 1..Len(lists[i]) :
         a = 1 /\ lists[i] # <<>> /\ lists[i][a].txNum = i - 1
  <2> SUFFICES ASSUME NEW i \in 1..n, NEW a \in 1..Len(lists[i])
               PROVE  a = 1 /\ lists[i] # <<>> /\ lists[i][a].txNum = i - 1
    OBVIOUS
  <2>1. lists[i] # <<>>
    BY EmptyIsSeq
  <2>2. PICK x : lists[i] = <<x>> /\ x.txNum = i - 1
    BY <1>1, <2>1
  <2>3. Len(lists[i]) = 1 /\ lists[i][1] = x
    BY <2>2, OneIsSeq
  <2>4. a = 1
    BY <2>3
  <2> QED BY <2>1, <2>2, <2>3, <2>4
<1>5. ASSUME NEW p \in 1..Len(s)
      PROVE  \E i \in 1..n : s[p].txNum = i - 1 /\ lists[i] # <<>> /\ lists[i][1] = s[p]
  <2>1. s[p] \in UNION {Range(lists[i]) : i \in 1..n}
    BY <1>2, <1>3
  <2>2. PICK i \in 1..n : s[p] \in Range(lists[i])
    BY <2>1
  <2>3. PICK a \in 1..Len(lists[i]) : s[p] = lists[i][a]
    <3>1. Range(lists[i]) = {lists[i][a] : a \in 1..Len(lists[i])}
      BY <1>1, IsSeqFacts
    <3> QED BY <2>2, <3>1
  <2>4. s[p].txNum = i - 1 /\ lists[i] # <<>> /\ lists[i][1] = s[p]
    BY <1>4, <2>3
  <2> QED BY <2>4
<1>6. ASSUME NEW p \in 1..Len(s), NEW q \in 1..Len(s), p < q
      PROVE  s[p].txNum < s[q].txNum
  <2>1. PICK i \in 1..n, j \in 1..n :
           \E a \in 1..Len(lists[i]), c \in 1..Len(lists[j]) :
              /\ s[p] = lists[i][a] /\ s[q] = lists[j][c]
              /\ i < j \/ (i = j /\ a < c)
    BY <1>2, <1>6
  <2>2. PICK a \in 1..Len(lists[i]), c \in 1..Len(lists[j]) :
              /\ s[p] = lists[i][a] /\ s[q] = lists[j][c]
              /\ i < j \/ (i = j /\ a < c)
    BY <2>1
  <2>3. /\ a = 1 /\ c = 1
        /\ s[p].txNum = i - 1 /\ s[q].txNum = j - 1
    BY <1>4, <2>2
  <2> QED BY <2>2, <2>3
<1>7. ASSUME NEW i \in 1..n, lists[i] # <<>>
      PROVE  \E p \in 1..Len(s) : s[p].txNum = i - 1
  <2>1. PICK x : lists[i] = <<x>> /\ x.txNum = i - 1
    BY <1>1, <1>7
  <2>2. Range(lists[i]) = {x}
    BY <2>1, OneIsSeq
  <2>3. x \in UNION {Range(lists[j]) : j \in 1..n}
    BY <2>2
  <2>4. x \in Range(s)
    BY <1>2, <2>3
  <2> QED BY <1>3, <2>1, <2>4
<1> QED BY <1>5, <1>6, <1>7 DEF Numbered

-----------------------------------------------------------------------------
(* Policies and namespaces. *)

(* A list of policies, each with a version. *)
ArePolicies(s) == IsSeq(s) /\ \A pol \in Range(s) : pol.version \in Nat

LEMMA NoneArePolicies == ArePolicies(<<>>)
BY EmptyIsSeq DEF ArePolicies

LEMMA OnePolicy ==
    ASSUME NEW pol, pol.version \in Nat
    PROVE  ArePolicies(<< pol >>)
BY OneIsSeq DEF ArePolicies

LEMMA ItemsArePolicies ==
    ASSUME NEW env \in Envelopes
    PROVE  ArePolicies(NamespacePolicies(env))
<1> DEFINE items == env.asPolicies.items
           lists == [i \in DOMAIN items |-> PolicyRecords(items[i])]
<1>1. items \in Seq(PolicyItems)
  BY DEF Envelopes
<1> HIDE DEF items
<1>2. Len(items) \in Nat /\ DOMAIN items = 1..Len(items)
  BY <1>1
<1>3. ASSUME NEW i \in 1..Len(items) PROVE ArePolicies(PolicyRecords(items[i]))
  <2>1. items[i].version \in Nat
    <3>1. items[i] \in PolicyItems
      BY <1>1
    <3> QED BY <3>1 DEF PolicyItems
  <2>2. PolicyRecord(items[i]).version = items[i].version
    BY DEF PolicyRecord
  <2> QED BY <2>1, <2>2, NoneArePolicies, OnePolicy DEF PolicyRecords
<1>4. IsSeq(lists) /\ Len(lists) = Len(items)
  <2>1. lists \in [1..Len(items) -> Range(lists)]
    BY <1>2 DEF Range
  <2> HIDE DEF lists
  <2> QED BY <1>2, <2>1, FunctionIsSeq
<1>5. \A i \in 1..Len(items) : ArePolicies(lists[i])
  BY <1>2, <1>3
<1> HIDE DEF lists
<1>6. ArePolicies(FlattenSeq(lists))
  <2>1. \A i \in 1..Len(items) : IsSeq(lists[i])
    BY <1>5 DEF ArePolicies
  <2>2. IsSeq(FlattenSeq(lists))
        /\ Range(FlattenSeq(lists)) = UNION {Range(lists[i]) : i \in 1..Len(items)}
    BY <1>2, <1>4, <2>1, FlattenPuts DEF Puts
  <2> QED BY <1>5, <2>2 DEF ArePolicies
<1> QED BY <1>6, NoneArePolicies DEF NamespacePolicies, lists, items

(* Only a config envelope has policies. *)
LEMMA PoliciesFacts ==
    ASSUME NEW env \in Envelopes
    PROVE  /\ ArePolicies(Policies(env))
           /\ Policies(env) # <<>> =>
                 env.type \in ConfigTypes /\ (env.asPolicies.ok \/ env.asConfig.ok)
<1>1. ArePolicies(ConfigTxPolicy(env))
  <2>1. env.asConfig.version \in Nat
    BY DEF Envelopes
  <2> QED BY <2>1, NoneArePolicies, OnePolicy DEF ConfigTxPolicy
<1>2. /\ NamespacePolicies(env) # <<>> => env.asPolicies.ok
      /\ ConfigTxPolicy(env) # <<>> => env.asConfig.ok
  BY DEF NamespacePolicies, ConfigTxPolicy
<1> QED BY <1>1, <1>2, ItemsArePolicies, NoneArePolicies DEF Policies

LEMMA EndorsementsAreASeq ==
    ASSUME NEW list \in Seq(STRING)
    PROVE  IsSeq(EndorsementsFromSlice(list))
<1> DEFINE lists == [j \in DOMAIN list |-> IF list[j] = "" THEN <<>> ELSE << list[j] >>]
<1>1. Len(list) \in Nat /\ DOMAIN list = 1..Len(list)
  OBVIOUS
<1>2. IsSeq(lists) /\ Len(lists) = Len(list)
  <2>1. lists \in [1..Len(list) -> Range(lists)]
    BY <1>1 DEF Range
  <2> HIDE DEF lists
  <2> QED BY <1>1, <2>1, FunctionIsSeq
<1>3. \A i \in 1..Len(list) : IsSeq(lists[i])
  BY <1>1, EmptyIsSeq, OneIsSeq
<1> HIDE DEF lists
<1> QED BY <1>1, <1>2, <1>3, FlattenPuts DEF Puts, EndorsementsFromSlice, lists

(* The record of a transaction. *)
IsRecord(rec) ==
    /\ IsSeq(rec.namespaces)
    /\ \A j \in 1..Len(rec.namespaces) :
          /\ IsSeq(rec.namespaces[j].readsOnly) /\ IsSeq(rec.namespaces[j].readWrites)
          /\ IsSeq(rec.namespaces[j].blindWrites) /\ IsSeq(rec.namespaces[j].endorsements)
    /\ rec.chaincodeName # NoName =>
          Len(rec.namespaces) >= 1 /\ rec.namespaces[1].nsId = rec.chaincodeName

LEMMA TxRecordFacts ==
    ASSUME NEW n, NEW env \in Envelopes, NEW code
    PROVE  IsRecord(TxRecord(n, env, code))
<1> DEFINE tx  == env.asTx
           rec == TxRecord(n, env, code)
           N   == Len(tx.namespaces)
<1>1. /\ tx.namespaces \in Seq(TxNamespaces) /\ tx.endorsements \in Seq(Seq(STRING))
      /\ N \in Nat /\ DOMAIN tx.namespaces = 1..N
  BY DEF Envelopes
<1>2. CASE ~tx.ok
  <2>1. rec.namespaces = <<>> /\ rec.chaincodeName = NoName
    BY <1>2 DEF TxRecord, ChaincodeName
  <2> QED BY <2>1, EmptyIsSeq DEF IsRecord
<1>3. CASE tx.ok
  <2>1. rec.namespaces = NamespaceRecords(tx)
    BY <1>3 DEF TxRecord
  <2>2. rec.chaincodeName = IF tx.namespaces # <<>> THEN tx.namespaces[1].nsId ELSE NoName
    BY <1>3 DEF TxRecord, ChaincodeName
  <2> HIDE DEF rec, tx
  <2> DEFINE recs == NamespaceRecords(tx)
  <2>3. IsSeq(recs) /\ Len(recs) = N
    <3>1. recs \in [1..N -> Range(recs)]
      BY <1>1 DEF NamespaceRecords, Range
    <3> HIDE DEF recs, N
    <3> QED BY <1>1, <3>1, FunctionIsSeq
  <2>4. ASSUME NEW j \in 1..N
        PROVE  /\ recs[j] = NamespaceRecord(tx, j) /\ recs[j].nsId = tx.namespaces[j].nsId
               /\ IsSeq(recs[j].readsOnly) /\ IsSeq(recs[j].readWrites)
               /\ IsSeq(recs[j].blindWrites) /\ IsSeq(recs[j].endorsements)
    <3>1. recs[j] = NamespaceRecord(tx, j)
      BY <1>1 DEF NamespaceRecords
    <3>2. tx.namespaces[j] \in TxNamespaces
      BY <1>1
    <3>3. IsSeq(tx.namespaces[j].readsOnly) /\ IsSeq(tx.namespaces[j].readWrites)
          /\ IsSeq(tx.namespaces[j].blindWrites)
      BY <3>2, SeqIsSeq DEF TxNamespaces
    <3>4. j \in DOMAIN tx.endorsements => tx.endorsements[j] \in Seq(STRING)
      BY <1>1
    <3>5. IsSeq(NamespaceRecord(tx, j).endorsements)
      BY <3>4, EndorsementsAreASeq, EmptyIsSeq DEF NamespaceRecord
    <3> HIDE DEF recs
    <3> QED BY <3>1, <3>3, <3>5 DEF NamespaceRecord
  <2> HIDE DEF recs
  <2>5. tx.namespaces # <<>> => N >= 1
    BY <1>1
  <2>6. rec.chaincodeName # NoName => N >= 1 /\ recs[1].nsId = rec.chaincodeName
    <3> SUFFICES ASSUME rec.chaincodeName # NoName
                 PROVE  N >= 1 /\ recs[1].nsId = rec.chaincodeName
      OBVIOUS
    <3>1. tx.namespaces # <<>> /\ rec.chaincodeName = tx.namespaces[1].nsId
      BY <2>2
    <3>2. 1 \in 1..N
      BY <1>1, <2>5, <3>1
    <3> QED BY <1>1, <2>4, <2>5, <3>1, <3>2
  <2> QED BY <2>1, <2>3, <2>4, <2>6 DEF IsRecord, recs, rec
<1> QED BY <1>2, <1>3

-----------------------------------------------------------------------------
(* One position. *)

(* A position gives at most one transaction or error, and with a status it *)
(* gives one of them unless it is a committed config envelope.             *)
CommittedConfig(block, n) ==
    LET env == block.data[n + 1]
    IN  env.readable /\ env.type \in ConfigTypes /\ block.filter[n + 1] = "COMMITTED"
        /\ (env.asPolicies.ok \/ env.asConfig.ok)

TxRecordAt(block, n) == TxRecord(n, block.data[n + 1], block.filter[n + 1])

LEMMA HandledFacts ==
    ASSUME NEW block \in Blocks, NEW n \in Positions(block)
    PROVE  LET h == Handled(block, n)
           IN  /\ ArePolicies(h.policies)
               /\ \/ h.transactions = <<>>
                  \/ HasStatus(block, n) /\ h.transactions = << TxRecordAt(block, n) >>
                     /\ block.data[n + 1].readable /\ block.data[n + 1].txId # ""
                     /\ block.filter[n + 1] \in StoredStatuses
               /\ h.envelopeErrors = <<>> \/ \E e : h.envelopeErrors = <<e>> /\ e.txNum = n
               /\ h.transactions = <<>> \/ h.envelopeErrors = <<>>
               /\ HasStatus(block, n) /\ ~CommittedConfig(block, n) =>
                     h.transactions # <<>> \/ h.envelopeErrors # <<>>
<1> DEFINE env  == block.data[n + 1]
           code == block.filter[n + 1]
           h    == Handled(block, n)
<1>1. env \in Envelopes
  BY DEF Blocks, Positions
<1>2. CASE ~HasStatus(block, n)
  <2>1. h.policies = <<>> /\ h.transactions = <<>> /\ h.envelopeErrors = <<>>
    BY <1>2 DEF Handled, Result
  <2> QED BY <1>2, <2>1, NoneArePolicies
<1>3. CASE HasStatus(block, n)
  <2>1. h = HandleTx(n, env, code)
    BY <1>3 DEF Handled
  <2>2. /\ ArePolicies(CommittedPolicies(env, code))
        /\ CommittedPolicies(env, code) # <<>> =>
              code = "COMMITTED" /\ env.type \in ConfigTypes /\ (env.asPolicies.ok \/ env.asConfig.ok)
    BY <1>1, PoliciesFacts, NoneArePolicies DEF CommittedPolicies
  <2> HIDE DEF env, code, h
  <2>3. \A x : <<x>> # <<>>
    BY OneIsSeq, EmptyIsSeq
  <2>4. \A c, id : EnvelopeError(n, c, id).txNum = n
    BY DEF EnvelopeError
  <2>5. CASE ~env.readable
    <3>1. h = Result(<<>>, <<>>, << EnvelopeError(n, code, "") >>)
      BY <2>1, <2>5 DEF HandleTx
    <3>2. h.policies = <<>> /\ h.transactions = <<>> /\ h.envelopeErrors = << EnvelopeError(n, code, "") >>
      BY <3>1 DEF Result
    <3> QED BY <2>3, <2>4, <3>2, NoneArePolicies DEF h
  <2>6. CASE env.readable /\ CommittedPolicies(env, code) # <<>>
    <3>1. h = Result(<<>>, CommittedPolicies(env, code), <<>>)
      BY <2>1, <2>6 DEF HandleTx
    <3>2. h.policies = CommittedPolicies(env, code) /\ h.transactions = <<>> /\ h.envelopeErrors = <<>>
      BY <3>1 DEF Result
    <3>3. CommittedConfig(block, n)
      BY <2>2, <2>6 DEF CommittedConfig, env, code
    <3> QED BY <2>2, <3>2, <3>3 DEF h
  <2>7. CASE env.readable /\ CommittedPolicies(env, code) = <<>> /\ env.txId = ""
    <3>1. h = Result(<<>>, <<>>, << EnvelopeError(n, code, "") >>)
      BY <2>1, <2>7 DEF HandleTx
    <3>2. h.policies = <<>> /\ h.transactions = <<>> /\ h.envelopeErrors = << EnvelopeError(n, code, "") >>
      BY <3>1 DEF Result
    <3> QED BY <2>3, <2>4, <3>2, NoneArePolicies DEF h
  <2>8. CASE env.readable /\ CommittedPolicies(env, code) = <<>> /\ env.txId # ""
             /\ code \notin StoredStatuses
    <3>1. h = Result(<<>>, <<>>, << EnvelopeError(n, code, env.txId) >>)
      BY <2>1, <2>8 DEF HandleTx
    <3>2. h.policies = <<>> /\ h.transactions = <<>> /\ h.envelopeErrors = << EnvelopeError(n, code, env.txId) >>
      BY <3>1 DEF Result
    <3> QED BY <2>3, <2>4, <3>2, NoneArePolicies DEF h
  <2>9. CASE env.readable /\ CommittedPolicies(env, code) = <<>> /\ env.txId # ""
             /\ code \in StoredStatuses
    <3>1. h = Result(<< TxRecord(n, env, code) >>, <<>>, <<>>)
      BY <2>1, <2>9 DEF HandleTx
    <3>2. h.policies = <<>> /\ h.transactions = << TxRecord(n, env, code) >> /\ h.envelopeErrors = <<>>
      BY <3>1 DEF Result
    <3>3. TxRecordAt(block, n) = TxRecord(n, env, code)
      BY DEF TxRecordAt, env, code
    <3>4. env = block.data[n + 1] /\ code = block.filter[n + 1]
      BY DEF env, code
    <3> QED BY <1>3, <2>3, <2>9, <3>2, <3>3, <3>4, NoneArePolicies DEF h
  <2> QED BY <2>5, <2>6, <2>7, <2>8, <2>9
<1> QED BY <1>2, <1>3

-----------------------------------------------------------------------------
(* A block. *)

(* The records of a table, in the order of their positions. *)
InOrder(block, recs) ==
    /\ IsSeq(recs)
    /\ \A p \in 1..Len(recs) : recs[p].txNum \in Positions(block)
    /\ \A p, q \in 1..Len(recs) : p < q => recs[p].txNum < recs[q].txNum

HasRecord(recs, n) == \E p \in 1..Len(recs) : recs[p].txNum = n

(* Lists numbered by the positions of a block. *)
LEMMA ByPosition ==
    ASSUME NEW block \in Blocks, NEW lists, NEW S, lists \in [1..Len(block.data) -> S],
           \A n \in Positions(block) : AtMostOne(lists[n + 1], n)
    PROVE  LET recs == FlattenSeq(lists)
           IN  /\ InOrder(block, recs)
               /\ \A p \in 1..Len(recs) :
                     lists[recs[p].txNum + 1] # <<>> /\ lists[recs[p].txNum + 1][1] = recs[p]
               /\ \A n \in Positions(block) : lists[n + 1] = <<>> \/ HasRecord(recs, n)
<1> DEFINE recs == FlattenSeq(lists)
           N    == Len(block.data)
<1>1. N \in Nat /\ Positions(block) = 0..(N - 1)
  BY DEF Blocks, Positions
<1>2. IsSeq(lists) /\ Len(lists) = N
  BY <1>1, FunctionIsSeq
<1>3. ASSUME NEW i \in 1..N PROVE AtMostOne(lists[i], i - 1)
  <2>1. i - 1 \in Positions(block) /\ (i - 1) + 1 = i
    BY <1>1
  <2> QED BY <2>1
<1>4. \A i \in 1..N : IsSeq(lists[i])
  <2> SUFFICES ASSUME NEW i \in 1..N PROVE IsSeq(lists[i])
    OBVIOUS
  <2>1. CASE lists[i] = <<>>
    BY <2>1, EmptyIsSeq
  <2>2. CASE lists[i] # <<>>
    <3>1. PICK x : lists[i] = <<x>>
      BY <1>3, <2>2 DEF AtMostOne
    <3> QED BY <3>1, OneIsSeq
  <2> QED BY <2>1, <2>2
<1> HIDE DEF N
<1>5. Puts(recs, lists, N)
  BY <1>1, <1>2, <1>4, FlattenPuts
<1> HIDE DEF recs
<1>6. /\ \A p \in 1..Len(recs) :
            \E i \in 1..N : recs[p].txNum = i - 1 /\ lists[i] # <<>> /\ lists[i][1] = recs[p]
      /\ \A p, q \in 1..Len(recs) : p < q => recs[p].txNum < recs[q].txNum
      /\ \A i \in 1..N : lists[i] = <<>> \/ \E p \in 1..Len(recs) : recs[p].txNum = i - 1
  <2>1. N \in Nat /\ \A i \in 1..N : AtMostOne(lists[i], i - 1)
    BY <1>1, <1>3
  <2>2. Numbered(recs, lists, N)
    BY <1>5, <2>1, PutsNumbered
  <2> QED BY <2>2 DEF Numbered
<1>7. IsSeq(recs)
  BY <1>5 DEF Puts
<1>8. ASSUME NEW n \in Positions(block) PROVE lists[n + 1] = <<>> \/ HasRecord(recs, n)
  <2>1. n + 1 \in 1..N /\ (n + 1) - 1 = n
    BY <1>1
  <2> QED BY <1>6, <2>1 DEF HasRecord
<1>9. ASSUME NEW p \in 1..Len(recs)
      PROVE  recs[p].txNum \in Positions(block) /\ lists[recs[p].txNum + 1] # <<>> /\ lists[recs[p].txNum + 1][1] = recs[p]
  <2>1. PICK i \in 1..N : recs[p].txNum = i - 1 /\ lists[i] # <<>> /\ lists[i][1] = recs[p]
    BY <1>6
  <2>2. i - 1 \in Positions(block) /\ (i - 1) + 1 = i
    BY <1>1
  <2> QED BY <2>1, <2>2
<1> QED BY <1>6, <1>7, <1>8, <1>9 DEF InOrder, recs

LEMMA ParseFacts ==
    ASSUME NEW block \in Blocks
    PROVE  LET parsed == Parse(block)
               txs == parsed.transactions
               ees == parsed.envelopeErrors
           IN  /\ InOrder(block, txs) /\ InOrder(block, ees) /\ ArePolicies(parsed.policies)
               /\ \A p \in 1..Len(txs) :
                     LET n == txs[p].txNum
                     IN  /\ txs[p] = TxRecordAt(block, n) /\ IsRecord(txs[p])
                         /\ HasStatus(block, n)
                         /\ block.data[n + 1].readable /\ block.data[n + 1].txId # ""
                         /\ block.filter[n + 1] \in StoredStatuses
               /\ \A n \in Positions(block) :
                     /\ ~ (HasRecord(txs, n) /\ HasRecord(ees, n))
                     /\ HasStatus(block, n) /\ ~CommittedConfig(block, n) =>
                           HasRecord(txs, n) \/ HasRecord(ees, n)
               /\ parsed.createdAt = IF txs = <<>> THEN NoTime ELSE txs[1].createdAt
<1> DEFINE N    == Len(block.data)
           ofTx == [i \in 1..N |-> Handled(block, i - 1).transactions]
           ofP  == [i \in 1..N |-> Handled(block, i - 1).policies]
           ofE  == [i \in 1..N |-> Handled(block, i - 1).envelopeErrors]
           txs  == FlattenSeq(ofTx)
           ees  == FlattenSeq(ofE)
<1>1. /\ Parse(block).transactions = txs /\ Parse(block).envelopeErrors = ees
      /\ Parse(block).policies = FlattenSeq(ofP)
      /\ Parse(block).createdAt = IF txs = <<>> THEN NoTime ELSE txs[1].createdAt
  BY DEF Parse, ParseTxData, Result, BlockTime
<1>2. N \in Nat /\ Positions(block) = 0..(N - 1)
  BY DEF Blocks, Positions
<1>3. ASSUME NEW n \in Positions(block)
      PROVE  /\ n + 1 \in 1..N /\ n \in Nat
             /\ ofTx[n + 1] = Handled(block, n).transactions
             /\ ofP[n + 1] = Handled(block, n).policies
             /\ ofE[n + 1] = Handled(block, n).envelopeErrors
  <2>1. n + 1 \in 1..N /\ (n + 1) - 1 = n /\ n \in Nat
    BY <1>2
  <2> QED BY <2>1
<1>4. /\ ofTx \in [1..N -> Range(ofTx)] /\ ofP \in [1..N -> Range(ofP)]
      /\ ofE \in [1..N -> Range(ofE)]
  BY DEF Range
<1> HIDE DEF ofTx, ofP, ofE, N
<1>5. ASSUME NEW n \in Positions(block)
      PROVE  AtMostOne(ofTx[n + 1], n) /\ AtMostOne(ofE[n + 1], n)
  <2>1. TxRecordAt(block, n).txNum = n
    BY DEF TxRecordAt, TxRecord
  <2>2. AtMostOne(Handled(block, n).transactions, n)
    <3>1. \/ Handled(block, n).transactions = <<>>
          \/ Handled(block, n).transactions = << TxRecordAt(block, n) >>
      BY HandledFacts
    <3> QED BY <2>1, <3>1 DEF AtMostOne
  <2>3. AtMostOne(Handled(block, n).envelopeErrors, n)
    <3>1. \/ Handled(block, n).envelopeErrors = <<>>
          \/ \E e : Handled(block, n).envelopeErrors = <<e>> /\ e.txNum = n
      BY HandledFacts
    <3> QED BY <3>1 DEF AtMostOne
  <2> QED BY <1>3, <2>2, <2>3
<1>6. /\ InOrder(block, txs)
      /\ \A p \in 1..Len(txs) :
            ofTx[txs[p].txNum + 1] # <<>> /\ ofTx[txs[p].txNum + 1][1] = txs[p]
      /\ \A n \in Positions(block) : ofTx[n + 1] = <<>> \/ HasRecord(txs, n)
  <2>1. ofTx \in [1..Len(block.data) -> Range(ofTx)]
    BY <1>4 DEF N
  <2> QED BY <1>5, <2>1, ByPosition
<1>7. /\ InOrder(block, ees)
      /\ \A p \in 1..Len(ees) :
            ofE[ees[p].txNum + 1] # <<>> /\ ofE[ees[p].txNum + 1][1] = ees[p]
      /\ \A n \in Positions(block) : ofE[n + 1] = <<>> \/ HasRecord(ees, n)
  <2>1. ofE \in [1..Len(block.data) -> Range(ofE)]
    BY <1>4 DEF N
  <2> QED BY <1>5, <2>1, ByPosition
<1>8. ArePolicies(FlattenSeq(ofP))
  <2>1. ASSUME NEW i \in 1..N PROVE ArePolicies(ofP[i])
    <3>1. i - 1 \in Positions(block) /\ (i - 1) + 1 = i
      BY <1>2
    <3>2. ofP[(i - 1) + 1] = Handled(block, i - 1).policies
      BY <1>3, <3>1
    <3>3. ArePolicies(Handled(block, i - 1).policies)
      BY <3>1, HandledFacts
    <3> QED BY <3>1, <3>2, <3>3
  <2>2. IsSeq(ofP) /\ Len(ofP) = N
    BY <1>2, <1>4, FunctionIsSeq
  <2>3. IsSeq(FlattenSeq(ofP)) /\ Range(FlattenSeq(ofP)) = UNION {Range(ofP[i]) : i \in 1..N}
    BY <1>2, <2>1, <2>2, FlattenPuts DEF Puts, ArePolicies
  <2> QED BY <2>1, <2>3 DEF ArePolicies
<1> HIDE DEF txs, ees
<1>9. ASSUME NEW p \in 1..Len(txs)
      PROVE  LET n == txs[p].txNum
             IN  /\ txs[p] = TxRecordAt(block, n) /\ IsRecord(txs[p])
                 /\ HasStatus(block, n)
                 /\ block.data[n + 1].readable /\ block.data[n + 1].txId # ""
                 /\ block.filter[n + 1] \in StoredStatuses
  <2> DEFINE n == txs[p].txNum
  <2>1. n \in Positions(block) /\ ofTx[n + 1] # <<>> /\ ofTx[n + 1][1] = txs[p]
    BY <1>6 DEF InOrder
  <2> HIDE DEF n
  <2>2. ofTx[n + 1] = Handled(block, n).transactions
    BY <1>3, <2>1
  <2>3. /\ HasStatus(block, n) /\ ofTx[n + 1] = << TxRecordAt(block, n) >>
        /\ block.data[n + 1].readable /\ block.data[n + 1].txId # ""
        /\ block.filter[n + 1] \in StoredStatuses
    BY <2>1, <2>2, HandledFacts
  <2>4. txs[p] = TxRecordAt(block, n)
    BY <2>1, <2>3, OneIsSeq
  <2>5. block.data[n + 1] \in Envelopes
    BY <1>2, <2>1 DEF Blocks, N
  <2>6. IsRecord(txs[p])
    BY <2>4, <2>5, TxRecordFacts DEF TxRecordAt
  <2> QED BY <2>3, <2>4, <2>6 DEF n
<1>10. ASSUME NEW n \in Positions(block)
       PROVE  /\ ~ (HasRecord(txs, n) /\ HasRecord(ees, n))
              /\ HasStatus(block, n) /\ ~CommittedConfig(block, n) =>
                    HasRecord(txs, n) \/ HasRecord(ees, n)
  <2>1. HasRecord(txs, n) => Handled(block, n).transactions # <<>>
    <3> SUFFICES ASSUME HasRecord(txs, n) PROVE Handled(block, n).transactions # <<>>
      OBVIOUS
    <3>1. PICK p \in 1..Len(txs) : txs[p].txNum = n
      BY DEF HasRecord
    <3>2. ofTx[n + 1] # <<>>
      BY <1>6, <3>1
    <3> QED BY <1>3, <3>2
  <2>2. HasRecord(ees, n) => Handled(block, n).envelopeErrors # <<>>
    <3> SUFFICES ASSUME HasRecord(ees, n) PROVE Handled(block, n).envelopeErrors # <<>>
      OBVIOUS
    <3>1. PICK p \in 1..Len(ees) : ees[p].txNum = n
      BY DEF HasRecord
    <3>2. ofE[n + 1] # <<>>
      BY <1>7, <3>1
    <3> QED BY <1>3, <3>2
  <2>3. /\ Handled(block, n).transactions = <<>> \/ Handled(block, n).envelopeErrors = <<>>
        /\ HasStatus(block, n) /\ ~CommittedConfig(block, n) =>
              Handled(block, n).transactions # <<>> \/ Handled(block, n).envelopeErrors # <<>>
    BY HandledFacts
  <2> QED BY <1>3, <1>6, <1>7, <2>1, <2>2, <2>3
<1> QED BY <1>1, <1>6, <1>7, <1>8, <1>9, <1>10
=============================================================================
