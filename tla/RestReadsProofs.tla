-------------------------- MODULE RestReadsProofs --------------------------
(***************************************************************************)
(* Theorems about RestReads: what the handlers answer while the writers    *)
(* of BlockStore commit, for every chain, every number of sessions and of  *)
(* faults, every value of the parameters and every decoding of policies.   *)
(***************************************************************************)
EXTENDS RestReads, BlockStoreProofs

-----------------------------------------------------------------------------
(* Pages. *)

(* How many numbers of S stand before n. *)
Rank(S, n) == Cardinality({m \in S : m < n})

LEMMA RankFacts ==
    ASSUME NEW S, S \subseteq Nat, IsFiniteSet(S)
    PROVE  /\ Cardinality(S) \in Nat
           /\ \A n \in S : Rank(S, n) \in 0..(Cardinality(S) - 1)
           /\ \A m, n \in S : m < n => Rank(S, m) < Rank(S, n)
           /\ \A k \in 0..(Cardinality(S) - 1) : \E n \in S : Rank(S, n) = k
<1> DEFINE N == Cardinality(S)
           Before(n) == {m \in S : m < n}
           f == [n \in S |-> Rank(S, n)]
<1>1. N \in Nat
  BY FS_CardinalityType
<1>2. \A n \in S : n \notin Before(n)
  OBVIOUS
<1>3. \A n : Rank(S, n) = Cardinality(Before(n))
  BY DEF Rank
<1>4. \A n \in S : Before(n) \cup {n} \in SUBSET S /\ Before(n) \in SUBSET S
  OBVIOUS
<1>5. ASSUME NEW m \in S, NEW n \in S, m < n
      PROVE  Before(m) \cup {m} \in SUBSET Before(n)
  <2>1. m \in Before(n)
    BY <1>5
  <2>2. ASSUME NEW k \in Before(m) PROVE k \in Before(n)
    <3>1. k \in Nat /\ m \in Nat /\ n \in Nat /\ k < m /\ k \in S
      OBVIOUS
    <3>2. k < n
      BY <1>5, <3>1
    <3> QED BY <3>1, <3>2
  <2> QED BY <2>1, <2>2
<1> HIDE DEF Before
<1>6. ASSUME NEW n \in S
      PROVE  /\ IsFiniteSet(Before(n)) /\ Rank(S, n) \in Nat
             /\ Cardinality(Before(n) \cup {n}) = Rank(S, n) + 1
  <2>1. IsFiniteSet(Before(n))
    BY <1>4, FS_Subset
  <2> QED BY <1>2, <1>3, <2>1, FS_AddElement, FS_CardinalityType
<1>7. \A n \in S : Rank(S, n) \in 0..(N - 1)
  <2> SUFFICES ASSUME NEW n \in S PROVE Rank(S, n) \in 0..(N - 1)
    OBVIOUS
  <2>1. Cardinality(Before(n) \cup {n}) <= N
    BY <1>4, FS_Subset
  <2> QED BY <1>1, <1>6, <2>1
<1>8. \A m, n \in S : m < n => Rank(S, m) < Rank(S, n)
  <2> SUFFICES ASSUME NEW m \in S, NEW n \in S, m < n PROVE Rank(S, m) < Rank(S, n)
    OBVIOUS
  <2>1. Cardinality(Before(m) \cup {m}) <= Cardinality(Before(n))
    <3>1. Before(m) \cup {m} \in SUBSET Before(n) /\ IsFiniteSet(Before(n))
      BY <1>5, <1>6
    <3> HIDE DEF Before
    <3> QED BY <3>1, FS_Subset
  <2>2. Rank(S, m) \in Nat /\ Cardinality(Before(m) \cup {m}) = Rank(S, m) + 1
    BY <1>6
  <2>3. Rank(S, n) \in Nat /\ Rank(S, n) = Cardinality(Before(n))
    BY <1>3, <1>6
  <2> QED BY <2>1, <2>2, <2>3
<1>9. \A k \in 0..(N - 1) : \E n \in S : Rank(S, n) = k
  <2>1. f \in [S -> 0..(N - 1)]
    BY <1>7
  <2>2. \A m, n \in S : f[m] = f[n] => m = n
    <3> SUFFICES ASSUME NEW m \in S, NEW n \in S, Rank(S, m) = Rank(S, n) PROVE m = n
      OBVIOUS
    <3>1. ~(m < n) /\ ~(n < m)
      <4>1. Rank(S, m) \in Nat /\ Rank(S, n) \in Nat
        BY <1>6
      <4>2. (m < n => Rank(S, m) < Rank(S, n)) /\ (n < m => Rank(S, n) < Rank(S, m))
        BY <1>8
      <4> QED BY <4>1, <4>2
    <3>2. m \in Nat /\ n \in Nat
      OBVIOUS
    <3> QED BY <3>1, <3>2
  <2>3. IsFiniteSet(0..(N - 1)) /\ Cardinality(0..(N - 1)) = N
    <3>1. IsFiniteSet(0..(N - 1))
          /\ Cardinality(0..(N - 1)) = IF 0 > N - 1 THEN 0 ELSE (N - 1) - 0 + 1
      BY <1>1, FS_Interval, SMTT(30)
    <3> QED BY <1>1, <3>1
  <2>4. f \in Injection(S, 0..(N - 1))
    BY <2>1, <2>2 DEF Injection, IsInjective
  <2> HIDE DEF f
  <2>5. f \in Surjection(S, 0..(N - 1))
    BY <2>3, <2>4, FS_Injection
  <2>6. \A k \in 0..(N - 1) : \E n \in S : f[n] = k
    BY <2>5 DEF Surjection
  <2> QED BY <2>6 DEF f
<1> QED BY <1>1, <1>7, <1>8, <1>9

LEMMA SetHasGreatest ==
    ASSUME NEW S, S \subseteq Nat, IsFiniteSet(S), S # {}
    PROVE  \E x \in S : \A y \in S : y <= x
<1> DEFINE N == Cardinality(S)
<1>1. N \in Nat /\ N # 0
  BY FS_CardinalityType, FS_EmptySet
<1>2. N - 1 \in 0..(N - 1)
  BY <1>1
<1>3. PICK x \in S : Rank(S, x) = N - 1
  BY <1>2, RankFacts
<1>4. ASSUME NEW y \in S PROVE y <= x
  <2>1. x < y => Rank(S, x) < Rank(S, y)
    BY RankFacts
  <2>2. Rank(S, y) \in 0..(N - 1)
    BY RankFacts
  <2> QED BY <1>1, <1>3, <2>1, <2>2
<1> QED BY <1>4

LEMMA MinMaxFacts ==
    ASSUME NEW S, S \subseteq Nat, IsFiniteSet(S), S # {}
    PROVE  Min(S) \in S /\ Max(S) \in S /\ \A x \in S : Min(S) <= x /\ x < Max(S) + 1
<1>1. \E x \in S : \A y \in S : x >= y
  <2>1. PICK x \in S : \A y \in S : y <= x
    BY SetHasGreatest
  <2> QED BY <2>1
<1>2. Max(S) \in S /\ \A y \in S : Max(S) >= y
  BY <1>1 DEF Max
<1>3. Min(S) \in S /\ \A y \in S : Min(S) <= y
  BY NatHasLeast DEF Min
<1>4. ASSUME NEW x \in S PROVE Min(S) <= x /\ x < Max(S) + 1
  <2>1. Max(S) >= x /\ Max(S) \in Nat /\ x \in Nat
    BY <1>2
  <2> QED BY <1>3, <2>1
<1> QED BY <1>2, <1>3, <1>4

(* A page is full unless the numbers end before it does. *)
LEMMA PageFacts ==
    ASSUME NEW S, S \subseteq Nat, IsFiniteSet(S), NEW lim \in Nat \ {0}, NEW off \in Nat
    PROVE  LET page == OrderedPage(S, lim, off)
           IN  /\ page \subseteq S /\ IsFiniteSet(page) /\ Cardinality(page) <= lim
               /\ Cardinality(page) = lim <=> off + lim <= Cardinality(S)
               /\ \A n \in S : n \in page <=> off <= Rank(S, n) /\ Rank(S, n) < off + lim
<1> DEFINE N == Cardinality(S)
           page == OrderedPage(S, lim, off)
           T == off..(off + lim - 1)
           g == [n \in page |-> Rank(S, n)]
<1>1. page = {n \in S : Rank(S, n) \in T}
  BY DEF OrderedPage, Rank
<1>2. N \in Nat /\ \A n \in S : Rank(S, n) \in 0..(N - 1)
  BY RankFacts
<1>3. IsFiniteSet(T) /\ Cardinality(T) = lim
  <2>1. IsFiniteSet(T) /\ Cardinality(T) = IF off > off + lim - 1 THEN 0 ELSE (off + lim - 1) - off + 1
    BY FS_Interval
  <2> QED BY <2>1
<1> HIDE DEF page
<1>4. g \in [page -> T]
  BY <1>1
<1>5. \A m, n \in page : g[m] = g[n] => m = n
  <2> SUFFICES ASSUME NEW m \in page, NEW n \in page, Rank(S, m) = Rank(S, n) PROVE m = n
    OBVIOUS
  <2>1. m \in S /\ n \in S
    BY <1>1
  <2>2. ~(m < n) /\ ~(n < m)
    <3>1. Rank(S, m) \in Nat /\ Rank(S, n) \in Nat
      BY <1>2, <2>1
    <3>2. (m < n => Rank(S, m) < Rank(S, n)) /\ (n < m => Rank(S, n) < Rank(S, m))
      BY <2>1, RankFacts
    <3> QED BY <3>1, <3>2
  <2>3. m \in Nat /\ n \in Nat
    BY <2>1
  <2> QED BY <2>2, <2>3
<1>6. g \in Injection(page, T)
  BY <1>4, <1>5 DEF Injection, IsInjective
<1>7. g \in Surjection(page, T) <=> \A k \in T : \E n \in page : Rank(S, n) = k
  BY <1>4 DEF Surjection
<1> HIDE DEF g
<1>8. /\ IsFiniteSet(page) /\ Cardinality(page) <= lim
      /\ Cardinality(page) = lim <=> g \in Surjection(page, T)
  BY <1>3, <1>6, FS_Injection
<1>9. (\A k \in T : \E n \in page : Rank(S, n) = k) <=> off + lim <= N
  <2>1. ASSUME \A k \in T : \E n \in page : Rank(S, n) = k PROVE off + lim <= N
    <3>1. off + lim - 1 \in T
      OBVIOUS
    <3>2. PICK n \in page : Rank(S, n) = off + lim - 1
      BY <2>1, <3>1
    <3>3. n \in S
      BY <1>1
    <3> QED BY <1>2, <3>2, <3>3
  <2>2. ASSUME off + lim <= N, NEW k \in T PROVE \E n \in page : Rank(S, n) = k
    <3>1. k \in 0..(N - 1)
      BY <1>2, <2>2
    <3>2. PICK n \in S : Rank(S, n) = k
      BY <3>1, RankFacts
    <3>3. n \in page
      BY <1>1, <3>2
    <3> QED BY <3>2, <3>3
  <2> QED BY <2>1, <2>2
<1>10. page \subseteq S /\ \A n \in S : n \in page <=> off <= Rank(S, n) /\ Rank(S, n) < off + lim
  BY <1>1, <1>2
<1> QED BY <1>7, <1>8, <1>9, <1>10 DEF page

(* More numbers put none further to the front. *)
LEMMA RankGrows ==
    ASSUME NEW S, NEW T, S \subseteq T, IsFiniteSet(T), NEW n
    PROVE  Rank(S, n) <= Rank(T, n) /\ Rank(S, n) \in Nat /\ Rank(T, n) \in Nat
<1> DEFINE s == {m \in S : m < n}
           t == {m \in T : m < n}
<1>1. s \in SUBSET t /\ t \in SUBSET T
  OBVIOUS
<1>2. Rank(S, n) = Cardinality(s) /\ Rank(T, n) = Cardinality(t)
  BY DEF Rank
<1> HIDE DEF s, t
<1>3. IsFiniteSet(t) /\ IsFiniteSet(s) /\ Cardinality(s) <= Cardinality(t)
  BY <1>1, FS_Subset
<1> QED BY <1>2, <1>3, FS_CardinalityType

-----------------------------------------------------------------------------
(* What statements read. *)

LEMMA BlockNumsFacts ==
    /\ IsFiniteSet(BlockNums) /\ Cardinality(BlockNums) \in Nat /\ BlockNums \subseteq Nat
    /\ IsFiniteSet(Visible) /\ Visible \subseteq BlockNums
<1>1. IsFiniteSet(BlockNums) /\ Cardinality(BlockNums) \in Nat
  BY ChainAssumption, FS_CardinalityType
<1>2. BlockNums \subseteq Nat
  BY <1>1, ChainAssumption
<1>3. Visible \in SUBSET BlockNums
  BY DEF Visible
<1> QED BY <1>1, <1>2, <1>3, FS_Subset

LEMMA ChildrenFacts ==
    /\ DOMAIN Children = 1..5 /\ Len(Children) = 5
    /\ \A i \in 1..5 : Children[i] \in {"tx_namespaces", "tx_blind_writes", "tx_endorsements",
                                        "tx_read_writes", "tx_reads_only"}
    /\ \A i, j \in 1..5 : Children[i] = Children[j] => i = j
    /\ Range(Children) = {Children[i] : i \in 1..5}
<1>1. DOMAIN Children = 1..5 /\ Len(Children) = 5
  BY DEF Children
<1>2. /\ Children[1] = "tx_namespaces" /\ Children[2] = "tx_blind_writes"
      /\ Children[3] = "tx_endorsements" /\ Children[4] = "tx_read_writes"
      /\ Children[5] = "tx_reads_only"
  BY DEF Children
<1>3. \A i \in 1..5 : i = 1 \/ i = 2 \/ i = 3 \/ i = 4 \/ i = 5
  OBVIOUS
<1> QED BY <1>1, <1>2, <1>3 DEF Range

(* The rows of block b in one table, and those of its transactions nums.    *)
OfTable(b, name) == {row \in OwnRows(b) : TableOf(row) = name}
OfTxs(b, names, nums) == {row \in OwnRows(b) : TableOf(row) \in names /\ TxNum(row) \in nums}

(* A row that is no policy is one of a block that is stored. *)
LEMMA RowsAreOfBlocks ==
    ASSUME WholeBlocks, NEW row \in table, IsOwn(row)
    PROVE  Key(row)[2] \in Visible /\ row \in OwnRows(Key(row)[2])
<1>1. PICK b \in Visible : row \in Range(Statements[b])
  BY DEF WholeBlocks
<1>2. b \in BlockNums
  BY DEF Visible
<1>3. Key(row)[2] = b
  BY <1>1, <1>2, StatementFacts
<1>4. PICK first \in OwnRows(b) : Key(first) = Key(row)
  BY <1>1, <1>2, FirstOwnRow
<1>5. first \in table
  BY DEF WholeBlocks
<1>6. first = row
  BY <1>4, <1>5 DEF WholeBlocks
<1> QED BY <1>3, <1>6

LEMMA OwnRowsOf ==
    ASSUME NEW b \in BlockNums, NEW row \in OwnRows(b)
    PROVE  Key(row)[2] = b /\ IsOwn(row) /\ row \in Range(Statements[b]) /\ row \in AllRows
BY OwnRowsFacts, StatementFacts

LEMMA BlockRowsAreOwn ==
    ASSUME WholeBlocks, NEW b \in Visible, NEW name, name # "namespace_policies"
    PROVE  BlockRows(name, b) = OfTable(b, name)
<1>1. b \in BlockNums /\ OwnRows(b) \subseteq table
  BY DEF Visible, WholeBlocks
<1>2. ASSUME NEW row \in BlockRows(name, b) PROVE row \in OfTable(b, name)
  <2>1. row \in table /\ TableOf(row) = name /\ Key(row)[2] = b
    BY DEF BlockRows
  <2>2. row \in OwnRows(b)
    BY <2>1, RowsAreOfBlocks DEF IsOwn
  <2> QED BY <2>1, <2>2 DEF OfTable
<1>3. ASSUME NEW row \in OfTable(b, name) PROVE row \in BlockRows(name, b)
  BY <1>1, OwnRowsOf DEF OfTable, BlockRows
<1> QED BY <1>2, <1>3

(* A block is found exactly when it is stored. *)
LEMMA BlockFound ==
    ASSUME WholeBlocks, NEW b
    PROVE  BlockRows("blocks", b) = {} <=> b \notin Visible
<1>1. ASSUME b \in Visible PROVE BlockRows("blocks", b) # {}
  <2>1. PICK row \in table : Key(row) = <<"blocks", b>>
    BY <1>1 DEF Visible, Keys
  <2>2. TableOf(row) = "blocks" /\ Key(row)[2] = b
    BY <2>1 DEF TableOf
  <2> QED BY <2>2 DEF BlockRows
<1>2. ASSUME BlockRows("blocks", b) # {} PROVE b \in Visible
  <2>1. PICK row \in table : TableOf(row) = "blocks" /\ Key(row)[2] = b
    BY <1>2 DEF BlockRows
  <2> QED BY <2>1, RowsAreOfBlocks DEF IsOwn
<1> QED BY <1>1, <1>2

(* The transactions of a block are told apart by their numbers. *)
LEMMA OwnTxFacts ==
    ASSUME NEW b \in BlockNums
    PROVE  /\ OwnTxNums(b) \subseteq Nat /\ IsFiniteSet(OwnTxNums(b))
           /\ \A r1, r2 \in OfTable(b, "transactions") : TxNum(r1) = TxNum(r2) => r1 = r2
<1>1. ASSUME NEW row \in OfTable(b, "transactions")
      PROVE  /\ TxNum(row) \in Positions(Chain[b]) /\ row \in OwnRows(b)
             /\ Key(row) = <<"transactions", b, TxNum(row)>>
  <2>1. row \in OwnRows(b) /\ TableOf(row) = "transactions"
    BY DEF OfTable
  <2>2. PICK i \in 1..Len(Txs(b)) : row = TxRow(b, Txs(b)[i])
    BY <2>1, OwnRowsOf, StatementsByTable
  <2>3. Key(row) = <<"transactions", b, Txs(b)[i].txNum>> /\ Key(row)[3] = Txs(b)[i].txNum
    BY <2>2, TxRowKey
  <2>4. Chain[b] \in Blocks
    BY ChainAssumption
  <2>5. Txs(b)[i].txNum \in Positions(Chain[b])
    BY <2>4, ParseFacts DEF Txs, InOrder
  <2> QED BY <2>1, <2>3, <2>5 DEF TxNum
<1>2. OwnTxNums(b) \in SUBSET Positions(Chain[b])
  BY <1>1 DEF OwnTxNums, TxNums, OfTable
<1>3. Positions(Chain[b]) \subseteq Nat /\ IsFiniteSet(Positions(Chain[b]))
  <2>1. Len(Chain[b].data) \in Nat
    BY ChainAssumption DEF Blocks
  <2>2. IsFiniteSet(0..(Len(Chain[b].data) - 1))
    BY <2>1, FS_Interval
  <2> QED BY <2>1, <2>2 DEF Positions
<1>4. IsFiniteSet(OwnTxNums(b))
  BY <1>2, <1>3, FS_Subset
<1>5. \A r1, r2 \in OfTable(b, "transactions") : TxNum(r1) = TxNum(r2) => r1 = r2
  BY <1>1, OwnRowsFacts
<1> QED BY <1>2, <1>3, <1>4, <1>5

LEMMA AllRowsFinite == IsFiniteSet(AllRows)
<1> DEFINE Of(b) == Range(Statements[b])
           all == {Of(b) : b \in BlockNums}
           f == [b \in BlockNums |-> Of(b)]
<1>1. ASSUME NEW b \in BlockNums PROVE IsFiniteSet(Of(b))
  <2> DEFINE rows == Statements[b]
             g == [i \in 1..Len(rows) |-> rows[i]]
  <2>1. Len(rows) \in Nat /\ Range(rows) = {rows[i] : i \in 1..Len(rows)}
    BY StatementFacts
  <2>2. g \in Surjection(1..Len(rows), Range(rows))
    BY <2>1 DEF Surjection
  <2>3. IsFiniteSet(1..Len(rows))
    BY <2>1, FS_Interval
  <2> HIDE DEF g, rows
  <2> QED BY <2>2, <2>3, FS_Surjection DEF rows
<1> HIDE DEF Of
<1>2. f \in Surjection(BlockNums, all)
  BY DEF Surjection
<1>3. IsFiniteSet(all)
  <2> HIDE DEF f, all
  <2> QED BY <1>2, BlockNumsFacts, FS_Surjection
<1>4. \A x \in all : IsFiniteSet(x)
  BY <1>1
<1>5. AllRows = UNION all
  BY DEF AllRows, Of
<1> HIDE DEF all
<1> QED BY <1>3, <1>4, <1>5, FS_UNION

(* A stored policy has a version, and its row is found under it. *)
LEMMA PolicyRowFacts ==
    ASSUME WholeBlocks, NEW row \in PolicyRows
    PROVE  /\ Key(row)[3] \in Nat
           /\ Key(row) = <<"namespace_policies", Key(row)[2], Key(row)[3]>>
           /\ <<"namespace_policies", Key(row)[2], Key(row)[3]>> \in Keys(table)
<1>1. row \in table /\ TableOf(row) = "namespace_policies"
  BY DEF PolicyRows
<1>2. PICK b \in Visible : row \in Range(Statements[b])
  BY <1>1 DEF WholeBlocks
<1>3. b \in BlockNums
  BY DEF Visible
<1>4. /\ TableOf(BlockRow(b, Parse(Chain[b]))) = "blocks"
      /\ \A t : TableOf(TxRow(b, t)) = "transactions"
      /\ \A r : TableOf(NamespaceRow(b, r)) = "tx_namespaces"
      /\ \A e : TableOf(ErrorRow(b, e)) = "block_envelope_errors"
  BY BlockRowKey, TxRowKey, NamespaceRowKey, ErrorRowKey
<1>5. \/ row = BlockRow(b, Parse(Chain[b]))
      \/ \E i \in 1..Len(Txs(b)) : row = TxRow(b, Txs(b)[i])
      \/ \E k \in 1..Len(Recs(b)) : row = NamespaceRow(b, Recs(b)[k])
      \/ TableOf(row) \in ListTables
      \/ IsPolicyRow(row)
      \/ \E i \in 1..Len(Errors(b)) : row = ErrorRow(b, Errors(b)[i])
  BY <1>2, <1>3, StatementRows
<1>6. IsPolicyRow(row)
  BY <1>1, <1>4, <1>5 DEF ListTables
<1>7. Key(row) \in Keys(table)
  BY <1>1 DEF Keys
<1> QED BY <1>6, <1>7 DEF IsPolicyRow

-----------------------------------------------------------------------------
(* The inductive invariant. *)


(* The tables of transactions that are read before the i-th of Children.    *)
TablesBefore(i) == {"transactions"} \cup {Children[j] : j \in 1..(i - 1)}

TxPage == OrderedPage(OwnTxNums(req.num), req.lim, req.off)

(* A block that was found stays stored, and what was read of it so far is   *)
(* what it was stored with.                                                *)
BlockRead ==
    \/ req.pc \in {"blocks", "not_found"} /\ req.txs = {} /\ req.rows = {}
    \/ /\ req.num \in Visible
       /\ \/ /\ req.pc = "transactions" /\ req.txs = {}
             /\ req.rows = OfTable(req.num, "blocks")
          \/ \E i \in 1..5 :
                /\ req.pc = Children[i] /\ req.txs = TxPage /\ TxPage # {}
                /\ req.rows = OfTable(req.num, "blocks") \cup OfTxs(req.num, TablesBefore(i), TxPage)
          \/ /\ req.pc = "block_envelope_errors" /\ req.txs = TxPage
             /\ req.rows = OfTable(req.num, "blocks") \cup OfTxs(req.num, TablesBefore(6), TxPage)
          \/ /\ req.pc = "ok" /\ req.txs = TxPage
             /\ req.rows = OfTable(req.num, "blocks") \cup OfTxs(req.num, TablesBefore(6), TxPage)
                           \cup OfTable(req.num, "block_envelope_errors")

TxRead ==
    \/ req.pc \in {"lookup", "not_found"} /\ req.txs = {} /\ req.rows = {}
    \/ /\ req.num \in Visible
       /\ \E n : /\ req.txs = {n}
                 /\ \/ /\ req.pc = "ok"
                       /\ req.rows = OfTxs(req.num, TablesBefore(6), {n})
                    \/ \E i \in 1..5 : /\ req.pc = Children[i]
                                       /\ req.rows = OfTxs(req.num, TablesBefore(i), {n})

(* Policies that were answered with are stored, and never lost again.       *)
Known(versions) ==
    \A p \in versions : <<"namespace_policies", p.namespace, p.version>> \in Keys(table)

RequestOK ==
    /\ req.op \in {"none", "block", "tx", "policies", "namespace"}
    /\ req.num \in BlockNums \cup {0} /\ req.lim \in Nat \ {0} /\ req.off \in Nat
    /\ req.op = "none" => req.pc = "idle" /\ req.txs = {} /\ req.rows = {}
    /\ req.op = "block" => BlockRead
    /\ req.op = "tx" => TxRead
    /\ req.op \in {"policies", "namespace"} => req.pc = "ok" /\ req.txs = {} /\ req.rows = {}
    /\ Known(req.policies)

ToldOK == told.blocks \subseteq Visible /\ Known(told.policies)

(* Blocks of the range that were stored when paging began and have not been *)
(* seen yet stand where the next page begins, or after.                    *)
PagerRange == {b \in Visible : InRange(b, Param(pager.from), Param(pager.to))}

PagerOK ==
    /\ pager.state \in {"idle", "more", "end"} /\ pager.lim \in Nat \ {0} /\ pager.off \in Nat
    /\ pager.state = "end" => /\ pager.off <= Cardinality(BlockNums) + pager.lim
                              /\ pager.base \subseteq pager.seen
    /\ pager.state # "end" => pager.off <= Cardinality(BlockNums)
    /\ pager.base \subseteq PagerRange
    /\ \A b \in pager.base \ pager.seen : Rank(PagerRange, b) >= pager.off

Fields ==
    /\ DOMAIN req = {"op", "pc", "num", "id", "lim", "off", "txs", "rows", "policies"}
    /\ DOMAIN pager = {"state", "from", "to", "lim", "off", "base", "seen"}
    /\ DOMAIN told = {"blocks", "policies"}

ReadsIInv == IInv /\ Fields /\ RequestOK /\ ToldOK /\ PagerOK

LEMMA NoRequestFields ==
    /\ DOMAIN NoRequest = {"op", "pc", "num", "id", "lim", "off", "txs", "rows", "policies"}
    /\ NoRequest.op = "none" /\ NoRequest.pc = "idle" /\ NoRequest.num = 0 /\ NoRequest.lim = 1
    /\ NoRequest.off = 0 /\ NoRequest.txs = {} /\ NoRequest.rows = {} /\ NoRequest.policies = {}
BY DEF NoRequest

LEMMA NoneIsOK == req = NoRequest => RequestOK
<1> SUFFICES ASSUME req = NoRequest PROVE RequestOK
  OBVIOUS
<1>1. /\ req.op = "none" /\ req.pc = "idle" /\ req.num = 0 /\ req.lim = 1
      /\ req.off = 0 /\ req.txs = {} /\ req.rows = {} /\ req.policies = {}
  BY NoRequestFields
<1>2. Known(req.policies)
  BY <1>1 DEF Known
<1> QED BY <1>1, <1>2 DEF RequestOK

LEMMA InitReads == ReadsInit => ReadsIInv
<1> SUFFICES ASSUME ReadsInit PROVE ReadsIInv
  OBVIOUS
<1>1. req = NoRequest /\ pager = NoPager /\ told = [blocks |-> {}, policies |-> {}]
  BY DEF ReadsInit
<1>2. IInv
  BY InitIInv DEF ReadsInit
<1>3. Fields
  BY <1>1 DEF Fields, NoRequest, NoPager
<1>4. RequestOK
  BY <1>1, NoneIsOK
<1>5. ToldOK
  BY <1>1 DEF ToldOK, Known
<1>6. PagerOK
  BY <1>1, BlockNumsFacts DEF PagerOK, NoPager
<1> QED BY <1>2, <1>3, <1>4, <1>5, <1>6 DEF ReadsIInv

-----------------------------------------------------------------------------
(* A step of the writers takes nothing away from what was read.            *)

LEMMA StoreGrows ==
    ASSUME IInv, [Next]_vars
    PROVE  Visible \subseteq Visible' /\ Keys(table) \subseteq Keys(table)'
<1>1. Keys(table) \subseteq Keys(table)'
  <2>1. CASE table' = table
    BY <2>1 DEF Keys
  <2>2. ASSUME NEW s \in Sessions, Commits(s) PROVE Keys(table) \subseteq Keys(table)'
    <3>1. table' = Applied(txn[s].puts)
      BY <2>2 DEF Commits
    <3>2. Keys(table)' = Keys(table')
      BY DEF Keys
    <3>3. Keys(Applied(txn[s].puts)) = Keys(table) \cup Keys(txn[s].puts)
      BY AppliedFacts
    <3> QED BY <3>1, <3>2, <3>3
  <2> QED BY <2>1, <2>2, StepShape DEF Quiet, Executes
<1> QED BY <1>1 DEF Visible

LEMMA SameRequest ==
    ASSUME req' = req, Visible \subseteq Visible', Keys(table) \subseteq Keys(table)', RequestOK
    PROVE  RequestOK'
<1>1. BlockRead => BlockRead'
  BY DEF BlockRead, TxPage
<1>2. TxRead => TxRead'
  BY DEF TxRead
<1>3. Known(req.policies) => Known(req.policies)'
  BY DEF Known
<1> QED BY <1>1, <1>2, <1>3 DEF RequestOK

LEMMA SameTold ==
    ASSUME told' = told, Visible \subseteq Visible', Keys(table) \subseteq Keys(table)', ToldOK
    PROVE  ToldOK'
BY DEF ToldOK, Known

LEMMA SamePager ==
    ASSUME pager' = pager, Visible \subseteq Visible', PagerOK
    PROVE  PagerOK'
<1>1. PagerRange \subseteq PagerRange' /\ IsFiniteSet(PagerRange')
  <2>1. PagerRange' \in SUBSET BlockNums
    BY DEF PagerRange, Visible
  <2> QED BY <2>1, BlockNumsFacts, FS_Subset DEF PagerRange
<1>2. \A b \in pager.base \ pager.seen : Rank(PagerRange', b) >= pager.off
  <2> SUFFICES ASSUME NEW b \in pager.base \ pager.seen
               PROVE  Rank(PagerRange', b) >= pager.off
    OBVIOUS
  <2>1. Rank(PagerRange, b) >= pager.off /\ pager.off \in Nat
    BY DEF PagerOK
  <2> QED BY <1>1, <2>1, RankGrows
<1> QED BY <1>1, <1>2 DEF PagerOK

LEMMA WriterStep ==
    ASSUME ReadsIInv, [Next]_vars, UNCHANGED readVars
    PROVE  ReadsIInv'
<1>1. req' = req /\ pager' = pager /\ told' = told
  BY DEF readVars
<1>2. Visible \subseteq Visible' /\ Keys(table) \subseteq Keys(table)' /\ IInv'
  BY StoreGrows, NextIInv DEF ReadsIInv
<1>3. Fields'
  BY <1>1 DEF ReadsIInv, Fields
<1> QED BY <1>1, <1>2, <1>3, SameRequest, SameTold, SamePager DEF ReadsIInv

-----------------------------------------------------------------------------
(* The steps of a request. *)

LEMMA ParamsFacts ==
    ASSUME NEW p \in Limits \cup Offsets \cup Bounds
    PROVE  Param(p) \in Nat /\ Limit(p) \in Nat \ {0}
BY ReadsAssumption DEF Param, Limit

(* The statement that comes next tells what was asked for. *)
LEMMA PcTellsOp ==
    ASSUME RequestOK
    PROVE  /\ req.pc \in {"blocks", "transactions", "block_envelope_errors"} => req.op = "block"
           /\ req.pc = "lookup" => req.op = "tx"
           /\ req.pc = "not_found" => req.op \in {"block", "tx"}
<1>1. \A i \in 1..5 : Children[i] \notin {"blocks", "transactions", "block_envelope_errors",
                                         "lookup", "not_found"}
  BY ChildrenFacts
<1>2. req.op = "tx" =>
         req.pc \notin {"blocks", "transactions", "block_envelope_errors"}
  BY <1>1 DEF RequestOK, TxRead
<1>3. req.op = "block" => req.pc # "lookup"
  BY <1>1 DEF RequestOK, BlockRead
<1>4. req.op = "none" => req.pc = "idle"
  BY DEF RequestOK
<1>5. req.op \in {"policies", "namespace"} => req.pc = "ok"
  BY DEF RequestOK
<1>6. req.op \in {"none", "block", "tx", "policies", "namespace"}
  BY DEF RequestOK
<1> QED BY <1>2, <1>3, <1>4, <1>5, <1>6

(* The request goes on, for the same block and page. *)
GoesOn ==
    /\ DOMAIN req' = DOMAIN req
    /\ req'.op = req.op /\ req'.lim = req.lim /\ req'.off = req.off
    /\ req'.policies = req.policies
    /\ UNCHANGED table

LEMMA GoesOnFacts ==
    ASSUME RequestOK, GoesOn
    PROVE  /\ Visible' = Visible
           /\ req'.num = req.num => TxPage' = TxPage
           /\ req'.num \in BlockNums \cup {0} /\ req.op = "block" /\ BlockRead' => RequestOK'
           /\ req'.num \in BlockNums \cup {0} /\ req.op = "tx" /\ TxRead' => RequestOK'
<1>1. Visible' = Visible /\ Keys(table)' = Keys(table)
  BY DEF GoesOn, Visible, Keys
<1>2. req'.num = req.num => TxPage' = TxPage
  BY DEF GoesOn, TxPage
<1>3. Known(req.policies)'
  BY <1>1 DEF RequestOK, GoesOn, Known
<1>4. ASSUME req'.num \in BlockNums \cup {0},
             (req.op = "block" /\ BlockRead') \/ (req.op = "tx" /\ TxRead')
      PROVE  RequestOK'
  <2>1. req'.op = req.op /\ req'.lim = req.lim /\ req'.off = req.off
    BY DEF GoesOn
  <2>2. req'.lim \in Nat \ {0} /\ req'.off \in Nat
    BY <2>1 DEF RequestOK
  <2>3. CASE req.op = "block" /\ BlockRead'
    BY <1>3, <1>4, <2>1, <2>2, <2>3 DEF RequestOK
  <2>4. CASE req.op = "tx" /\ TxRead'
    BY <1>3, <1>4, <2>1, <2>2, <2>4 DEF RequestOK
  <2> QED BY <1>4, <2>3, <2>4
<1> QED BY <1>1, <1>2, <1>4

LEMMA BlockRequestStep ==
    ASSUME BlockRequest, UNCHANGED table
    PROVE  RequestOK' /\ DOMAIN req' = DOMAIN NoRequest
<1>1. PICK b \in BlockNums, lim \in Limits, off \in Offsets :
         req' = [NoRequest EXCEPT !.op = "block", !.pc = "blocks", !.num = b,
                                  !.lim = Limit(lim), !.off = Param(off)]
  BY DEF BlockRequest
<1>2. Limit(lim) \in Nat \ {0} /\ Param(off) \in Nat
  BY ParamsFacts
<1>3. /\ DOMAIN req' = DOMAIN NoRequest
      /\ req'.op = "block" /\ req'.pc = "blocks" /\ req'.num = b /\ req'.lim = Limit(lim)
      /\ req'.off = Param(off) /\ req'.txs = {} /\ req'.rows = {} /\ req'.policies = {}
  BY <1>1, NoRequestFields
<1>4. BlockRead' /\ Known(req.policies)'
  BY <1>3 DEF BlockRead, Known
<1> QED BY <1>2, <1>3, <1>4 DEF RequestOK

LEMMA TxRequestStep ==
    ASSUME TxRequest, UNCHANGED table
    PROVE  RequestOK' /\ DOMAIN req' = DOMAIN NoRequest
<1>1. PICK id \in Lookups : req' = [NoRequest EXCEPT !.op = "tx", !.pc = "lookup", !.id = id]
  BY DEF TxRequest
<1>2. /\ DOMAIN req' = DOMAIN NoRequest
      /\ req'.op = "tx" /\ req'.pc = "lookup" /\ req'.num = 0 /\ req'.lim = 1
      /\ req'.off = 0 /\ req'.txs = {} /\ req'.rows = {} /\ req'.policies = {}
  BY <1>1, NoRequestFields
<1>3. TxRead' /\ Known(req.policies)'
  BY <1>2 DEF TxRead, Known
<1> QED BY <1>2, <1>3 DEF RequestOK

LEMMA SelectBlockStep ==
    ASSUME WholeBlocks, Fields, RequestOK, SelectBlock, UNCHANGED table
    PROVE  RequestOK' /\ DOMAIN req' = DOMAIN req
<1> DEFINE found == BlockRows("blocks", req.num)
<1>1. req.op = "block" /\ req.pc = "blocks"
  BY PcTellsOp DEF SelectBlock
<1>2. req' = [req EXCEPT !.rows = found,
                         !.pc = IF found = {} THEN "not_found" ELSE "transactions"]
  BY DEF SelectBlock
<1> HIDE DEF found
<1>3. /\ DOMAIN req' = DOMAIN req /\ req'.rows = found
      /\ req'.pc = IF found = {} THEN "not_found" ELSE "transactions"
      /\ req'.op = req.op /\ req'.num = req.num /\ req'.lim = req.lim /\ req'.off = req.off
      /\ req'.txs = req.txs /\ req'.policies = req.policies
  BY <1>2 DEF Fields
<1>4. GoesOn
  BY <1>3 DEF GoesOn
<1>5. req.txs = {}
  <2>1. \A i \in 1..5 : Children[i] # "blocks"
    BY ChildrenFacts
  <2> QED BY <1>1, <2>1 DEF RequestOK, BlockRead
<1>6. found = {} <=> req.num \notin Visible
  BY BlockFound DEF found
<1>7. req.num \in Visible => found = OfTable(req.num, "blocks")
  BY BlockRowsAreOwn DEF found
<1>8. Visible' = Visible
  BY <1>4, GoesOnFacts
<1>9. BlockRead'
  <2>1. CASE found = {}
    BY <1>3, <1>5, <2>1 DEF BlockRead
  <2>2. CASE found # {}
    BY <1>3, <1>5, <1>6, <1>7, <1>8, <2>2 DEF BlockRead
  <2> QED BY <2>1, <2>2
<1>10. req'.num \in BlockNums \cup {0}
  BY <1>3 DEF RequestOK
<1> QED BY <1>1, <1>3, <1>4, <1>9, <1>10, GoesOnFacts

LEMMA TablesBeforeFacts ==
    /\ TablesBefore(1) = {"transactions"}
    /\ \A i \in 1..5 : TablesBefore(i + 1) = TablesBefore(i) \cup {Children[i]}
    /\ TablesBefore(6) = {"transactions"} \cup Range(Children)
<1>1. TablesBefore(1) = {"transactions"}
  BY DEF TablesBefore
<1>2. \A i \in 1..5 : 1..((i + 1) - 1) = (1..(i - 1)) \cup {i}
  OBVIOUS
<1>3. \A i \in 1..5 : TablesBefore(i + 1) = TablesBefore(i) \cup {Children[i]}
  BY <1>2 DEF TablesBefore
<1>4. TablesBefore(6) = {"transactions"} \cup Range(Children)
  BY ChildrenFacts DEF TablesBefore
<1> QED BY <1>1, <1>3, <1>4

LEMMA OfTxsFacts ==
    ASSUME NEW b, NEW names, NEW name, NEW nums
    PROVE  /\ OfTxs(b, names \cup {name}, nums)
                 = OfTxs(b, names, nums) \cup {row \in OfTable(b, name) : TxNum(row) \in nums}
           /\ OfTxs(b, {name}, nums) = {row \in OfTable(b, name) : TxNum(row) \in nums}
           /\ OfTxs(b, names, {}) = {}
BY DEF OfTxs, OfTable

LEMMA TxPageFacts ==
    ASSUME RequestOK, req.num \in BlockNums
    PROVE  TxPage \subseteq Nat /\ IsFiniteSet(TxPage) /\ Cardinality(TxPage) <= req.lim
<1>1. OwnTxNums(req.num) \subseteq Nat /\ IsFiniteSet(OwnTxNums(req.num))
  BY OwnTxFacts
<1>2. req.lim \in Nat \ {0} /\ req.off \in Nat
  BY DEF RequestOK
<1> QED BY <1>1, <1>2, PageFacts DEF TxPage

LEMMA SelectTransactionsStep ==
    ASSUME WholeBlocks, Fields, RequestOK, SelectTransactions, UNCHANGED table
    PROVE  RequestOK' /\ DOMAIN req' = DOMAIN req
<1> DEFINE all  == BlockRows("transactions", req.num)
           page == OrderedPage(TxNums(all), req.lim, req.off)
           rows == {row \in all : TxNum(row) \in page}
<1>1. req.op = "block" /\ req.pc = "transactions"
  BY PcTellsOp DEF SelectTransactions
<1>2. req.num \in Visible /\ req.rows = OfTable(req.num, "blocks")
  <2>1. \A i \in 1..5 : Children[i] # "transactions"
    BY ChildrenFacts
  <2> QED BY <1>1, <2>1 DEF RequestOK, BlockRead
<1>3. all = OfTable(req.num, "transactions")
  BY <1>2, BlockRowsAreOwn
<1>4. TxNums(all) = OwnTxNums(req.num)
  BY <1>3 DEF OwnTxNums, OfTable
<1>5. page = TxPage
  BY <1>4 DEF TxPage
<1>6. rows = OfTxs(req.num, TablesBefore(1), TxPage)
  <2>1. rows = {row \in OfTable(req.num, "transactions") : TxNum(row) \in TxPage}
    BY <1>3, <1>5
  <2>2. OfTxs(req.num, {"transactions"}, TxPage)
           = {row \in OfTable(req.num, "transactions") : TxNum(row) \in TxPage}
    BY OfTxsFacts
  <2> QED BY <2>1, <2>2, TablesBeforeFacts
<1>7. req' = [req EXCEPT !.txs = page, !.rows = req.rows \cup rows,
                         !.pc = IF page = {} THEN "block_envelope_errors" ELSE Children[1]]
  BY DEF SelectTransactions
<1> HIDE DEF all, page, rows
<1>8. /\ DOMAIN req' = DOMAIN req /\ req'.txs = TxPage
      /\ req'.rows = OfTable(req.num, "blocks") \cup OfTxs(req.num, TablesBefore(1), TxPage)
      /\ req'.pc = IF TxPage = {} THEN "block_envelope_errors" ELSE Children[1]
      /\ req'.op = req.op /\ req'.num = req.num /\ req'.lim = req.lim /\ req'.off = req.off
      /\ req'.policies = req.policies
  BY <1>2, <1>5, <1>6, <1>7 DEF Fields
<1>9. GoesOn
  BY <1>8 DEF GoesOn
<1>10. Visible' = Visible /\ TxPage' = TxPage
  BY <1>8, <1>9, GoesOnFacts
<1>11. BlockRead'
  <2>1. CASE TxPage = {}
    <3>1. OfTxs(req.num, TablesBefore(1), TxPage) = OfTxs(req.num, TablesBefore(6), TxPage)
      BY <2>1, OfTxsFacts
    <3> QED BY <1>2, <1>8, <1>10, <2>1, <3>1 DEF BlockRead
  <2>2. CASE TxPage # {}
    <3>1. 1 \in 1..5
      OBVIOUS
    <3> QED BY <1>2, <1>8, <1>10, <2>2, <3>1 DEF BlockRead
  <2> QED BY <2>1, <2>2
<1>12. req'.num \in BlockNums \cup {0}
  BY <1>8 DEF RequestOK
<1> QED BY <1>1, <1>8, <1>9, <1>11, <1>12, GoesOnFacts

(* Rows of the range of a page that have a transaction are those of the page. *)
LEMMA RangeOfPage ==
    ASSUME NEW name, NEW b, NEW nums, nums \subseteq Nat, IsFiniteSet(nums), nums # {}
    PROVE  {row \in ByBlockTxRange(name, b, Min(nums), Max(nums) + 1) : TxNum(row) \in nums}
              = {row \in BlockRows(name, b) : TxNum(row) \in nums}
<1>1. \A n \in nums : Min(nums) <= n /\ n < Max(nums) + 1
  BY MinMaxFacts
<1> QED BY <1>1 DEF ByBlockTxRange

LEMMA SelectBlockChildrenStep ==
    ASSUME WholeBlocks, Fields, RequestOK, SelectBlockChildren, UNCHANGED table
    PROVE  RequestOK' /\ DOMAIN req' = DOMAIN req
<1>1. req.op = "block"
  BY DEF SelectBlockChildren
<1>2. PICK i \in 1..5 :
         /\ req.pc = Children[i]
         /\ req' = [req EXCEPT
                      !.rows = @ \cup {row \in ByBlockTxRange(req.pc, req.num, Min(req.txs), Max(req.txs) + 1) :
                                          TxNum(row) \in req.txs},
                      !.pc = IF i < 5 THEN Children[i + 1] ELSE "block_envelope_errors"]
  <2>1. PICK i \in DOMAIN Children :
           /\ req.pc = Children[i]
           /\ LET rows == ByBlockTxRange(req.pc, req.num, Min(req.txs), Max(req.txs) + 1)
              IN  req' = [req EXCEPT
                             !.rows = @ \cup {row \in rows : TxNum(row) \in req.txs},
                             !.pc = IF i < Len(Children) THEN Children[i + 1]
                                    ELSE "block_envelope_errors"]
    BY DEF SelectBlockChildren
  <2>2. i \in 1..5 /\ Len(Children) = 5
    BY ChildrenFacts
  <2> QED BY <2>1, <2>2
<1>3. /\ req.num \in Visible /\ req.txs = TxPage /\ TxPage # {}
      /\ req.rows = OfTable(req.num, "blocks") \cup OfTxs(req.num, TablesBefore(i), TxPage)
  <2>1. Children[i] \notin {"blocks", "not_found", "transactions", "block_envelope_errors", "ok"}
    BY ChildrenFacts
  <2>2. \A j \in 1..5 : Children[j] = Children[i] => j = i
    BY ChildrenFacts
  <2> QED BY <1>1, <1>2, <2>1, <2>2 DEF RequestOK, BlockRead
<1>4. req.num \in BlockNums
  BY <1>3 DEF Visible
<1>5. {row \in ByBlockTxRange(req.pc, req.num, Min(req.txs), Max(req.txs) + 1) : TxNum(row) \in req.txs}
         = {row \in OfTable(req.num, Children[i]) : TxNum(row) \in TxPage}
  <2>1. Children[i] # "namespace_policies"
    BY ChildrenFacts
  <2>2. BlockRows(Children[i], req.num) = OfTable(req.num, Children[i])
    BY <1>3, <2>1, BlockRowsAreOwn
  <2>3. TxPage \subseteq Nat /\ IsFiniteSet(TxPage)
    BY <1>4, TxPageFacts
  <2> QED BY <1>2, <1>3, <2>2, <2>3, RangeOfPage
<1>6. OfTxs(req.num, TablesBefore(i), TxPage) \cup {row \in OfTable(req.num, Children[i]) : TxNum(row) \in TxPage}
         = OfTxs(req.num, TablesBefore(i + 1), TxPage)
  <2>1. TablesBefore(i + 1) = TablesBefore(i) \cup {Children[i]}
    BY TablesBeforeFacts
  <2>2. OfTxs(req.num, TablesBefore(i) \cup {Children[i]}, TxPage)
           = OfTxs(req.num, TablesBefore(i), TxPage)
             \cup {row \in OfTable(req.num, Children[i]) : TxNum(row) \in TxPage}
    BY DEF OfTxs, OfTable
  <2> QED BY <2>1, <2>2
<1>7. /\ DOMAIN req' = DOMAIN req /\ req'.txs = TxPage
      /\ req'.rows = OfTable(req.num, "blocks") \cup OfTxs(req.num, TablesBefore(i + 1), TxPage)
      /\ req'.pc = IF i < 5 THEN Children[i + 1] ELSE "block_envelope_errors"
      /\ req'.op = req.op /\ req'.num = req.num /\ req'.lim = req.lim /\ req'.off = req.off
      /\ req'.policies = req.policies
  <2> DEFINE rows == {row \in ByBlockTxRange(req.pc, req.num, Min(req.txs), Max(req.txs) + 1) :
                         TxNum(row) \in req.txs}
  <2>1. req' = [req EXCEPT !.rows = req.rows \cup rows,
                           !.pc = IF i < 5 THEN Children[i + 1] ELSE "block_envelope_errors"]
    BY <1>2
  <2>2. req.rows \cup rows
           = OfTable(req.num, "blocks") \cup OfTxs(req.num, TablesBefore(i + 1), TxPage)
    BY <1>3, <1>5, <1>6
  <2> HIDE DEF rows
  <2> QED BY <1>3, <2>1, <2>2 DEF Fields
<1>8. GoesOn
  BY <1>7 DEF GoesOn
<1>9. Visible' = Visible /\ TxPage' = TxPage
  BY <1>7, <1>8, GoesOnFacts
<1>10. BlockRead'
  <2>1. CASE i < 5
    <3>1. i + 1 \in 1..5
      BY <2>1
    <3> QED BY <1>3, <1>7, <1>9, <2>1, <3>1 DEF BlockRead
  <2>2. CASE ~(i < 5)
    <3>1. i + 1 = 6
      BY <2>2
    <3> QED BY <1>3, <1>7, <1>9, <2>2, <3>1 DEF BlockRead
  <2> QED BY <2>1, <2>2
<1>11. req'.num \in BlockNums \cup {0}
  BY <1>7 DEF RequestOK
<1> QED BY <1>1, <1>7, <1>8, <1>10, <1>11, GoesOnFacts

LEMMA SelectErrorsStep ==
    ASSUME WholeBlocks, Fields, RequestOK, SelectErrors, UNCHANGED table
    PROVE  RequestOK' /\ DOMAIN req' = DOMAIN req
<1>1. req.op = "block" /\ req.pc = "block_envelope_errors"
  BY PcTellsOp DEF SelectErrors
<1>2. /\ req.num \in Visible /\ req.txs = TxPage
      /\ req.rows = OfTable(req.num, "blocks") \cup OfTxs(req.num, TablesBefore(6), TxPage)
  <2>1. \A i \in 1..5 : Children[i] # "block_envelope_errors"
    BY ChildrenFacts
  <2> QED BY <1>1, <2>1 DEF RequestOK, BlockRead
<1>3. BlockRows("block_envelope_errors", req.num) = OfTable(req.num, "block_envelope_errors")
  BY <1>2, BlockRowsAreOwn
<1>4. req' = [req EXCEPT !.rows = req.rows \cup OfTable(req.num, "block_envelope_errors"),
                         !.pc = "ok"]
  BY <1>3 DEF SelectErrors
<1>5. /\ DOMAIN req' = DOMAIN req /\ req'.txs = req.txs /\ req'.pc = "ok"
      /\ req'.rows = req.rows \cup OfTable(req.num, "block_envelope_errors")
      /\ req'.op = req.op /\ req'.num = req.num /\ req'.lim = req.lim /\ req'.off = req.off
      /\ req'.policies = req.policies
  BY <1>4 DEF Fields
<1>6. GoesOn
  BY <1>5 DEF GoesOn
<1>7. Visible' = Visible /\ TxPage' = TxPage
  BY <1>5, <1>6, GoesOnFacts
<1>8. BlockRead'
  BY <1>2, <1>5, <1>7 DEF BlockRead
<1>9. req'.num \in BlockNums \cup {0}
  BY <1>5 DEF RequestOK
<1> QED BY <1>1, <1>5, <1>6, <1>8, <1>9, GoesOnFacts

LEMMA SelectByTxIDStep ==
    ASSUME WholeBlocks, Fields, RequestOK, SelectByTxID, UNCHANGED table
    PROVE  RequestOK' /\ DOMAIN req' = DOMAIN req
<1>1. req.op = "tx" /\ req.pc = "lookup"
  BY PcTellsOp DEF SelectByTxID
<1>2. req.txs = {} /\ req.rows = {}
  <2>1. \A i \in 1..5 : Children[i] # "lookup"
    BY ChildrenFacts
  <2> QED BY <1>1, <2>1 DEF RequestOK, TxRead
<1>3. CASE WithTxId(req.id) = {}
  <2>1. req' = [req EXCEPT !.pc = "not_found"]
    BY <1>3 DEF SelectByTxID
  <2>2. /\ DOMAIN req' = DOMAIN req /\ req'.pc = "not_found" /\ req'.txs = {} /\ req'.rows = {}
        /\ req'.op = req.op /\ req'.num = req.num /\ req'.lim = req.lim /\ req'.off = req.off
        /\ req'.policies = req.policies
    BY <1>2, <2>1 DEF Fields
  <2>3. GoesOn /\ TxRead' /\ req'.num \in BlockNums \cup {0}
    BY <2>2 DEF GoesOn, TxRead, RequestOK
  <2> QED BY <1>1, <2>2, <2>3, GoesOnFacts
<1>4. CASE WithTxId(req.id) # {}
  <2>1. PICK row \in WithTxId(req.id) :
           req' = [req EXCEPT !.num = Key(row)[2], !.txs = {TxNum(row)},
                              !.rows = {row}, !.pc = Children[1]]
    BY <1>4 DEF SelectByTxID
  <2> DEFINE b == Key(row)[2]
             n == TxNum(row)
  <2>2. row \in table /\ TableOf(row) = "transactions" /\ IsOwn(row)
    BY DEF WithTxId, IsOwn
  <2>3. b \in Visible /\ row \in OfTable(b, "transactions")
    BY <2>2, RowsAreOfBlocks DEF OfTable
  <2>4. b \in BlockNums
    BY <2>3 DEF Visible
  <2>5. {row} = OfTxs(b, TablesBefore(1), {n})
    <3>1. \A r \in OfTable(b, "transactions") : TxNum(r) = n <=> r = row
      BY <2>3, <2>4, OwnTxFacts
    <3> HIDE DEF b, n
    <3>2. {row} = {r \in OfTable(b, "transactions") : TxNum(r) \in {n}}
      BY <2>3, <3>1
    <3>3. OfTxs(b, {"transactions"}, {n}) = {r \in OfTable(b, "transactions") : TxNum(r) \in {n}}
      BY DEF OfTxs, OfTable
    <3> QED BY <3>2, <3>3, TablesBeforeFacts
  <2> HIDE DEF b, n
  <2>6. /\ DOMAIN req' = DOMAIN req /\ req'.pc = Children[1] /\ req'.txs = {n} /\ req'.rows = {row}
        /\ req'.op = req.op /\ req'.num = b /\ req'.lim = req.lim /\ req'.off = req.off
        /\ req'.policies = req.policies
    <3>1. req' = [req EXCEPT !.num = b, !.txs = {n}, !.rows = {row}, !.pc = Children[1]]
      BY <2>1 DEF b, n
    <3> QED BY <3>1 DEF Fields
  <2>7. GoesOn
    BY <2>6 DEF GoesOn
  <2>8. Visible' = Visible
    BY <2>7, GoesOnFacts
  <2>9. TxRead'
    <3>1. 1 \in 1..5
      OBVIOUS
    <3> QED BY <2>3, <2>5, <2>6, <2>8, <3>1 DEF TxRead
  <2> QED BY <1>1, <2>4, <2>6, <2>7, <2>9, GoesOnFacts
<1> QED BY <1>3, <1>4

LEMMA SelectTxChildrenStep ==
    ASSUME WholeBlocks, Fields, RequestOK, SelectTxChildren, UNCHANGED table
    PROVE  RequestOK' /\ DOMAIN req' = DOMAIN req
<1>1. req.op = "tx"
  BY DEF SelectTxChildren
<1>2. PICK i \in 1..5, n \in req.txs :
         /\ req.pc = Children[i]
         /\ req' = [req EXCEPT !.rows = req.rows \cup ByTx(req.pc, req.num, n),
                               !.pc = IF i < 5 THEN Children[i + 1] ELSE "ok"]
  <2>1. PICK i \in DOMAIN Children, n \in req.txs :
           /\ req.pc = Children[i]
           /\ req' = [req EXCEPT !.rows = @ \cup ByTx(req.pc, req.num, n),
                                 !.pc = IF i < Len(Children) THEN Children[i + 1] ELSE "ok"]
    BY DEF SelectTxChildren
  <2>2. i \in 1..5 /\ Len(Children) = 5
    BY ChildrenFacts
  <2> QED BY <2>1, <2>2
<1>3. req.num \in Visible /\ req.txs = {n} /\ req.rows = OfTxs(req.num, TablesBefore(i), {n})
  <2>1. Children[i] \notin {"lookup", "not_found", "ok"}
    BY ChildrenFacts
  <2>2. \A j \in 1..5 : Children[j] = Children[i] => j = i
    BY ChildrenFacts
  <2>3. /\ req.num \in Visible
        /\ \E m : req.txs = {m} /\ req.rows = OfTxs(req.num, TablesBefore(i), {m})
    BY <1>1, <1>2, <2>1, <2>2 DEF RequestOK, TxRead
  <2>4. PICK m : req.txs = {m} /\ req.rows = OfTxs(req.num, TablesBefore(i), {m})
    BY <2>3
  <2>5. m = n
    BY <2>4
  <2> QED BY <2>3, <2>4, <2>5
<1>4. req.num \in BlockNums
  BY <1>3 DEF Visible
<1>5. OfTxs(req.num, TablesBefore(i), {n}) \cup ByTx(req.pc, req.num, n)
         = OfTxs(req.num, TablesBefore(i + 1), {n})
  <2>1. Children[i] # "namespace_policies"
    BY ChildrenFacts
  <2>2. BlockRows(Children[i], req.num) = OfTable(req.num, Children[i])
    BY <1>3, <2>1, BlockRowsAreOwn
  <2>3. ByTx(req.pc, req.num, n) = {row \in OfTable(req.num, Children[i]) : TxNum(row) \in {n}}
    BY <1>2, <2>2 DEF ByTx
  <2>4. TablesBefore(i + 1) = TablesBefore(i) \cup {Children[i]}
    BY TablesBeforeFacts
  <2>5. OfTxs(req.num, TablesBefore(i) \cup {Children[i]}, {n})
           = OfTxs(req.num, TablesBefore(i), {n})
             \cup {row \in OfTable(req.num, Children[i]) : TxNum(row) \in {n}}
    BY DEF OfTxs, OfTable
  <2> QED BY <2>3, <2>4, <2>5
<1>6. /\ DOMAIN req' = DOMAIN req /\ req'.txs = {n}
      /\ req'.rows = OfTxs(req.num, TablesBefore(i + 1), {n})
      /\ req'.pc = IF i < 5 THEN Children[i + 1] ELSE "ok"
      /\ req'.op = req.op /\ req'.num = req.num /\ req'.lim = req.lim /\ req'.off = req.off
      /\ req'.policies = req.policies
  BY <1>2, <1>3, <1>5 DEF Fields
<1>7. GoesOn
  BY <1>6 DEF GoesOn
<1>8. Visible' = Visible
  BY <1>7, GoesOnFacts
<1>9. TxRead'
  <2>1. CASE i < 5
    <3>1. i + 1 \in 1..5
      BY <2>1
    <3> QED BY <1>3, <1>6, <1>8, <2>1, <3>1 DEF TxRead
  <2>2. CASE ~(i < 5)
    <3>1. i + 1 = 6
      BY <2>2
    <3> QED BY <1>3, <1>6, <1>8, <2>2, <3>1 DEF TxRead
  <2> QED BY <2>1, <2>2
<1>10. req'.num \in BlockNums \cup {0}
  BY <1>6 DEF RequestOK
<1> QED BY <1>1, <1>6, <1>7, <1>9, <1>10, GoesOnFacts

(* Policies are answered with under their namespace and version. *)
LEMMA PoliciesAreKnown ==
    ASSUME WholeBlocks, NEW rows, rows \subseteq PolicyRows
    PROVE  Known({NamespacePolicyRow(row) : row \in rows})
<1>1. \A row \in rows :
         LET p == NamespacePolicyRow(row)
         IN  p.namespace = Key(row)[2] /\ p.version = Key(row)[3]
  BY DEF NamespacePolicyRow
<1>2. \A row \in rows : <<"namespace_policies", Key(row)[2], Key(row)[3]>> \in Keys(table)
  BY PolicyRowFacts
<1> QED BY <1>1, <1>2 DEF Known

LEMMA PolicyAnswer ==
    ASSUME ListPolicies \/ GetPolicies
    PROVE  \E op \in {"policies", "namespace"}, rows \in SUBSET PolicyRows :
              req' = [NoRequest EXCEPT !.op = op, !.pc = "ok",
                                       !.policies = {NamespacePolicyRow(row) : row \in rows}]
<1>1. CASE ListPolicies
  <2>1. NewestOfEach(PolicyRows) \in SUBSET PolicyRows
    BY DEF NewestOfEach
  <2> QED BY <1>1, <2>1 DEF ListPolicies
<1>2. CASE GetPolicies
  <2>1. PICK ns \in Namespaces :
           req' = [NoRequest EXCEPT !.op = "namespace", !.pc = "ok",
                                    !.policies = {NamespacePolicyRow(row) :
                                                     row \in {r \in PolicyRows : Key(r)[2] = ns}}]
    BY <1>2 DEF GetPolicies
  <2>2. {r \in PolicyRows : Key(r)[2] = ns} \in SUBSET PolicyRows
    OBVIOUS
  <2> QED BY <2>1, <2>2
<1> QED BY <1>1, <1>2

LEMMA PoliciesStep ==
    ASSUME WholeBlocks, ListPolicies \/ GetPolicies, UNCHANGED table
    PROVE  RequestOK' /\ DOMAIN req' = DOMAIN NoRequest
<1>1. PICK op \in {"policies", "namespace"}, rows \in SUBSET PolicyRows :
         req' = [NoRequest EXCEPT !.op = op, !.pc = "ok",
                                  !.policies = {NamespacePolicyRow(row) : row \in rows}]
  BY PolicyAnswer
<1> DEFINE policies == {NamespacePolicyRow(row) : row \in rows}
<1>2. Known(policies)
  BY PoliciesAreKnown
<1> HIDE DEF policies
<1>3. /\ DOMAIN req' = DOMAIN NoRequest /\ req'.op = op /\ req'.pc = "ok" /\ req'.num = 0
      /\ req'.lim = 1 /\ req'.off = 0 /\ req'.txs = {} /\ req'.rows = {} /\ req'.policies = policies
  <2>1. req' = [NoRequest EXCEPT !.op = op, !.pc = "ok", !.policies = policies]
    BY <1>1 DEF policies
  <2> QED BY <2>1, NoRequestFields
<1>4. Known(req.policies)'
  BY <1>2, <1>3 DEF Known, Keys
<1> QED BY <1>3, <1>4 DEF RequestOK

(* Every handler keeps what a request has read right. *)
LEMMA RequestStep ==
    ASSUME WholeBlocks, Fields, RequestOK, Handlers, UNCHANGED table
    PROVE  RequestOK' /\ DOMAIN req' = DOMAIN NoRequest
<1>1. DOMAIN req = DOMAIN NoRequest
  BY NoRequestFields DEF Fields
<1>2. CASE BlockRequest
  BY <1>2, BlockRequestStep
<1>3. CASE TxRequest
  BY <1>3, TxRequestStep
<1>4. CASE SelectBlock
  BY <1>1, <1>4, SelectBlockStep
<1>5. CASE SelectTransactions
  BY <1>1, <1>5, SelectTransactionsStep
<1>6. CASE SelectBlockChildren
  BY <1>1, <1>6, SelectBlockChildrenStep
<1>7. CASE SelectErrors
  BY <1>1, <1>7, SelectErrorsStep
<1>8. CASE SelectByTxID
  BY <1>1, <1>8, SelectByTxIDStep
<1>9. CASE SelectTxChildren
  BY <1>1, <1>9, SelectTxChildrenStep
<1>10. CASE ListPolicies \/ GetPolicies
  BY <1>10, PoliciesStep
<1>11. CASE ReadFails \/ Respond
  <2>1. req' = NoRequest
    BY <1>11 DEF ReadFails, Respond
  <2>2. (req = NoRequest => RequestOK)'
    BY NoneIsOK, PTL
  <2> QED BY <2>1, <2>2
<1>12. CASE HeightRequest
  <2>1. req' = req
    BY <1>12 DEF HeightRequest
  <2>2. Visible \subseteq Visible' /\ Keys(table) \subseteq Keys(table)'
    BY DEF Visible, Keys
  <2> QED BY <1>1, <2>1, <2>2, SameRequest
<1> QED BY <1>2, <1>3, <1>4, <1>5, <1>6, <1>7, <1>8, <1>9, <1>10, <1>11, <1>12 DEF Handlers

(* What clients are told is stored. *)
LEMMA ToldStep ==
    ASSUME WholeBlocks, Fields, RequestOK, ToldOK, PagerOK, Handlers \/ Paging, UNCHANGED table
    PROVE  ToldOK' /\ DOMAIN told' = DOMAIN told
<1>1. Visible' = Visible /\ Keys(table)' = Keys(table)
  BY DEF Visible, Keys
<1>2. CASE UNCHANGED told
  BY <1>1, <1>2, SameTold
<1>3. ASSUME NEW more, more \subseteq Visible, told' = [told EXCEPT !.blocks = @ \cup more]
      PROVE  ToldOK' /\ DOMAIN told' = DOMAIN told
  <2>1. /\ told'.blocks = told.blocks \cup more /\ told'.policies = told.policies
        /\ DOMAIN told' = DOMAIN told
    BY <1>3 DEF Fields
  <2> QED BY <1>1, <1>3, <2>1 DEF ToldOK, Known
<1>4. CASE Respond
  <2>1. CASE req.pc = "ok" /\ req.op \in {"block", "tx"}
    <3>1. told' = [told EXCEPT !.blocks = @ \cup {req.num}]
      BY <1>4, <2>1 DEF Respond
    <3>2. req.num \in Visible
      BY <2>1, ChildrenFacts DEF RequestOK, BlockRead, TxRead
    <3> QED BY <1>3, <3>1, <3>2
  <2>2. CASE ~(req.pc = "ok" /\ req.op \in {"block", "tx"})
    <3> DEFINE new == {[namespace |-> p.namespace, version |-> p.version] : p \in req.policies}
    <3>1. told' = [told EXCEPT !.policies = Newest(@ \cup new)]
      BY <1>4, <2>2 DEF Respond
    <3>2. Known(new)
      <4>1. \A q \in new : \E p \in req.policies : q.namespace = p.namespace /\ q.version = p.version
        OBVIOUS
      <4> HIDE DEF new
      <4> QED BY <4>1 DEF RequestOK, Known
    <3> HIDE DEF new
    <3>3. Known(Newest(told.policies \cup new))
      BY <3>2 DEF ToldOK, Known, Newest
    <3>4. /\ told'.blocks = told.blocks /\ told'.policies = Newest(told.policies \cup new)
          /\ DOMAIN told' = DOMAIN told
      BY <3>1 DEF Fields
    <3> QED BY <1>1, <3>3, <3>4 DEF ToldOK, Known
  <2> QED BY <2>1, <2>2
<1>5. CASE HeightRequest
  <2>1. told' = [told EXCEPT !.blocks = @ \cup ({GetBlockHeight(Visible)} \ {0})]
    BY <1>5 DEF HeightRequest
  <2>2. {GetBlockHeight(Visible)} \ {0} \subseteq Visible
    <3>1. CASE Visible = {}
      BY <3>1 DEF GetBlockHeight
    <3>2. CASE Visible # {}
      <4>1. Visible \subseteq Nat /\ IsFiniteSet(Visible)
        BY BlockNumsFacts
      <4>2. Max(Visible) \in Visible
        BY <3>2, <4>1, MinMaxFacts
      <4> QED BY <3>2, <4>2 DEF GetBlockHeight
    <3> QED BY <3>1, <3>2
  <2> HIDE DEF GetBlockHeight
  <2> QED BY <1>3, <2>1, <2>2
<1>6. CASE ListPage
  <2>1. told' = [told EXCEPT !.blocks = @ \cup PageOf(pager)]
    BY <1>6 DEF ListPage
  <2>2. PageOf(pager) \subseteq Visible
    BY DEF PageOf, ListBlocks, OrderedPage
  <2> QED BY <1>3, <2>1, <2>2
<1> QED BY <1>2, <1>4, <1>5, <1>6
        DEF Handlers, Paging, BlockRequest, SelectBlock, SelectTransactions, SelectBlockChildren,
            SelectErrors, TxRequest, SelectByTxID, SelectTxChildren, ListPolicies, GetPolicies,
            ReadFails, StartPaging, EndPaging

-----------------------------------------------------------------------------
(* Paging: a page that is full has a next one, and one that is not full is  *)
(* the last, behind which nothing of the range stands.                     *)

LEMMA PagerRangeFacts ==
    /\ PagerRange \subseteq Visible /\ PagerRange \subseteq Nat /\ IsFiniteSet(PagerRange)
    /\ Cardinality(PagerRange) \in Nat /\ Cardinality(PagerRange) <= Cardinality(BlockNums)
<1>1. PagerRange \in SUBSET Visible
  BY DEF PagerRange
<1>2. PagerRange \in SUBSET BlockNums
  BY <1>1, BlockNumsFacts
<1> QED BY <1>1, <1>2, BlockNumsFacts, FS_Subset, FS_CardinalityType

LEMMA ListPageStep ==
    ASSUME Fields, PagerOK, ListPage, UNCHANGED table
    PROVE  PagerOK' /\ DOMAIN pager' = DOMAIN pager
<1> DEFINE S    == PagerRange
           N    == Cardinality(BlockNums)
           off  == pager.off
           lim  == pager.lim
           page == OrderedPage(S, lim, off)
<1>1. /\ lim \in Nat \ {0} /\ off \in Nat /\ N \in Nat
      /\ off <= N /\ pager.base \subseteq S
      /\ \A b \in pager.base \ pager.seen : Rank(S, b) >= off
  BY BlockNumsFacts DEF PagerOK, ListPage
<1>2. PageOf(pager) = page
  BY DEF PageOf, ListBlocks, PagerRange
<1>3. pager' = [pager EXCEPT !.seen = pager.seen \cup page, !.off = off + lim,
                             !.state = IF Cardinality(page) = lim THEN "more" ELSE "end"]
  BY <1>2 DEF ListPage
<1>4. /\ S \subseteq Nat /\ IsFiniteSet(S) /\ Cardinality(S) \in Nat /\ Cardinality(S) <= N
      /\ \A n \in S : Rank(S, n) \in 0..(Cardinality(S) - 1)
  BY PagerRangeFacts, RankFacts
<1>5. /\ Cardinality(page) = lim <=> off + lim <= Cardinality(S)
      /\ \A n \in S : n \in page <=> off <= Rank(S, n) /\ Rank(S, n) < off + lim
  BY <1>1, <1>4, PageFacts
<1> HIDE DEF S, N, off, lim, page
<1>6. /\ DOMAIN pager' = DOMAIN pager
      /\ pager'.seen = pager.seen \cup page /\ pager'.off = off + lim
      /\ pager'.state = IF Cardinality(page) = lim THEN "more" ELSE "end"
      /\ pager'.from = pager.from /\ pager'.to = pager.to
      /\ pager'.lim = lim /\ pager'.base = pager.base
  BY <1>3 DEF Fields, lim
<1>7. PagerRange' = S
  BY <1>6 DEF PagerRange, Visible, S, Keys
<1>8. \A b \in pager.base \ (pager.seen \cup page) : Rank(S, b) >= off + lim
  <2> SUFFICES ASSUME NEW b \in pager.base \ (pager.seen \cup page) PROVE Rank(S, b) >= off + lim
    OBVIOUS
  <2>1. b \in S /\ b \notin page /\ Rank(S, b) >= off
    BY <1>1
  <2>2. Rank(S, b) \in Nat
    BY <1>4, <2>1
  <2> QED BY <1>1, <1>5, <2>1, <2>2
<1>9. CASE Cardinality(page) = lim
  <2>1. off + lim <= N
    BY <1>1, <1>4, <1>5, <1>9
  <2> QED BY <1>1, <1>6, <1>7, <1>8, <1>9, <2>1 DEF PagerOK, N
<1>10. CASE Cardinality(page) # lim
  <2>1. off + lim <= N + lim
    BY <1>1
  <2>2. ASSUME NEW b \in pager.base \ (pager.seen \cup page) PROVE FALSE
    <3>1. Rank(S, b) >= off + lim /\ Rank(S, b) \in 0..(Cardinality(S) - 1)
      BY <1>1, <1>4, <1>8
    <3>2. ~(off + lim <= Cardinality(S))
      BY <1>5, <1>10
    <3> QED BY <1>1, <1>4, <3>1, <3>2
  <2>3. pager.base \subseteq pager.seen \cup page
    BY <2>2
  <2> QED BY <1>1, <1>6, <1>7, <1>8, <1>10, <2>1, <2>3 DEF PagerOK, N
<1> QED BY <1>9, <1>10

LEMMA PagerStep ==
    ASSUME Fields, PagerOK, Handlers \/ Paging, UNCHANGED table
    PROVE  PagerOK' /\ DOMAIN pager' = DOMAIN pager
<1>1. CASE UNCHANGED pager
  <2>1. Visible \subseteq Visible'
    BY DEF Visible, Keys
  <2> QED BY <1>1, <2>1, SamePager
<1>2. CASE StartPaging
  <2>1. PICK from \in Bounds, to \in Bounds, lim \in Limits :
           pager' = [state |-> "more", from |-> from, to |-> to, lim |-> Limit(lim), off |-> 0,
                     base |-> {b \in Visible : InRange(b, Param(from), Param(to))}, seen |-> {}]
    BY <1>2 DEF StartPaging
  <2>2. Limit(lim) \in Nat \ {0}
    BY ParamsFacts
  <2>3. /\ DOMAIN pager' = DOMAIN pager
        /\ pager'.state = "more" /\ pager'.lim = Limit(lim) /\ pager'.off = 0
        /\ pager'.base = {b \in Visible : InRange(b, Param(pager'.from), Param(pager'.to))}
    BY <2>1 DEF Fields
  <2>4. pager'.base = PagerRange'
    BY <2>3 DEF PagerRange, Visible, Keys
  <2>5. \A b : Rank(PagerRange', b) >= 0
    <3>1. PagerRange' = pager'.base /\ IsFiniteSet(pager'.base)
      <4>1. pager'.base \in SUBSET Visible
        BY <2>3
      <4> QED BY <2>4, <4>1, BlockNumsFacts, FS_Subset
    <3> SUFFICES ASSUME NEW b PROVE Rank(PagerRange', b) >= 0
      OBVIOUS
    <3>2. Rank(PagerRange', b) \in Nat
      BY <3>1, RankGrows
    <3> QED BY <3>2
  <2>6. Cardinality(BlockNums) \in Nat
    BY BlockNumsFacts
  <2> QED BY <2>2, <2>3, <2>4, <2>5, <2>6 DEF PagerOK
<1>3. CASE ListPage
  BY <1>3, ListPageStep
<1>4. CASE EndPaging
  <2>1. pager' = NoPager
    BY <1>4 DEF EndPaging
  <2>2. /\ DOMAIN pager' = DOMAIN pager /\ pager'.state = "idle" /\ pager'.lim = 1
        /\ pager'.off = 0 /\ pager'.base = {}
    BY <2>1 DEF NoPager, Fields
  <2> QED BY <2>2, BlockNumsFacts DEF PagerOK
<1> QED BY <1>1, <1>2, <1>3, <1>4
        DEF Handlers, Paging, BlockRequest, SelectBlock, SelectTransactions, SelectBlockChildren,
            SelectErrors, TxRequest, SelectByTxID, SelectTxChildren, ListPolicies, GetPolicies,
            ReadFails, Respond, HeightRequest

-----------------------------------------------------------------------------
(* The theorems. *)

LEMMA ReadersOnlyRead == [ReadsNext]_<<vars, readVars>> => [Next]_vars
BY DEF ReadsNext

(* Handlers only read: whatever they do, the tables behave as BlockStore    *)
(* says, so that all that is proved of the writers holds beside readers.   *)
THEOREM ReadersLeaveTheStore == ReadsSpec => Spec
<1>1. ReadsInit => Init
  BY DEF ReadsInit
<1> QED BY <1>1, ReadersOnlyRead, PTL DEF ReadsSpec, Spec

(* What clients can see of the blocks is what IngestLedger promises: the    *)
(* blocks that are there only become more, each of them whole.             *)
THEOREM ReadersSeeTheLedger == ReadsSpec => ImplementsLedger
BY ReadersLeaveTheStore, StoreImplementsLedger

LEMMA NextReads == ReadsIInv /\ [ReadsNext]_<<vars, readVars>> => ReadsIInv'
<1> SUFFICES ASSUME ReadsIInv, [ReadsNext]_<<vars, readVars>> PROVE ReadsIInv'
  OBVIOUS
<1>1. [Next]_vars
  BY ReadersOnlyRead
<1>2. CASE UNCHANGED readVars
  BY <1>1, <1>2, WriterStep
<1>3. CASE (Handlers \/ Paging) /\ UNCHANGED vars
  <2>1. WholeBlocks /\ Fields /\ RequestOK /\ ToldOK /\ PagerOK /\ IInv
    BY DEF ReadsIInv, IInv
  <2>2. UNCHANGED table
    BY <1>3 DEF vars
  <2>3. IInv'
    BY <1>1, <2>1, NextIInv
  <2>4. RequestOK' /\ DOMAIN req' = DOMAIN NoRequest
    <3>1. CASE Handlers
      BY <2>1, <2>2, <3>1, RequestStep
    <3>2. CASE Paging
      <4>1. req' = req
        BY <3>2 DEF Paging, StartPaging, ListPage, EndPaging
      <4>2. Visible \subseteq Visible' /\ Keys(table) \subseteq Keys(table)'
        BY <2>2 DEF Visible, Keys
      <4> QED BY <2>1, <4>1, <4>2, SameRequest, NoRequestFields DEF Fields
    <3> QED BY <1>3, <3>1, <3>2
  <2>5. ToldOK' /\ DOMAIN told' = DOMAIN told /\ PagerOK' /\ DOMAIN pager' = DOMAIN pager
    BY <1>3, <2>1, <2>2, ToldStep, PagerStep
  <2>6. Fields'
    BY <2>1, <2>4, <2>5, NoRequestFields DEF Fields
  <2> QED BY <2>3, <2>4, <2>5, <2>6 DEF ReadsIInv
<1> QED BY <1>2, <1>3 DEF ReadsNext

(* What a request has read is what is stored, whatever commits meanwhile.   *)
THEOREM ReadsInvariance == ReadsSpec => []ReadsIInv
BY InitReads, NextReads, PTL DEF ReadsSpec

LEMMA ReadsTypes == ReadsIInv => ReadsTypeOK
<1> SUFFICES ASSUME ReadsIInv PROVE ReadsTypeOK
  OBVIOUS
<1>1. WholeBlocks /\ TypeOK /\ RequestOK /\ ToldOK /\ PagerOK
  BY DEF ReadsIInv, IInv
<1>2. Visible \subseteq BlockNums
  BY BlockNumsFacts
<1>3. req.rows \subseteq AllRows
  <2>1. \A b \in BlockNums : OwnRows(b) \subseteq AllRows
    BY OwnRowsOf
  <2>2. req.op = "block" => req.rows = {} \/ (req.num \in Visible /\ req.rows \subseteq OwnRows(req.num))
    BY <1>1 DEF RequestOK, BlockRead, OfTable, OfTxs
  <2>3. req.op = "tx" => req.rows = {} \/ (req.num \in Visible /\ req.rows \subseteq OwnRows(req.num))
    BY <1>1 DEF RequestOK, TxRead, OfTxs
  <2>4. req.op \notin {"block", "tx"} => req.rows = {}
    BY <1>1 DEF RequestOK
  <2> QED BY <1>2, <2>1, <2>2, <2>3, <2>4
<1>4. Cardinality(req.txs) <= req.lim
  <2>1. req.lim \in Nat \ {0}
    BY <1>1 DEF RequestOK
  <2>2. CASE req.txs = {}
    BY <2>1, <2>2, FS_EmptySet
  <2>3. CASE req.op = "block" /\ req.txs # {}
    <3>1. req.num \in Visible /\ req.txs = TxPage
      BY <1>1, <2>3 DEF RequestOK, BlockRead
    <3> QED BY <1>1, <1>2, <3>1, TxPageFacts
  <2>4. CASE req.op = "tx" /\ req.txs # {}
    <3>1. PICK n : req.txs = {n}
      BY <1>1, <2>4 DEF RequestOK, TxRead
    <3>2. Cardinality(req.txs) = 1
      BY <3>1, FS_Singleton
    <3> QED BY <2>1, <3>2
  <2>5. req.op \notin {"block", "tx"} => req.txs = {}
    BY <1>1 DEF RequestOK
  <2> QED BY <2>2, <2>3, <2>4, <2>5
<1>5. pager.off <= pager.lim * (Cardinality(BlockNums) + 1)
  <2> DEFINE N == Cardinality(BlockNums)
  <2>1. N \in Nat /\ pager.lim \in Nat \ {0} /\ pager.off \in Nat /\ pager.off <= N + pager.lim
    BY <1>1, BlockNumsFacts DEF PagerOK
  <2>2. \A lim \in Nat \ {0}, n \in Nat : n + lim <= lim * (n + 1)
    <3> SUFFICES ASSUME NEW lim \in Nat \ {0}, NEW n \in Nat PROVE n + lim <= lim * (n + 1)
      OBVIOUS
    <3>1. (lim - 1) * n \in Nat
      OBVIOUS
    <3>2. lim * (n + 1) = (lim - 1) * n + n + lim
      OBVIOUS
    <3> QED BY <3>1, <3>2
  <2>3. N + pager.lim <= pager.lim * (N + 1)
    BY <2>1, <2>2
  <2>4. pager.lim * (N + 1) \in Nat
    BY <2>1
  <2> HIDE DEF N
  <2> QED BY <2>1, <2>3, <2>4 DEF N
<1>6. told.blocks \subseteq BlockNums
  BY <1>1, <1>2 DEF ToldOK
<1>7. \A p \in told.policies : <<"namespace_policies", p.namespace, p.version>> \in Keys(AllRows)
  <2>1. Keys(table) \subseteq Keys(AllRows)
    BY <1>1 DEF TypeOK, Keys
  <2> QED BY <1>1, <2>1 DEF ToldOK, Known
<1> QED BY <1>1, <1>3, <1>4, <1>5, <1>6, <1>7 DEF ReadsTypeOK, RequestOK, PagerOK

(* Types; a block's answer never holds more transactions than were asked    *)
(* for, and a client that pages asks for no page beyond the last.          *)
THEOREM ReadsTypeCorrect == ReadsSpec => []ReadsTypeOK
BY ReadsInvariance, ReadsTypes, PTL

(* rest.go:260-284, 401-453: an answer that several statements put together *)
(* is one block, or one transaction, with all that was stored of it.       *)
THEOREM AnswersAreWhole == ReadsSpec => []ResponsesAreWhole
<1>1. ReadsIInv => ResponsesAreWhole
  <2> SUFFICES ASSUME ReadsIInv, req.pc = "ok", req.op \in {"block", "tx"}
               PROVE  ResponsesAreWhole
    BY DEF ResponsesAreWhole
  <2>1. \A i \in 1..5 : Children[i] # "ok"
    BY ChildrenFacts
  <2>2. \A b, nums : OfTxs(b, TablesBefore(6), nums) = OwnTxRows(b, nums)
    BY TablesBeforeFacts DEF OfTxs, OwnTxRows
  <2>3. \A b : OfTable(b, "blocks") \cup OfTable(b, "block_envelope_errors")
                 = {row \in OwnRows(b) : TableOf(row) \in {"blocks", "block_envelope_errors"}}
    BY DEF OfTable
  <2>4. CASE req.op = "block"
    <3>1. req.rows = OfTable(req.num, "blocks") \cup OfTxs(req.num, TablesBefore(6), TxPage)
                     \cup OfTable(req.num, "block_envelope_errors")
      BY <2>1, <2>4 DEF ReadsIInv, RequestOK, BlockRead
    <3>2. req.rows = OwnTxRows(req.num, TxPage)
                     \cup {row \in OwnRows(req.num) :
                              TableOf(row) \in {"blocks", "block_envelope_errors"}}
      BY <2>2, <2>3, <3>1
    <3> QED BY <2>4, <3>2 DEF ResponsesAreWhole, TxPage
  <2>5. CASE req.op = "tx"
    <3>1. PICK n : req.txs = {n} /\ req.rows = OfTxs(req.num, TablesBefore(6), {n})
      BY <2>1, <2>5 DEF ReadsIInv, RequestOK, TxRead
    <3>2. req.rows = OwnTxRows(req.num, req.txs)
      BY <2>2, <3>1
    <3> QED BY <2>5, <3>2 DEF ResponsesAreWhole
  <2> QED BY <2>4, <2>5
<1> QED BY <1>1, ReadsInvariance, PTL

(* rest.go:221-226: a client that pages until has_more is false has seen    *)
(* all of its range that was stored when it began, whatever fills gaps.    *)
THEOREM PagingSeesAll == ReadsSpec => []PagingMissesNothing
<1>1. ReadsIInv => PagingMissesNothing
  BY DEF ReadsIInv, PagerOK, PagingMissesNothing
<1> QED BY <1>1, ReadsInvariance, PTL

(* rest.go:254: what a client was told of is found, after any restart.      *)
THEOREM ToldBlocksStay == ReadsSpec => ToldBlocksAreFound
<1>1. ASSUME ReadsIInv, [ReadsNext]_<<vars, readVars>>, req.pc = "blocks", req'.pc = "not_found"
      PROVE  req.num \notin told.blocks
  <2>1. told.blocks \subseteq Visible /\ WholeBlocks /\ RequestOK
    BY <1>1 DEF ReadsIInv, IInv, ToldOK
  <2>2. SelectBlock
    <3>1. req'.pc # req.pc /\ Reading /\ ~Free
      BY <1>1 DEF Reading, Free
    <3>2. \A i \in 1..5 : Children[i] # "blocks"
      BY ChildrenFacts
    <3>3. NoRequest.pc = "idle"
      BY NoRequestFields
    <3>4. DOMAIN Children = 1..5
      BY ChildrenFacts
    <3> QED BY <1>1, <3>1, <3>2, <3>3, <3>4
            DEF ReadsNext, readVars, Handlers, Paging, BlockRequest, SelectTransactions,
                SelectBlockChildren, SelectErrors, TxRequest, SelectByTxID, SelectTxChildren,
                ListPolicies, GetPolicies, HeightRequest, ReadFails, Respond, StartPaging,
                ListPage, EndPaging
  <2>3. BlockRows("blocks", req.num) = {}
    <3> DEFINE found == BlockRows("blocks", req.num)
    <3>1. req' = [req EXCEPT !.rows = found,
                             !.pc = IF found = {} THEN "not_found" ELSE "transactions"]
      BY <2>2 DEF SelectBlock
    <3> HIDE DEF found
    <3>2. found = {}
      BY <1>1, <3>1 DEF ReadsIInv, Fields
    <3> QED BY <3>2 DEF found
  <2> QED BY <2>1, <2>3, BlockFound
<1> QED BY <1>1, ReadsInvariance, PTL DEF ReadsSpec, ToldBlocksAreFound

LEMMA IdsDiffer == WholeBlocks => OneTransactionPerId
<1> SUFFICES ASSUME WholeBlocks, NEW r1 \in table, NEW r2 \in table,
                    TableOf(r1) = "transactions", TableOf(r2) = "transactions",
                    r1[2][1] = r2[2][1]
             PROVE  r1 = r2
  BY DEF OneTransactionPerId
<1>1. ASSUME NEW row \in table, TableOf(row) = "transactions"
      PROVE  \E b \in BlockNums : \E i \in 1..Len(Txs(b)) :
                /\ row = TxRow(b, Txs(b)[i]) /\ Chain[b] \in Blocks /\ InOrder(Chain[b], Txs(b))
                /\ Txs(b)[i].txNum \in Positions(Chain[b])
                /\ KeptUnderId(b, Txs(b)[i].txNum)
                /\ Chain[b].data[Txs(b)[i].txNum + 1].txId = row[2][1]
  <2> DEFINE b == Key(row)[2]
  <2>1. b \in Visible /\ row \in OwnRows(b)
    BY <1>1, RowsAreOfBlocks DEF IsOwn
  <2> HIDE DEF b
  <2>2. b \in BlockNums /\ Chain[b] \in Blocks
    BY <2>1, ChainAssumption DEF Visible
  <2>3. PICK i \in 1..Len(Txs(b)) : row = TxRow(b, Txs(b)[i])
    BY <1>1, <2>1, <2>2, OwnRowsOf, StatementsByTable
  <2> DEFINE n == Txs(b)[i].txNum
  <2>4. /\ InOrder(Chain[b], Txs(b)) /\ Txs(b)[i] = TxRecordAt(Chain[b], n)
        /\ HasStatus(Chain[b], n) /\ Chain[b].filter[n + 1] \in StoredStatuses
        /\ Chain[b].data[n + 1].readable /\ Chain[b].data[n + 1].txId # ""
    BY <2>2, ParseFacts DEF Txs
  <2>5. n \in Positions(Chain[b])
    BY <2>4 DEF InOrder
  <2>6. row[2][1] = Txs(b)[i].txId
    BY <2>3, TxRowKey
  <2>7. Txs(b)[i].txId = Chain[b].data[n + 1].txId
    <3>1. TxRecordAt(Chain[b], n).txId = Chain[b].data[n + 1].txId
      BY DEF TxRecordAt, TxRecord
    <3> QED BY <2>4, <3>1
  <2>8. KeptUnderId(b, n)
    BY <2>4 DEF KeptUnderId
  <2> QED BY <2>2, <2>3, <2>4, <2>5, <2>6, <2>7, <2>8
<1>2. PICK b1 \in BlockNums : \E i \in 1..Len(Txs(b1)) :
         /\ r1 = TxRow(b1, Txs(b1)[i]) /\ Chain[b1] \in Blocks /\ InOrder(Chain[b1], Txs(b1))
         /\ Txs(b1)[i].txNum \in Positions(Chain[b1]) /\ KeptUnderId(b1, Txs(b1)[i].txNum)
         /\ Chain[b1].data[Txs(b1)[i].txNum + 1].txId = r1[2][1]
  BY <1>1
<1>3. PICK i1 \in 1..Len(Txs(b1)) :
         /\ r1 = TxRow(b1, Txs(b1)[i1]) /\ Chain[b1] \in Blocks /\ InOrder(Chain[b1], Txs(b1))
         /\ Txs(b1)[i1].txNum \in Positions(Chain[b1]) /\ KeptUnderId(b1, Txs(b1)[i1].txNum)
         /\ Chain[b1].data[Txs(b1)[i1].txNum + 1].txId = r1[2][1]
  BY <1>2
<1>4. PICK b2 \in BlockNums : \E i \in 1..Len(Txs(b2)) :
         /\ r2 = TxRow(b2, Txs(b2)[i])
         /\ Txs(b2)[i].txNum \in Positions(Chain[b2]) /\ KeptUnderId(b2, Txs(b2)[i].txNum)
         /\ Chain[b2].data[Txs(b2)[i].txNum + 1].txId = r2[2][1]
  BY <1>1
<1>5. PICK i2 \in 1..Len(Txs(b2)) :
         /\ r2 = TxRow(b2, Txs(b2)[i2])
         /\ Txs(b2)[i2].txNum \in Positions(Chain[b2]) /\ KeptUnderId(b2, Txs(b2)[i2].txNum)
         /\ Chain[b2].data[Txs(b2)[i2].txNum + 1].txId = r2[2][1]
  BY <1>4
<1>6. b1 = b2 /\ Txs(b1)[i1].txNum = Txs(b2)[i2].txNum
  BY <1>3, <1>5, IdsAssumption
<1>7. i1 = i2
  BY <1>3, <1>6, RecordsDiffer
<1> QED BY <1>3, <1>5, <1>6, <1>7

(* transactions.sql:29: the lookup by tx_id finds one transaction at most,  *)
(* when the committer keeps one under an id: nothing it rejected is stored *)
(* as a transaction, and no position twice.                                *)
THEOREM IdsAreUnique == ReadsSpec => []OneTransactionPerId
BY BlocksAreWhole, IdsDiffer, ReadersLeaveTheStore, PTL

(* Of every namespace with a policy the newest is among the newest.         *)
LEMMA NewestIsThere ==
    ASSUME WholeBlocks, TypeOK, NEW row \in PolicyRows
    PROVE  \E new \in NewestOfEach(PolicyRows) :
              Key(new)[2] = Key(row)[2] /\ Key(new)[3] >= Key(row)[3]
<1> DEFINE ofNs == {r \in PolicyRows : Key(r)[2] = Key(row)[2]}
           f    == [r \in ofNs |-> Key(r)[3]]
           versions == {Key(r)[3] : r \in ofNs}
<1>1. ofNs \in SUBSET AllRows
  BY DEF PolicyRows, TypeOK
<1>2. IsFiniteSet(ofNs)
  BY <1>1, AllRowsFinite, FS_Subset
<1>3. f \in Surjection(ofNs, versions)
  BY DEF Surjection
<1>4. versions \subseteq Nat /\ versions # {}
  BY PolicyRowFacts
<1>5. IsFiniteSet(versions)
  <2> HIDE DEF f, ofNs, versions
  <2> QED BY <1>2, <1>3, FS_Surjection
<1>6. PICK v \in versions : \A w \in versions : w <= v
  <2> HIDE DEF versions
  <2> QED BY <1>4, <1>5, SetHasGreatest
<1>7. PICK new \in ofNs : Key(new)[3] = v
  BY <1>6
<1>8. new \in NewestOfEach(PolicyRows)
  BY <1>6, <1>7 DEF NewestOfEach
<1>9. Key(row)[3] <= v /\ Key(row)[3] \in Nat /\ v \in Nat
  BY <1>4, <1>6
<1> QED BY <1>7, <1>8, <1>9

(* README.md:342: the list of newest policies lacks no namespace, and shows *)
(* none in an older version, than any answer before, however late healed   *)
(* gaps bring older versions.                                              *)
THEOREM NewestStaysNewest == ReadsSpec => LatestPolicyIsLatest
<1>1. ASSUME ReadsIInv, [ReadsNext]_<<vars, readVars>>, req.op # "policies", req'.op = "policies",
             NEW v \in told.policies
      PROVE  \E p \in req'.policies : p.namespace = v.namespace /\ p.version >= v.version
  <2>1. WholeBlocks /\ TypeOK /\ Fields /\ Known(told.policies)
    BY <1>1 DEF ReadsIInv, IInv, ToldOK
  <2>2. ListPolicies
    <3>1. CASE req' = req
      BY <1>1, <3>1
    <3>2. CASE SelectBlock \/ SelectTransactions \/ SelectBlockChildren \/ SelectErrors
               \/ SelectByTxID \/ SelectTxChildren
      <4>1. req'.op = req.op
        BY <2>1, <3>2 DEF Fields, SelectBlock, SelectTransactions, SelectBlockChildren,
                          SelectErrors, SelectByTxID, SelectTxChildren
      <4> QED BY <1>1, <4>1
    <3>3. CASE BlockRequest \/ TxRequest \/ GetPolicies
      <4>1. req'.op \in {"block", "tx", "namespace"}
        BY <3>3, NoRequestFields DEF BlockRequest, TxRequest, GetPolicies
      <4> QED BY <1>1, <4>1
    <3>4. CASE ReadFails \/ Respond
      <4>1. req'.op = "none"
        BY <3>4, NoRequestFields DEF ReadFails, Respond
      <4> QED BY <1>1, <4>1
    <3>5. CASE HeightRequest \/ Paging
      <4>1. req' = req
        BY <3>5 DEF HeightRequest, Paging, StartPaging, ListPage, EndPaging
      <4> QED BY <1>1, <4>1
    <3> QED BY <1>1, <3>1, <3>2, <3>3, <3>4, <3>5 DEF ReadsNext, readVars, Handlers
  <2>3. req'.policies = {NamespacePolicyRow(row) : row \in NewestOfEach(PolicyRows)}
    BY <2>2, NoRequestFields DEF ListPolicies
  <2>4. PICK row \in table : Key(row) = <<"namespace_policies", v.namespace, v.version>>
    BY <2>1 DEF Known, Keys
  <2>5. row \in PolicyRows /\ Key(row)[2] = v.namespace /\ Key(row)[3] = v.version
    BY <2>4 DEF PolicyRows, TableOf
  <2>6. PICK new \in NewestOfEach(PolicyRows) :
           Key(new)[2] = v.namespace /\ Key(new)[3] >= v.version
    BY <2>1, <2>5, NewestIsThere
  <2>7. NamespacePolicyRow(new).namespace = v.namespace
        /\ NamespacePolicyRow(new).version >= v.version
    BY <2>6 DEF NamespacePolicyRow
  <2> QED BY <2>3, <2>6, <2>7
<1>2. ReadsIInv /\ [ReadsNext]_<<vars, readVars>> =>
        (req.op # "policies" /\ req'.op = "policies" =>
            \A v \in told.policies : \E p \in req'.policies :
                p.namespace = v.namespace /\ p.version >= v.version)
  BY <1>1
<1> QED BY <1>2, ReadsInvariance, PTL DEF ReadsSpec, LatestPolicyIsLatest


-----------------------------------------------------------------------------
(* Trees of policies: what renderConfigGroupTree shows. *)

Names == Range(NameOrder)

(* A list without repetitions. *)
Distinct(s) == IsSeq(s) /\ \A p, q \in 1..Len(s) : s[p] = s[q] => p = q

LEMMA DistinctCount ==
    ASSUME NEW s, Distinct(s)
    PROVE  Len(s) = Cardinality(Range(s))
<1> DEFINE n == Len(s)
           S == Range(s)
           f == [i \in 1..n |-> s[i]]
<1>1. n \in Nat /\ S = {s[i] : i \in 1..n}
  BY IsSeqFacts DEF Distinct
<1>2. f \in [1..n -> S] /\ \A i \in 1..n : f[i] = s[i]
  BY <1>1
<1>3. \A i, j \in 1..n : f[i] = f[j] => i = j
  BY <1>2 DEF Distinct
<1>4. \A x \in S : \E i \in 1..n : f[i] = x
  BY <1>1, <1>2
<1> HIDE DEF f, n, S
<1>5. f \in Bijection(1..n, S)
  BY <1>2, <1>3, <1>4 DEF Bijection, Injection, Surjection, IsInjective
<1>6. ExistsBijection(1..n, S)
  BY <1>5 DEF ExistsBijection
<1>7. Cardinality(S) = n
  BY <1>1, <1>6, FS_CountingElements
<1> QED BY <1>7 DEF n, S

LEMMA ConcatDistinct ==
    ASSUME NEW s, NEW t, Distinct(s), Distinct(t), Range(s) \cap Range(t) = {}
    PROVE  Distinct(s \o t) /\ Range(s \o t) = Range(s) \cup Range(t)
<1> DEFINE r == s \o t
<1>1. IsSeq(s) /\ IsSeq(t)
  BY DEF Distinct
<1>2. /\ IsSeq(r) /\ Range(r) = Range(s) \cup Range(t) /\ Len(r) = Len(s) + Len(t)
      /\ \A i \in 1..(Len(s) + Len(t)) : r[i] = IF i <= Len(s) THEN s[i] ELSE t[i - Len(s)]
  BY <1>1, ConcatIsSeq
<1>3. /\ Len(s) \in Nat /\ Range(s) = {s[i] : i \in 1..Len(s)}
      /\ Len(t) \in Nat /\ Range(t) = {t[i] : i \in 1..Len(t)}
  BY <1>1, IsSeqFacts
<1> HIDE DEF r
<1>4. \A i \in 1..Len(r) : IF i <= Len(s) THEN i \in 1..Len(s) /\ r[i] = s[i]
                           ELSE i - Len(s) \in 1..Len(t) /\ r[i] = t[i - Len(s)]
  BY <1>2, <1>3
<1>5. \A i \in 1..Len(s), j \in 1..Len(t) : s[i] # t[j]
  BY <1>3
<1>6. ASSUME NEW p \in 1..Len(r), NEW q \in 1..Len(r), r[p] = r[q]
      PROVE  p = q
  <2>1. CASE p <= Len(s) /\ q <= Len(s)
    BY <1>4, <1>6, <2>1 DEF Distinct
  <2>2. CASE p <= Len(s) /\ ~(q <= Len(s))
    BY <1>4, <1>5, <1>6, <2>2
  <2>3. CASE ~(p <= Len(s)) /\ q <= Len(s)
    BY <1>4, <1>5, <1>6, <2>3
  <2>4. CASE ~(p <= Len(s)) /\ ~(q <= Len(s))
    <3>1. p - Len(s) = q - Len(s)
      BY <1>4, <1>6, <2>4 DEF Distinct
    <3> QED BY <1>2, <1>3, <3>1
  <2> QED BY <2>1, <2>2, <2>3, <2>4
<1> QED BY <1>2, <1>6 DEF Distinct, r

(* The lists of the names, one after the other. *)
LEMMA InNameOrderFacts ==
    ASSUME NEW f, DOMAIN f \subseteq Names, \A name \in DOMAIN f : Distinct(f[name]),
           \A m, n \in DOMAIN f : m # n => Range(f[m]) \cap Range(f[n]) = {}
    PROVE  /\ Distinct(InNameOrder(f))
           /\ Range(InNameOrder(f)) = UNION {Range(f[name]) : name \in DOMAIN f}
<1> DEFINE n == Len(NameOrder)
           lists == [i \in DOMAIN NameOrder |->
                        IF NameOrder[i] \in DOMAIN f THEN f[NameOrder[i]] ELSE <<>>]
           r == FlattenSeq(lists)
<1>1. IsSeq(NameOrder) /\ \A i, j \in DOMAIN NameOrder : NameOrder[i] = NameOrder[j] => i = j
  BY ReadingsAssumption DEF IsSeq
<1>2. n \in Nat /\ DOMAIN NameOrder = 1..n /\ Names = {NameOrder[i] : i \in 1..n}
  BY <1>1, IsSeqFacts DEF Names
<1>3. \A i \in 1..n : lists[i] = IF NameOrder[i] \in DOMAIN f THEN f[NameOrder[i]] ELSE <<>>
  BY <1>2
<1>4. IsSeq(lists) /\ Len(lists) = n
  <2>1. lists = [i \in DOMAIN NameOrder |-> lists[i]]
    BY <1>2
  <2> HIDE DEF lists
  <2> QED BY <1>1, <2>1, MapIsSeq
<1>5. r = InNameOrder(f)
  BY DEF InNameOrder
<1> HIDE DEF lists
<1>6. \A i \in 1..n : Distinct(lists[i])
  <2>1. Distinct(<<>>)
    BY EmptyIsSeq DEF Distinct
  <2> QED BY <1>3, <2>1
<1>7. \A i \in 1..n : IsSeq(lists[i])
  BY <1>6 DEF Distinct
<1>8. Puts(r, lists, n)
  BY <1>2, <1>4, <1>7, FlattenPuts
<1>9. \A i, j \in 1..n : i # j => Range(lists[i]) \cap Range(lists[j]) = {}
  <2> SUFFICES ASSUME NEW i \in 1..n, NEW j \in 1..n, i # j
               PROVE  Range(lists[i]) \cap Range(lists[j]) = {}
    OBVIOUS
  <2>1. Range(<<>>) = {}
    BY EmptyIsSeq
  <2>2. NameOrder[i] # NameOrder[j]
    BY <1>1, <1>2
  <2> QED BY <1>3, <2>1, <2>2
<1>10. UNION {Range(lists[i]) : i \in 1..n} = UNION {Range(f[name]) : name \in DOMAIN f}
  <2>1. Range(<<>>) = {}
    BY EmptyIsSeq
  <2>2. \A i \in 1..n : Range(lists[i]) \subseteq UNION {Range(f[name]) : name \in DOMAIN f}
    BY <1>3, <2>1
  <2>3. \A name \in DOMAIN f : \E i \in 1..n : lists[i] = f[name]
    BY <1>2, <1>3
  <2> QED BY <2>2, <2>3
<1> HIDE DEF r
<1>11. IsSeq(r) /\ Len(r) \in Nat
  BY <1>8, IsSeqFacts DEF Puts
<1>12. ASSUME NEW p \in 1..Len(r), NEW q \in 1..Len(r), p < q
       PROVE  r[p] # r[q]
  <2>1. PICK i \in 1..n, j \in 1..n : \E a \in 1..Len(lists[i]), c \in 1..Len(lists[j]) :
           /\ r[p] = lists[i][a] /\ r[q] = lists[j][c]
           /\ i < j \/ (i = j /\ a < c)
    BY <1>8, <1>12 DEF Puts
  <2>2. PICK a \in 1..Len(lists[i]), c \in 1..Len(lists[j]) :
           /\ r[p] = lists[i][a] /\ r[q] = lists[j][c]
           /\ i < j \/ (i = j /\ a < c)
    BY <2>1
  <2>3. Len(lists[i]) \in Nat /\ Len(lists[j]) \in Nat
    BY <1>7, IsSeqFacts
  <2>4. lists[i][a] \in Range(lists[i]) /\ lists[j][c] \in Range(lists[j])
    BY <1>7, IsSeqFacts
  <2>5. CASE i < j
    <3>1. i # j
      BY <2>5
    <3> QED BY <1>9, <2>2, <2>4, <3>1
  <2>6. CASE i = j /\ a < c
    <3>1. a # c
      BY <2>3, <2>6
    <3>2. Distinct(lists[i])
      BY <1>6
    <3> QED BY <2>2, <2>6, <3>1, <3>2 DEF Distinct
  <2> QED BY <2>2, <2>5, <2>6
<1>13. \A p, q \in 1..Len(r) : r[p] = r[q] => p = q
  <2> SUFFICES ASSUME NEW p \in 1..Len(r), NEW q \in 1..Len(r), p # q
               PROVE  r[p] # r[q]
    OBVIOUS
  <2>1. p < q \/ q < p
    BY <1>11
  <2> QED BY <1>12, <2>1
<1> QED BY <1>5, <1>8, <1>10, <1>11, <1>13 DEF Distinct, Puts

(* The path p begins with path. *)
Under(p, path) ==
    /\ p \in Seq(Names) /\ Len(path) <= Len(p)
    /\ \A k \in 1..Len(path) : p[k] = path[k]

(* Different lines, all below a path. *)
Shows(lines, path) == Distinct(lines) /\ \A line \in Range(lines) : Under(line[1], path)

LEMMA UnderFacts ==
    ASSUME NEW path \in Seq(Names), NEW name \in Names
    PROVE  /\ Append(path, name) \in Seq(Names)
           /\ \A p : Under(p, Append(path, name)) =>
                 Under(p, path) /\ p # path /\ p[Len(path) + 1] = name
<1> DEFINE sub == Append(path, name)
<1>1. /\ sub \in Seq(Names) /\ Len(sub) = Len(path) + 1 /\ sub[Len(path) + 1] = name
      /\ \A k \in 1..Len(path) : sub[k] = path[k]
  BY AppendProperties
<1>2. Len(path) \in Nat
  OBVIOUS
<1> HIDE DEF sub
<1>3. ASSUME NEW p, Under(p, sub)
      PROVE  Under(p, path) /\ p # path /\ p[Len(path) + 1] = name
  <2>1. p \in Seq(Names) /\ Len(path) + 1 <= Len(p) /\ \A k \in 1..(Len(path) + 1) : p[k] = sub[k]
    BY <1>1, <1>3 DEF Under
  <2>2. Len(p) \in Nat /\ Len(path) <= Len(p) /\ p # path
    BY <1>2, <2>1
  <2>3. \A k \in 1..Len(path) : k \in 1..(Len(path) + 1)
    BY <1>2
  <2>4. Len(path) + 1 \in 1..(Len(path) + 1)
    BY <1>2
  <2> QED BY <1>1, <2>1, <2>2, <2>3, <2>4 DEF Under
<1> QED BY <1>1, <1>3 DEF sub

(* The lines of one group are its own and those below its groups. *)
LEMMA GroupLinesFacts ==
    ASSUME NEW path \in Seq(Names), NEW group, NEW below,
           DOMAIN group.policies \subseteq Names, DOMAIN below \subseteq Names,
           \A name \in DOMAIN below : Shows(below[name], Append(path, name))
    PROVE  /\ Shows(GroupLines(path, group, below), path)
           /\ Range(GroupLines(path, group, below)) =
                 LinesAt(<<path, group>>) \cup UNION {Range(below[name]) : name \in DOMAIN below}
<1> DEFINE Text(name) == RenderConfigPolicy(group.policies[name])
           own == [name \in DOMAIN group.policies |->
                      IF Text(name) = NoText THEN <<>> ELSE << <<path, name, Text(name)>> >>]
           L == InNameOrder(own)
           B == InNameOrder(below)
<1>1. GroupLines(path, group, below) = L \o B
  BY DEF GroupLines
<1>2. \A name \in DOMAIN own : Distinct(own[name]) /\ Range(own[name]) =
         IF Text(name) = NoText THEN {} ELSE {<<path, name, Text(name)>>}
  <2> SUFFICES ASSUME NEW name \in DOMAIN group.policies
               PROVE  Distinct(own[name]) /\ Range(own[name]) =
                         IF Text(name) = NoText THEN {} ELSE {<<path, name, Text(name)>>}
    OBVIOUS
  <2> DEFINE line == <<path, name, Text(name)>>
  <2>1. own[name] = IF Text(name) = NoText THEN <<>> ELSE <<line>>
    OBVIOUS
  <2> HIDE DEF line, own, Text
  <2>2. Distinct(<<>>) /\ Range(<<>>) = {}
    BY EmptyIsSeq DEF Distinct
  <2>3. Distinct(<<line>>) /\ Range(<<line>>) = {line}
    BY OneIsSeq DEF Distinct
  <2>4. Distinct(own[name]) /\ Range(own[name]) = IF Text(name) = NoText THEN {} ELSE {line}
    BY <2>1, <2>2, <2>3
  <2> QED BY <2>4 DEF line
<1>3. DOMAIN own = DOMAIN group.policies
  OBVIOUS
<1>4. LinesAt(<<path, group>>) =
         {line \in {<<path, name, Text(name)>> : name \in DOMAIN group.policies} : line[3] # NoText}
  BY DEF LinesAt
<1> HIDE DEF own
<1>5. \A m, n \in DOMAIN own : m # n => Range(own[m]) \cap Range(own[n]) = {}
  <2> HIDE DEF Text
  <2> QED BY <1>2
<1>6. Distinct(L) /\ Range(L) = UNION {Range(own[name]) : name \in DOMAIN own}
  BY <1>2, <1>3, <1>5, InNameOrderFacts
<1>7. Range(L) = LinesAt(<<path, group>>)
  <2> HIDE DEF Text, L
  <2>1. \A line \in Range(L) : \E name \in DOMAIN group.policies :
           Text(name) # NoText /\ line = <<path, name, Text(name)>>
    <3> SUFFICES ASSUME NEW name \in DOMAIN own, NEW line \in Range(own[name])
                 PROVE  Text(name) # NoText /\ line = <<path, name, Text(name)>>
      BY <1>3, <1>6
    <3> QED BY <1>2
  <2>2. \A name \in DOMAIN group.policies :
           Text(name) # NoText => <<path, name, Text(name)>> \in Range(L)
    <3> SUFFICES ASSUME NEW name \in DOMAIN own, Text(name) # NoText
                 PROVE  <<path, name, Text(name)>> \in Range(L)
      BY <1>3
    <3>1. <<path, name, Text(name)>> \in Range(own[name])
      BY <1>2
    <3> QED BY <1>6, <3>1
  <2> QED BY <1>4, <2>1, <2>2, ZenonT(60)
<1>8. \A line \in Range(L) : line[1] = path
  BY <1>7, <1>4
<1>9. \A m, n \in DOMAIN below : m # n => Range(below[m]) \cap Range(below[n]) = {}
  <2> SUFFICES ASSUME NEW m \in DOMAIN below, NEW n \in DOMAIN below,
                      NEW line \in Range(below[m]), line \in Range(below[n])
               PROVE  m = n
    OBVIOUS
  <2>1. Under(line[1], Append(path, m)) /\ Under(line[1], Append(path, n))
    BY DEF Shows
  <2>2. m \in Names /\ n \in Names
    OBVIOUS
  <2> QED BY <2>1, <2>2, UnderFacts
<1>10. Distinct(B) /\ Range(B) = UNION {Range(below[name]) : name \in DOMAIN below}
  <2>1. \A name \in DOMAIN below : Distinct(below[name])
    BY DEF Shows
  <2> QED BY <1>9, <2>1, InNameOrderFacts
<1>11. \A line \in Range(B) : Under(line[1], path) /\ line[1] # path
  <2> HIDE DEF B
  <2> SUFFICES ASSUME NEW name \in DOMAIN below, NEW line \in Range(below[name])
               PROVE  Under(line[1], path) /\ line[1] # path
    BY <1>10
  <2>1. Under(line[1], Append(path, name)) /\ name \in Names
    BY DEF Shows
  <2> QED BY <2>1, UnderFacts
<1>12. Under(path, path)
  <2>1. Len(path) \in Nat
    OBVIOUS
  <2> QED BY <2>1 DEF Under
<1> HIDE DEF L, B
<1>13. Range(L) \cap Range(B) = {}
  BY <1>8, <1>11
<1>14. Distinct(L \o B) /\ Range(L \o B) = Range(L) \cup Range(B)
  BY <1>6, <1>10, <1>13, ConcatDistinct
<1>15. Shows(L \o B, path)
  BY <1>8, <1>11, <1>12, <1>14 DEF Shows
<1> QED BY <1>1, <1>7, <1>10, <1>14, <1>15

-----------------------------------------------------------------------------
(* The four levels. *)

Named(group) == DOMAIN group.policies \subseteq Names /\ DOMAIN group.groups \subseteq Names

Below1Named(group) == Named(group) /\ \A name \in DOMAIN group.groups : Named(group.groups[name])
Below2Named(group) == Named(group) /\ \A name \in DOMAIN group.groups : Below1Named(group.groups[name])
Below3Named(group) == Named(group) /\ \A name \in DOMAIN group.groups : Below2Named(group.groups[name])

Lines3(path, group) == LinesAt(<<path, group>>)
Lines2(path, group) ==
    LinesAt(<<path, group>>)
    \cup UNION {Lines3(Append(path, name), group.groups[name]) : name \in DOMAIN group.groups}
Lines1(path, group) ==
    LinesAt(<<path, group>>)
    \cup UNION {Lines2(Append(path, name), group.groups[name]) : name \in DOMAIN group.groups}
Lines0(path, group) ==
    LinesAt(<<path, group>>)
    \cup UNION {Lines1(Append(path, name), group.groups[name]) : name \in DOMAIN group.groups}

LEMMA AtDepth3 ==
    ASSUME NEW path \in Seq(Names), NEW group, Named(group)
    PROVE  Shows(TreeAtDepth3(path, group), path)
           /\ Range(TreeAtDepth3(path, group)) = Lines3(path, group)
<1> DEFINE below == [name \in DOMAIN group.groups |-> <<>>]
<1>1. DOMAIN below = DOMAIN group.groups /\ \A name \in DOMAIN below : below[name] = <<>>
  OBVIOUS
<1>2. TreeAtDepth3(path, group) = GroupLines(path, group, below)
  BY DEF TreeAtDepth3
<1> HIDE DEF below
<1>3. Range(<<>>) = {} /\ \A p : Shows(<<>>, p)
  BY EmptyIsSeq DEF Shows, Distinct
<1>4. \A name \in DOMAIN below : Shows(below[name], Append(path, name))
  BY <1>1, <1>3
<1>5. UNION {Range(below[name]) : name \in DOMAIN below} = {}
  BY <1>1, <1>3
<1>6. /\ Shows(GroupLines(path, group, below), path)
      /\ Range(GroupLines(path, group, below)) =
            LinesAt(<<path, group>>) \cup UNION {Range(below[name]) : name \in DOMAIN below}
  BY <1>1, <1>4, GroupLinesFacts DEF Named
<1> QED BY <1>2, <1>5, <1>6 DEF Lines3

LEMMA AtDepth2 ==
    ASSUME NEW path \in Seq(Names), NEW group, Below1Named(group)
    PROVE  Shows(TreeAtDepth2(path, group), path)
           /\ Range(TreeAtDepth2(path, group)) = Lines2(path, group)
<1> DEFINE below == [name \in DOMAIN group.groups |->
                       TreeAtDepth3(Append(path, name), group.groups[name])]
<1>1. /\ DOMAIN below = DOMAIN group.groups
      /\ \A name \in DOMAIN below :
            below[name] = TreeAtDepth3(Append(path, name), group.groups[name])
  OBVIOUS
<1>2. TreeAtDepth2(path, group) = GroupLines(path, group, below)
  BY DEF TreeAtDepth2
<1> HIDE DEF below
<1>3. Named(group) /\ \A name \in DOMAIN below : Named(group.groups[name])
  BY <1>1 DEF Below1Named
<1>4. \A name \in DOMAIN below : Append(path, name) \in Seq(Names)
  BY <1>1, <1>3, UnderFacts DEF Named
<1>5. \A name \in DOMAIN below :
         /\ Shows(below[name], Append(path, name))
         /\ Range(below[name]) = Lines3(Append(path, name), group.groups[name])
  BY <1>1, <1>3, <1>4, AtDepth3
<1>6. UNION {Range(below[name]) : name \in DOMAIN below} =
         UNION {Lines3(Append(path, name), group.groups[name]) : name \in DOMAIN group.groups}
  BY <1>1, <1>5
<1> QED BY <1>1, <1>2, <1>3, <1>5, <1>6, GroupLinesFacts DEF Named, Lines2

LEMMA AtDepth1 ==
    ASSUME NEW path \in Seq(Names), NEW group, Below2Named(group)
    PROVE  Shows(TreeAtDepth1(path, group), path)
           /\ Range(TreeAtDepth1(path, group)) = Lines1(path, group)
<1> DEFINE below == [name \in DOMAIN group.groups |->
                       TreeAtDepth2(Append(path, name), group.groups[name])]
<1>1. /\ DOMAIN below = DOMAIN group.groups
      /\ \A name \in DOMAIN below :
            below[name] = TreeAtDepth2(Append(path, name), group.groups[name])
  OBVIOUS
<1>2. TreeAtDepth1(path, group) = GroupLines(path, group, below)
  BY DEF TreeAtDepth1
<1> HIDE DEF below
<1>3. Named(group) /\ \A name \in DOMAIN below : Below1Named(group.groups[name])
  BY <1>1 DEF Below2Named
<1>4. \A name \in DOMAIN below : Append(path, name) \in Seq(Names)
  BY <1>1, <1>3, UnderFacts DEF Named
<1>5. \A name \in DOMAIN below :
         /\ Shows(below[name], Append(path, name))
         /\ Range(below[name]) = Lines2(Append(path, name), group.groups[name])
  BY <1>1, <1>3, <1>4, AtDepth2
<1>6. UNION {Range(below[name]) : name \in DOMAIN below} =
         UNION {Lines2(Append(path, name), group.groups[name]) : name \in DOMAIN group.groups}
  BY <1>1, <1>5
<1> QED BY <1>1, <1>2, <1>3, <1>5, <1>6, GroupLinesFacts DEF Named, Lines1

LEMMA AtDepth0 ==
    ASSUME NEW path \in Seq(Names), NEW group, Below3Named(group)
    PROVE  Shows(RenderConfigGroupTree(path, group), path)
           /\ Range(RenderConfigGroupTree(path, group)) = Lines0(path, group)
<1> DEFINE below == [name \in DOMAIN group.groups |->
                       TreeAtDepth1(Append(path, name), group.groups[name])]
<1>1. /\ DOMAIN below = DOMAIN group.groups
      /\ \A name \in DOMAIN below :
            below[name] = TreeAtDepth1(Append(path, name), group.groups[name])
  OBVIOUS
<1>2. RenderConfigGroupTree(path, group) = GroupLines(path, group, below)
  BY DEF RenderConfigGroupTree
<1> HIDE DEF below
<1>3. Named(group) /\ \A name \in DOMAIN below : Below2Named(group.groups[name])
  BY <1>1 DEF Below3Named
<1>4. \A name \in DOMAIN below : Append(path, name) \in Seq(Names)
  BY <1>1, <1>3, UnderFacts DEF Named
<1>5. \A name \in DOMAIN below :
         /\ Shows(below[name], Append(path, name))
         /\ Range(below[name]) = Lines1(Append(path, name), group.groups[name])
  BY <1>1, <1>3, <1>4, AtDepth1
<1>6. UNION {Range(below[name]) : name \in DOMAIN below} =
         UNION {Lines1(Append(path, name), group.groups[name]) : name \in DOMAIN group.groups}
  BY <1>1, <1>5
<1> QED BY <1>1, <1>2, <1>3, <1>5, <1>6, GroupLinesFacts DEF Named, Lines0

(* Properties of the places below are those of the groups below. *)
LEMMA BelowFacts ==
    ASSUME NEW path, NEW group, NEW places, <<path, group>> \in places
    PROVE  \A name \in DOMAIN group.groups :
              <<Append(path, name), group.groups[name]>> \in Below(places)
BY DEF Below

LEMMA BelowOf ==
    ASSUME NEW places
    PROVE  \A place \in Below(places) : \E above \in places : \E name \in DOMAIN above[2].groups :
              place = <<Append(above[1], name), above[2].groups[name]>>
BY DEF Below

LEMMA PlacesNamed ==
    ASSUME NEW group, \A place \in Places(group) : Named(place[2])
    PROVE  Below3Named(group)
<1> DEFINE P0 == {<< <<>>, group >>}
           P1 == Below(P0)
           P2 == Below(P1)
           P3 == Below(P2)
<1>1. Places(group) = P0 \cup P1 \cup P2 \cup P3
  BY DEF Places
<1>2. \A path, g : <<path, g>> \in P0 \cup P1 \cup P2 \cup P3 => Named(g)
  BY <1>1
<1> HIDE DEF P3
<1>3. ASSUME NEW path, NEW g, <<path, g>> \in P2 PROVE Below1Named(g)
  <2>1. \A name \in DOMAIN g.groups : <<Append(path, name), g.groups[name]>> \in P3
    BY <1>3, BelowFacts DEF P3
  <2> QED BY <1>2, <1>3, <2>1 DEF Below1Named
<1> HIDE DEF P2
<1>4. ASSUME NEW path, NEW g, <<path, g>> \in P1 PROVE Below2Named(g)
  <2>1. \A name \in DOMAIN g.groups : <<Append(path, name), g.groups[name]>> \in P2
    BY <1>4, BelowFacts DEF P2
  <2> QED BY <1>2, <1>3, <1>4, <2>1 DEF Below2Named
<1> HIDE DEF P1
<1>5. \A name \in DOMAIN group.groups : <<Append(<<>>, name), group.groups[name]>> \in P1
  BY BelowFacts DEF P1
<1> QED BY <1>2, <1>4, <1>5 DEF Below3Named

LEMMA LinesOfPlaces ==
    ASSUME NEW group
    PROVE  UNION {LinesAt(place) : place \in Places(group)} = Lines0(<<>>, group)
<1> DEFINE P0 == {<< <<>>, group >>}
           P1 == Below(P0)
           P2 == Below(P1)
           P3 == Below(P2)
           All == UNION {LinesAt(place) : place \in Places(group)}
<1>1. Places(group) = P0 \cup P1 \cup P2 \cup P3
  BY DEF Places
<1>2. \A path, g : LinesAt(<<path, g>>) \subseteq Lines3(path, g)
                   /\ LinesAt(<<path, g>>) \subseteq Lines2(path, g)
                   /\ LinesAt(<<path, g>>) \subseteq Lines1(path, g)
                   /\ LinesAt(<<path, g>>) \subseteq Lines0(path, g)
  BY DEF Lines0, Lines1, Lines2, Lines3
<1>3. \A path, g : <<path, g>> \in P0 \cup P1 \cup P2 \cup P3 => LinesAt(<<path, g>>) \subseteq All
  BY <1>1
<1> HIDE DEF All
<1>4. Lines0(<<>>, group) \subseteq All
  <2>1. \A path, g : <<path, g>> \in P2 =>
           \A name \in DOMAIN g.groups : <<Append(path, name), g.groups[name]>> \in P3
    BY BelowFacts
  <2>2. \A path, g : <<path, g>> \in P1 =>
           \A name \in DOMAIN g.groups : <<Append(path, name), g.groups[name]>> \in P2
    BY BelowFacts
  <2>3. \A name \in DOMAIN group.groups : <<Append(<<>>, name), group.groups[name]>> \in P1
    BY BelowFacts
  <2>4. << <<>>, group >> \in P0
    OBVIOUS
  <2> HIDE DEF P0, P1, P2, P3
  <2>5. \A path, g : <<path, g>> \in P3 => Lines3(path, g) \subseteq All
    BY <1>3 DEF Lines3
  <2>6. \A path, g : <<path, g>> \in P2 => Lines2(path, g) \subseteq All
    <3> SUFFICES ASSUME NEW path, NEW g, <<path, g>> \in P2 PROVE Lines2(path, g) \subseteq All
      OBVIOUS
    <3>1. \A name \in DOMAIN g.groups : Lines3(Append(path, name), g.groups[name]) \subseteq All
      BY <2>1, <2>5
    <3> QED BY <1>3, <3>1 DEF Lines2
  <2>7. \A path, g : <<path, g>> \in P1 => Lines1(path, g) \subseteq All
    <3> SUFFICES ASSUME NEW path, NEW g, <<path, g>> \in P1 PROVE Lines1(path, g) \subseteq All
      OBVIOUS
    <3>1. \A name \in DOMAIN g.groups : Lines2(Append(path, name), g.groups[name]) \subseteq All
      BY <2>2, <2>6
    <3> QED BY <1>3, <3>1 DEF Lines1
  <2>8. \A name \in DOMAIN group.groups : Lines1(Append(<<>>, name), group.groups[name]) \subseteq All
    BY <2>3, <2>7
  <2> QED BY <1>3, <2>4, <2>8 DEF Lines0
<1>5. \A place \in Places(group) : LinesAt(place) \subseteq Lines0(<<>>, group)
  <2>1. \A place \in P1 : \E name \in DOMAIN group.groups :
           place = <<Append(<<>>, name), group.groups[name]>>
    <3>1. \A place \in P1 : \E above \in P0 : \E name \in DOMAIN above[2].groups :
             place = <<Append(above[1], name), above[2].groups[name]>>
      <4> HIDE DEF P0
      <4> QED BY BelowOf
    <3>2. \A above \in P0 : above[1] = <<>> /\ above[2] = group
      OBVIOUS
    <3> HIDE DEF P0, P1
    <3> SUFFICES ASSUME NEW place \in P1
                 PROVE  \E name \in DOMAIN group.groups :
                           place = <<Append(<<>>, name), group.groups[name]>>
      OBVIOUS
    <3>3. PICK above \in P0 : \E name \in DOMAIN above[2].groups :
             place = <<Append(above[1], name), above[2].groups[name]>>
      BY <3>1
    <3> QED BY <3>2, <3>3
  <2>2. \A place \in P2 : \E above \in P1 : \E name \in DOMAIN above[2].groups :
           place = <<Append(above[1], name), above[2].groups[name]>>
    BY BelowOf
  <2>3. \A place \in P3 : \E above \in P2 : \E name \in DOMAIN above[2].groups :
           place = <<Append(above[1], name), above[2].groups[name]>>
    BY BelowOf
  <2>4. \A place \in P0 : LinesAt(place) \subseteq Lines0(<<>>, group)
    BY <1>2
  <2> HIDE DEF P0, P1, P2, P3
  <2>5. \A place \in P1 : /\ place = <<place[1], place[2]>>
                          /\ Lines1(place[1], place[2]) \subseteq Lines0(<<>>, group)
    BY <2>1 DEF Lines0
  <2>6. \A place \in P2 : /\ place = <<place[1], place[2]>>
                          /\ Lines2(place[1], place[2]) \subseteq Lines0(<<>>, group)
    <3> SUFFICES ASSUME NEW place \in P2
                 PROVE  place = <<place[1], place[2]>>
                        /\ Lines2(place[1], place[2]) \subseteq Lines0(<<>>, group)
      OBVIOUS
    <3>1. PICK above \in P1 : \E name \in DOMAIN above[2].groups :
             place = <<Append(above[1], name), above[2].groups[name]>>
      BY <2>2
    <3>2. PICK name \in DOMAIN above[2].groups :
             place = <<Append(above[1], name), above[2].groups[name]>>
      BY <3>1
    <3>3. Lines2(place[1], place[2]) \subseteq Lines1(above[1], above[2])
      BY <3>2 DEF Lines1
    <3> QED BY <2>5, <3>2, <3>3
  <2>7. \A place \in P3 : /\ place = <<place[1], place[2]>>
                          /\ Lines3(place[1], place[2]) \subseteq Lines0(<<>>, group)
    <3> SUFFICES ASSUME NEW place \in P3
                 PROVE  place = <<place[1], place[2]>>
                        /\ Lines3(place[1], place[2]) \subseteq Lines0(<<>>, group)
      OBVIOUS
    <3>1. PICK above \in P2 : \E name \in DOMAIN above[2].groups :
             place = <<Append(above[1], name), above[2].groups[name]>>
      BY <2>3
    <3>2. PICK name \in DOMAIN above[2].groups :
             place = <<Append(above[1], name), above[2].groups[name]>>
      BY <3>1
    <3>3. Lines3(place[1], place[2]) \subseteq Lines2(above[1], above[2])
      BY <3>2 DEF Lines2
    <3> QED BY <2>6, <3>2, <3>3
  <2>8. \A place \in P1 \cup P2 \cup P3 : LinesAt(place) \subseteq Lines0(<<>>, group)
    <3>1. \A place \in P1 : LinesAt(place) \subseteq Lines0(<<>>, group)
      BY <1>2, <2>5
    <3>2. \A place \in P2 : LinesAt(place) \subseteq Lines0(<<>>, group)
      BY <1>2, <2>6
    <3>3. \A place \in P3 : LinesAt(place) \subseteq Lines0(<<>>, group)
      BY <1>2, <2>7
    <3> QED BY <3>1, <3>2, <3>3
  <2> QED BY <1>1, <2>4, <2>8
<1> QED BY <1>4, <1>5 DEF All

(* A tree shows the lines of its four levels, each once. *)
LEMMA TreeFacts ==
    ASSUME NEW group, group # Absence => \A place \in Places(group) : Named(place[2])
    PROVE  /\ TreeOf(group) = NoText <=> LinesOf(group) = {}
           /\ LinesOf(group) # {} =>
                 /\ TreeOf(group)[1] = "tree"
                 /\ Range(TreeOf(group)[2]) = LinesOf(group)
                 /\ Len(TreeOf(group)[2]) = Cardinality(LinesOf(group))
<1>1. CASE group = Absence
  BY <1>1 DEF TreeOf, LinesOf
<1>2. CASE group # Absence
  <2> DEFINE lines == RenderConfigGroupTree(<<>>, group)
  <2>1. Below3Named(group)
    BY <1>2, PlacesNamed
  <2>2. <<>> \in Seq(Names)
    OBVIOUS
  <2>3. Shows(lines, <<>>) /\ Range(lines) = Lines0(<<>>, group)
    BY <2>1, <2>2, AtDepth0
  <2>4. LinesOf(group) = Range(lines)
    BY <1>2, <2>3, LinesOfPlaces DEF LinesOf
  <2>5. TreeOf(group) = IF lines = <<>> THEN NoText ELSE <<"tree", lines>>
    BY <1>2 DEF TreeOf
  <2> HIDE DEF lines
  <2>6. Distinct(lines)
    BY <2>3 DEF Shows
  <2>7. Len(lines) = Cardinality(Range(lines))
    BY <2>6, DistinctCount
  <2>8. lines = <<>> <=> Range(lines) = {}
    <3>1. Len(lines) \in Nat /\ Range(lines) = {lines[i] : i \in 1..Len(lines)}
          /\ (lines = <<>> <=> Len(lines) = 0)
      BY <2>6, IsSeqFacts DEF Distinct
    <3>2. Len(lines) # 0 => lines[1] \in Range(lines)
      BY <3>1
    <3>3. Len(lines) = 0 => Range(lines) = {}
      BY <3>1
    <3> QED BY <3>1, <3>2, <3>3
  <2>9. CASE lines = <<>>
    BY <2>4, <2>5, <2>8, <2>9
  <2>10. CASE lines # <<>>
    <3>1. TreeOf(group) = <<"tree", lines>>
      BY <2>5, <2>10
    <3>2. TreeOf(group) # NoText /\ TreeOf(group)[1] = "tree" /\ TreeOf(group)[2] = lines
      BY <3>1 DEF NoText
    <3> QED BY <2>4, <2>7, <2>8, <2>10, <3>2
  <2> QED BY <2>9, <2>10
<1> QED BY <1>1, <1>2

-----------------------------------------------------------------------------
(* What decodePolicy shows. *)

LEMMA FirstTextIs ==
    ASSUME NEW texts, NEW k \in Nat, DOMAIN texts \subseteq Nat, k \in DOMAIN texts, texts[k] # NoText,
           \A i \in DOMAIN texts : i < k => texts[i] = NoText
    PROVE  FirstText(texts) = texts[k]
<1> DEFINE said == {i \in DOMAIN texts : texts[i] # NoText}
<1>1. k \in said /\ \A i \in said : k <= i
  OBVIOUS
<1>2. said \subseteq Nat
  OBVIOUS
<1>3. FirstText(texts) = IF said = {} THEN NoText ELSE texts[Min(said)]
  BY DEF FirstText
<1> HIDE DEF said
<1>4. Min(said) = k
  <2>1. Min(said) \in said /\ \A i \in said : Min(said) <= i
    BY <1>1 DEF Min
  <2>2. Min(said) \in Nat /\ Min(said) <= k /\ k <= Min(said)
    BY <1>1, <1>2, <2>1
  <2> QED BY <2>2
<1> QED BY <1>1, <1>3, <1>4

(* A group without policies and groups has nothing to show. *)
LEMMA EmptyGroupLines ==
    ASSUME NEW group, DOMAIN group.policies = {}, DOMAIN group.groups = {}
    PROVE  LinesOf(group) = {}
<1>1. UNION {LinesAt(place) : place \in Places(group)} = Lines0(<<>>, group)
  BY LinesOfPlaces
<1>2. LinesAt(<< <<>>, group >>) = {}
  BY DEF LinesAt
<1>3. Lines0(<<>>, group) = {}
  BY <1>2 DEF Lines0
<1> QED BY <1>1, <1>3 DEF LinesOf

(* Without a rule that asks for a signature there is no valid expression.  *)
LEMMA NoSignatureText ==
    ASSUME NEW bytes, ~AsksForSignatures(bytes), Readings[bytes].signature # Absence,
           Readings[bytes].signature.ids # <<>>
    PROVE  ~IsValidPolicyExpression(RenderSignaturePolicy(Readings[bytes].signature))
<1> DEFINE env == Readings[bytes].signature
           text == RenderSignaturePolicy(env)
<1>1. CASE env.rule = Absence
  BY <1>1 DEF RenderSignaturePolicy, IsValidPolicyExpression
<1>2. CASE env.rule # Absence
  <2>1. env.rule.type # "signed_by" /\ (env.rule.type = "n_out_of" => env.rule.n = 0)
    BY <1>2 DEF AsksForSignatures
  <2>2. \E parts : text = RuleText(env.rule, env.ids, parts)
    BY <1>2 DEF RenderSignaturePolicy, RenderRule
  <2>3. PICK parts : text = RuleText(env.rule, env.ids, parts)
    BY <2>2
  <2> HIDE DEF text
  <2>4. CASE env.rule.type = "n_out_of"
    <3>1. text = <<"of", env.rule.n, [i \in DOMAIN env.rule.rules |-> parts[env.rule.rules[i]]]>>
      BY <2>3, <2>4 DEF RuleText
    <3>2. text[1] = "of" /\ text[2] = 0
      BY <2>1, <2>4, <3>1
    <3> QED BY <3>2 DEF IsValidPolicyExpression, text
  <2>5. CASE env.rule.type # "n_out_of"
    <3>1. text = NoText
      BY <2>1, <2>3, <2>5 DEF RuleText
    <3> QED BY <3>1 DEF IsValidPolicyExpression, text
  <2> QED BY <2>4, <2>5
<1> QED BY <1>1, <1>2

(* Each reading as a tree. *)
LEMMA ReadingFacts ==
    ASSUME NEW bytes \in DOMAIN Readings, NEW reading \in ChannelReadings
    PROVE  LET group == Readings[bytes][reading]
           IN  /\ TreeOf(group) = NoText <=> LinesOf(group) = {}
               /\ LinesOf(group) # {} =>
                     /\ Readings[bytes].wrapped
                     /\ TreeOf(group)[1] = "tree"
                     /\ Range(TreeOf(group)[2]) = LinesOf(group)
                     /\ Len(TreeOf(group)[2]) = Cardinality(LinesOf(group))
<1> DEFINE group == Readings[bytes][reading]
<1>1. group # Absence => Readings[bytes].wrapped /\ \A place \in Places(group) : Named(place[2])
  BY ReadingsAssumption DEF Named, Names
<1>2. LinesOf(group) # {} => group # Absence
  BY DEF LinesOf
<1> HIDE DEF group
<1>3. /\ TreeOf(group) = NoText <=> LinesOf(group) = {}
      /\ LinesOf(group) # {} =>
            /\ TreeOf(group)[1] = "tree"
            /\ Range(TreeOf(group)[2]) = LinesOf(group)
            /\ Len(TreeOf(group)[2]) = Cardinality(LinesOf(group))
  BY <1>1, TreeFacts
<1> QED BY <1>1, <1>2, <1>3 DEF group

LEMMA ConfigTree ==
    ASSUME NEW bytes \in DOMAIN Readings
    PROVE  RenderConfigTree(bytes) = IF LinesOf(Readings[bytes]["group"]) # {}
                                     THEN TreeOf(Readings[bytes]["group"])
                                     ELSE TreeOf(Readings[bytes]["config"])
<1> DEFINE group == Readings[bytes]["group"]
           IsGroup == group # Absence /\ (DOMAIN group.policies # {} \/ DOMAIN group.groups # {})
           tree == IF IsGroup THEN TreeOf(group) ELSE NoText
<1>1. Readings[bytes].group = group /\ Readings[bytes].config = Readings[bytes]["config"]
  OBVIOUS
<1>2. RenderConfigTree(bytes) = IF tree # NoText THEN tree ELSE TreeOf(Readings[bytes]["config"])
  BY <1>1 DEF RenderConfigTree
<1>3. TreeOf(group) = NoText <=> LinesOf(group) = {}
  BY ReadingFacts DEF ChannelReadings
<1>4. ~IsGroup => LinesOf(group) = {}
  BY EmptyGroupLines DEF LinesOf
<1>5. tree # NoText <=> LinesOf(group) # {}
  BY <1>3, <1>4
<1>6. LinesOf(group) # {} => tree = TreeOf(group)
  BY <1>4
<1> HIDE DEF tree
<1> QED BY <1>2, <1>5, <1>6

(* The policies of a channel are what its bytes are shown as. *)
LEMMA ChannelIsShown ==
    ASSUME NEW bytes \in DOMAIN Readings, ChannelLines(bytes) # {}, ~AsksForSignatures(bytes)
    PROVE  LET shown == DecodePolicy(bytes).expression
           IN  /\ shown # NoText /\ shown[1] = "tree"
               /\ Range(shown[2]) = ChannelLines(bytes)
               /\ Len(shown[2]) = Cardinality(ChannelLines(bytes))
<1> DEFINE As(reading) == Readings[bytes][reading]
<1>1. PICK reading \in ChannelReadings : LinesOf(As(reading)) # {}
  BY DEF ChannelLines
<1>2. \A other \in ChannelReadings : other # reading => LinesOf(As(other)) = {}
  BY <1>1, ReadingsAssumption
<1>3. ChannelLines(bytes) = LinesOf(As(reading))
  <2> HIDE DEF As
  <2>1. ChannelLines(bytes) = UNION {LinesOf(As(other)) : other \in ChannelReadings}
    BY DEF ChannelLines, As
  <2> QED BY <1>1, <1>2, <2>1
<1>4. /\ Readings[bytes].wrapped
      /\ TreeOf(As(reading)) # NoText /\ TreeOf(As(reading))[1] = "tree"
      /\ Range(TreeOf(As(reading))[2]) = LinesOf(As(reading))
      /\ Len(TreeOf(As(reading))[2]) = Cardinality(LinesOf(As(reading)))
  BY <1>1, ReadingFacts
<1>5. \A other \in ChannelReadings : other # reading => TreeOf(As(other)) = NoText
  BY <1>2, ReadingFacts
<1>6. reading \in {"group", "config", "envelope", "configEnvelope"}
  BY DEF ChannelReadings
<1>7. PICK dec : DecodePolicy(bytes).expression = RenderPolicyExpression(bytes, dec)
  BY <1>4 DEF DecodePolicy, NothingDecoded
<1> DEFINE env == Readings[bytes].signature
           signature == IF env # Absence /\ env.ids # <<>> THEN RenderSignaturePolicy(env) ELSE NoText
           first == IF IsValidPolicyExpression(signature) THEN signature ELSE NoText
           last == BuildDecodedSummary(dec)
           texts == << first, RenderConfigTree(bytes), RenderEnvelopeConfigTree(bytes),
                       TreeOf(As("configEnvelope")), last >>
<1>8. RenderPolicyExpression(bytes, dec) = FirstText(texts)
  BY DEF RenderPolicyExpression
<1>9. first = NoText
  BY NoSignatureText DEF IsValidPolicyExpression
<1>10. RenderEnvelopeConfigTree(bytes) = TreeOf(As("envelope"))
  BY DEF RenderEnvelopeConfigTree
<1>11. RenderConfigTree(bytes) = IF LinesOf(As("group")) # {} THEN TreeOf(As("group"))
                                 ELSE TreeOf(As("config"))
  BY ConfigTree
<1> HIDE DEF As, first, last
<1>12. /\ DOMAIN texts = 1..5 /\ texts[1] = NoText /\ texts[3] = TreeOf(As("envelope"))
       /\ texts[4] = TreeOf(As("configEnvelope")) /\ texts[2] = RenderConfigTree(bytes)
  BY <1>9, <1>10
<1> HIDE DEF texts
<1>13. \E k \in {2, 3, 4} : texts[k] = TreeOf(As(reading)) /\ \A i \in 1..(k - 1) : texts[i] = NoText
  <2>1. CASE reading \in {"group", "config"}
    <3>1. texts[2] = TreeOf(As(reading))
      BY <1>1, <1>2, <1>11, <1>12, <2>1 DEF ChannelReadings
    <3>2. \A i \in 1..(2 - 1) : texts[i] = NoText
      BY <1>12
    <3> QED BY <3>1, <3>2
  <2>2. ASSUME reading \in {"envelope", "configEnvelope"} PROVE texts[2] = NoText
    BY <1>2, <1>5, <1>11, <1>12, <2>2 DEF ChannelReadings
  <2>3. CASE reading = "envelope"
    <3>1. \A i \in 1..(3 - 1) : texts[i] = NoText
      BY <1>12, <2>2, <2>3
    <3> QED BY <1>12, <2>3, <3>1
  <2>4. CASE reading = "configEnvelope"
    <3>1. texts[3] = NoText
      BY <1>5, <1>12, <2>4 DEF ChannelReadings
    <3>2. \A i \in 1..(4 - 1) : texts[i] = NoText
      BY <1>12, <2>2, <2>4, <3>1
    <3> QED BY <1>12, <2>4, <3>2
  <2> QED BY <1>6, <2>1, <2>3, <2>4
<1>14. FirstText(texts) = TreeOf(As(reading))
  <2>1. PICK k \in {2, 3, 4} : texts[k] = TreeOf(As(reading)) /\ \A i \in 1..(k - 1) : texts[i] = NoText
    BY <1>13
  <2>2. /\ k \in Nat /\ DOMAIN texts \subseteq Nat /\ k \in DOMAIN texts
        /\ \A i \in DOMAIN texts : i < k => i \in 1..(k - 1)
    BY <1>12
  <2> QED BY <1>4, <2>1, <2>2, FirstTextIs
<1> QED BY <1>3, <1>4, <1>7, <1>8, <1>14

-----------------------------------------------------------------------------
(* What policies are answered with is a stored row, decoded.               *)
PoliciesDecoded ==
    \A p \in req.policies : \E row \in AllRows :
        /\ TableOf(row) = "namespace_policies"
        /\ Key(row) = <<"namespace_policies", p.namespace, p.version>>
        /\ p.decoded = DecodePolicy(row[2])

LEMMA RowsDecoded ==
    ASSUME WholeBlocks, TypeOK, NEW row \in PolicyRows
    PROVE  LET p == NamespacePolicyRow(row)
           IN  /\ row \in AllRows /\ TableOf(row) = "namespace_policies"
               /\ Key(row) = <<"namespace_policies", p.namespace, p.version>>
               /\ p.decoded = DecodePolicy(row[2])
<1>1. row \in AllRows /\ TableOf(row) = "namespace_policies"
  BY DEF TypeOK, PolicyRows
<1>2. Key(row) = <<"namespace_policies", Key(row)[2], Key(row)[3]>>
  BY PolicyRowFacts
<1> QED BY <1>1, <1>2 DEF NamespacePolicyRow

(* Where the policies of a request come from. *)
LEMMA PoliciesComeFrom ==
    ASSUME Fields, Handlers
    PROVE  \/ req'.policies \in {req.policies, {}}
           \/ \E rows \in SUBSET PolicyRows : req'.policies = {NamespacePolicyRow(row) : row \in rows}
<1>1. DOMAIN req = {"op", "pc", "num", "id", "lim", "off", "txs", "rows", "policies"}
  BY DEF Fields
<1>2. CASE BlockRequest \/ TxRequest
  BY <1>2, NoRequestFields DEF BlockRequest, TxRequest
<1>3. CASE SelectBlock \/ SelectTransactions \/ SelectErrors
  BY <1>1, <1>3 DEF SelectBlock, SelectTransactions, SelectErrors
<1>4. CASE SelectBlockChildren \/ SelectTxChildren
  BY <1>1, <1>4 DEF SelectBlockChildren, SelectTxChildren
<1>5. CASE SelectByTxID
  BY <1>1, <1>5 DEF SelectByTxID
<1>6. CASE ListPolicies \/ GetPolicies
  <2>1. PICK op \in {"policies", "namespace"}, rows \in SUBSET PolicyRows :
           req' = [NoRequest EXCEPT !.op = op, !.pc = "ok",
                                    !.policies = {NamespacePolicyRow(row) : row \in rows}]
    BY <1>6, PolicyAnswer
  <2> DEFINE policies == {NamespacePolicyRow(row) : row \in rows}
  <2>2. req' = [NoRequest EXCEPT !.op = op, !.pc = "ok", !.policies = policies]
    BY <2>1
  <2> HIDE DEF policies
  <2>3. req'.policies = policies
    BY <2>2, NoRequestFields
  <2> QED BY <2>3 DEF policies
<1>7. CASE ReadFails \/ Respond
  BY <1>7, NoRequestFields DEF ReadFails, Respond
<1>8. CASE HeightRequest
  BY <1>8 DEF HeightRequest
<1> QED BY <1>2, <1>3, <1>4, <1>5, <1>6, <1>7, <1>8 DEF Handlers

LEMMA DecodedStep ==
    ASSUME ReadsIInv, PoliciesDecoded, [ReadsNext]_<<vars, readVars>>
    PROVE  PoliciesDecoded'
<1>1. WholeBlocks /\ TypeOK /\ Fields
  BY DEF ReadsIInv, IInv
<1>2. CASE UNCHANGED req
  BY <1>2 DEF PoliciesDecoded
<1>3. CASE Handlers
  <2>1. CASE req'.policies \in {req.policies, {}}
    BY <2>1 DEF PoliciesDecoded
  <2>2. ASSUME NEW rows \in SUBSET PolicyRows, req'.policies = {NamespacePolicyRow(row) : row \in rows}
        PROVE  PoliciesDecoded'
    <3> SUFFICES ASSUME NEW row \in rows
                 PROVE  LET p == NamespacePolicyRow(row)
                        IN  \E r \in AllRows :
                               /\ TableOf(r) = "namespace_policies"
                               /\ Key(r) = <<"namespace_policies", p.namespace, p.version>>
                               /\ p.decoded = DecodePolicy(r[2])
      BY <2>2 DEF PoliciesDecoded
    <3> QED BY <1>1, RowsDecoded
  <2> QED BY <1>1, <1>3, <2>1, <2>2, PoliciesComeFrom
<1>4. CASE UNCHANGED readVars \/ Paging
  <2>1. req' = req
    BY <1>4 DEF readVars, Paging, StartPaging, ListPage, EndPaging
  <2> QED BY <1>2, <2>1
<1> QED BY <1>3, <1>4 DEF ReadsNext

(* policy_render.go:22-46: whatever is stored and whoever asks, the         *)
(* configuration of a channel is answered with as its tree.                *)
THEOREM ChannelsAreShown == ReadsSpec => []ChannelPoliciesAreShown
<1>1. ReadsInit => PoliciesDecoded
  BY NoRequestFields DEF ReadsInit, PoliciesDecoded
<1>2. PoliciesDecoded => ChannelPoliciesAreShown
  <2> SUFFICES ASSUME PoliciesDecoded, NEW p \in req.policies
               PROVE  \E row \in AllRows :
                         /\ Key(row) = <<"namespace_policies", p.namespace, p.version>>
                         /\ LET shown == p.decoded.expression
                                lines == ChannelLines(row[2])
                            IN  lines # {} /\ ~AsksForSignatures(row[2]) =>
                                   /\ shown # NoText /\ shown[1] = "tree"
                                   /\ Range(shown[2]) = lines
                                   /\ Len(shown[2]) = Cardinality(lines)
    BY DEF ChannelPoliciesAreShown
  <2>1. PICK row \in AllRows :
           /\ TableOf(row) = "namespace_policies"
           /\ Key(row) = <<"namespace_policies", p.namespace, p.version>>
           /\ p.decoded = DecodePolicy(row[2])
    BY DEF PoliciesDecoded
  <2>2. row[2] \in DOMAIN Readings
    BY <2>1, PoliciesAssumption
  <2> QED BY <2>1, <2>2, ChannelIsShown
<1> QED BY <1>1, <1>2, DecodedStep, ReadsInvariance, PTL DEF ReadsSpec
=============================================================================
