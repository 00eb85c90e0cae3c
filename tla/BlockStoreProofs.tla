-------------------------- MODULE BlockStoreProofs --------------------------
(***************************************************************************)
(* Theorems about BlockStore for every chain of blocks, every number of    *)
(* sessions and any finite number of faults.                               *)
(***************************************************************************)
EXTENDS BlockStore, BlockParserProofs, FiniteSetTheorems

(* Rows of any table but the policies belong to one block. *)
IsOwn(row) == TableOf(row) # "namespace_policies"

-----------------------------------------------------------------------------
(* The statements of a block. *)

Txs(b)    == Parse(Chain[b]).transactions
Errors(b) == Parse(Chain[b]).envelopeErrors
Recs(b)   == BlockNamespaces(Txs(b))

(* Every namespace of every transaction has a record, with its lists.       *)
LEMMA RecsFacts ==
    ASSUME NEW b \in BlockNums
    PROVE  /\ IsSeq(Recs(b))
           /\ \A k \in 1..Len(Recs(b)) :
                 /\ IsSeq(Recs(b)[k].ns.readsOnly) /\ IsSeq(Recs(b)[k].ns.readWrites)
                 /\ IsSeq(Recs(b)[k].ns.blindWrites) /\ IsSeq(Recs(b)[k].ns.endorsements)
           /\ \A i \in 1..Len(Txs(b)) : \A j \in 1..Len(Txs(b)[i].namespaces) :
                 \E k \in 1..Len(Recs(b)) :
                    Recs(b)[k].txNum = Txs(b)[i].txNum /\ Recs(b)[k].ns = Txs(b)[i].namespaces[j]
<1> DEFINE txs   == Txs(b)
           OfTx(i) == [j \in DOMAIN txs[i].namespaces |->
                         [txNum |-> txs[i].txNum, ns |-> txs[i].namespaces[j]]]
           lists == [i \in DOMAIN txs |-> OfTx(i)]
<1>1. Chain[b] \in Blocks
  BY ChainAssumption
<1>2. IsSeq(txs) /\ \A i \in 1..Len(txs) : IsRecord(txs[i])
  BY <1>1, ParseFacts DEF InOrder, Txs
<1>3. Recs(b) = FlattenSeq(lists)
  BY DEF Recs, BlockNamespaces
<1> HIDE DEF txs
<1>4. Len(txs) \in Nat /\ DOMAIN txs = 1..Len(txs)
  BY <1>2, IsSeqFacts
<1>5. ASSUME NEW i \in 1..Len(txs)
      PROVE  /\ IsSeq(lists[i])
             /\ Len(lists[i]) = Len(txs[i].namespaces) /\ Len(lists[i]) \in Nat
             /\ \A j \in 1..Len(lists[i]) :
                   lists[i][j].txNum = txs[i].txNum /\ lists[i][j].ns = txs[i].namespaces[j]
  <2> DEFINE nss == txs[i].namespaces
  <2>1. IsSeq(nss)
    BY <1>2 DEF IsRecord
  <2>2. Len(nss) \in Nat /\ DOMAIN nss = 1..Len(nss)
    BY <2>1, IsSeqFacts
  <2>3. lists[i] = OfTx(i)
    BY <1>4
  <2>4. OfTx(i) = [j \in DOMAIN nss |-> OfTx(i)[j]]
    OBVIOUS
  <2>5. IsSeq(OfTx(i)) /\ Len(OfTx(i)) = Len(nss)
    <3> HIDE DEF OfTx
    <3> QED BY <2>1, <2>4, MapIsSeq
  <2>6. \A j \in 1..Len(nss) : OfTx(i)[j].txNum = txs[i].txNum /\ OfTx(i)[j].ns = nss[j]
    BY <2>2
  <2> HIDE DEF lists, OfTx
  <2> QED BY <2>2, <2>3, <2>5, <2>6
<1>6. IsSeq(lists) /\ Len(lists) = Len(txs)
  <2>1. lists = [i \in DOMAIN txs |-> lists[i]]
    OBVIOUS
  <2> HIDE DEF lists
  <2> QED BY <1>2, <2>1, MapIsSeq
<1> HIDE DEF lists, OfTx
<1>7. IsSeq(Recs(b)) /\ Range(Recs(b)) = UNION {Range(lists[i]) : i \in 1..Len(txs)}
  BY <1>3, <1>4, <1>5, <1>6, FlattenPuts DEF Puts
<1>8. Range(Recs(b)) = {Recs(b)[k] : k \in 1..Len(Recs(b))}
  BY <1>7, IsSeqFacts
<1>9. \A i \in 1..Len(txs) : Range(lists[i]) = {lists[i][j] : j \in 1..Len(lists[i])}
  BY <1>5, IsSeqFacts
<1>10. ASSUME NEW k \in 1..Len(Recs(b))
       PROVE  /\ IsSeq(Recs(b)[k].ns.readsOnly) /\ IsSeq(Recs(b)[k].ns.readWrites)
              /\ IsSeq(Recs(b)[k].ns.blindWrites) /\ IsSeq(Recs(b)[k].ns.endorsements)
  <2>1. PICK i \in 1..Len(txs) : Recs(b)[k] \in Range(lists[i])
    BY <1>7, <1>8, SMTT(30)
  <2>2. PICK j \in 1..Len(lists[i]) : Recs(b)[k] = lists[i][j]
    BY <1>9, <2>1
  <2>3. Recs(b)[k].ns = txs[i].namespaces[j] /\ j \in 1..Len(txs[i].namespaces)
    BY <1>5, <2>2
  <2> QED BY <1>2, <2>3 DEF IsRecord
<1>11. ASSUME NEW i \in 1..Len(txs), NEW j \in 1..Len(txs[i].namespaces)
       PROVE  \E k \in 1..Len(Recs(b)) :
                 Recs(b)[k].txNum = txs[i].txNum /\ Recs(b)[k].ns = txs[i].namespaces[j]
  <2>1. j \in 1..Len(lists[i])
    BY <1>5
  <2>2. lists[i][j] \in Range(Recs(b))
    BY <1>7, <1>9, <2>1
  <2>3. PICK k \in 1..Len(Recs(b)) : Recs(b)[k] = lists[i][j]
    BY <1>8, <2>2
  <2> QED BY <1>5, <2>1, <2>3
<1> QED BY <1>7, <1>10, <1>11 DEF txs

(* A row of a policy, and the version that it has. *)
IsPolicyRow(row) ==
    /\ TableOf(row) = "namespace_policies" /\ Key(row)[3] \in Nat
    /\ Key(row) = <<"namespace_policies", Key(row)[2], Key(row)[3]>>

(* The rows of the lists of the namespace records of a block. *)
ListTables == {"tx_reads_only", "tx_read_writes", "tx_blind_writes", "tx_endorsements"}

OfLists(b, s) ==
    IsSeq(s) /\ \A row \in Range(s) : TableOf(row) \in ListTables /\ Key(row)[2] = b

LEMMA ListRowsFacts ==
    ASSUME NEW b, NEW rec, NEW items, IsSeq(items), NEW name \in ListTables
    PROVE  OfLists(b, ListRows(name, b, rec, items))
<1> DEFINE rows == ListRows(name, b, rec, items)
<1>1. rows = [i \in DOMAIN items |-> rows[i]]
  BY DEF ListRows
<1>2. \A i \in DOMAIN items : TableOf(rows[i]) = name /\ Key(rows[i])[2] = b
  BY DEF ListRows, TableOf, Key
<1>3. DOMAIN items = 1..Len(items)
  BY IsSeqFacts
<1> HIDE DEF rows
<1>4. IsSeq(rows) /\ Range(rows) = {rows[i] : i \in 1..Len(items)}
  BY <1>1, MapIsSeq
<1> QED BY <1>2, <1>3, <1>4 DEF OfLists, rows

LEMMA FlattenLists ==
    ASSUME NEW b, NEW recs, IsSeq(recs), NEW lists, lists = [i \in DOMAIN recs |-> lists[i]],
           \A i \in 1..Len(recs) : OfLists(b, lists[i])
    PROVE  OfLists(b, FlattenSeq(lists))
<1>1. IsSeq(lists) /\ Len(lists) = Len(recs) /\ Len(recs) \in Nat
  BY MapIsSeq, IsSeqFacts
<1>2. \A i \in 1..Len(recs) : IsSeq(lists[i])
  BY DEF OfLists
<1>3. IsSeq(FlattenSeq(lists))
      /\ Range(FlattenSeq(lists)) = UNION {Range(lists[i]) : i \in 1..Len(recs)}
  BY <1>1, <1>2, FlattenPuts DEF Puts
<1> QED BY <1>3 DEF OfLists

LEMMA StatementRows ==
    ASSUME NEW b \in BlockNums
    PROVE  LET rows == Statements[b]
           IN  /\ IsSeq(rows) /\ Len(rows) >= 1
               /\ rows[1] = BlockRow(b, Parse(Chain[b]))
               /\ \A i \in 1..Len(Txs(b)) : TxRow(b, Txs(b)[i]) \in Range(rows)
               /\ \A k \in 1..Len(Recs(b)) : NamespaceRow(b, Recs(b)[k]) \in Range(rows)
               /\ \A i \in 1..Len(Errors(b)) : ErrorRow(b, Errors(b)[i]) \in Range(rows)
               /\ \A row \in Range(rows) :
                     \/ row = BlockRow(b, Parse(Chain[b]))
                     \/ \E i \in 1..Len(Txs(b)) : row = TxRow(b, Txs(b)[i])
                     \/ \E k \in 1..Len(Recs(b)) : row = NamespaceRow(b, Recs(b)[k])
                     \/ TableOf(row) \in ListTables /\ Key(row)[2] = b
                     \/ IsPolicyRow(row)
                     \/ \E i \in 1..Len(Errors(b)) : row = ErrorRow(b, Errors(b)[i])
<1> DEFINE parsed == Parse(Chain[b])
           txs  == Txs(b)
           ees  == Errors(b)
           recs == Recs(b)
           pols == parsed.policies
           s1 == << BlockRow(b, parsed) >>
           s2 == [i \in DOMAIN txs |-> TxRow(b, txs[i])]
           s3 == [i \in DOMAIN recs |-> NamespaceRow(b, recs[i])]
           l4 == [i \in DOMAIN recs |-> ReadOnlyRows(b, recs[i])]
           l5 == [i \in DOMAIN recs |-> ReadWriteRows(b, recs[i])]
           l6 == [i \in DOMAIN recs |-> BlindWriteRows(b, recs[i])]
           l7 == [i \in DOMAIN recs |-> EndorsementRows(b, recs[i])]
           s4 == FlattenSeq(l4)
           s5 == FlattenSeq(l5)
           s6 == FlattenSeq(l6)
           s7 == FlattenSeq(l7)
           s8 == [i \in DOMAIN pols |-> PolicyRow(pols[i])]
           s9 == [i \in DOMAIN ees |-> ErrorRow(b, ees[i])]
<1>1. Statements[b] = s1 \o s2 \o s3 \o s4 \o s5 \o s6 \o s7 \o s8 \o s9
  BY DEF Statements, BatchParams, Txs, Errors, Recs
<1>2. Chain[b] \in Blocks
  BY ChainAssumption
<1>3. IsSeq(txs) /\ IsSeq(ees) /\ IsSeq(pols)
      /\ \A pol \in Range(pols) : pol.version \in Nat
  BY <1>2, ParseFacts DEF InOrder, Txs, Errors, ArePolicies
<1>4. /\ IsSeq(recs) /\ DOMAIN recs = 1..Len(recs)
      /\ \A k \in 1..Len(recs) :
            /\ IsSeq(recs[k].ns.readsOnly) /\ IsSeq(recs[k].ns.readWrites)
            /\ IsSeq(recs[k].ns.blindWrites) /\ IsSeq(recs[k].ns.endorsements)
  BY RecsFacts, IsSeqFacts
<1> HIDE DEF parsed, txs, ees, recs, pols
<1>5. IsSeq(s1) /\ Len(s1) >= 1 /\ s1[1] = BlockRow(b, parsed) /\ Range(s1) = {BlockRow(b, parsed)}
  BY OneIsSeq
<1>6. IsSeq(s2) /\ Range(s2) = {TxRow(b, txs[i]) : i \in 1..Len(txs)}
  <2>1. s2 = [i \in DOMAIN txs |-> s2[i]]
    OBVIOUS
  <2>2. DOMAIN txs = 1..Len(txs)
    BY <1>3, IsSeqFacts
  <2>3. \A i \in 1..Len(txs) : s2[i] = TxRow(b, txs[i])
    BY <2>2
  <2> HIDE DEF s2
  <2>4. IsSeq(txs)
    BY <1>3
  <2>5. IsSeq(s2) /\ Range(s2) = {s2[i] : i \in 1..Len(txs)}
    BY <2>1, <2>4, MapIsSeq
  <2> QED BY <2>3, <2>5
<1>7. IsSeq(s3) /\ Range(s3) = {NamespaceRow(b, recs[i]) : i \in 1..Len(recs)}
  <2>1. s3 = [i \in DOMAIN recs |-> s3[i]]
    OBVIOUS
  <2>2. \A i \in 1..Len(recs) : s3[i] = NamespaceRow(b, recs[i])
    BY <1>4
  <2> HIDE DEF s3
  <2> QED BY <1>4, <2>1, <2>2, MapIsSeq
<1>8. /\ \A i \in 1..Len(recs) : OfLists(b, l4[i]) /\ OfLists(b, l5[i])
      /\ \A i \in 1..Len(recs) : OfLists(b, l6[i]) /\ OfLists(b, l7[i])
  <2>1. \A k \in 1..Len(recs) :
           /\ OfLists(b, ReadOnlyRows(b, recs[k])) /\ OfLists(b, ReadWriteRows(b, recs[k]))
           /\ OfLists(b, BlindWriteRows(b, recs[k])) /\ OfLists(b, EndorsementRows(b, recs[k]))
    BY <1>4, ListRowsFacts
       DEF ReadOnlyRows, ReadWriteRows, BlindWriteRows, EndorsementRows, ListTables
  <2> QED BY <1>4, <2>1
<1>9. /\ l4 = [i \in DOMAIN recs |-> l4[i]] /\ l5 = [i \in DOMAIN recs |-> l5[i]]
      /\ l6 = [i \in DOMAIN recs |-> l6[i]] /\ l7 = [i \in DOMAIN recs |-> l7[i]]
  OBVIOUS
<1> HIDE DEF l4, l5, l6, l7
<1>10. OfLists(b, s4) /\ OfLists(b, s5) /\ OfLists(b, s6) /\ OfLists(b, s7)
  BY <1>4, <1>8, <1>9, FlattenLists
<1>11. IsSeq(s8) /\ \A row \in Range(s8) : IsPolicyRow(row)
  <2>1. s8 = [i \in DOMAIN pols |-> s8[i]]
    OBVIOUS
  <2>2. DOMAIN pols = 1..Len(pols) /\ \A i \in 1..Len(pols) : pols[i] \in Range(pols)
    BY <1>3, IsSeqFacts
  <2>3. \A i \in 1..Len(pols) : IsPolicyRow(s8[i])
    <3>1. \A i \in 1..Len(pols) : pols[i].version \in Nat
      BY <1>3, <2>2
    <3> QED BY <2>2, <3>1 DEF IsPolicyRow, PolicyRow, TableOf, Key
  <2> HIDE DEF s8
  <2>4. IsSeq(pols)
    BY <1>3
  <2>5. IsSeq(s8) /\ Range(s8) = {s8[i] : i \in 1..Len(pols)}
    BY <2>1, <2>4, MapIsSeq
  <2> QED BY <1>3, <2>2, <2>3, <2>5
<1>12. IsSeq(s9) /\ Range(s9) = {ErrorRow(b, ees[i]) : i \in 1..Len(ees)}
  <2>1. s9 = [i \in DOMAIN ees |-> s9[i]]
    OBVIOUS
  <2>2. DOMAIN ees = 1..Len(ees)
    BY <1>3, IsSeqFacts
  <2>3. \A i \in 1..Len(ees) : s9[i] = ErrorRow(b, ees[i])
    BY <2>2
  <2> HIDE DEF s9
  <2>4. IsSeq(ees)
    BY <1>3
  <2>5. IsSeq(s9) /\ Range(s9) = {s9[i] : i \in 1..Len(ees)}
    BY <2>1, <2>4, MapIsSeq
  <2> QED BY <2>3, <2>5
<1> HIDE DEF s1, s2, s3, s4, s5, s6, s7, s8, s9
<1> DEFINE Begins(s) == IsSeq(s) /\ Len(s) >= 1 /\ s[1] = BlockRow(b, parsed)
<1>13. ASSUME NEW s, NEW t, Begins(s), IsSeq(t)
       PROVE  Begins(s \o t) /\ Range(s \o t) = Range(s) \cup Range(t)
  BY <1>13, BehindIsSeq
<1>14. Begins(s1)
  BY <1>5
<1> HIDE DEF Begins
<1> DEFINE c2 == s1 \o s2
           c3 == c2 \o s3
           c4 == c3 \o s4
           c5 == c4 \o s5
           c6 == c5 \o s6
           c7 == c6 \o s7
           c8 == c7 \o s8
           c9 == c8 \o s9
<1>15. Begins(c2) /\ Range(c2) = Range(s1) \cup Range(s2)
  BY <1>6, <1>13, <1>14
<1> HIDE DEF c2
<1>16. Begins(c3) /\ Range(c3) = Range(c2) \cup Range(s3)
  BY <1>7, <1>13, <1>15
<1> HIDE DEF c3
<1>17. Begins(c4) /\ Range(c4) = Range(c3) \cup Range(s4)
  BY <1>10, <1>13, <1>16 DEF OfLists
<1> HIDE DEF c4
<1>18. Begins(c5) /\ Range(c5) = Range(c4) \cup Range(s5)
  BY <1>10, <1>13, <1>17 DEF OfLists
<1> HIDE DEF c5
<1>19. Begins(c6) /\ Range(c6) = Range(c5) \cup Range(s6)
  BY <1>10, <1>13, <1>18 DEF OfLists
<1> HIDE DEF c6
<1>20. Begins(c7) /\ Range(c7) = Range(c6) \cup Range(s7)
  BY <1>10, <1>13, <1>19 DEF OfLists
<1> HIDE DEF c7
<1>21. Begins(c8) /\ Range(c8) = Range(c7) \cup Range(s8)
  BY <1>11, <1>13, <1>20
<1> HIDE DEF c8
<1>22. Begins(c9) /\ Range(c9) = Range(c8) \cup Range(s9)
  BY <1>12, <1>13, <1>21
<1>23. Statements[b] = c9
  BY <1>1 DEF c2, c3, c4, c5, c6, c7, c8
<1> HIDE DEF c9
<1>24. Range(c9) = Range(s1) \cup Range(s2) \cup Range(s3) \cup Range(s4) \cup Range(s5)
                   \cup Range(s6) \cup Range(s7) \cup Range(s8) \cup Range(s9)
  BY <1>15, <1>16, <1>17, <1>18, <1>19, <1>20, <1>21, <1>22
<1>25. \A row \in Range(s4) \cup Range(s5) \cup Range(s6) \cup Range(s7) :
          TableOf(row) \in ListTables /\ Key(row)[2] = b
  BY <1>10 DEF OfLists
<1>26. ASSUME NEW row \in Range(c9)
       PROVE  \/ row = BlockRow(b, parsed)
              \/ \E i \in 1..Len(txs) : row = TxRow(b, txs[i])
              \/ \E k \in 1..Len(recs) : row = NamespaceRow(b, recs[k])
              \/ TableOf(row) \in ListTables /\ Key(row)[2] = b
              \/ IsPolicyRow(row)
              \/ \E i \in 1..Len(ees) : row = ErrorRow(b, ees[i])
  BY <1>5, <1>6, <1>7, <1>11, <1>12, <1>24, <1>25
<1>27. /\ \A i \in 1..Len(txs) : TxRow(b, txs[i]) \in Range(c9)
       /\ \A k \in 1..Len(recs) : NamespaceRow(b, recs[k]) \in Range(c9)
       /\ \A i \in 1..Len(ees) : ErrorRow(b, ees[i]) \in Range(c9)
  BY <1>6, <1>7, <1>12, <1>24
<1> QED BY <1>22, <1>23, <1>26, <1>27 DEF Begins, parsed, txs, recs, ees

LEMMA StatementFacts ==
    ASSUME NEW b \in BlockNums
    PROVE  /\ Len(Statements[b]) \in Nat /\ Len(Statements[b]) >= 1
           /\ DOMAIN Statements[b] = 1..Len(Statements[b])
           /\ Range(Statements[b]) = {Statements[b][i] : i \in 1..Len(Statements[b])}
           /\ Range(Statements[b]) \subseteq AllRows
           /\ Key(Statements[b][1]) = <<"blocks", b>>
           /\ \A row \in Range(Statements[b]) : IsOwn(row) => Key(row)[2] = b
<1> DEFINE rows == Statements[b]
<1>1. IsSeq(rows) /\ Len(rows) >= 1 /\ Key(rows[1]) = <<"blocks", b>>
  BY StatementRows DEF BlockRow, Key
<1>2. Range(rows) \subseteq AllRows
  BY DEF AllRows
<1>3. Len(rows) \in Nat /\ DOMAIN rows = 1..Len(rows) /\ Range(rows) = {rows[i] : i \in 1..Len(rows)}
  BY <1>1, IsSeqFacts
<1>4. ASSUME NEW row \in Range(rows), IsOwn(row) PROVE Key(row)[2] = b
  <2>1. /\ Key(BlockRow(b, Parse(Chain[b])))[2] = b
        /\ \A t : Key(TxRow(b, t))[2] = b /\ Key(NamespaceRow(b, t))[2] = b /\ Key(ErrorRow(b, t))[2] = b
    BY DEF Key, BlockRow, TxRow, NamespaceRow, ErrorRow
  <2> HIDE DEF rows
  <2> QED BY <1>4, <2>1, StatementRows DEF IsOwn, IsPolicyRow, rows
<1> QED BY <1>1, <1>2, <1>3, <1>4

(* The only block that the statements of a block insert is itself. *)
LEMMA BlockKey ==
    ASSUME NEW b \in BlockNums, NEW row \in Range(Statements[b]), NEW x,
           Key(row) = <<"blocks", x>>
    PROVE  x = b
<1>1. IsOwn(row) /\ Key(row)[2] = x
  BY DEF IsOwn, TableOf
<1> QED BY <1>1, StatementFacts

LEMMA OwnRowsFacts ==
    ASSUME NEW b \in BlockNums
    PROVE  /\ OwnRows(b) \subseteq Range(Statements[b])
           /\ \A row \in OwnRows(b) : IsOwn(row)
           /\ \A r1, r2 \in OwnRows(b) : Key(r1) = Key(r2) => r1 = r2
           /\ \A i \in 1..Len(Statements[b]) :
                 /\ IsOwn(Statements[b][i])
                 /\ \A j \in 1..(i - 1) : Key(Statements[b][j]) # Key(Statements[b][i])
                 => Statements[b][i] \in OwnRows(b)
<1> DEFINE rows == Statements[b]
           First(i) == \A j \in 1..(i - 1) : Key(rows[j]) # Key(rows[i])
<1>1. OwnRows(b) = {rows[i] : i \in {k \in DOMAIN rows : IsOwn(rows[k]) /\ First(k)}}
  BY DEF OwnRows, IsOwn
<1>2. Len(rows) \in Nat /\ DOMAIN rows = 1..Len(rows)
      /\ Range(rows) = {rows[i] : i \in 1..Len(rows)}
  BY StatementFacts
<1> HIDE DEF rows
<1>3. \A i, j \in 1..Len(rows) : First(i) /\ First(j) /\ Key(rows[i]) = Key(rows[j]) => i = j
  BY <1>2
<1> HIDE DEF First
<1>4. OwnRows(b) \subseteq Range(rows) /\ \A row \in OwnRows(b) : IsOwn(row)
  BY <1>1, <1>2
<1>5. \A r1, r2 \in OwnRows(b) : Key(r1) = Key(r2) => r1 = r2
  BY <1>1, <1>2, <1>3
<1>6. \A i \in 1..Len(rows) : IsOwn(rows[i]) /\ First(i) => rows[i] \in OwnRows(b)
  BY <1>1, <1>2
<1> QED BY <1>4, <1>5, <1>6 DEF rows, First

(* Of the rows with one key the first is kept. *)
LEMMA FirstOwnRow ==
    ASSUME NEW b \in BlockNums, NEW row \in Range(Statements[b]), IsOwn(row)
    PROVE  \E first \in OwnRows(b) : Key(first) = Key(row)
<1> DEFINE rows == Statements[b]
           Same == {i \in 1..Len(rows) : Key(rows[i]) = Key(row)}
<1>1. Len(rows) \in Nat /\ Range(rows) = {rows[i] : i \in 1..Len(rows)}
  BY StatementFacts
<1>2. Same \in SUBSET Nat /\ Same # {}
  BY <1>1
<1>3. PICK n \in Same : \A m \in Same : n <= m
  BY <1>2, NatHasLeast
<1>4. IsOwn(rows[n])
  BY <1>3 DEF IsOwn, TableOf
<1>5. \A j \in 1..(n - 1) : Key(rows[j]) # Key(rows[n])
  BY <1>1, <1>3
<1>6. rows[n] \in OwnRows(b)
  BY <1>3, <1>4, <1>5, OwnRowsFacts
<1> QED BY <1>3, <1>6

-----------------------------------------------------------------------------
(* What statements and commits do to keys. *)

LEMMA PutFacts ==
    ASSUME NEW puts, NEW row
    PROVE  /\ Put(puts, row) \subseteq puts \cup {row}
           /\ Keys(puts) \subseteq Keys(Put(puts, row))
           /\ Key(row) \in Keys(table) \cup Keys(Put(puts, row))
           /\ (\A r1, r2 \in puts : Key(r1) = Key(r2) => r1 = r2)
                 => \A r1, r2 \in Put(puts, row) : Key(r1) = Key(r2) => r1 = r2
           /\ \A r \in Put(puts, row) :
                 IsOwn(r) => \/ r \in puts
                             \/ r = row /\ Key(row) \notin Keys(table) \cup Keys(puts)
<1>1. Keys(table \cup puts) = Keys(table) \cup Keys(puts)
  BY DEF Keys
<1>2. CASE ~IsOwn(row)
  <2>1. Put(puts, row) = Replace(puts, row)
    BY <1>2 DEF Put, IsOwn
  <2>2. \A r \in Put(puts, row) : r = row \/ (r \in puts /\ Key(r) # Key(row))
    BY <2>1 DEF Replace
  <2>3. row \in Put(puts, row) /\ \A r \in puts : Key(r) # Key(row) => r \in Put(puts, row)
    BY <2>1 DEF Replace
  <2> QED BY <1>2, <2>2, <2>3 DEF Keys
<1>3. CASE IsOwn(row) /\ Key(row) \in Keys(table) \cup Keys(puts)
  <2>1. Put(puts, row) = puts
    BY <1>1, <1>3 DEF Put, IsOwn
  <2> QED BY <1>3, <2>1
<1>4. CASE IsOwn(row) /\ Key(row) \notin Keys(table) \cup Keys(puts)
  <2>1. Put(puts, row) = puts \cup {row}
    BY <1>1, <1>4 DEF Put, IsOwn
  <2>2. \A r \in puts : Key(r) # Key(row)
    BY <1>4 DEF Keys
  <2> QED BY <1>4, <2>1, <2>2 DEF Keys
<1> QED BY <1>2, <1>3, <1>4

LEMMA AppliedFacts ==
    ASSUME NEW puts
    PROVE  /\ Keys(Applied(puts)) = Keys(table) \cup Keys(puts)
           /\ puts \subseteq Applied(puts)
           /\ Applied(puts) \subseteq table \cup puts
           /\ \A row \in table : Key(row) \notin Keys(puts) => row \in Applied(puts)
           /\ \A row \in Applied(puts) : row \in puts \/ Key(row) \notin Keys(puts)
BY DEF Applied, Keys

-----------------------------------------------------------------------------
(* The inductive invariant. *)

Busy(s) == txn[s].state # "idle"

(* A transaction is that of a block, and stands at one of its statements. *)
BusyWithABlock ==
    \A s \in Sessions :
        Busy(s) => txn[s].blk \in BlockNums /\ txn[s].pos <= Len(Statements[txn[s].blk]) + 1

(* What a transaction holds comes from the statements it has executed, at   *)
(* most one row for a key ...                                              *)
PutsWereExecuted ==
    \A s \in Sessions :
        /\ \A row \in txn[s].puts :
              \E i \in 1..(txn[s].pos - 1) : row = Statements[txn[s].blk][i]
        /\ \A r1, r2 \in txn[s].puts : Key(r1) = Key(r2) => r1 = r2

(* ... and whatever it has executed is held by it, or was there. *)
ExecutedIsThere ==
    \A s \in Sessions : \A i \in 1..(txn[s].pos - 1) :
        Key(Statements[txn[s].blk][i]) \in Keys(table) \cup Keys(txn[s].puts)

(* Rows of its block are held only while the block is not stored. *)
OwnPutsAreNew ==
    \A s \in Sessions : \A row \in txn[s].puts :
        IsOwn(row) => row \in OwnRows(txn[s].blk) /\ txn[s].blk \notin Visible

(* Two transactions never hold the same key. *)
KeysAreLocked ==
    \A s, t \in Sessions : s # t => Keys(txn[s].puts) \cap Keys(txn[t].puts) = {}

IInv ==
    /\ TypeOK /\ BusyWithABlock /\ PutsWereExecuted /\ ExecutedIsThere
    /\ OwnPutsAreNew /\ KeysAreLocked /\ WholeBlocks

LEMMA InitIInv == Init => IInv
<1> SUFFICES ASSUME Init PROVE IInv
  OBVIOUS
<1> USE DEF Init, Idle
<1>1. Keys(table) = {} /\ Visible = {}
  BY DEF Keys, Visible
<1>2. \A s \in Sessions : txn[s].puts = {} /\ txn[s].pos = 1 /\ ~Busy(s)
  BY DEF Busy
<1>3. TypeOK
  BY FaultsAssumption DEF TypeOK
<1>4. BusyWithABlock /\ PutsWereExecuted /\ ExecutedIsThere /\ OwnPutsAreNew /\ KeysAreLocked
  BY <1>2 DEF BusyWithABlock, PutsWereExecuted, ExecutedIsThere, OwnPutsAreNew, KeysAreLocked, Keys
<1>5. WholeBlocks
  BY <1>1 DEF WholeBlocks
<1> QED BY <1>3, <1>4, <1>5 DEF IInv

-----------------------------------------------------------------------------
(* A transaction begins, and proceeds by a statement. *)

LEMMA BeginFields ==
    ASSUME NEW A, NEW B, NEW C, NEW D, NEW r \in [state : A, blk : B, pos : C, puts : D],
           NEW a \in A, NEW b \in B
    PROVE  LET t == [r EXCEPT !.state = a, !.blk = b]
           IN  /\ t \in [state : A, blk : B, pos : C, puts : D]
               /\ t.state = a /\ t.blk = b /\ t.pos = r.pos /\ t.puts = r.puts
OBVIOUS

LEMMA ExecuteFields ==
    ASSUME NEW A, NEW B, NEW C, NEW D, NEW r \in [state : A, blk : B, pos : C, puts : D],
           NEW c, NEW d
    PROVE  LET t == [r EXCEPT !.puts = d, !.pos = c]
           IN  /\ c \in C /\ d \in D => t \in [state : A, blk : B, pos : C, puts : D]
               /\ t.state = r.state /\ t.blk = r.blk /\ t.pos = c /\ t.puts = d
OBVIOUS

(* Every step keeps the types. *)
LEMMA TypeStep == IInv /\ [Next]_vars => TypeOK'
<1> SUFFICES ASSUME IInv, [Next]_vars PROVE TypeOK'
  OBVIOUS
<1> DEFINE Txn == [state : {"idle", "open", "lost"}, blk : BlockNums \cup {0},
                   pos : Nat \ {0}, puts : SUBSET AllRows]
<1>1. /\ table \subseteq AllRows /\ phase \in {"down", "running", "stopping"}
      /\ todo \subseteq BlockNums /\ txn \in [Sessions -> Txn]
      /\ (\A s \in Sessions : txn[s].state = "idle" => txn[s] = Idle)
      /\ faults \in 0..MaxFaults /\ MaxFaults \in Nat
  BY FaultsAssumption DEF IInv, TypeOK
<1>2. Idle \in Txn
  BY DEF Idle
<1>3. Fault => faults' \in 0..MaxFaults
  BY <1>1 DEF Fault
(* A step that sets the transaction of one session, or of none. *)
<1>4. ASSUME NEW s \in Sessions, NEW t \in Txn, txn' = [txn EXCEPT ![s] = t],
             t.state = "idle" => t = Idle
      PROVE  txn' \in [Sessions -> Txn]
             /\ \A x \in Sessions : txn'[x].state = "idle" => txn'[x] = Idle
  BY <1>1, <1>4
<1>5. ASSUME txn' \in [Sessions -> Txn], table' \subseteq AllRows,
             \A x \in Sessions : txn'[x].state = "idle" => txn'[x] = Idle,
             phase' \in {"down", "running", "stopping"}, todo' \subseteq BlockNums,
             faults' \in 0..MaxFaults
      PROVE  TypeOK'
  BY <1>5 DEF TypeOK
<1>6. ASSUME NEW s \in Sessions PROVE Applied(txn[s].puts) \subseteq AllRows
  <2>1. txn[s].puts \subseteq AllRows
    BY <1>1
  <2> QED BY <1>1, <2>1, AppliedFacts
<1> HIDE DEF Txn
<1>7. CASE Start \/ ScanFails \/ Stopped \/ UNCHANGED vars
  BY <1>1, <1>3, <1>5, <1>7 DEF Start, ScanFails, Stopped, vars
<1>8. CASE Crash
  <2>1. /\ table' = table /\ phase' = "down" /\ todo' = {} /\ Fault
        /\ txn' = [s \in Sessions |->
                     IF Open(s) THEN [txn[s] EXCEPT !.state = "lost"] ELSE txn[s]]
    BY <1>8 DEF Crash
  <2>2. \A s \in Sessions : [txn[s] EXCEPT !.state = "lost"] \in Txn
    BY <1>1 DEF Txn
  <2>3. \A s \in Sessions : [txn[s] EXCEPT !.state = "lost"].state = "lost"
    BY <1>1 DEF Txn
  <2> QED BY <1>1, <1>3, <1>5, <2>1, <2>2, <2>3
<1>9. ASSUME NEW s \in Sessions, Begin(s) PROVE TypeOK'
  <2>1. PICK b \in todo :
           /\ todo' = todo \ {b}
           /\ txn' = [txn EXCEPT ![s] = [Idle EXCEPT !.state = "open", !.blk = b]]
    BY <1>9 DEF Begin
  <2> DEFINE t == [Idle EXCEPT !.state = "open", !.blk = b]
  <2>2. txn' = [txn EXCEPT ![s] = t]
    BY <2>1
  <2>3. t \in Txn /\ t.state = "open"
    BY <1>1, <1>2, BeginFields DEF Txn
  <2> HIDE DEF t
  <2> QED BY <1>1, <1>4, <1>5, <1>9, <2>1, <2>2, <2>3 DEF Begin
<1>10. ASSUME NEW s \in Sessions, Execute(s) PROVE TypeOK'
  <2> DEFINE puts == Put(txn[s].puts, Statement(s))
             t == [txn[s] EXCEPT !.puts = puts, !.pos = @ + 1]
  <2>1. txn' = [txn EXCEPT ![s] = t]
    BY <1>1, <1>10 DEF Execute, Txn
  <2>2. txn[s] \in Txn /\ txn[s].state = "open"
    BY <1>1, <1>10 DEF Execute, Open
  <2>3. Statement(s) \in AllRows
    <3>1. txn[s].blk \in BlockNums /\ txn[s].pos \in 1..Len(Statements[txn[s].blk])
      <4>1. txn[s].blk \in BlockNums /\ ~(txn[s].pos > Len(Statements[txn[s].blk]))
        BY <1>10, <2>2 DEF IInv, BusyWithABlock, Busy, Execute, AllDone
      <4> QED BY <2>2, <4>1, StatementFacts DEF Txn
    <3> QED BY <3>1, StatementFacts DEF Statement
  <2>4. puts \subseteq AllRows
    BY <2>2, <2>3, PutFacts DEF Txn
  <2> HIDE DEF puts
  <2>5. txn[s].pos + 1 \in Nat \ {0}
    BY <2>2 DEF Txn
  <2>6. puts \in SUBSET AllRows
    BY <2>4
  <2>7. t \in Txn /\ t.state = "open"
    BY <2>2, <2>5, <2>6, ExecuteFields DEF Txn
  <2> HIDE DEF t
  <2> QED BY <1>1, <1>4, <1>5, <1>10, <2>1, <2>7 DEF Execute
<1>11. ASSUME NEW s \in Sessions, Commit(s) \/ LostCommits(s) PROVE TypeOK'
  BY <1>1, <1>2, <1>4, <1>5, <1>6, <1>11 DEF Commit, LostCommits
<1>12. ASSUME NEW s \in Sessions, StatementFails(s) \/ DeadlockDetected(s) \/ LostAborts(s)
       PROVE  TypeOK'
  BY <1>1, <1>2, <1>3, <1>4, <1>5, <1>12 DEF StatementFails, DeadlockDetected, LostAborts, RollBack
<1>13. ASSUME NEW s \in Sessions, ConnectionBreaks(s) \/ Interrupted(s) PROVE TypeOK'
  <2> DEFINE t == [txn[s] EXCEPT !.state = "lost"]
  <2>1. t \in Txn /\ t.state = "lost"
    BY <1>1 DEF Txn
  <2>2. txn' = [txn EXCEPT ![s] = t]
    BY <1>1, <1>13 DEF ConnectionBreaks, Interrupted
  <2> HIDE DEF t
  <2> QED BY <1>1, <1>3, <1>4, <1>5, <1>13, <2>1, <2>2 DEF ConnectionBreaks, Interrupted
<1> QED BY <1>7, <1>8, <1>9, <1>10, <1>11, <1>12, <1>13 DEF Next, Process, Session

-----------------------------------------------------------------------------
(* What a step does to the table and to the transactions is one of three.  *)

Fresh(s) ==
    /\ txn'[s].puts = {} /\ txn'[s].pos = 1
    /\ txn'[s].state # "idle" => txn'[s].blk \in BlockNums

Kept(s) ==
    /\ txn'[s].blk = txn[s].blk /\ txn'[s].pos = txn[s].pos /\ txn'[s].puts = txn[s].puts
    /\ txn'[s].state # "idle" => Busy(s)

Quiet == table' = table /\ \A s \in Sessions : Fresh(s) \/ Kept(s)

(* A statement that no other transaction stands in the way of. *)
Executes(s) ==
    /\ Busy(s) /\ txn[s].blk \in BlockNums /\ txn[s].pos \in 1..Len(Statements[txn[s].blk])
    /\ \A t \in Sessions \ {s} : Key(Statement(s)) \notin Keys(txn[t].puts) /\ Kept(t)
    /\ txn'[s].blk = txn[s].blk /\ txn'[s].pos = txn[s].pos + 1
    /\ txn'[s].puts = Put(txn[s].puts, Statement(s))
    /\ table' = table

Commits(s) ==
    /\ Busy(s) /\ txn[s].blk \in BlockNums /\ AllDone(s)
    /\ table' = Applied(txn[s].puts)
    /\ Fresh(s) /\ \A t \in Sessions \ {s} : Kept(t)

LEMMA StepShape ==
    ASSUME IInv, [Next]_vars
    PROVE  Quiet \/ \E s \in Sessions : Executes(s) \/ Commits(s)
<1> DEFINE Txn == [state : {"idle", "open", "lost"}, blk : BlockNums \cup {0},
                   pos : Nat \ {0}, puts : SUBSET AllRows]
<1>1. txn \in [Sessions -> Txn] /\ todo \subseteq BlockNums
  BY DEF IInv, TypeOK
<1>2. \A s \in Sessions : Busy(s) => txn[s].blk \in BlockNums
                              /\ txn[s].pos <= Len(Statements[txn[s].blk]) + 1
  BY DEF IInv, BusyWithABlock
<1>3. \A s \in Sessions : txn'[s] = Idle => Fresh(s)
  BY DEF Fresh, Idle
<1>4. \A s \in Sessions : txn'[s] = txn[s] => Kept(s)
  BY DEF Kept, Busy
<1>5. \A s \in Sessions : Open(s) /\ txn'[s] = [txn[s] EXCEPT !.state = "lost"] => Kept(s)
  BY <1>1 DEF Kept, Busy, Open
<1>6. Idle \in Txn /\ Idle.pos = 1 /\ Idle.puts = {}
  BY DEF Idle
<1>7. CASE Start \/ ScanFails \/ Stopped \/ UNCHANGED vars
  BY <1>4, <1>7 DEF Start, ScanFails, Stopped, vars, Quiet
<1>8. CASE Crash
  <2>1. table' = table
        /\ \A s \in Sessions : txn'[s] = IF Open(s) THEN [txn[s] EXCEPT !.state = "lost"] ELSE txn[s]
    BY <1>8 DEF Crash
  <2> QED BY <1>4, <1>5, <2>1 DEF Quiet
<1>9. ASSUME NEW s \in Sessions, Begin(s) PROVE Quiet
  <2>1. PICK b \in todo : txn' = [txn EXCEPT ![s] = [Idle EXCEPT !.state = "open", !.blk = b]]
    BY <1>9 DEF Begin
  <2>2. b \in BlockNums
    BY <1>1, <2>1
  <2>3. Fresh(s)
    <3> DEFINE t == [Idle EXCEPT !.state = "open", !.blk = b]
    <3>1. txn'[s] = t
      BY <1>1, <2>1
    <3>2. t.blk = b /\ t.pos = 1 /\ t.puts = {}
      BY <1>6, <2>2, BeginFields
    <3> HIDE DEF t
    <3> QED BY <2>2, <3>1, <3>2 DEF Fresh
  <2>4. \A t \in Sessions \ {s} : txn'[t] = txn[t]
    BY <1>1, <2>1
  <2> QED BY <1>4, <1>9, <2>3, <2>4 DEF Quiet, Begin
<1>10. ASSUME NEW s \in Sessions, Execute(s) PROVE Executes(s)
  <2> DEFINE puts == Put(txn[s].puts, Statement(s))
             next == txn[s].pos + 1
             t == [txn[s] EXCEPT !.puts = puts, !.pos = next]
  <2>1. table' = table /\ txn' = [txn EXCEPT ![s] = t]
    BY <1>1, <1>10 DEF Execute
  <2>2. txn'[s] = t /\ \A x \in Sessions \ {s} : txn'[x] = txn[x]
    BY <1>1, <2>1
  <2>3. Busy(s) /\ txn[s].blk \in BlockNums /\ ~AllDone(s)
    BY <1>2, <1>10 DEF Execute, Open, Busy
  <2>4. txn[s].pos \in 1..Len(Statements[txn[s].blk])
    BY <1>1, <2>3, StatementFacts DEF AllDone
  <2>5. \A x \in Sessions \ {s} : Key(Statement(s)) \notin Keys(txn[x].puts)
    BY <1>10 DEF Execute, WaitsFor
  <2>6. t.blk = txn[s].blk /\ t.pos = next /\ t.puts = puts
    <3>1. txn[s] \in Txn
      BY <1>1
    <3> HIDE DEF puts, next
    <3> QED BY <3>1, ExecuteFields
  <2>7. puts = Put(txn[s].puts, Statement(s)) /\ next = txn[s].pos + 1
    OBVIOUS
  <2> HIDE DEF t, puts, next
  <2> QED BY <1>4, <2>1, <2>2, <2>3, <2>4, <2>5, <2>6, <2>7 DEF Executes
<1>11. ASSUME NEW s \in Sessions, Commit(s) \/ LostCommits(s) PROVE Commits(s)
  <2>1. Busy(s) /\ AllDone(s) /\ table' = Applied(txn[s].puts) /\ txn' = [txn EXCEPT ![s] = Idle]
    BY <1>11 DEF Commit, LostCommits, Busy, Open, Lost
  <2>2. txn'[s] = Idle /\ \A x \in Sessions \ {s} : txn'[x] = txn[x]
    BY <1>1, <2>1
  <2> QED BY <1>2, <1>3, <1>4, <2>1, <2>2 DEF Commits
<1>12. ASSUME NEW s \in Sessions, StatementFails(s) \/ DeadlockDetected(s) \/ LostAborts(s)
       PROVE  Quiet
  <2>1. table' = table /\ txn' = [txn EXCEPT ![s] = Idle]
    BY <1>12 DEF StatementFails, DeadlockDetected, LostAborts, RollBack
  <2>2. txn'[s] = Idle /\ \A x \in Sessions \ {s} : txn'[x] = txn[x]
    BY <1>1, <2>1
  <2> QED BY <1>3, <1>4, <2>1, <2>2 DEF Quiet
<1>13. ASSUME NEW s \in Sessions, ConnectionBreaks(s) \/ Interrupted(s) PROVE Quiet
  <2>1. table' = table /\ Open(s) /\ txn' = [txn EXCEPT ![s] = [txn[s] EXCEPT !.state = "lost"]]
    BY <1>1, <1>13 DEF ConnectionBreaks, Interrupted
  <2>2. txn'[s] = [txn[s] EXCEPT !.state = "lost"] /\ \A x \in Sessions \ {s} : txn'[x] = txn[x]
    BY <1>1, <2>1
  <2> QED BY <1>4, <1>5, <2>1, <2>2 DEF Quiet
<1> QED BY <1>7, <1>8, <1>9, <1>10, <1>11, <1>12, <1>13 DEF Next, Process, Session

-----------------------------------------------------------------------------
(* Each keeps the invariant. *)

LEMMA SameTable ==
    ASSUME table' = table, WholeBlocks
    PROVE  Visible' = Visible /\ Keys(table)' = Keys(table) /\ WholeBlocks'
<1>1. Visible' = Visible /\ Keys(table)' = Keys(table)
  BY DEF Visible, Keys
<1> QED BY <1>1 DEF WholeBlocks

LEMMA QuietStep ==
    ASSUME IInv, TypeOK', Quiet
    PROVE  IInv'
<1>1. Visible' = Visible /\ Keys(table)' = Keys(table) /\ WholeBlocks' /\ table' = table
  BY SameTable DEF IInv, Quiet
<1>2. \A s \in Sessions : Fresh(s) \/ Kept(s)
  BY DEF Quiet
<1>3. BusyWithABlock'
  <2>1. ASSUME NEW s \in Sessions, Busy(s)'
        PROVE  txn'[s].blk \in BlockNums /\ txn'[s].pos <= Len(Statements[txn'[s].blk]) + 1
    <3>1. CASE Fresh(s)
      <4>1. txn'[s].blk \in BlockNums /\ txn'[s].pos = 1
        BY <2>1, <3>1 DEF Fresh, Busy
      <4> QED BY <4>1, StatementFacts
    <3>2. CASE Kept(s)
      BY <2>1, <3>2 DEF Kept, Busy, IInv, BusyWithABlock
    <3> QED BY <1>2, <3>1, <3>2
  <2> QED BY <2>1 DEF BusyWithABlock
<1>4. PutsWereExecuted'
  BY <1>2 DEF PutsWereExecuted, IInv, Fresh, Kept
<1>5. ExecutedIsThere'
  BY <1>1, <1>2 DEF ExecutedIsThere, IInv, Fresh, Kept
<1>6. OwnPutsAreNew'
  BY <1>1, <1>2 DEF OwnPutsAreNew, IInv, Fresh, Kept
<1>7. KeysAreLocked'
  <2>1. \A s \in Sessions : Keys(txn'[s].puts) = {} \/ Keys(txn'[s].puts) = Keys(txn[s].puts)
    BY <1>2 DEF Fresh, Kept, Keys
  <2> QED BY <2>1 DEF KeysAreLocked, IInv
<1> QED BY <1>1, <1>3, <1>4, <1>5, <1>6, <1>7 DEF IInv

LEMMA ExecuteStep ==
    ASSUME IInv, TypeOK', NEW s \in Sessions, Executes(s)
    PROVE  IInv'
<1> DEFINE b    == txn[s].blk
           rows == Statements[b]
           pos  == txn[s].pos
           row  == rows[pos]
           puts == txn[s].puts
<1>1. /\ b \in BlockNums /\ pos \in 1..Len(rows) /\ pos \in Nat
      /\ Statement(s) = row /\ row \in Range(rows)
      /\ Len(rows) \in Nat
  <2>1. b \in BlockNums /\ pos \in 1..Len(rows) /\ Statement(s) = row
    BY DEF Executes, Statement
  <2>2. Len(rows) \in Nat /\ Range(rows) = {rows[i] : i \in 1..Len(rows)}
    BY <2>1, StatementFacts
  <2> HIDE DEF b, rows, pos
  <2>3. pos \in Nat /\ row \in Range(rows)
    BY <2>1, <2>2
  <2> QED BY <2>1, <2>2, <2>3
<1>2. Visible' = Visible /\ Keys(table)' = Keys(table) /\ WholeBlocks' /\ table' = table
  BY SameTable DEF IInv, Executes
<1>3. \A t \in Sessions \ {s} : Kept(t) /\ Key(row) \notin Keys(txn[t].puts)
  BY <1>1 DEF Executes
<1>4. txn'[s].blk = b /\ txn'[s].pos = pos + 1 /\ txn'[s].puts = Put(puts, row)
  BY <1>1 DEF Executes
<1>5. /\ Put(puts, row) \subseteq puts \cup {row}
      /\ Keys(puts) \subseteq Keys(Put(puts, row))
      /\ Key(row) \in Keys(table) \cup Keys(Put(puts, row))
      /\ (\A r1, r2 \in puts : Key(r1) = Key(r2) => r1 = r2)
            => \A r1, r2 \in Put(puts, row) : Key(r1) = Key(r2) => r1 = r2
      /\ \A r \in Put(puts, row) :
            IsOwn(r) => \/ r \in puts
                        \/ r = row /\ Key(row) \notin Keys(table) \cup Keys(puts)
  BY PutFacts
<1>6. /\ \A r \in puts : \E i \in 1..(pos - 1) : r = rows[i]
      /\ \A r1, r2 \in puts : Key(r1) = Key(r2) => r1 = r2
      /\ \A i \in 1..(pos - 1) : Key(rows[i]) \in Keys(table) \cup Keys(puts)
      /\ \A r \in puts : IsOwn(r) => r \in OwnRows(b) /\ b \notin Visible
  BY DEF IInv, PutsWereExecuted, ExecutedIsThere, OwnPutsAreNew
<1>7. BusyWithABlock'
  <2>1. txn'[s].blk \in BlockNums /\ txn'[s].pos <= Len(Statements[txn'[s].blk]) + 1
    BY <1>1, <1>4
  <2>2. \A t \in Sessions \ {s} : Busy(t)' =>
           txn'[t].blk \in BlockNums /\ txn'[t].pos <= Len(Statements[txn'[t].blk]) + 1
    BY <1>3 DEF Kept, Busy, IInv, BusyWithABlock
  <2> QED BY <2>1, <2>2 DEF BusyWithABlock
<1> HIDE DEF b, rows, pos, row, puts
<1>8. PutsWereExecuted'
  <2>1. \A r \in Put(puts, row) : \E i \in 1..pos : r = rows[i]
    <3>1. \A r \in puts : \E i \in 1..pos : r = rows[i]
      BY <1>1, <1>6
    <3>2. \E i \in 1..pos : row = rows[i]
      BY <1>1 DEF row
    <3> QED BY <1>5, <3>1, <3>2
  <2>2. (txn'[s].pos - 1) = pos /\ Statements[txn'[s].blk] = rows
    BY <1>1, <1>4 DEF rows
  <2>3. /\ \A r \in txn'[s].puts : \E i \in 1..(txn'[s].pos - 1) : r = Statements[txn'[s].blk][i]
        /\ \A r1, r2 \in txn'[s].puts : Key(r1) = Key(r2) => r1 = r2
    BY <1>4, <1>5, <1>6, <2>1, <2>2
  <2>4. \A t \in Sessions \ {s} :
        /\ \A r \in txn'[t].puts : \E i \in 1..(txn'[t].pos - 1) : r = Statements[txn'[t].blk][i]
        /\ \A r1, r2 \in txn'[t].puts : Key(r1) = Key(r2) => r1 = r2
    BY <1>3 DEF Kept, IInv, PutsWereExecuted
  <2> QED BY <2>3, <2>4 DEF PutsWereExecuted
<1>9. ExecutedIsThere'
  <2>1. ASSUME NEW i \in 1..pos PROVE Key(rows[i]) \in Keys(table) \cup Keys(Put(puts, row))
    <3>1. CASE i = pos
      BY <1>5, <3>1 DEF row
    <3>2. CASE i # pos
      <4>1. i \in 1..(pos - 1)
        BY <1>1, <3>2
      <4> QED BY <1>5, <1>6, <4>1
    <3> QED BY <3>1, <3>2
  <2>2. (txn'[s].pos - 1) = pos /\ Statements[txn'[s].blk] = rows
    BY <1>1, <1>4 DEF rows
  <2>3. \A i \in 1..(txn'[s].pos - 1) :
           Key(Statements[txn'[s].blk][i]) \in Keys(table) \cup Keys(txn'[s].puts)
    BY <1>4, <2>1, <2>2
  <2>4. \A t \in Sessions \ {s} : \A i \in 1..(txn'[t].pos - 1) :
           Key(Statements[txn'[t].blk][i]) \in Keys(table) \cup Keys(txn'[t].puts)
    BY <1>3 DEF Kept, IInv, ExecutedIsThere
  <2> QED BY <1>2, <2>3, <2>4 DEF ExecutedIsThere
<1>10. OwnPutsAreNew'
  <2>1. ASSUME IsOwn(row), Key(row) \notin Keys(table) \cup Keys(puts)
        PROVE  row \in OwnRows(b) /\ b \notin Visible
    <3>1. \A j \in 1..(pos - 1) : Key(rows[j]) # Key(row)
      BY <1>6, <2>1
    <3>2. row \in OwnRows(b)
      BY <1>1, <2>1, <3>1, OwnRowsFacts DEF rows, row
    <3>3. ASSUME b \in Visible PROVE FALSE
      <4>1. PICK first \in OwnRows(b) : Key(first) = Key(row)
        BY <1>1, <2>1, FirstOwnRow DEF rows
      <4>2. first \in table
        BY <3>3, <4>1 DEF IInv, WholeBlocks
      <4> QED BY <2>1, <4>1, <4>2 DEF Keys
    <3> QED BY <3>2, <3>3
  <2>2. \A r \in txn'[s].puts : IsOwn(r) => r \in OwnRows(b) /\ b \notin Visible
    BY <1>4, <1>5, <1>6, <2>1
  <2>3. \A t \in Sessions \ {s} : \A r \in txn'[t].puts :
           IsOwn(r) => r \in OwnRows(txn'[t].blk) /\ txn'[t].blk \notin Visible
    BY <1>3 DEF Kept, IInv, OwnPutsAreNew
  <2> QED BY <1>2, <1>4, <2>2, <2>3 DEF OwnPutsAreNew
<1>11. KeysAreLocked'
  <2>1. Keys(txn'[s].puts) \subseteq Keys(puts) \cup {Key(row)}
    BY <1>4, <1>5 DEF Keys
  <2>2. \A t \in Sessions \ {s} : txn'[t].puts = txn[t].puts
    BY <1>3 DEF Kept
  <2> QED BY <1>3, <2>1, <2>2 DEF KeysAreLocked, IInv, puts
<1> QED BY <1>2, <1>7, <1>8, <1>9, <1>10, <1>11 DEF IInv

(* What becomes visible with a commit is the block of the transaction. *)
LEMMA CommitShows ==
    ASSUME IInv, NEW s \in Sessions, Commits(s)
    PROVE  /\ Visible' = Visible \cup {txn[s].blk}
           /\ Keys(table') = Keys(table) \cup Keys(txn[s].puts)
           /\ \A row \in Range(Statements[txn[s].blk]) : Key(row) \in Keys(table')
           /\ txn[s].puts \subseteq Range(Statements[txn[s].blk])
<1> DEFINE b    == txn[s].blk
           rows == Statements[b]
           puts == txn[s].puts
<1>1. /\ b \in BlockNums /\ Len(rows) \in Nat /\ Len(rows) >= 1
      /\ Range(rows) = {rows[i] : i \in 1..Len(rows)} /\ Key(rows[1]) = <<"blocks", b>>
  BY StatementFacts DEF Commits
<1>2. txn[s].pos \in Nat /\ txn[s].pos = Len(rows) + 1
  BY <1>1 DEF Commits, AllDone, IInv, TypeOK, BusyWithABlock
<1>3. \A i \in 1..Len(rows) : Key(rows[i]) \in Keys(table) \cup Keys(puts)
  BY <1>1, <1>2, SMTT(30) DEF IInv, ExecutedIsThere
<1>4. Keys(table') = Keys(table) \cup Keys(puts)
  BY AppliedFacts DEF Commits
<1>5. \A row \in Range(rows) : Key(row) \in Keys(table')
  BY <1>1, <1>3, <1>4
<1>6. puts \subseteq Range(rows)
  BY <1>1, <1>2, SMTT(30) DEF IInv, PutsWereExecuted
<1>7. b \in Visible'
  BY <1>1, <1>3, <1>4 DEF Visible
<1>8. \A x \in BlockNums : <<"blocks", x>> \in Keys(puts) => x = b
  BY <1>1, <1>6, BlockKey DEF Keys
<1>9. Visible' = {x \in BlockNums : <<"blocks", x>> \in Keys(table) \cup Keys(puts)}
  BY <1>4 DEF Visible
<1>10. Visible' = Visible \cup {b}
  BY <1>7, <1>8, <1>9 DEF Visible
<1> QED BY <1>4, <1>5, <1>6, <1>10

LEMMA CommitKeepsBlocksWhole ==
    ASSUME IInv, NEW s \in Sessions, Commits(s)
    PROVE  WholeBlocks'
<1> DEFINE b    == txn[s].blk
           puts == txn[s].puts
<1>1. /\ b \in BlockNums /\ table' = Applied(puts)
      /\ Visible' = Visible \cup {b}
      /\ Keys(table') = Keys(table) \cup Keys(puts)
      /\ \A row \in Range(Statements[b]) : Key(row) \in Keys(table')
      /\ puts \subseteq Range(Statements[b])
  BY CommitShows DEF Commits
<1>2. /\ puts \subseteq table' /\ table' \subseteq table \cup puts
      /\ \A row \in table : Key(row) \notin Keys(puts) => row \in table'
      /\ \A row \in table' : row \in puts \/ Key(row) \notin Keys(puts)
  BY <1>1, AppliedFacts
<1>3. \A row \in puts : IsOwn(row) => row \in OwnRows(b) /\ b \notin Visible
  BY DEF IInv, OwnPutsAreNew
<1>4. \A r1, r2 \in puts : Key(r1) = Key(r2) => r1 = r2
  BY DEF IInv, PutsWereExecuted
<1>5. /\ \A x \in Visible : OwnRows(x) \subseteq table /\ PolicyKeys(x) \subseteq Keys(table)
      /\ \A row \in table : \E x \in Visible : row \in Range(Statements[x])
      /\ \A r1, r2 \in table : Key(r1) = Key(r2) => r1 = r2
      /\ Visible \subseteq BlockNums
  BY DEF IInv, WholeBlocks, Visible
<1>6. \A r1, r2 : Key(r1) = Key(r2) /\ IsOwn(r1) => IsOwn(r2)
  BY DEF IsOwn, TableOf
<1> HIDE DEF b, puts
<1>7. ASSUME NEW x \in Visible' PROVE OwnRows(x) \subseteq table'
  <2> SUFFICES ASSUME NEW row \in OwnRows(x) PROVE row \in table'
    OBVIOUS
  <2>1. x \in BlockNums /\ IsOwn(row) /\ row \in Range(Statements[x]) /\ Key(row)[2] = x
    BY <1>1, <1>5, OwnRowsFacts, StatementFacts
  <2>2. \A p \in puts : Key(p) = Key(row) => p \in OwnRows(b) /\ b \notin Visible /\ x = b
    BY <1>1, <1>3, <1>6, <2>1, StatementFacts
  <2>3. CASE x \in Visible
    <3>1. row \in table /\ Key(row) \notin Keys(puts)
      BY <1>5, <2>2, <2>3 DEF Keys
    <3> QED BY <1>2, <3>1
  <2>4. CASE x \notin Visible
    <3>1. x = b
      BY <1>1, <2>4
    <3>2. ASSUME NEW q \in table, Key(q) = Key(row) PROVE FALSE
      <4>1. PICK y \in Visible : q \in Range(Statements[y])
        BY <1>5
      <4>2. IsOwn(q) /\ y \in BlockNums
        BY <1>5, <1>6, <2>1, <3>2
      <4>3. Key(q)[2] = y
        BY <4>1, <4>2, StatementFacts
      <4> QED BY <2>1, <2>4, <3>2, <4>3
    <3>3. Key(row) \in Keys(table) \cup Keys(puts)
      BY <1>1, <2>1, <3>1
    <3>4. PICK p \in puts : Key(p) = Key(row)
      BY <3>2, <3>3 DEF Keys
    <3>5. p = row
      BY <1>1, <2>2, <3>1, <3>4, OwnRowsFacts
    <3> QED BY <1>2, <3>5
  <2> QED BY <2>3, <2>4
<1>8. \A x \in Visible' : PolicyKeys(x) \subseteq Keys(table')
  <2>1. PolicyKeys(b) \subseteq Keys(table')
    BY <1>1 DEF PolicyKeys
  <2> QED BY <1>1, <1>5, <2>1
<1>9. \A row \in table' : \E x \in Visible' : row \in Range(Statements[x])
  BY <1>1, <1>2, <1>5
<1>10. \A r1, r2 \in table' : Key(r1) = Key(r2) => r1 = r2
  BY <1>2, <1>4, <1>5 DEF Keys
<1> QED BY <1>7, <1>8, <1>9, <1>10 DEF WholeBlocks, Keys

LEMMA CommitStep ==
    ASSUME IInv, TypeOK', NEW s \in Sessions, Commits(s)
    PROVE  IInv'
<1>1. /\ txn[s].blk \in BlockNums
      /\ Visible' = Visible \cup {txn[s].blk}
      /\ Keys(table') = Keys(table) \cup Keys(txn[s].puts)
  BY CommitShows DEF Commits
<1>2. Fresh(s) /\ \A t \in Sessions \ {s} : Kept(t)
  BY DEF Commits
<1>3. BusyWithABlock'
  <2>1. Busy(s)' => txn'[s].blk \in BlockNums /\ txn'[s].pos <= Len(Statements[txn'[s].blk]) + 1
    <3> SUFFICES ASSUME Busy(s)' PROVE txn'[s].blk \in BlockNums /\ txn'[s].pos <= Len(Statements[txn'[s].blk]) + 1
      OBVIOUS
    <3>1. txn'[s].blk \in BlockNums /\ txn'[s].pos = 1
      BY <1>2 DEF Fresh, Busy
    <3> QED BY <3>1, StatementFacts
  <2>2. \A t \in Sessions \ {s} : Busy(t)' =>
           txn'[t].blk \in BlockNums /\ txn'[t].pos <= Len(Statements[txn'[t].blk]) + 1
    BY <1>2 DEF Kept, Busy, IInv, BusyWithABlock
  <2> QED BY <2>1, <2>2 DEF BusyWithABlock
<1>4. PutsWereExecuted'
  BY <1>2 DEF PutsWereExecuted, IInv, Fresh, Kept
<1>5. ExecutedIsThere'
  <2>1. \A t \in Sessions \ {s} : \A i \in 1..(txn'[t].pos - 1) :
           Key(Statements[txn'[t].blk][i]) \in Keys(table) \cup Keys(txn'[t].puts)
    BY <1>2 DEF Kept, IInv, ExecutedIsThere
  <2>2. txn'[s].pos - 1 = 0
    BY <1>2 DEF Fresh
  <2> QED BY <1>1, <2>1, <2>2 DEF ExecutedIsThere
<1>6. OwnPutsAreNew'
  <2>1. ASSUME NEW t \in Sessions, t # s, NEW row \in txn[t].puts, IsOwn(row)
        PROVE  row \in OwnRows(txn[t].blk) /\ txn[t].blk \notin Visible'
    <3>1. row \in OwnRows(txn[t].blk) /\ txn[t].blk \notin Visible
      BY <2>1 DEF IInv, OwnPutsAreNew
    <3>2. ASSUME txn[t].blk = txn[s].blk PROVE FALSE
      <4>1. PICK i \in 1..(txn[t].pos - 1) : row = Statements[txn[t].blk][i]
        BY DEF IInv, PutsWereExecuted
      <4>2. txn[t].pos \in Nat
        BY DEF IInv, TypeOK
      <4>3. 1 \in 1..(txn[t].pos - 1)
        BY <4>1, <4>2
      <4>4. Key(Statements[txn[t].blk][1]) = <<"blocks", txn[t].blk>>
        BY <1>1, <3>2, StatementFacts
      <4>5. <<"blocks", txn[t].blk>> \in Keys(table) \cup Keys(txn[t].puts)
        BY <4>3, <4>4 DEF IInv, ExecutedIsThere
      <4>6. <<"blocks", txn[t].blk>> \notin Keys(table)
        BY <1>1, <3>1, <3>2 DEF Visible
      <4>7. <<"blocks", txn[t].blk>> \in Keys(txn[s].puts)
        BY <1>1, <3>2, <4>6 DEF Visible
      <4> QED BY <2>1, <4>5, <4>6, <4>7 DEF IInv, KeysAreLocked
    <3> QED BY <1>1, <3>1, <3>2
  <2>2. txn'[s].puts = {}
    BY <1>2 DEF Fresh
  <2>3. \A t \in Sessions \ {s} : txn'[t].puts = txn[t].puts /\ txn'[t].blk = txn[t].blk
    BY <1>2 DEF Kept
  <2> QED BY <2>1, <2>2, <2>3 DEF OwnPutsAreNew
<1>7. KeysAreLocked'
  <2>1. Keys(txn'[s].puts) = {} /\ \A t \in Sessions \ {s} : txn'[t].puts = txn[t].puts
    BY <1>2 DEF Fresh, Kept, Keys
  <2> QED BY <2>1 DEF KeysAreLocked, IInv
<1> QED BY <1>3, <1>4, <1>5, <1>6, <1>7, CommitKeepsBlocksWhole DEF IInv

-----------------------------------------------------------------------------
(* The theorems. *)

LEMMA NextIInv == IInv /\ [Next]_vars => IInv'
<1> SUFFICES ASSUME IInv, [Next]_vars PROVE IInv'
  OBVIOUS
<1>1. TypeOK'
  BY TypeStep
<1> QED BY <1>1, StepShape, QuietStep, ExecuteStep, CommitStep

(* The inductive invariant holds in every reachable state. *)
THEOREM Invariance == Spec => []IInv
BY InitIInv, NextIInv, PTL DEF Spec

(* The variables keep their types, and a session that has ended its         *)
(* transaction holds nothing of it.                                        *)
THEOREM TypeCorrect == Spec => []TypeOK
<1>1. IInv => TypeOK
  BY DEF IInv
<1> QED BY <1>1, Invariance, PTL

(* db_writer.go:52: whatever the writers, the failures, the interruptions   *)
(* and the transactions that a killed process leaves do to each other, a   *)
(* block is stored whole or not at all.                                    *)
THEOREM BlocksAreWhole == Spec => []WholeBlocks
<1>1. IInv => WholeBlocks
  BY DEF IInv
<1> QED BY <1>1, Invariance, PTL

(* A row of a block that is stored stays as it is, and while no further     *)
(* block appears none but those of policies change.                        *)
OwnRowsStay ==
    /\ \A row \in table : IsOwn(row) => row \in table'
    /\ Visible' = Visible => \A row \in table' : IsOwn(row) => row \in table

LEMMA OwnRowsStep == IInv /\ [Next]_vars => OwnRowsStay
<1> SUFFICES ASSUME IInv, [Next]_vars PROVE OwnRowsStay
  OBVIOUS
<1>1. CASE table' = table
  BY <1>1 DEF OwnRowsStay
<1>2. ASSUME NEW s \in Sessions, Commits(s) PROVE OwnRowsStay
  <2> DEFINE b    == txn[s].blk
             puts == txn[s].puts
  <2>1. b \in BlockNums /\ Visible' = Visible \cup {b} /\ table' = Applied(puts)
    BY <1>2, CommitShows DEF Commits
  <2>2. \A row \in puts : IsOwn(row) => row \in OwnRows(b) /\ b \notin Visible
    BY DEF IInv, OwnPutsAreNew
  <2>3. ASSUME NEW row \in table, IsOwn(row) PROVE row \in table'
    <3>1. PICK x \in Visible : row \in Range(Statements[x])
      BY DEF IInv, WholeBlocks
    <3>2. x \in BlockNums /\ Key(row)[2] = x
      BY <2>3, <3>1, StatementFacts DEF Visible
    <3>3. ASSUME NEW r \in puts, Key(r) = Key(row) PROVE FALSE
      <4>1. IsOwn(r)
        BY <2>3, <3>3 DEF IsOwn, TableOf
      <4>2. r \in Range(Statements[b]) /\ b \notin Visible
        BY <2>1, <2>2, <4>1, OwnRowsFacts
      <4>3. Key(r)[2] = b
        BY <2>1, <4>1, <4>2, StatementFacts
      <4> QED BY <3>1, <3>2, <3>3, <4>2, <4>3
    <3>4. Key(row) \notin Keys(puts)
      BY <3>3 DEF Keys
    <3> QED BY <2>1, <3>4, AppliedFacts
  <2>4. ASSUME Visible' = Visible, NEW row \in table', IsOwn(row) PROVE row \in table
    <3>1. row \in table \cup puts
      BY <2>1, AppliedFacts
    <3> QED BY <2>1, <2>2, <2>4, <3>1
  <2> QED BY <2>3, <2>4 DEF OwnRowsStay
<1> QED BY <1>1, <1>2, StepShape DEF Quiet, Executes

(* What is left of service.go:131, "safe no-op": processing a block that    *)
(* is stored once more changes no row of it, so policies, whose upsert     *)
(* overwrites, are the only exception that ReprocessingIsNoOp has.         *)
THEOREM ReprocessingKeepsRows == Spec => [][OwnRowsStay]_vars
<1>1. IInv /\ [Next]_vars => [OwnRowsStay]_vars
  BY OwnRowsStep
<1> QED BY <1>1, Invariance, PTL DEF Spec

(* What the writers do to the table blocks is what IngestLedger promises:   *)
(* a step adds no block or one, and no step takes one away.                *)
THEOREM StoreImplementsLedger == Spec => ImplementsLedger
<1> DEFINE N == Cardinality(BlockNums)
<1>1. N \in Nat /\ BlockNums = 0..(N - 1)
  BY ChainAssumption, FS_CardinalityType
<1>2. Init => Ledger!Init
  <2>1. Init => Visible = {}
    BY DEF Init, Visible, Keys
  <2> QED BY <1>1, <2>1 DEF Ledger!Init
<1>3. IInv /\ [Next]_vars => [Ledger!Next]_(Ledger!ledgerVars)
  <2> SUFFICES ASSUME IInv, [Next]_vars PROVE [Ledger!Next]_(Ledger!ledgerVars)
    OBVIOUS
  <2>1. CASE Quiet
    <3>1. Visible' = Visible
      BY <2>1, SameTable DEF IInv, Quiet
    <3> QED BY <3>1 DEF Ledger!ledgerVars
  <2>2. ASSUME NEW s \in Sessions, Executes(s) PROVE Visible' = Visible
    BY <2>2, SameTable DEF IInv, Executes
  <2>3. ASSUME NEW s \in Sessions, Commits(s) PROVE [Ledger!Next]_(Ledger!ledgerVars)
    <3>1. txn[s].blk \in BlockNums /\ Visible' = Visible \cup {txn[s].blk}
      BY <2>3, CommitShows DEF Commits
    <3>2. CASE txn[s].blk \in Visible
      <4>1. Visible' = Visible
        BY <3>1, <3>2
      <4> QED BY <4>1 DEF Ledger!ledgerVars
    <3>3. CASE txn[s].blk \notin Visible
      <4>1. txn[s].blk \in Ledger!Owed
        BY <1>1, <3>1 DEF Ledger!Owed
      <4>2. Ledger!Store(txn[s].blk)
        BY <3>1, <3>3, <4>1 DEF Ledger!Store
      <4> QED BY <1>1, <3>1, <4>2 DEF Ledger!Next
    <3> QED BY <3>2, <3>3
  <2>4. CASE Visible' = Visible
    BY <2>4 DEF Ledger!ledgerVars
  <2> QED BY <2>1, <2>2, <2>3, <2>4, StepShape
<1> QED BY <1>2, <1>3, Invariance, PTL DEF Spec, ImplementsLedger, Ledger!Spec

-----------------------------------------------------------------------------
(* What a block that is stored whole has in each table. *)

(* Positions are not used twice. *)
LEMMA RecordsDiffer ==
    ASSUME NEW block \in Blocks, NEW recs, InOrder(block, recs),
           NEW i \in 1..Len(recs), NEW j \in 1..Len(recs), recs[i].txNum = recs[j].txNum
    PROVE  i = j
<1>1. \A p \in 1..Len(recs) : recs[p].txNum \in Int
  BY DEF InOrder, Positions
<1>2. Len(recs) \in Nat
  BY IsSeqFacts DEF InOrder
<1>3. i \in Int /\ j \in Int
  BY <1>2
<1>4. CASE i < j
  <2>1. recs[i].txNum < recs[j].txNum
    BY <1>4 DEF InOrder
  <2> QED BY <1>1, <2>1
<1>5. CASE j < i
  <2>1. recs[j].txNum < recs[i].txNum
    BY <1>5 DEF InOrder
  <2> QED BY <1>1, <2>1
<1> QED BY <1>3, <1>4, <1>5

(* The keys of the rows. *)
LEMMA BlockRowKey ==
    ASSUME NEW b, NEW parsed
    PROVE  LET row == BlockRow(b, parsed)
           IN  /\ Key(row) = <<"blocks", b>> /\ TableOf(row) = "blocks" /\ IsOwn(row)
BY DEF Key, TableOf, IsOwn, BlockRow

LEMMA TxRowKey ==
    ASSUME NEW b, NEW t
    PROVE  LET row == TxRow(b, t)
           IN  /\ Key(row) = <<"transactions", b, t.txNum>>
               /\ Key(row)[2] = b /\ Key(row)[3] = t.txNum
               /\ TableOf(row) = "transactions" /\ IsOwn(row)
               /\ row[2][1] = t.txId /\ row[2][3] = t.chaincodeName /\ row[2][4] = t.createdAt
BY DEF Key, TableOf, IsOwn, TxRow

LEMMA NamespaceRowKey ==
    ASSUME NEW b, NEW rec
    PROVE  LET row == NamespaceRow(b, rec)
           IN  /\ Key(row) = <<"tx_namespaces", b, rec.txNum, rec.ns.nsId>>
               /\ Key(row)[2] = b /\ Key(row)[3] = rec.txNum
               /\ TableOf(row) = "tx_namespaces" /\ IsOwn(row)
BY DEF Key, TableOf, IsOwn, NamespaceRow

LEMMA ErrorRowKey ==
    ASSUME NEW b, NEW e
    PROVE  LET row == ErrorRow(b, e)
           IN  /\ Key(row) = <<"block_envelope_errors", b, e.txNum>>
               /\ Key(row)[2] = b /\ Key(row)[3] = e.txNum
               /\ TableOf(row) = "block_envelope_errors" /\ IsOwn(row)
BY DEF Key, TableOf, IsOwn, ErrorRow

(* The statements of a block for one table. *)
LEMMA StatementsByTable ==
    ASSUME NEW b \in BlockNums, NEW row \in Range(Statements[b])
    PROVE  /\ TableOf(row) = "blocks" => row = BlockRow(b, Parse(Chain[b]))
           /\ TableOf(row) = "transactions" => \E i \in 1..Len(Txs(b)) : row = TxRow(b, Txs(b)[i])
           /\ TableOf(row) = "block_envelope_errors" =>
                 \E i \in 1..Len(Errors(b)) : row = ErrorRow(b, Errors(b)[i])
<1>1. /\ TableOf(BlockRow(b, Parse(Chain[b]))) = "blocks"
      /\ \A t : TableOf(TxRow(b, t)) = "transactions"
      /\ \A r : TableOf(NamespaceRow(b, r)) = "tx_namespaces"
      /\ \A e : TableOf(ErrorRow(b, e)) = "block_envelope_errors"
  BY BlockRowKey, TxRowKey, NamespaceRowKey, ErrorRowKey
<1>2. \/ row = BlockRow(b, Parse(Chain[b]))
      \/ \E i \in 1..Len(Txs(b)) : row = TxRow(b, Txs(b)[i])
      \/ \E k \in 1..Len(Recs(b)) : row = NamespaceRow(b, Recs(b)[k])
      \/ TableOf(row) \in ListTables
      \/ TableOf(row) = "namespace_policies"
      \/ \E i \in 1..Len(Errors(b)) : row = ErrorRow(b, Errors(b)[i])
  BY StatementRows DEF IsPolicyRow
<1> QED BY <1>1, <1>2 DEF ListTables

(* Blocks, transactions and errors have a statement of their own each.      *)
LEMMA RowsAreOwn ==
    ASSUME NEW b \in BlockNums
    PROVE  /\ BlockRow(b, Parse(Chain[b])) \in OwnRows(b)
           /\ \A i \in 1..Len(Txs(b)) : TxRow(b, Txs(b)[i]) \in OwnRows(b)
           /\ \A i \in 1..Len(Errors(b)) : ErrorRow(b, Errors(b)[i]) \in OwnRows(b)
<1>1. Chain[b] \in Blocks
  BY ChainAssumption
<1>2. InOrder(Chain[b], Txs(b)) /\ InOrder(Chain[b], Errors(b))
  BY <1>1, ParseFacts DEF Txs, Errors
<1>3. OwnRows(b) \subseteq Range(Statements[b])
  BY OwnRowsFacts
<1>4. BlockRow(b, Parse(Chain[b])) \in OwnRows(b)
  <2> DEFINE row == BlockRow(b, Parse(Chain[b]))
  <2>1. TableOf(row) = "blocks" /\ IsOwn(row) /\ row = Statements[b][1]
    BY BlockRowKey, StatementRows
  <2>2. row \in Range(Statements[b])
    <3>1. 1 \in 1..Len(Statements[b])
      BY StatementFacts
    <3>2. Range(Statements[b]) = {Statements[b][i] : i \in 1..Len(Statements[b])}
      BY StatementFacts
    <3>3. Statements[b][1] \in Range(Statements[b])
      BY <3>1, <3>2
    <3> HIDE DEF row
    <3> QED BY <2>1, <3>3
  <2>3. PICK first \in OwnRows(b) : Key(first) = Key(row)
    BY <2>1, <2>2, FirstOwnRow
  <2>4. TableOf(first) = "blocks"
    BY <2>1, <2>3 DEF TableOf
  <2> QED BY <1>3, <2>3, <2>4, StatementsByTable
<1>5. ASSUME NEW i \in 1..Len(Txs(b)) PROVE TxRow(b, Txs(b)[i]) \in OwnRows(b)
  <2> DEFINE row == TxRow(b, Txs(b)[i])
  <2>1. TableOf(row) = "transactions" /\ IsOwn(row) /\ row \in Range(Statements[b])
    BY TxRowKey, StatementRows
  <2>2. PICK first \in OwnRows(b) : Key(first) = Key(row)
    BY <2>1, FirstOwnRow
  <2>3. TableOf(first) = "transactions"
    BY <2>1, <2>2 DEF TableOf
  <2>4. PICK j \in 1..Len(Txs(b)) : first = TxRow(b, Txs(b)[j])
    BY <1>3, <2>3, StatementsByTable
  <2>5. Txs(b)[j].txNum = Txs(b)[i].txNum
    BY <2>2, <2>4, TxRowKey
  <2>6. i = j
    BY <1>1, <1>2, <2>5, RecordsDiffer
  <2> QED BY <2>4, <2>6
<1>6. ASSUME NEW i \in 1..Len(Errors(b)) PROVE ErrorRow(b, Errors(b)[i]) \in OwnRows(b)
  <2> DEFINE row == ErrorRow(b, Errors(b)[i])
  <2>1. TableOf(row) = "block_envelope_errors" /\ IsOwn(row) /\ row \in Range(Statements[b])
    BY ErrorRowKey, StatementRows
  <2>2. PICK first \in OwnRows(b) : Key(first) = Key(row)
    BY <2>1, FirstOwnRow
  <2>3. TableOf(first) = "block_envelope_errors"
    BY <2>1, <2>2 DEF TableOf
  <2>4. PICK j \in 1..Len(Errors(b)) : first = ErrorRow(b, Errors(b)[j])
    BY <1>3, <2>3, StatementsByTable
  <2>5. Errors(b)[j].txNum = Errors(b)[i].txNum
    BY <2>2, <2>4, ErrorRowKey
  <2>6. i = j
    BY <1>1, <1>2, <2>5, RecordsDiffer
  <2> QED BY <2>4, <2>6
<1> QED BY <1>4, <1>5, <1>6

LEMMA StoredRows ==
    ASSUME WholeBlocks, NEW b \in Visible
    PROVE  /\ b \in BlockNums /\ OwnRows(b) \subseteq table
           /\ \A row \in table : IsOwn(row) /\ Key(row)[2] = b => row \in Range(Statements[b])
           /\ {row \in table : TableOf(row) = "transactions" /\ Key(row)[2] = b}
                 = {TxRow(b, Txs(b)[i]) : i \in 1..Len(Txs(b))}
           /\ \A k \in 1..Len(Recs(b)) : Key(NamespaceRow(b, Recs(b)[k])) \in Keys(table)
           /\ \A n : <<"transactions", b, n>> \in Keys(table) <=> HasRecord(Txs(b), n)
           /\ \A n : <<"block_envelope_errors", b, n>> \in Keys(table) <=> HasRecord(Errors(b), n)
<1>1. b \in BlockNums /\ OwnRows(b) \subseteq table /\ Visible \subseteq BlockNums
  BY DEF WholeBlocks, Visible
<1>2. ASSUME NEW row \in table, IsOwn(row), Key(row)[2] = b
      PROVE  row \in Range(Statements[b])
  <2>1. PICK x \in Visible : row \in Range(Statements[x])
    BY DEF WholeBlocks
  <2> QED BY <1>1, <1>2, <2>1, StatementFacts
<1>3. /\ \A i \in 1..Len(Txs(b)) : TxRow(b, Txs(b)[i]) \in table
      /\ \A i \in 1..Len(Errors(b)) : ErrorRow(b, Errors(b)[i]) \in table
  BY <1>1, RowsAreOwn
<1>4. {row \in table : TableOf(row) = "transactions" /\ Key(row)[2] = b}
         = {TxRow(b, Txs(b)[i]) : i \in 1..Len(Txs(b))}
  <2>1. ASSUME NEW row \in table, TableOf(row) = "transactions", Key(row)[2] = b
        PROVE  \E i \in 1..Len(Txs(b)) : row = TxRow(b, Txs(b)[i])
    BY <1>1, <1>2, <2>1, StatementsByTable DEF IsOwn
  <2>2. \A i \in 1..Len(Txs(b)) :
           TableOf(TxRow(b, Txs(b)[i])) = "transactions" /\ Key(TxRow(b, Txs(b)[i]))[2] = b
    BY TxRowKey
  <2> QED BY <1>3, <2>1, <2>2
<1>5. ASSUME NEW k \in 1..Len(Recs(b)) PROVE Key(NamespaceRow(b, Recs(b)[k])) \in Keys(table)
  <2> DEFINE row == NamespaceRow(b, Recs(b)[k])
  <2>1. IsOwn(row) /\ row \in Range(Statements[b])
    BY <1>1, NamespaceRowKey, StatementRows
  <2>2. PICK first \in OwnRows(b) : Key(first) = Key(row)
    BY <1>1, <2>1, FirstOwnRow
  <2> QED BY <1>1, <2>2 DEF Keys
<1>6. ASSUME NEW n
      PROVE  <<"transactions", b, n>> \in Keys(table) <=> HasRecord(Txs(b), n)
  <2>1. ASSUME <<"transactions", b, n>> \in Keys(table) PROVE HasRecord(Txs(b), n)
    <3>1. PICK row \in table : Key(row) = <<"transactions", b, n>>
      BY <2>1 DEF Keys
    <3>2. TableOf(row) = "transactions" /\ Key(row)[2] = b
      BY <3>1 DEF TableOf
    <3>3. PICK i \in 1..Len(Txs(b)) : row = TxRow(b, Txs(b)[i])
      BY <1>4, <3>2
    <3>4. Txs(b)[i].txNum = n
      BY <3>1, <3>3, TxRowKey
    <3> QED BY <3>4 DEF HasRecord
  <2>2. ASSUME HasRecord(Txs(b), n) PROVE <<"transactions", b, n>> \in Keys(table)
    <3>1. PICK i \in 1..Len(Txs(b)) : Txs(b)[i].txNum = n
      BY <2>2 DEF HasRecord
    <3>2. Key(TxRow(b, Txs(b)[i])) = <<"transactions", b, n>>
      BY <3>1, TxRowKey
    <3> QED BY <1>3, <3>2 DEF Keys
  <2> QED BY <2>1, <2>2
<1>7. ASSUME NEW n
      PROVE  <<"block_envelope_errors", b, n>> \in Keys(table) <=> HasRecord(Errors(b), n)
  <2>1. ASSUME <<"block_envelope_errors", b, n>> \in Keys(table) PROVE HasRecord(Errors(b), n)
    <3>1. PICK row \in table : Key(row) = <<"block_envelope_errors", b, n>>
      BY <2>1 DEF Keys
    <3>2. TableOf(row) = "block_envelope_errors" /\ Key(row)[2] = b
      BY <3>1 DEF TableOf
    <3>3. row \in Range(Statements[b])
      BY <1>2, <3>2 DEF IsOwn
    <3>4. PICK i \in 1..Len(Errors(b)) : row = ErrorRow(b, Errors(b)[i])
      BY <1>1, <3>2, <3>3, StatementsByTable
    <3>5. Errors(b)[i].txNum = n
      BY <3>1, <3>4, ErrorRowKey
    <3> QED BY <3>5 DEF HasRecord
  <2>2. ASSUME HasRecord(Errors(b), n) PROVE <<"block_envelope_errors", b, n>> \in Keys(table)
    <3>1. PICK i \in 1..Len(Errors(b)) : Errors(b)[i].txNum = n
      BY <2>2 DEF HasRecord
    <3>2. Key(ErrorRow(b, Errors(b)[i])) = <<"block_envelope_errors", b, n>>
      BY <3>1, ErrorRowKey
    <3> QED BY <1>3, <3>2 DEF Keys
  <2> QED BY <2>1, <2>2
<1> QED BY <1>1, <1>2, <1>4, <1>5, <1>6, <1>7

LEMMA PositionsAreStored == WholeBlocks => EveryPositionHasARow
<1> SUFFICES ASSUME WholeBlocks, NEW b \in Visible
             PROVE  /\ StoredIn("transactions", b) \cap StoredIn("block_envelope_errors", b) = {}
                    /\ \A n \in Positions(Chain[b]) :
                          HasStatus(Chain[b], n) /\ ~IsCommittedConfig(b, n) =>
                             n \in StoredIn("transactions", b) \cup StoredIn("block_envelope_errors", b)
  BY DEF EveryPositionHasARow
<1>1. Chain[b] \in Blocks
  BY ChainAssumption DEF Visible
<1>2. \A n \in Positions(Chain[b]) :
         /\ n \in StoredIn("transactions", b) <=> HasRecord(Txs(b), n)
         /\ n \in StoredIn("block_envelope_errors", b) <=> HasRecord(Errors(b), n)
  BY StoredRows DEF StoredIn
<1>3. \A n \in Positions(Chain[b]) :
         /\ ~ (HasRecord(Txs(b), n) /\ HasRecord(Errors(b), n))
         /\ HasStatus(Chain[b], n) /\ ~CommittedConfig(Chain[b], n) =>
               HasRecord(Txs(b), n) \/ HasRecord(Errors(b), n)
  BY <1>1, ParseFacts DEF Txs, Errors
<1>4. \A n : IsCommittedConfig(b, n) <=> CommittedConfig(Chain[b], n)
  BY DEF IsCommittedConfig, CommittedConfig
<1>5. \A name : StoredIn(name, b) \subseteq Positions(Chain[b])
  BY DEF StoredIn
<1> QED BY <1>2, <1>3, <1>4, <1>5

(* The rows of the transactions are as many as the transactions.           *)
LEMMA TxRowsCounted ==
    ASSUME NEW b \in BlockNums
    PROVE  Cardinality({TxRow(b, Txs(b)[i]) : i \in 1..Len(Txs(b))}) = Len(Txs(b))
<1> DEFINE L == Len(Txs(b))
           T == {TxRow(b, Txs(b)[i]) : i \in 1..L}
           f == [i \in 1..L |-> TxRow(b, Txs(b)[i])]
<1>1. Chain[b] \in Blocks
  BY ChainAssumption
<1>2. InOrder(Chain[b], Txs(b)) /\ L \in Nat
  BY <1>1, ParseFacts, IsSeqFacts DEF InOrder, Txs
<1>3. \A i, j \in 1..L : f[i] = f[j] => i = j
  <2> SUFFICES ASSUME NEW i \in 1..L, NEW j \in 1..L, f[i] = f[j] PROVE i = j
    OBVIOUS
  <2>1. Key(TxRow(b, Txs(b)[i])) = Key(TxRow(b, Txs(b)[j]))
    OBVIOUS
  <2>2. Txs(b)[i].txNum = Txs(b)[j].txNum
    BY <2>1, TxRowKey
  <2> QED BY <1>1, <1>2, <2>2, RecordsDiffer
<1>4. f \in [1..L -> T] /\ \A t \in T : \E i \in 1..L : f[i] = t
  OBVIOUS
<1> HIDE DEF f, T
<1>5. f \in Bijection(1..L, T)
  BY <1>3, <1>4 DEF Bijection, Injection, Surjection, IsInjective
<1>6. ExistsBijection(1..L, T)
  BY <1>5 DEF ExistsBijection
<1>7. IsFiniteSet(1..L) /\ Cardinality(1..L) = L
  <2>1. IsFiniteSet(1..L) /\ Cardinality(1..L) = IF 1 > L THEN 0 ELSE L - 1 + 1
    BY <1>2, FS_Interval
  <2> QED BY <1>2, <2>1
<1> QED BY <1>6, <1>7, FS_Bijection DEF T

LEMMA TablesAreAlike == WholeBlocks => TablesAgree
<1> SUFFICES ASSUME WholeBlocks, NEW b \in Visible
             PROVE  LET txs   == {row \in table : TableOf(row) = "transactions" /\ Key(row)[2] = b}
                        First == CHOOSE row \in txs :
                                    \A other \in txs : Key(row)[3] <= Key(other)[3]
                        time  == IF txs = {} THEN NoTime ELSE First[2][4]
                    IN  /\ << <<"blocks", b>>, <<Cardinality(txs), time>> >> \in table
                        /\ \A row \in txs :
                              row[2][3] # NoName =>
                                 <<"tx_namespaces", b, Key(row)[3], row[2][3]>> \in Keys(table)
  BY DEF TablesAgree
<1> DEFINE parsed == Parse(Chain[b])
           L      == Len(Txs(b))
           txs    == {row \in table : TableOf(row) = "transactions" /\ Key(row)[2] = b}
           Lowest(row) == row \in txs /\ \A other \in txs : Key(row)[3] <= Key(other)[3]
           First  == CHOOSE row \in txs : \A other \in txs : Key(row)[3] <= Key(other)[3]
           time   == IF txs = {} THEN NoTime ELSE First[2][4]
<1>1. b \in BlockNums /\ Chain[b] \in Blocks
  BY ChainAssumption DEF Visible
<1>2. txs = {TxRow(b, Txs(b)[i]) : i \in 1..L}
  BY StoredRows
<1>3. /\ InOrder(Chain[b], Txs(b)) /\ IsSeq(Txs(b))
      /\ \A i \in 1..L : IsRecord(Txs(b)[i])
      /\ parsed.createdAt = IF Txs(b) = <<>> THEN NoTime ELSE Txs(b)[1].createdAt
  BY <1>1, ParseFacts DEF InOrder, Txs
<1>4. L \in Nat /\ (Txs(b) = <<>> <=> L = 0)
  BY <1>3, IsSeqFacts
<1>5. Cardinality(txs) = L
  BY <1>1, <1>2, TxRowsCounted
<1>6. \A i \in 1..L : /\ Key(TxRow(b, Txs(b)[i])) = <<"transactions", b, Txs(b)[i].txNum>>
                      /\ TxRow(b, Txs(b)[i])[2][3] = Txs(b)[i].chaincodeName
                      /\ TxRow(b, Txs(b)[i])[2][4] = Txs(b)[i].createdAt
                      /\ Txs(b)[i].txNum \in Int
  <2>1. \A i \in 1..L : Txs(b)[i].txNum \in Int
    BY <1>3 DEF InOrder, Positions
  <2> QED BY <2>1, TxRowKey
<1> HIDE DEF txs, L
<1>7. time = parsed.createdAt
  <2>1. CASE L = 0
    BY <1>2, <1>3, <1>4, <2>1
  <2>2. CASE L # 0
    <3> DEFINE one == TxRow(b, Txs(b)[1])
    <3>1. 1 \in 1..L
      BY <1>4, <2>2
    <3>2. \A i \in 1..L : Txs(b)[1].txNum <= Txs(b)[i].txNum /\ (i # 1 => Txs(b)[1].txNum < Txs(b)[i].txNum)
      <4> SUFFICES ASSUME NEW i \in 1..L
                   PROVE  Txs(b)[1].txNum <= Txs(b)[i].txNum
                          /\ (i # 1 => Txs(b)[1].txNum < Txs(b)[i].txNum)
        OBVIOUS
      <4>1. i = 1 \/ 1 < i
        BY <1>4
      <4>2. 1 < i => Txs(b)[1].txNum < Txs(b)[i].txNum
        BY <1>3, <3>1 DEF InOrder, L
      <4>3. Txs(b)[1].txNum \in Int /\ Txs(b)[i].txNum \in Int
        BY <1>6, <3>1
      <4> QED BY <4>1, <4>2, <4>3
    <3>3. one \in txs /\ txs # {}
      BY <1>2, <3>1
    <3>4. \A row \in txs : Key(one)[3] <= Key(row)[3]
      BY <1>2, <1>6, <3>1, <3>2
    <3>5. \A row \in txs : (\A other \in txs : Key(row)[3] <= Key(other)[3]) => row = one
      <4> SUFFICES ASSUME NEW row \in txs, \A other \in txs : Key(row)[3] <= Key(other)[3]
                   PROVE  row = one
        OBVIOUS
      <4>1. PICK i \in 1..L : row = TxRow(b, Txs(b)[i])
        BY <1>2
      <4>2. Key(row)[3] <= Key(one)[3]
        BY <3>3
      <4>3. Txs(b)[i].txNum <= Txs(b)[1].txNum /\ Txs(b)[i].txNum \in Int /\ Txs(b)[1].txNum \in Int
        BY <1>6, <3>1, <4>1, <4>2
      <4>4. i = 1
        BY <3>2, <4>3
      <4> QED BY <4>1, <4>4
    <3> HIDE DEF one
    <3>6. First = one
      BY <3>3, <3>4, <3>5
    <3>7. First[2][4] = Txs(b)[1].createdAt
      BY <1>6, <3>1, <3>6 DEF one
    <3> QED BY <1>3, <1>4, <2>2, <3>3, <3>7
  <2> QED BY <2>1, <2>2
<1>8. BlockRow(b, parsed) = << <<"blocks", b>>, <<Cardinality(txs), time>> >>
  BY <1>5, <1>7 DEF BlockRow, L, Txs
<1>9. BlockRow(b, parsed) \in table
  BY <1>1, RowsAreOwn, StoredRows
<1>10. ASSUME NEW row \in txs, row[2][3] # NoName
       PROVE  <<"tx_namespaces", b, Key(row)[3], row[2][3]>> \in Keys(table)
  <2>1. PICK i \in 1..L : row = TxRow(b, Txs(b)[i])
    BY <1>2
  <2> DEFINE tx == Txs(b)[i]
  <2>2. row[2][3] = tx.chaincodeName /\ Key(row)[3] = tx.txNum
    BY <1>6, <2>1
  <2>3. Len(tx.namespaces) >= 1 /\ tx.namespaces[1].nsId = tx.chaincodeName /\ IsSeq(tx.namespaces)
    BY <1>3, <1>10, <2>2 DEF IsRecord
  <2>4. 1 \in 1..Len(tx.namespaces)
    BY <2>3, IsSeqFacts
  <2>5. PICK k \in 1..Len(Recs(b)) : Recs(b)[k].txNum = tx.txNum /\ Recs(b)[k].ns = tx.namespaces[1]
    BY <1>1, <2>4, RecsFacts DEF L
  <2>6. Key(NamespaceRow(b, Recs(b)[k])) = <<"tx_namespaces", b, Key(row)[3], row[2][3]>>
    BY <2>2, <2>3, <2>5, NamespaceRowKey
  <2> QED BY <2>6, StoredRows
<1> QED BY <1>8, <1>9, <1>10 DEF txs

(* 001_initial_schema.sql:123: every position of a stored block that has a  *)
(* status and is not a committed config envelope has a row, and in exactly *)
(* one of the two tables, whatever the block holds.                        *)
THEOREM PositionsStored == Spec => []EveryPositionHasARow
BY BlocksAreWhole, PositionsAreStored, PTL

(* tx_count counts the rows of transactions, a block has the time of its    *)
(* first stored transaction (parser.go:96), and a transaction that is named *)
(* after a namespace has a row for it.                                     *)
THEOREM TablesAlwaysAgree == Spec => []TablesAgree
BY BlocksAreWhole, TablesAreAlike, PTL

-----------------------------------------------------------------------------
(* What transactions wait for. *)

(* A transaction that holds a row has executed the first statement of its   *)
(* block, so it holds the row of the block unless the block is stored.     *)
LEMMA HoldsItsBlock ==
    ASSUME IInv, NEW s \in Sessions, txn[s].pos > 1, Busy(s), txn[s].blk \notin Visible
    PROVE  <<"blocks", txn[s].blk>> \in Keys(txn[s].puts)
<1> DEFINE b == txn[s].blk
<1>1. b \in BlockNums
  BY DEF IInv, BusyWithABlock
<1>2. txn[s].pos \in Nat
  BY DEF IInv, TypeOK
<1>3. 1 \in 1..(txn[s].pos - 1)
  BY <1>2
<1>4. Key(Statements[b][1]) \in Keys(table) \cup Keys(txn[s].puts)
  BY <1>3 DEF IInv, ExecutedIsThere
<1>5. Key(Statements[b][1]) = <<"blocks", b>>
  BY <1>1, StatementFacts
<1> QED BY <1>1, <1>4, <1>5 DEF Visible

(* Whoever is waited for is busy and past its first statement.             *)
LEMMA HoldersAreBusy ==
    ASSUME IInv, NEW s \in Sessions, txn[s].puts # {}
    PROVE  Busy(s) /\ txn[s].pos > 1
<1>1. txn[s].pos \in Nat
  BY DEF IInv, TypeOK
<1>2. PICK row \in txn[s].puts : TRUE
  OBVIOUS
<1>3. PICK i \in 1..(txn[s].pos - 1) : row = Statements[txn[s].blk][i]
  BY DEF IInv, PutsWereExecuted
<1>4. Busy(s)
  BY DEF IInv, TypeOK, Busy, Idle
<1> QED BY <1>1, <1>3, <1>4

LEMMA ContentionFacts == IInv => OnlyPoliciesContend
<1> SUFFICES ASSUME IInv, NEW s \in Sessions, NEW t \in Sessions, WaitsFor(s, t),
                    IsOwn(Statement(s))
             PROVE  txn[s].blk = txn[t].blk /\ txn[s].pos = 1
  BY DEF OnlyPoliciesContend, IsOwn
<1> DEFINE b    == txn[s].blk
           next == Statement(s)
<1>1. s # t /\ Busy(s) /\ txn[s].pos \in Nat \ {0}
  BY DEF WaitsFor, Open, Busy, IInv, TypeOK
<1>2. b \in BlockNums /\ next \in Range(Statements[b])
  <2>1. b \in BlockNums
    BY <1>1 DEF IInv, BusyWithABlock
  <2>2. txn[s].pos \in 1..Len(Statements[b])
    BY <1>1, <2>1, StatementFacts DEF WaitsFor, AllDone
  <2>3. Range(Statements[b]) = {Statements[b][i] : i \in 1..Len(Statements[b])}
    BY <2>1, StatementFacts
  <2> QED BY <2>1, <2>2, <2>3 DEF Statement
<1>3. PICK row \in txn[t].puts : Key(row) = Key(next)
  BY DEF WaitsFor, Keys
<1>4. IsOwn(row)
  BY <1>3 DEF IsOwn, TableOf
<1>5. Busy(t) /\ txn[t].pos > 1
  BY HoldersAreBusy
<1>6. txn[t].blk \in BlockNums
  BY <1>5 DEF IInv, BusyWithABlock
<1>7. row \in OwnRows(txn[t].blk) /\ txn[t].blk \notin Visible
  BY <1>4 DEF IInv, OwnPutsAreNew
<1>8. b = txn[t].blk
  <2>1. row \in Range(Statements[txn[t].blk])
    BY <1>6, <1>7, OwnRowsFacts
  <2>2. Key(row)[2] = txn[t].blk
    BY <1>4, <1>6, <2>1, StatementFacts
  <2>3. Key(next)[2] = b
    BY <1>2, StatementFacts
  <2> QED BY <1>3, <2>2, <2>3
<1>9. txn[s].pos = 1
  <2>1. SUFFICES ASSUME txn[s].pos > 1 PROVE FALSE
    BY <1>1
  <2>2. <<"blocks", b>> \in Keys(txn[s].puts) /\ <<"blocks", b>> \in Keys(txn[t].puts)
    BY <1>1, <1>5, <1>7, <1>8, <2>1, HoldsItsBlock
  <2> QED BY <1>1, <2>2 DEF IInv, KeysAreLocked
<1> QED BY <1>8, <1>9

(* A transaction on a cycle of waiting ones is about to write a policy.     *)
DeadlocksAreOverPolicies ==
    \A s \in Sessions : Deadlocked(s) => TableOf(Statement(s)) = "namespace_policies"

LEMMA DeadlockFacts == IInv => DeadlocksAreOverPolicies
<1> SUFFICES ASSUME IInv, NEW s \in Sessions, Deadlocked(s)
             PROVE  TableOf(Statement(s)) = "namespace_policies"
  BY DEF DeadlocksAreOverPolicies
<1>1. PICK y \in Sessions, z \in Sessions : WaitsFor(s, y) /\ WaitsFor(z, s)
  BY DEF Deadlocked
<1>2. txn[s].puts # {}
  BY <1>1 DEF WaitsFor, Keys
<1>3. txn[s].pos # 1
  BY <1>2, HoldersAreBusy
<1> QED BY <1>1, <1>3, ContentionFacts DEF OnlyPoliciesContend

(* db_writer.go:52: writers of different blocks wait for each other over    *)
(* policies only, and two of one block only at their first statement.      *)
THEOREM ContentionIsOverPolicies == Spec => []OnlyPoliciesContend
BY Invariance, ContentionFacts, PTL

(* However many writers there are, every deadlock is one of transactions    *)
(* that are about to write policies: blocks without any take part in none. *)
THEOREM NoOtherDeadlocks == Spec => []DeadlocksAreOverPolicies
BY Invariance, DeadlockFacts, PTL

-----------------------------------------------------------------------------
(* Every write that waits waits for one that can proceed. *)

(* A transaction that waits for no other, or that the server will end.      *)
MayProceed(s) ==
    \/ Lost(s)
    \/ Open(s) /\ (AllDone(s) \/ \A t \in Sessions : ~WaitsFor(s, t))
    \/ Deadlocked(s)

(* Sessions with all that they wait for. *)
ClosedUnderWaiting(group) ==
    \A s \in group : \A t \in Sessions : WaitsFor(s, t) => t \in group

(* Where everyone waits for another there is a cycle: a smallest set in     *)
(* which everyone waits for a member is one, since a member that nobody in *)
(* it waits for could be left out.                                         *)
LEMMA WaitingInCircles ==
    ASSUME NEW group \in SUBSET Sessions, group # {},
           \A s \in group : \E t \in group : WaitsFor(s, t)
    PROVE  \E s \in group : Deadlocked(s)
<1> DEFINE Waiting(set) == set # {} /\ \A s \in set : \E t \in set : WaitsFor(s, t)
           Sizes == {Cardinality(set) : set \in {x \in SUBSET group : Waiting(x)}}
<1>1. ASSUME NEW set \in SUBSET group
      PROVE  IsFiniteSet(set) /\ Cardinality(set) \in Nat
  BY SessionsAssumption, FS_Subset, FS_CardinalityType
<1>2. Sizes \subseteq Nat /\ Cardinality(group) \in Sizes
  BY <1>1
<1>3. PICK least \in Sizes : \A size \in Sizes : least <= size
  BY <1>2, NatHasLeast
<1>4. PICK cycle \in SUBSET group : Waiting(cycle) /\ Cardinality(cycle) = least
  OBVIOUS
<1>5. ASSUME NEW x \in cycle PROVE \E z \in cycle : WaitsFor(z, x)
  <2> SUFFICES ASSUME \A z \in cycle : ~WaitsFor(z, x) PROVE FALSE
    OBVIOUS
  <2> DEFINE rest == cycle \ {x}
  <2>1. \A s \in rest : \E t \in rest : WaitsFor(s, t)
    BY <1>4
  <2>2. rest # {}
    BY <1>4 DEF WaitsFor
  <2>3. Cardinality(rest) \in Sizes
    BY <2>1, <2>2
  <2>4. Cardinality(rest) = Cardinality(cycle) - 1 /\ Cardinality(cycle) \in Nat
    BY <1>1, FS_RemoveElement
  <2>5. least <= Cardinality(rest)
    BY <1>3, <2>3
  <2> QED BY <1>4, <2>4, <2>5
<1>6. \A x \in cycle : \E y, z \in cycle : WaitsFor(x, y) /\ WaitsFor(z, x)
  BY <1>4, <1>5
<1>7. PICK s \in cycle : TRUE
  BY <1>4
<1> QED BY <1>6, <1>7 DEF Deadlocked

SomebodyProceeds ==
    \A s \in Sessions : \A group \in SUBSET Sessions :
        Busy(s) /\ s \in group /\ ClosedUnderWaiting(group) => \E x \in group : MayProceed(x)

LEMMA ProceedingFacts == IInv => SomebodyProceeds
<1> SUFFICES ASSUME IInv, NEW s \in Sessions, NEW group \in SUBSET Sessions,
                    Busy(s), s \in group, ClosedUnderWaiting(group),
                    \A x \in group : ~MayProceed(x)
             PROVE  FALSE
  BY DEF SomebodyProceeds
<1> DEFINE waiting == {x \in group : Busy(x)}
<1>1. ASSUME NEW x \in waiting PROVE \E y \in waiting : WaitsFor(x, y)
  <2>1. Open(x) \/ Lost(x)
    BY DEF IInv, TypeOK, Busy, Open, Lost
  <2>2. PICK y \in Sessions : WaitsFor(x, y)
    BY <2>1 DEF MayProceed
  <2>3. y \in group
    BY <2>2 DEF ClosedUnderWaiting
  <2>4. Busy(y)
    BY <2>2, HoldersAreBusy DEF WaitsFor, Keys
  <2> QED BY <2>2, <2>3, <2>4
<1>2. PICK x \in waiting : Deadlocked(x)
  <2>1. waiting \in SUBSET Sessions /\ waiting # {}
    OBVIOUS
  <2> HIDE DEF waiting
  <2> QED BY <1>1, <2>1, WaitingInCircles
<1> QED BY <1>2 DEF MayProceed

(* What EveryWriteEnds rests on, for every number of writers: whatever a    *)
(* write waits for, and those wait for in turn, there is one among them    *)
(* that can execute or commit, that the server ends because its client is  *)
(* gone, or that it ends because of a deadlock.                            *)
THEOREM WritesProceed == Spec => []SomebodyProceeds
BY Invariance, ProceedingFacts, PTL
=============================================================================
