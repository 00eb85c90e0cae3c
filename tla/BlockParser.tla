---------------------------- MODULE BlockParser ----------------------------
(***************************************************************************)
(* pkg/parser: what a block of the committer becomes before it is stored.  *)
(*                                                                         *)
(* A block is [data, filter]: its envelopes in order and the statuses the  *)
(* committer gave them, positions from 0.  An envelope is what can be read *)
(* out of its bytes:                                                       *)
(*   readable  the envelope, its payload and its channel header unmarshal  *)
(*   type      the type of the channel header                              *)
(*   txId      its transaction id, "" when there is none                   *)
(*   time      the timestamp of its channel header, NoTime without one      *)
(*   asPolicies, asConfig, asTx                                            *)
(*             the payload read as a NamespacePolicies, ConfigTransaction  *)
(*             and Tx message, each with a field "ok"                      *)
(* Policies, keys, values and endorsements are opaque; "" stands for empty *)
(* bytes.  Blocks that Parse rejects as a whole are BlockPipeline's          *)
(* Unparsable.                                                             *)
(*                                                                         *)
(* A list that some elements are left out of is flattened from lists of at *)
(* most one element.                                                       *)
(***************************************************************************)
EXTENDS Integers, Sequences, SequencesExt

(* sidecar.IsStatusStoredInDB: the statuses of transactions the committer  *)
(* keeps under their id.                                                   *)
CONSTANT StoredStatuses

MetaNamespaceID == "_meta"
ConfigTypes == {"CONFIG", "CONFIG_UPDATE"}

(* What a column holds that has no value. *)
NoTime == 0
NoName == ""

(* The messages. *)
PolicyItems == [namespace : STRING, version : Nat, policy : STRING]

TxNamespaces ==
    [nsId : STRING, readsOnly : Seq(STRING), readWrites : Seq(STRING), blindWrites : Seq(STRING)]

Envelopes ==
    [readable   : BOOLEAN, type : STRING, txId : STRING, time : Int,
     asPolicies : [ok : BOOLEAN, items : Seq(PolicyItems)],
     asConfig   : [ok : BOOLEAN, version : Nat, envelope : STRING],
     asTx       : [ok : BOOLEAN, namespaces : Seq(TxNamespaces), endorsements : Seq(Seq(STRING))]]

Blocks == [data : Seq(Envelopes), filter : Seq(STRING)]

-----------------------------------------------------------------------------
(* Policies.  An empty sequence is the "not a policy update" of the code. *)

PolicyRecord(item) ==
    [namespace |-> IF item.namespace = "" THEN MetaNamespaceID ELSE item.namespace,
     version   |-> item.version,
     policy    |-> item.policy]

(* A policy without bytes is skipped. *)
PolicyRecords(item) == IF item.policy = "" THEN <<>> ELSE << PolicyRecord(item) >>

NamespacePolicies(env) ==
    IF env.asPolicies.ok
    THEN FlattenSeq([i \in DOMAIN env.asPolicies.items |-> PolicyRecords(env.asPolicies.items[i])])
    ELSE <<>>

ConfigTxPolicy(env) ==
    IF env.asConfig.ok /\ env.asConfig.envelope # ""
    THEN << [namespace |-> MetaNamespaceID,
             version   |-> env.asConfig.version,
             policy    |-> env.asConfig.envelope] >>
    ELSE <<>>

Policies(env) ==
    IF env.type \notin ConfigTypes THEN <<>>
    ELSE IF NamespacePolicies(env) # <<>> THEN NamespacePolicies(env)
    ELSE ConfigTxPolicy(env)

(* Policies taken from every config envelope, whatever became of it. *)
AnyPolicies(env, code) == Policies(env)

CommittedPolicies(env, code) == IF code = "COMMITTED" THEN Policies(env) ELSE <<>>

-----------------------------------------------------------------------------
(* Transactions. *)

(* The endorsements that have bytes. *)
EndorsementsFromSlice(list) ==
    FlattenSeq([j \in DOMAIN list |-> IF list[j] = "" THEN <<>> ELSE << list[j] >>])

(* The endorsements of a namespace stand at its own index of the second list. *)
NamespaceRecord(tx, i) ==
    [nsId         |-> tx.namespaces[i].nsId,
     readsOnly    |-> tx.namespaces[i].readsOnly,
     readWrites   |-> tx.namespaces[i].readWrites,
     blindWrites  |-> tx.namespaces[i].blindWrites,
     endorsements |-> IF i \in DOMAIN tx.endorsements
                      THEN EndorsementsFromSlice(tx.endorsements[i]) ELSE <<>>]

NamespaceRecords(tx) == [i \in DOMAIN tx.namespaces |-> NamespaceRecord(tx, i)]

(* A transaction is named after its first namespace. *)
ChaincodeName(env) ==
    IF env.asTx.ok /\ env.asTx.namespaces # <<>> THEN env.asTx.namespaces[1].nsId ELSE NoName

(* A payload that is no Tx leaves a minimal record, without namespaces. *)
TxRecord(n, env, code) ==
    [txNum         |-> n,
     txId          |-> env.txId,
     code          |-> code,
     createdAt     |-> env.time,
     chaincodeName |-> ChaincodeName(env),
     namespaces    |-> IF env.asTx.ok THEN NamespaceRecords(env.asTx) ELSE <<>>]

EnvelopeError(n, code, txId) == [txNum |-> n, code |-> code, txId |-> txId]

Result(txs, policies, errors) ==
    [transactions |-> txs, policies |-> policies, envelopeErrors |-> errors]

(* A classification that forgets a transaction the committer did not keep. *)
HandleTxDropsUnstored(n, env, code) ==
    IF ~env.readable \/ env.txId = ""
    THEN Result(<<>>, CommittedPolicies(env, code), << EnvelopeError(n, code, "") >>)
    ELSE IF code \notin StoredStatuses
    THEN Result(<<>>, <<>>, <<>>)
    ELSE Result(<< TxRecord(n, env, code) >>, <<>>, <<>>)

(* A classification that keeps what the committer did not. *)
HandleTxKeepsUnstored(n, env, code) ==
    IF ~env.readable \/ env.txId = ""
    THEN Result(<<>>, CommittedPolicies(env, code), << EnvelopeError(n, code, "") >>)
    ELSE Result(<< TxRecord(n, env, code) >>, <<>>, <<>>)

(* The early returns of handleTx, in their order. *)
HandleTx(n, env, code) ==
    LET policies == CommittedPolicies(env, code)
    IN  IF ~env.readable
        THEN Result(<<>>, <<>>, << EnvelopeError(n, code, "") >>)
        ELSE IF policies # <<>>
        THEN Result(<<>>, policies, <<>>)
        ELSE IF env.txId = ""
        THEN Result(<<>>, <<>>, << EnvelopeError(n, code, "") >>)
        ELSE IF code \notin StoredStatuses
        THEN Result(<<>>, <<>>, << EnvelopeError(n, code, env.txId) >>)
        ELSE Result(<< TxRecord(n, env, code) >>, <<>>, <<>>)

-----------------------------------------------------------------------------
(* The loop over a block. *)

(* The positions of a block, and those the filter has a status for. *)
Positions(block) == 0..(Len(block.data) - 1)
HasStatus(block, n) == n < Len(block.filter)

Handled(block, n) ==
    IF HasStatus(block, n)
    THEN HandleTx(n, block.data[n + 1], block.filter[n + 1])
    ELSE Result(<<>>, <<>>, <<>>)

(* The results of the positions, appended in their order. *)
ParseTxData(block) ==
    LET positions == 1..Len(block.data)
    IN  Result(FlattenSeq([i \in positions |-> Handled(block, i - 1).transactions]),
               FlattenSeq([i \in positions |-> Handled(block, i - 1).policies]),
               FlattenSeq([i \in positions |-> Handled(block, i - 1).envelopeErrors]))

(* A block that takes its time from its first envelope. *)
BlockTimeOfEnvelope(block, txs) == IF block.data = <<>> THEN NoTime ELSE block.data[1].time

(* A block has the time of the first transaction that is stored of it. *)
BlockTime(block, txs) == IF txs = <<>> THEN NoTime ELSE txs[1].createdAt

Parse(block) ==
    LET parsed == ParseTxData(block)
    IN  [createdAt      |-> BlockTime(block, parsed.transactions),
         transactions   |-> parsed.transactions,
         policies       |-> parsed.policies,
         envelopeErrors |-> parsed.envelopeErrors]
=============================================================================
