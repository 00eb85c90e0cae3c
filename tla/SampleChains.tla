---------------------------- MODULE SampleChains ----------------------------
(* Small chains with every kind of envelope, as BlockParser represents      *)
(* them, for the model checking runs.                                      *)
EXTENDS Integers, Sequences

NoTx == [ok |-> FALSE, namespaces |-> <<>>, endorsements |-> <<>>]
NoPolicies == [ok |-> FALSE, items |-> <<>>]
NoConfig == [ok |-> FALSE, version |-> 0, envelope |-> ""]

(* The time of an envelope is left out unless a chain gives it. *)
Envelope(type, txId, policies, config, tx) ==
    [readable |-> TRUE, type |-> type, txId |-> txId, time |-> 0,
     asPolicies |-> policies, asConfig |-> config, asTx |-> tx]

At(time, env) == [env EXCEPT !.time = time]

Garbage == [Envelope("", "", NoPolicies, NoConfig, NoTx) EXCEPT !.readable = FALSE]

Config(policy) ==
    Envelope("CONFIG", "", NoPolicies, [ok |-> TRUE, version |-> 0, envelope |-> policy], NoTx)

Item(ns, version, policy) == [namespace |-> ns, version |-> version, policy |-> policy]

PolicyUpdate(items) ==
    Envelope("CONFIG", "", [ok |-> TRUE, items |-> items], NoConfig, NoTx)

Tx(id, namespaces, endorsements) ==
    Envelope("MESSAGE", id, NoPolicies, NoConfig,
             [ok |-> TRUE, namespaces |-> namespaces, endorsements |-> endorsements])

Empty(id) == [nsId |-> id, readsOnly |-> <<>>, readWrites |-> <<>>, blindWrites |-> <<>>]
Reads(id, keys)  == [Empty(id) EXCEPT !.readsOnly = keys]
Updates(id, kvs) == [Empty(id) EXCEPT !.readWrites = kvs]
Writes(id, kvs)  == [Empty(id) EXCEPT !.blindWrites = kvs]

(* A config block, a block of transactions, an updated configuration with a *)
(* transaction that names one namespace twice and one without a rwset.     *)
MixedChain ==
    [b \in 0..2 |->
        CASE b = 0 -> [data |-> << Config("genesis") >>, filter |-> << "COMMITTED" >>]
          [] b = 1 -> [data   |-> << At(4, Garbage),
                                     At(5, Tx("t1", << Updates("a", <<"k">>) >>, << <<"", "e">> >>)),
                                     Tx("t1", << Writes("a", <<"k">>) >>, <<>>) >>,
                       filter |-> << "MALFORMED", "COMMITTED", "REJECTED_DUPLICATE_TX_ID" >>]
          [] b = 2 -> [data   |-> << At(6, Config("update")),
                                     At(7, Tx("t2", << Writes("a", <<"x">>), Writes("a", <<"y">>) >>,
                                              <<>>)),
                                     Envelope("MESSAGE", "t3", NoPolicies, NoConfig, NoTx) >>,
                       filter |-> << "COMMITTED", "MALFORMED", "COMMITTED" >>]]

(* MixedChain with policy updates: blocks 1 and 2 lock the policies of two  *)
(* namespaces in opposite order.                                           *)
ContendedChain ==
    [b \in 0..2 |->
        LET blk   == MixedChain[b]
            items == IF b = 1 THEN << Item("a", 0, "p"), Item("", 0, "q") >>
                     ELSE << Item("", 0, "r"), Item("a", 0, "s") >>
        IN  IF b = 0 THEN blk
            ELSE [data   |-> Append(blk.data, PolicyUpdate(items)),
                  filter |-> Append(blk.filter, "COMMITTED")]]

(* Two transactions after a configuration, block 1 of MixedChain with a     *)
(* newer policy, and a block without transactions.                         *)
ReadChain ==
    [b \in 0..2 |->
        CASE b = 0 -> [data |-> << Config("channel"),
                                   Tx("t0", << Updates("a", <<"k">>) >>, <<>>),
                                   Tx("t2", << Reads("b", <<>>) >>, <<>>) >>,
                       filter |-> << "COMMITTED", "COMMITTED", "ABORTED" >>]
          [] b = 1 -> [data   |-> Append(MixedChain[1].data,
                                         PolicyUpdate(<< Item("", 1, "rule"), Item("a", 0, "orgs") >>)),
                       filter |-> Append(MixedChain[1].filter, "COMMITTED")]
          [] b = 2 -> [data |-> <<>>, filter |-> <<>>]]

(* The statuses of transactions that are kept under their id. *)
Kept == {"COMMITTED", "ABORTED", "MALFORMED"}
=============================================================================
