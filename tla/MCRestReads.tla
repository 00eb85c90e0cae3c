---------------------------- MODULE MCRestReads ----------------------------
(* RestReads with a chain, and what the bytes of its policies read as. *)
EXTENDS RestReads, SampleChains

(* The names of groups and policies of a channel, sorted. *)
ChannelNames == <<"Admins", "Application", "Consortiums", "Deep", "Org1", "Org2", "Readers", "Writers">>

NoNames == [name \in {} |-> <<>>]

Peer(org)   == [class |-> "ROLE", ok |-> TRUE, mspId |-> org, unit |-> "peer"]
Opaque(key) == [class |-> "IDENTITY", ok |-> FALSE, bytes |-> key]

SignedBy(i)    == [type |-> "signed_by", idx |-> i]
NOutOf(n, seq) == [type |-> "n_out_of", n |-> n, rules |-> seq]

SignedPolicy(rule, ids) ==
    [type |-> "SIGNATURE", ok |-> TRUE, envelope |-> [rule |-> rule, ids |-> ids]]
MetaPolicy(rule, sub) == [type |-> "IMPLICIT_META", ok |-> TRUE, rule |-> rule, subPolicy |-> sub]
OtherPolicy == [type |-> "MSP", ok |-> TRUE]

Either == NOutOf(1, << SignedBy(0), SignedBy(1) >>)
SampleParts == {SignedBy(0), SignedBy(1), SignedBy(2), Either, [type |-> "none"]}

Group(policies, groups) == [policies |-> policies, groups |-> groups]

OneOrg(org) == Group("Admins" :> SignedPolicy(NOutOf(1, << SignedBy(0) >>), << Peer(org) >>), NoNames)

(* Four levels that are shown, and a fifth that is not. *)
Channel ==
    Group("Admins" :> MetaPolicy("MAJORITY", "Admins") @@ "Writers" :> OtherPolicy,
          "Application" :> Group("Readers" :> MetaPolicy("ANY", "Readers"), "Org1" :> OneOrg("o1"))
          @@ "Consortiums" :> Group(NoNames, "Org1" :> Group(NoNames, "Org2" :>
                Group("Admins" :> SignedPolicy(NOutOf(0, <<>>), << Peer("o2") >>),
                      "Deep" :> OneOrg("o2")))))

NoReading ==
    [wrapped |-> TRUE, signature |-> Absence, group |-> Absence, config |-> Absence,
     envelope |-> Absence, configEnvelope |-> Absence, certs |-> <<>>, mspIds |-> <<>>,
     endpoints |-> <<>>, hashes |-> {}]

(* The configuration of a channel also reads as a rule of 0 signatures and   *)
(* as an empty group; a rule also reads as bytes that name hash algorithms. *)
SampleReadings ==
    [bytes \in {"channel", "rule", "orgs"} |->
        CASE bytes = "channel" ->
               [NoReading EXCEPT
                   !.signature = [rule |-> NOutOf(0, <<>>), ids |-> << Opaque("x") >>],
                   !.group = Group(NoNames, NoNames),
                   !.envelope = Channel,
                   !.certs = [i \in 1..11 |-> i],
                   !.mspIds = <<"o1", "o2", "o1">>]
          [] bytes = "rule" ->
               [NoReading EXCEPT
                   !.signature = [rule |-> NOutOf(2, << SignedBy(0), Either, SignedBy(2),
                                                        [type |-> "none"] >>),
                                  ids  |-> << Peer("o1"), Opaque("y") >>],
                   !.hashes = {"SHA256", "SHA384"}]
          [] bytes = "orgs" ->
               [NoReading EXCEPT !.mspIds = <<"o1", "o1">>, !.endpoints = <<"host:7050">>]]
=============================================================================
