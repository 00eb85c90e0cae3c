---------------------------- MODULE PolicyRender ----------------------------
(***************************************************************************)
(* pkg/api/policy_decoder.go and policy_render.go: what the bytes of a     *)
(* stored policy are shown as.                                             *)
(*                                                                         *)
(* The bytes of a policy are an opaque name; Readings says what each of    *)
(* the messages the code tries finds in them, whether it is what the       *)
(* bytes were meant as or not:                                             *)
(*   wrapped         the JSON and base64 around the bytes can be read      *)
(*   signature       a SignaturePolicyEnvelope [rule, ids], or Absence      *)
(*   group, config, envelope, configEnvelope                               *)
(*                   the channel group found when they are read as that    *)
(*                   message, [policies, groups], or Absence               *)
(*   certs, mspIds, endpoints, hashes                                      *)
(*                   what the patterns match in them                       *)
(* Text is a sequence that starts with what it says; <<>> is the empty     *)
(* text, and the lines of a tree of policies are <<path, name, text>>.      *)
(***************************************************************************)
EXTENDS Integers, Sequences, SequencesExt

CONSTANTS
    Readings,     (* for the bytes of each policy, what they read as        *)
    NameOrder,    (* the names of groups and policies, in their order       *)
    Parts         (* the rules that the rules of policies are made of       *)

NoText  == <<>>
Absence == <<>>

(* The first of some values, and none if there are none. *)
FirstOf(seq, none) == IF seq = <<>> THEN none ELSE seq[1]

-----------------------------------------------------------------------------
(* Signature policies *)

RenderPrincipal(p) ==
    IF p.class \in {"ROLE", "ORGANIZATION_UNIT"} /\ p.ok
    THEN <<"member", p.mspId, p.unit>>
    ELSE <<"principal bytes", p.bytes>>

(* The text of a rule, from those of its parts.  Identities are numbered    *)
(* from 0.                                                                 *)
RuleText(rule, ids, text) ==
    CASE rule.type = "signed_by" /\ rule.idx < Len(ids) -> RenderPrincipal(ids[rule.idx + 1])
      [] rule.type = "signed_by" /\ rule.idx >= Len(ids) -> <<"principal", rule.idx>>
      [] rule.type = "n_out_of" ->
            <<"of", rule.n, [i \in DOMAIN rule.rules |-> text[rule.rules[i]]]>>
      [] OTHER -> NoText

RenderRule(rule, ids) ==
    LET text[part \in Parts] == RuleText(part, ids, text)
    IN  RuleText(rule, ids, text)

RenderSignaturePolicy(env) ==
    IF env.rule = Absence THEN NoText ELSE RenderRule(env.rule, env.ids)

(* A test that takes every text for an expression. *)
IsAnyPolicyExpression(text) == text # NoText

(* isValidPolicyExpression: other messages, read as a signature policy, say *)
(* 0 of something.                                                         *)
IsValidPolicyExpression(text) == text # NoText /\ ~(text[1] = "of" /\ text[2] = 0)

-----------------------------------------------------------------------------
(* Trees of policies *)

RenderConfigPolicy(cp) ==
    CASE cp.type = "SIGNATURE" /\ cp.ok -> RenderSignaturePolicy(cp.envelope)
      [] cp.type = "IMPLICIT_META" /\ cp.ok -> <<"meta", cp.rule, cp.subPolicy>>
      [] OTHER -> NoText

(* What each name of a map stands for, in the order of the names. *)
InNameOrder(lines) ==
    FlattenSeq([i \in DOMAIN NameOrder |->
        IF NameOrder[i] \in DOMAIN lines THEN lines[NameOrder[i]] ELSE <<>>])

(* The policies of a group that have a text, and what is below its groups. *)
GroupLines(path, group, below) ==
    LET Text(name) == RenderConfigPolicy(group.policies[name])
        own == [name \in DOMAIN group.policies |->
                   IF Text(name) = NoText THEN <<>> ELSE << <<path, name, Text(name)>> >>]
    IN  InNameOrder(own) \o InNameOrder(below)

(* renderConfigGroupTree at a depth: nothing is shown below maxDepth = 3.  *)
TreeAtDepth3(path, group) ==
    GroupLines(path, group, [name \in DOMAIN group.groups |-> <<>>])

TreeAtDepth2(path, group) ==
    GroupLines(path, group, [name \in DOMAIN group.groups |->
                                TreeAtDepth3(Append(path, name), group.groups[name])])

TreeAtDepth1(path, group) ==
    GroupLines(path, group, [name \in DOMAIN group.groups |->
                                TreeAtDepth2(Append(path, name), group.groups[name])])

RenderConfigGroupTree(path, group) ==
    GroupLines(path, group, [name \in DOMAIN group.groups |->
                                TreeAtDepth1(Append(path, name), group.groups[name])])

TreeOf(group) ==
    LET lines == IF group = Absence THEN <<>> ELSE RenderConfigGroupTree(<<>>, group)
    IN  IF lines = <<>> THEN NoText ELSE <<"tree", lines>>

(* As a group the bytes count only if they have a policy or a group. *)
RenderConfigTree(bytes) ==
    LET group == Readings[bytes].group
        IsGroup == group # Absence /\ (DOMAIN group.policies # {} \/ DOMAIN group.groups # {})
        tree == IF IsGroup THEN TreeOf(group) ELSE NoText
    IN  IF tree # NoText THEN tree ELSE TreeOf(Readings[bytes].config)

RenderEnvelopeConfigTree(bytes) == TreeOf(Readings[bytes].envelope)

-----------------------------------------------------------------------------
(* What patterns find in the bytes *)

(* FindAllString with a limit. *)
MaxCerts == 10
ExtractCerts(bytes) ==
    LET found == Readings[bytes].certs
    IN  IF Len(found) <= MaxCerts THEN found ELSE SubSeq(found, 1, MaxCerts)

(* The matches without repetitions, in the order of their first. *)
Unique(matches) ==
    FoldLeft(LAMBDA seen, x : IF Contains(seen, x) THEN seen ELSE Append(seen, x), <<>>, matches)

ExtractMspIDs(bytes)    == Unique(Readings[bytes].mspIds)
ExtractEndpoints(bytes) == Unique(Readings[bytes].endpoints)

HashAlgorithms == <<"SHA3_256", "SHA256", "SHA384">>

(* The first algorithm of the list that the bytes name. *)
ExtractHashAlgorithm(bytes) ==
    FirstOf(SelectSeq(HashAlgorithms, LAMBDA h : h \in Readings[bytes].hashes), "")

BuildDecodedSummary(dec) ==
    IF dec.mspIds = <<>> /\ dec.endpoints = <<>> /\ dec.hashAlgorithm = "" THEN NoText
    ELSE <<"summary", dec.mspIds, dec.endpoints, dec.hashAlgorithm>>

-----------------------------------------------------------------------------
(* The first of some texts that says anything. *)
FirstText(texts) ==
    LET said == {i \in DOMAIN texts : texts[i] # NoText}
    IN  IF said = {} THEN NoText ELSE texts[Min(said)]

(* The readings in the order in which they are tried. *)
RenderPolicyExpression(bytes, dec) ==
    LET env       == Readings[bytes].signature
        signature == IF env # Absence /\ env.ids # <<>> THEN RenderSignaturePolicy(env) ELSE NoText
        texts     == << IF IsValidPolicyExpression(signature) THEN signature ELSE NoText,
                        RenderConfigTree(bytes),
                        RenderEnvelopeConfigTree(bytes),
                        TreeOf(Readings[bytes].configEnvelope),
                        BuildDecodedSummary(dec) >>
    IN  FirstText(texts)

NothingDecoded ==
    [certs |-> <<>>, mspIds |-> <<>>, endpoints |-> <<>>, hashAlgorithm |-> "",
     expression |-> NoText]

DecodePolicy(bytes) ==
    IF ~Readings[bytes].wrapped THEN NothingDecoded
    ELSE LET dec == [NothingDecoded EXCEPT
                        !.certs = ExtractCerts(bytes), !.mspIds = ExtractMspIDs(bytes),
                        !.endpoints = ExtractEndpoints(bytes),
                        !.hashAlgorithm = ExtractHashAlgorithm(bytes)]
         IN  [dec EXCEPT !.expression = RenderPolicyExpression(bytes, dec)]

-----------------------------------------------------------------------------
(* What there is to show of the configuration of a channel.                *)

ChannelReadings == {"group", "config", "envelope", "configEnvelope"}

(* The groups below some groups, each with its path. *)
Below(places) ==
    UNION {{<<Append(place[1], name), place[2].groups[name]>> : name \in DOMAIN place[2].groups}
              : place \in places}

(* A group and those of the three levels below it. *)
Places(group) ==
    LET top == {<< <<>>, group >>}
    IN  top \cup Below(top) \cup Below(Below(top)) \cup Below(Below(Below(top)))

(* The policies of a place that have a text. *)
LinesAt(place) ==
    {line \in {<<place[1], name, RenderConfigPolicy(place[2].policies[name])>>
                  : name \in DOMAIN place[2].policies} : line[3] # NoText}

LinesOf(group) ==
    IF group = Absence THEN {} ELSE UNION {LinesAt(place) : place \in Places(group)}

(* Only bytes that are wrapped are read; names are those of NameOrder; and  *)
(* at most one message finds policies of a channel in the same bytes, since *)
(* their fields have different numbers and types.                          *)
ASSUME ReadingsAssumption ==
    /\ NameOrder \in Seq(Range(NameOrder))
    /\ \A i, j \in DOMAIN NameOrder : NameOrder[i] = NameOrder[j] => i = j
    /\ \A bytes \in DOMAIN Readings : \A reading \in ChannelReadings :
          LET group == Readings[bytes][reading]
          IN  group # Absence =>
                 /\ Readings[bytes].wrapped
                 /\ \A place \in Places(group) :
                       /\ DOMAIN place[2].policies \subseteq Range(NameOrder)
                       /\ DOMAIN place[2].groups \subseteq Range(NameOrder)
    /\ \A bytes \in DOMAIN Readings : \A r1, r2 \in ChannelReadings :
          LinesOf(Readings[bytes][r1]) # {} /\ LinesOf(Readings[bytes][r2]) # {} => r1 = r2
=============================================================================
