----------------------------- MODULE RestReads -----------------------------
(***************************************************************************)
(* The handlers of pkg/api/rest.go, each a sequence of statements on the   *)
(* pool without a common snapshot, while the writers of BlockStore commit, *)
(* fail and restart.                                                       *)
(*                                                                         *)
(* Handlers only read, and share nothing with each other: one client after *)
(* the other asks for something, or pages through the list of blocks.      *)
(***************************************************************************)
EXTENDS BlockStore, PolicyRender

CONSTANTS
    DefaultTxLimit,     (* server.rest.default_tx_limit                     *)
    Absent,             (* a query parameter that is not given              *)
    Limits,             (* values given for limit and tx_limit              *)
    Offsets,            (* values given for tx_offset                       *)
    Bounds,             (* values given for from and to                     *)
    Lookups,            (* transaction ids that are looked up               *)
    Namespaces          (* namespaces whose policies are asked for          *)

ASSUME ReadsAssumption ==
    /\ DefaultTxLimit \in Nat \ {0}
    /\ \A p \in Limits \cup Offsets \cup Bounds : p = Absent \/ p \in Nat

(* Position n of block b is a transaction that its committer kept. *)
KeptUnderId(b, n) ==
    /\ HasStatus(Chain[b], n) /\ Chain[b].filter[n + 1] \in StoredStatuses
    /\ Chain[b].data[n + 1].readable /\ Chain[b].data[n + 1].txId # ""

(* The committer keeps one transaction under an id: it rejects the next as *)
(* a duplicate, a status that is not stored.                               *)
ASSUME IdsAssumption ==
    \A b1, b2 \in BlockNums : \A n1 \in Positions(Chain[b1]), n2 \in Positions(Chain[b2]) :
        /\ KeptUnderId(b1, n1) /\ KeptUnderId(b2, n2)
        /\ Chain[b1].data[n1 + 1].txId = Chain[b2].data[n2 + 1].txId
        => b1 = b2 /\ n1 = n2

(* The bytes of each policy that is stored are read. *)
ASSUME PoliciesAssumption ==
    \A row \in AllRows : TableOf(row) = "namespace_policies" => row[2] \in DOMAIN Readings

VARIABLES
    req,      (* the request being handled and the rows it has read         *)
    pager,    (* the client that pages through the list of blocks           *)
    told      (* the blocks and the newest policies responses told of       *)

readVars == <<req, pager, told>>

-----------------------------------------------------------------------------
(* Parameters *)

Param(p) == IF p = Absent THEN 0 ELSE p
Limit(p) == IF Param(p) = 0 THEN DefaultTxLimit ELSE Param(p)

(* to = 0 stands for no upper bound. *)
InRange(b, from, to) == from <= b /\ (to = 0 \/ b <= to)
ValidRange(from, to) == to = 0 \/ to >= from

-----------------------------------------------------------------------------
(* Statements *)

(* A page that runs over by one. *)
OrderedPageOver(nums, lim, off) ==
    {n \in nums : Cardinality({m \in nums : m < n}) \in off..(off + lim)}

(* ORDER BY a number LIMIT lim OFFSET off *)
OrderedPage(nums, lim, off) ==
    {n \in nums : Cardinality({m \in nums : m < n}) \in off..(off + lim - 1)}

(* The rows of block b in a table whose key starts with block_num. *)
BlockRows(name, b) == {row \in table : TableOf(row) = name /\ Key(row)[2] = b}

TxNum(row) == Key(row)[3]
TxNums(rows) == {TxNum(row) : row \in rows}

ListBlocks(from, to, lim, off) ==
    OrderedPage({b \in Visible : InRange(b, from, to)}, lim, off)

(* A height that counts blocks. *)
HeightAsCount(blocks) == Cardinality(blocks)

(* COALESCE(MAX(block_num), 0) *)
GetBlockHeight(blocks) == IF blocks = {} THEN 0 ELSE Max(blocks)

(* WHERE block_num = b AND tx_num = n *)
ByTx(name, b, n) == {row \in BlockRows(name, b) : TxNum(row) = n}

(* WHERE block_num = b AND tx_num >= first AND tx_num < last *)
ByBlockTxRange(name, b, first, last) ==
    {row \in BlockRows(name, b) : first <= TxNum(row) /\ TxNum(row) < last}

PolicyRows == {row \in table : TableOf(row) = "namespace_policies"}

(* The oldest version of every namespace. *)
OldestOfEach(rows) ==
    {row \in rows : \A r \in rows : Key(r)[2] = Key(row)[2] => Key(r)[3] >= Key(row)[3]}

(* DISTINCT ON (namespace) ... ORDER BY namespace, version DESC *)
NewestOfEach(rows) ==
    {row \in rows : \A r \in rows : Key(r)[2] = Key(row)[2] => Key(r)[3] <= Key(row)[3]}

NamespacePolicyRow(row) ==
    [namespace |-> Key(row)[2], version |-> Key(row)[3], decoded |-> DecodePolicy(row[2])]

-----------------------------------------------------------------------------
(* A request: the statement that comes next is named by pc.                *)

NoRequest == [op |-> "none", pc |-> "idle", num |-> 0, id |-> "",
              lim |-> 1, off |-> 0, txs |-> {}, rows |-> {}, policies |-> {}]

NoPager == [state |-> "idle", from |-> Absent, to |-> Absent, lim |-> 1, off |-> 0,
            base |-> {}, seen |-> {}]

(* What belongs to a transaction, in the order in which it is read. *)
Children == <<"tx_namespaces", "tx_blind_writes", "tx_endorsements", "tx_read_writes",
              "tx_reads_only">>

Reading == req.pc \notin {"idle", "ok", "not_found"}

(* No client is being served. *)
Free == req.pc = "idle" /\ pager.state = "idle"

ReadsInit ==
    /\ Init
    /\ req = NoRequest
    /\ pager = NoPager
    /\ told = [blocks |-> {}, policies |-> {}]

(* handleGetBlockByNumber *)
BlockRequest ==
    /\ Free
    /\ \E b \in BlockNums, lim \in Limits, off \in Offsets :
          req' = [NoRequest EXCEPT !.op = "block", !.pc = "blocks", !.num = b,
                                   !.lim = Limit(lim), !.off = Param(off)]
    /\ UNCHANGED <<pager, told>>

SelectBlock ==
    /\ req.pc = "blocks"
    /\ LET found == BlockRows("blocks", req.num)
       IN  req' = [req EXCEPT !.rows = found,
                              !.pc = IF found = {} THEN "not_found" ELSE "transactions"]
    /\ UNCHANGED <<pager, told>>

SelectTransactions ==
    /\ req.pc = "transactions"
    /\ LET all  == BlockRows("transactions", req.num)
           page == OrderedPage(TxNums(all), req.lim, req.off)
       IN  req' = [req EXCEPT !.txs = page,
                              !.rows = @ \cup {row \in all : TxNum(row) \in page},
                              !.pc = IF page = {} THEN "block_envelope_errors" ELSE Children[1]]
    /\ UNCHANGED <<pager, told>>

(* fetchBlockTxDatasets: one of the Children for the range of the page; a  *)
(* row is given to its transaction, and one without is left out.           *)
SelectBlockChildren ==
    /\ req.op = "block"
    /\ \E i \in DOMAIN Children :
          /\ req.pc = Children[i]
          /\ LET rows == ByBlockTxRange(req.pc, req.num, Min(req.txs), Max(req.txs) + 1)
             IN  req' = [req EXCEPT
                            !.rows = @ \cup {row \in rows : TxNum(row) \in req.txs},
                            !.pc = IF i < Len(Children) THEN Children[i + 1]
                                   ELSE "block_envelope_errors"]
    /\ UNCHANGED <<pager, told>>

(* loadTransaction: one of the Children for one transaction. *)
SelectTxChildren ==
    /\ req.op = "tx"
    /\ \E i \in DOMAIN Children, n \in req.txs :
          /\ req.pc = Children[i]
          /\ req' = [req EXCEPT !.rows = @ \cup ByTx(req.pc, req.num, n),
                                !.pc = IF i < Len(Children) THEN Children[i + 1] ELSE "ok"]
    /\ UNCHANGED <<pager, told>>

SelectErrors ==
    /\ req.pc = "block_envelope_errors"
    /\ req' = [req EXCEPT !.rows = @ \cup BlockRows("block_envelope_errors", req.num),
                          !.pc = "ok"]
    /\ UNCHANGED <<pager, told>>

(* handleGetTxByID: the query returns one row, whichever comes first. *)
TxRequest ==
    /\ Free
    /\ \E id \in Lookups : req' = [NoRequest EXCEPT !.op = "tx", !.pc = "lookup", !.id = id]
    /\ UNCHANGED <<pager, told>>

WithTxId(id) == {row \in table : TableOf(row) = "transactions" /\ row[2][1] = id}

SelectByTxID ==
    /\ req.pc = "lookup"
    /\ IF WithTxId(req.id) = {}
       THEN req' = [req EXCEPT !.pc = "not_found"]
       ELSE \E row \in WithTxId(req.id) :
               req' = [req EXCEPT !.num = Key(row)[2], !.txs = {TxNum(row)},
                                  !.rows = {row}, !.pc = Children[1]]
    /\ UNCHANGED <<pager, told>>

(* A statement fails, or its client has gone: an error answer. *)
ReadFails ==
    /\ Reading
    /\ req' = NoRequest
    /\ UNCHANGED <<pager, told>>

(* handleListAllNamespacePolicies: one statement, and its rows decoded. *)
ListPolicies ==
    /\ Free
    /\ req' = [NoRequest EXCEPT !.op = "policies", !.pc = "ok",
                                !.policies = {NamespacePolicyRow(row) : row \in NewestOfEach(PolicyRows)}]
    /\ UNCHANGED <<pager, told>>

(* handleGetNamespacePolicies: all versions; their order is left out. *)
GetPolicies ==
    /\ Free
    /\ \E ns \in Namespaces :
          req' = [NoRequest EXCEPT !.op = "namespace", !.pc = "ok",
                                   !.policies = {NamespacePolicyRow(row) :
                                                    row \in {r \in PolicyRows : Key(r)[2] = ns}}]
    /\ UNCHANGED <<pager, told>>

(* The newest version of each namespace that a client has been told of. *)
Newest(versions) ==
    {v \in versions : \A w \in versions : w.namespace = v.namespace => w.version <= v.version}

Respond ==
    /\ req.pc \in {"ok", "not_found"}
    /\ req' = NoRequest
    /\ told' = IF req.pc = "ok" /\ req.op \in {"block", "tx"}
               THEN [told EXCEPT !.blocks = @ \cup {req.num}]
               ELSE [told EXCEPT !.policies = Newest(@ \cup
                        {[namespace |-> p.namespace, version |-> p.version] : p \in req.policies})]
    /\ UNCHANGED pager

(* handleGetBlockHeight.  A height of 0 tells nothing: the table may be empty. *)
HeightRequest ==
    /\ Free
    /\ told' = [told EXCEPT !.blocks = @ \cup ({GetBlockHeight(Visible)} \ {0})]
    /\ UNCHANGED <<req, pager>>

-----------------------------------------------------------------------------
(* handleListBlocks, for a client that asks for page after page.            *)

StartPaging ==
    /\ Free
    /\ \E from, to \in Bounds, lim \in Limits :
          /\ ValidRange(Param(from), Param(to))
          /\ pager' = [state |-> "more", from |-> from, to |-> to, lim |-> Limit(lim), off |-> 0,
                       base |-> {b \in Visible : InRange(b, Param(from), Param(to))},
                       seen |-> {}]
    /\ UNCHANGED <<req, told>>

PageOf(p) == ListBlocks(Param(p.from), Param(p.to), p.lim, p.off)

(* A has_more that only a page beyond the limit could set. *)
ListPageStrict ==
    /\ pager.state = "more"
    /\ pager' = [pager EXCEPT !.seen = @ \cup PageOf(pager), !.off = @ + pager.lim,
                              !.state = IF Cardinality(PageOf(pager)) > pager.lim
                                        THEN "more" ELSE "end"]
    /\ told' = [told EXCEPT !.blocks = @ \cup PageOf(pager)]
    /\ UNCHANGED req

ListPage ==
    /\ pager.state = "more"
    /\ pager' = [pager EXCEPT !.seen = @ \cup PageOf(pager), !.off = @ + pager.lim,
                              !.state = IF Cardinality(PageOf(pager)) = pager.lim
                                        THEN "more" ELSE "end"]
    /\ told' = [told EXCEPT !.blocks = @ \cup PageOf(pager)]
    /\ UNCHANGED req

EndPaging ==
    /\ pager.state = "end"
    /\ pager' = NoPager
    /\ UNCHANGED <<req, told>>

-----------------------------------------------------------------------------

Handlers ==
    \/ BlockRequest \/ SelectBlock \/ SelectTransactions \/ SelectBlockChildren \/ SelectErrors
    \/ TxRequest \/ SelectByTxID \/ SelectTxChildren
    \/ ListPolicies \/ GetPolicies \/ HeightRequest
    \/ ReadFails \/ Respond

Paging == StartPaging \/ ListPage \/ EndPaging

ReadsNext ==
    \/ Next /\ UNCHANGED readVars
    \/ (Handlers \/ Paging) /\ UNCHANGED vars

ReadsSpec == ReadsInit /\ [][ReadsNext]_<<vars, readVars>>

-----------------------------------------------------------------------------
(* The types of the variables; no page is longer than its limit.           *)
ReadsTypeOK ==
    /\ req.op \in {"none", "block", "tx", "policies", "namespace"}
    /\ req.num \in BlockNums \cup {0}
    /\ req.rows \subseteq AllRows
    /\ Cardinality(req.txs) <= req.lim
    /\ pager.state \in {"idle", "more", "end"}
    /\ pager.off <= pager.lim * (Cardinality(BlockNums) + 1)
    /\ told.blocks \subseteq BlockNums
    /\ \A p \in told.policies : <<"namespace_policies", p.namespace, p.version>> \in Keys(AllRows)

(* The rows of block b that belong to the transactions nums. *)
OwnTxRows(b, nums) ==
    {row \in OwnRows(b) :
        TableOf(row) \in {"transactions"} \cup Range(Children) /\ TxNum(row) \in nums}

OwnTxNums(b) == TxNums({row \in OwnRows(b) : TableOf(row) = "transactions"})

(***************************************************************************)
(* rest.go:260-284, 401-453: a block or a transaction is put together from *)
(* several statements, and is the one that was stored whatever commits     *)
(* between them: the block row, the page of its transactions with all of   *)
(* their rows, and the errors.                                             *)
(***************************************************************************)
ResponsesAreWhole ==
    req.pc = "ok" /\ req.op \in {"block", "tx"} =>
        IF req.op = "block"
        THEN LET page == OrderedPage(OwnTxNums(req.num), req.lim, req.off)
             IN  req.rows = OwnTxRows(req.num, page)
                            \cup {row \in OwnRows(req.num) :
                                    TableOf(row) \in {"blocks", "block_envelope_errors"}}
        ELSE req.rows = OwnTxRows(req.num, req.txs)

(* transactions.sql:29: tx_id is no key, and the lookup by it returns one    *)
(* row; the rows it finds are never two, since what the committer rejected *)
(* as a duplicate is stored as an envelope error.                          *)
OneTransactionPerId ==
    \A r1, r2 \in table :
        TableOf(r1) = "transactions" /\ TableOf(r2) = "transactions" /\ r1[2][1] = r2[2][1]
            => r1 = r2

(* rest.go:254: a block that a list, a height or an earlier answer told a  *)
(* client of is never not found, across any restart of the explorer.       *)
ToldBlocksAreFound ==
    [][ req.pc = "blocks" /\ req'.pc = "not_found" => req.num \notin told.blocks ]_<<vars, readVars>>

(* rest.go:221-226: a client that pages until has_more is false has seen   *)
(* every block of its range that was stored when it began, although blocks *)
(* that fill gaps shift the pages under it.                                *)
PagingMissesNothing == pager.state = "end" => pager.base \subseteq pager.seen

(***************************************************************************)
(* README.md:342, "Latest policy for every namespace": a list of policies  *)
(* never lacks a namespace, or shows an older version of it, than any      *)
(* answer before, although healed gaps bring older versions later.         *)
(***************************************************************************)
LatestPolicyIsLatest ==
    [][ req.op # "policies" /\ req'.op = "policies" =>
            \A v \in told.policies : \E p \in req'.policies :
                p.namespace = v.namespace /\ p.version >= v.version ]_<<vars, readVars>>

(* The bytes also read as a signature policy that asks for someone. *)
AsksForSignatures(bytes) ==
    LET env == Readings[bytes].signature
    IN  /\ env # Absence /\ env.ids # <<>> /\ env.rule # Absence
        /\ env.rule.type = "signed_by" \/ (env.rule.type = "n_out_of" /\ env.rule.n # 0)

ChannelLines(bytes) == UNION {LinesOf(Readings[bytes][reading]) : reading \in ChannelReadings}

(***************************************************************************)
(* policy_render.go:22-46, policy_decoder.go:70: the configuration of a    *)
(* channel is shown as its tree, each policy of its four levels of groups  *)
(* on one line under its own path, and never as the signature policy or    *)
(* the summary that its bytes can be mistaken for.                         *)
(***************************************************************************)
ChannelPoliciesAreShown ==
    \A p \in req.policies : \E row \in AllRows :
        /\ Key(row) = <<"namespace_policies", p.namespace, p.version>>
        /\ LET shown == p.decoded.expression
               lines == ChannelLines(row[2])
           IN  lines # {} /\ ~AsksForSignatures(row[2]) =>
                  /\ shown # NoText /\ shown[1] = "tree"
                  /\ Range(shown[2]) = lines
                  /\ Len(shown[2]) = Cardinality(lines)
=============================================================================
