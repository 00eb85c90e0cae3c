----------------------------- MODULE ExplorerUi -----------------------------
(***************************************************************************)
(* One browser tab of the web UI over the ledger the ingestion promises:   *)
(* the dashboard (ui/app/page.tsx), the list of blocks                     *)
(* (ui/app/blocks/page.tsx), the page of one block                         *)
(* (ui/app/blocks/[id]/page.tsx) and the policies                          *)
(* (ui/app/policies/page.tsx).  Every request of ui/lib/api.ts is a step   *)
(* of its own: blocks are stored, out of order, between any two.           *)
(*                                                                         *)
(* A state that may be null is a sequence of at most one element.          *)
(***************************************************************************)
EXTENDS IngestLedger, FiniteSets, FiniteSetsExt, Sequences

CONSTANTS
    TxCount,          (* for each block, the number of its transactions     *)
    DefaultTxLimit,   (* server.rest.default_tx_limit                       *)
    PageSize,         (* BLOCKS_PER_PAGE                                    *)
    TxPageSize,       (* txPageSize                                         *)
    LatestCount,      (* blocks the dashboard asks for                      *)
    RecentCount,      (* transactions the dashboard asks for                *)
    RecentDepth,      (* blocks it looks at for them, less two              *)
    Polls,            (* fetches of the dashboard that may overlap          *)
    Namespaces,       (* namespaces whose policies are looked at            *)
    PolicyBlock,      (* the block that brings the policy of each           *)
    MaxClicks,        (* bound on the searches of a policy page             *)
    MaxFaults         (* bound on the number of failed requests             *)

ASSUME UiAssumption ==
    /\ StartBlk \in Nat /\ MaxHeight \in Nat /\ MaxFaults \in Nat
    /\ TxCount \in [0..(MaxHeight - 1) -> Nat]
    /\ PolicyBlock \in [Namespaces -> Nat] /\ MaxClicks \in Nat
    /\ {DefaultTxLimit, PageSize, TxPageSize, LatestCount, RecentCount} \subseteq Nat \ {0}

VARIABLES
    tab,      (* what the tab shows, and its state                          *)
    fetch,    (* the fetch of the list or of the block                      *)
    polls,    (* the fetches of the dashboard                               *)
    search,   (* the searches of the page of policies                       *)
    failed    (* requests that failed so far                                *)

uiVars == <<tab, fetch, polls, search, failed>>
allVars == <<ledgerVars, uiVars>>

-----------------------------------------------------------------------------
(* The REST server, over the stored blocks. *)

GetBlockHeight == IF stored = {} THEN 0 ELSE Max(stored)

ListBlocks(off, lim) ==
    {n \in stored : Cardinality({m \in stored : m < n}) \in off..(off + lim - 1)}

(* The transactions of a block, as GET /blocks/{n} without tx_limit returns *)
(* them.                                                                   *)
GetBlock(n) == 0..(Min({TxCount[n], DefaultTxLimit}) - 1)

-----------------------------------------------------------------------------
(* The tab *)

DefaultNamespace == "_meta"

AtLeastZero(n) == IF n < 0 THEN 0 ELSE n

NoFetch == [pc |-> "none", height |-> <<>>, rows |-> <<>>]

NoPoll == [pc |-> "none", height |-> <<>>, top |-> <<>>, latest |-> <<>>,
           walk |-> <<>>, from |-> 0, got |-> 0, recent |-> FALSE]

Page(name, num) ==
    [page |-> name, num |-> num, cur |-> 0, data |-> <<>>, loading |-> TRUE, error |-> FALSE]

(* url: the namespace in the address; chosen: the one the user last asked   *)
(* for; open: for each namespace, the requests that have no answer yet.    *)
NoSearch == [url |-> DefaultNamespace, chosen |-> DefaultNamespace, active |-> DefaultNamespace,
             open |-> [ns \in Namespaces |-> 0], clicks |-> 0]

UiInit ==
    /\ Init
    /\ tab = Page("dashboard", 0)
    /\ fetch = NoFetch
    /\ polls = [p \in Polls |-> NoPoll]
    /\ search = NoSearch
    /\ failed = 0

(* A navigation: what the page before was waiting for is forgotten. *)
GoTo(page, start, asked) ==
    /\ tab' = page
    /\ fetch' = start
    /\ polls' = [p \in Polls |-> NoPoll]
    /\ search' = asked
    /\ UNCHANGED failed

(* A link to the page that is shown does nothing. *)
OpenDashboard == tab.page # "dashboard" /\ GoTo(Page("dashboard", 0), NoFetch, NoSearch)

OpenBlocks ==
    /\ tab.page # "blocks"
    /\ GoTo(Page("blocks", 0), [NoFetch EXCEPT !.pc = "height"], NoSearch)

OpenBlock(n) == GoTo(Page("block", n), [NoFetch EXCEPT !.pc = "both"], NoSearch)

(* The answer a page waited for. *)
Show(shown) ==
    /\ tab' = [tab EXCEPT !.data = <<shown>>, !.loading = FALSE, !.error = FALSE]
    /\ UNCHANGED failed

ShowError == tab' = [tab EXCEPT !.loading = FALSE, !.error = TRUE]

Shown == ~tab.loading /\ ~tab.error /\ tab.data # <<>>

RequestFails == failed < MaxFaults /\ failed' = failed + 1

-----------------------------------------------------------------------------
(* The list of blocks: getBlockPage *)

TotalPages(high) == Max({1, (high + PageSize) \div PageSize})

HighestBlock(high, page) == high - page * PageSize

(* A page that is one block short at its lower end. *)
LowestBlockShort(highest) == AtLeastZero(highest - PageSize + 2)
LowestBlock(highest) == AtLeastZero(highest - PageSize + 1)

PageHeight ==
    /\ fetch.pc = "height"
    /\ IF HighestBlock(GetBlockHeight, tab.cur) < 0
       THEN /\ Show([page |-> tab.cur, height |-> GetBlockHeight,
                     highest |-> 0, lowest |-> 0, rows |-> {}])
            /\ fetch' = NoFetch
       ELSE /\ fetch' = [fetch EXCEPT !.pc = "list", !.height = <<GetBlockHeight>>]
            /\ UNCHANGED <<tab, failed>>
    /\ UNCHANGED polls

(* The offset is the number of the lowest block of the page. *)
PageList ==
    /\ fetch.pc = "list"
    /\ LET high == HighestBlock(fetch.height[1], tab.cur)
           low  == LowestBlock(high)
       IN  Show([page |-> tab.cur, height |-> fetch.height[1],
                 highest |-> high, lowest |-> low, rows |-> ListBlocks(low, high - low + 1)])
    /\ fetch' = NoFetch
    /\ UNCHANGED polls

TurnTo(page) ==
    /\ tab' = [tab EXCEPT !.cur = page, !.loading = TRUE]
    /\ UNCHANGED <<polls, failed>>

PreviousPage ==
    /\ tab.page = "blocks" /\ Shown /\ tab.cur > 0
    /\ TurnTo(tab.cur - 1)
    /\ fetch' = [NoFetch EXCEPT !.pc = "height"]

(* A button that is never disabled. *)
NextPageUnchecked ==
    /\ tab.page = "blocks" /\ Shown
    /\ TurnTo(tab.cur + 1)
    /\ fetch' = [NoFetch EXCEPT !.pc = "height"]

NextPage ==
    /\ tab.page = "blocks" /\ Shown /\ tab.cur < TotalPages(tab.data[1].height) - 1
    /\ TurnTo(tab.cur + 1)
    /\ fetch' = [NoFetch EXCEPT !.pc = "height"]

-----------------------------------------------------------------------------
(* One block: its height and its rows, in whichever order they arrive.      *)

BlockHeight ==
    /\ fetch.pc = "both" /\ fetch.height = <<>>
    /\ fetch' = [fetch EXCEPT !.height = <<GetBlockHeight>>]
    /\ UNCHANGED <<tab, polls, failed>>

BlockRows ==
    /\ fetch.pc = "both" /\ fetch.rows = <<>>
    /\ tab.num \in stored
    /\ fetch' = [fetch EXCEPT !.rows = <<GetBlock(tab.num)>>]
    /\ UNCHANGED <<tab, polls, failed>>

BlockShown ==
    /\ fetch.pc = "both" /\ fetch.height # <<>> /\ fetch.rows # <<>>
    /\ Show([height |-> fetch.height[1], count |-> TxCount[tab.num], rows |-> fetch.rows[1]])
    /\ fetch' = NoFetch
    /\ UNCHANGED polls

(* 404, or no answer within the timeout. *)
FetchFails ==
    /\ fetch.pc # "none"
    /\ IF fetch.pc = "both" /\ fetch.rows = <<>> /\ tab.num \notin stored
       THEN UNCHANGED failed ELSE RequestFails
    /\ ShowError
    /\ fetch' = NoFetch
    /\ UNCHANGED polls

TxPages == Max({1, (tab.data[1].count + TxPageSize - 1) \div TxPageSize})

(* The fetch runs again; it does not ask for the page. *)
TurnTxPage ==
    /\ tab.page = "block" /\ Shown /\ tab.data[1].rows # {}
    /\ \E page \in {tab.cur - 1, tab.cur + 1} \cap 0..(TxPages - 1) : TurnTo(page)
    /\ fetch' = [NoFetch EXCEPT !.pc = "both"]

NextBlock ==
    /\ tab.page = "block" /\ Shown /\ tab.num < tab.data[1].height
    /\ OpenBlock(tab.num + 1)

-----------------------------------------------------------------------------
(* The policies of a namespace: handleSearch *)

(* n searches for a namespace. *)
Ask(asked, ns, n) == [asked EXCEPT !.open[ns] = @ + n, !.active = IF n > 0 THEN ns ELSE @]

(* The effect of the page depends on handleSearch, which changes with the   *)
(* text: a new text makes it bring back the namespace of the address and   *)
(* search for it, and so does the text that it brought back.               *)
WithEffect(asked, text) == Ask(asked, asked.url, IF text = asked.url THEN 0 ELSE 2)

(* At first the text is the default; the effect runs, and again if it       *)
(* changed the text.                                                       *)
OpenPolicies(url) ==
    /\ tab.page # "policies"
    /\ GoTo(Page("policies", 0), NoFetch,
            Ask([NoSearch EXCEPT !.url = url, !.chosen = url], url,
                IF url = DefaultNamespace THEN 1 ELSE 2))

(* Searches start: the spinner is shown, and no error. *)
SearchFor(asked) ==
    /\ tab.page = "policies" /\ search.clicks < MaxClicks
    /\ search' = [asked EXCEPT !.clicks = @ + 1]
    /\ tab' = [tab EXCEPT !.loading = TRUE, !.error = FALSE]
    /\ UNCHANGED <<fetch, polls, failed>>

(* One of the buttons: it sets the text and searches, then the effect runs. *)
ChooseNamespace(ns) ==
    SearchFor(WithEffect([Ask(search, ns, 1) EXCEPT !.chosen = ns], ns))

(* A key other than Enter: only the effect runs. *)
TypeText(text) == text # search.url /\ SearchFor(WithEffect(search, text))

(* Enter searches for the text, which is that of the address again. *)
PressEnter == SearchFor(Ask([search EXCEPT !.chosen = search.url], search.url, 1))

SearchEnds(ns) ==
    /\ search.open[ns] > 0
    /\ search' = [search EXCEPT !.open[ns] = @ - 1]
    /\ UNCHANGED <<fetch, polls>>

(* An empty answer that is shown without a word. *)
PoliciesShownQuietly(ns) ==
    /\ SearchEnds(ns)
    /\ LET found == IF PolicyBlock[ns] \in stored THEN <<ns>> ELSE <<>>
       IN  tab' = [tab EXCEPT !.data = found, !.loading = FALSE]
    /\ UNCHANGED failed

(* An answer replaces the rows, whatever was searched for since; only an    *)
(* empty one sets the error.                                               *)
PoliciesShown(ns) ==
    /\ SearchEnds(ns)
    /\ LET found == IF PolicyBlock[ns] \in stored THEN <<ns>> ELSE <<>>
       IN  tab' = [tab EXCEPT !.data = found, !.loading = FALSE,
                              !.error = tab.error \/ found = <<>>]
    /\ UNCHANGED failed

PoliciesFail(ns) ==
    /\ SearchEnds(ns)
    /\ RequestFails
    /\ tab' = [tab EXCEPT !.data = <<>>, !.loading = FALSE, !.error = TRUE]

-----------------------------------------------------------------------------
(* The dashboard: fetchData, again and again *)

(* A timer that an error stops. *)
PollUnlessError(p) ==
    /\ tab.page = "dashboard" /\ polls[p].pc = "none" /\ ~tab.error
    /\ polls' = [polls EXCEPT ![p].pc = "open"]
    /\ UNCHANGED <<tab, fetch, failed>>

Poll(p) ==
    /\ tab.page = "dashboard" /\ polls[p].pc = "none"
    /\ polls' = [polls EXCEPT ![p].pc = "open"]
    /\ UNCHANGED <<tab, fetch, failed>>

PollHeight(p) ==
    /\ polls[p].pc = "open" /\ polls[p].height = <<>>
    /\ polls' = [polls EXCEPT ![p].height = <<GetBlockHeight>>]
    /\ UNCHANGED <<tab, fetch, failed>>

(* getLatestBlocks *)
LatestTop(p) ==
    /\ polls[p].pc = "open" /\ polls[p].top = <<>>
    /\ polls' = [polls EXCEPT ![p].top = <<GetBlockHeight>>]
    /\ UNCHANGED <<tab, fetch, failed>>

(* An offset that is one block short. *)
LatestOffsetShort(high) == AtLeastZero(high - LatestCount)
LatestOffset(high) == AtLeastZero(high - LatestCount + 1)

LatestList(p) ==
    /\ polls[p].top # <<>> /\ polls[p].latest = <<>>
    /\ polls' = [polls EXCEPT
         ![p].latest = <<ListBlocks(LatestOffset(polls[p].top[1]), LatestCount)>>]
    /\ UNCHANGED <<tab, fetch, failed>>

(* getRecentTransactions: block after block, from the height down. *)
RecentTop(p) ==
    /\ polls[p].pc = "open" /\ polls[p].walk = <<>>
    /\ polls' = [polls EXCEPT ![p].walk = <<GetBlockHeight>>, ![p].from = GetBlockHeight]
    /\ UNCHANGED <<tab, fetch, failed>>

Walking(p) == polls[p].walk # <<>> /\ ~polls[p].recent

RecentBlock(p) ==
    /\ Walking(p) /\ polls[p].walk[1] \in stored
    /\ LET n   == polls[p].walk[1]
           got == Min({polls[p].got + Cardinality(GetBlock(n)), RecentCount})
       IN  polls' = [polls EXCEPT
             ![p].got = got, ![p].walk = <<n - 1>>,
             ![p].recent = n = 0 \/ got = RecentCount \/ polls[p].from - n > RecentDepth]
    /\ UNCHANGED <<tab, fetch, failed>>

PollShown(p) ==
    /\ polls[p].height # <<>> /\ polls[p].latest # <<>> /\ polls[p].recent
    /\ Show([height |-> polls[p].height[1], latest |-> polls[p].latest[1], recent |-> polls[p].got])
    /\ polls' = [polls EXCEPT ![p] = NoPoll]
    /\ UNCHANGED fetch

(* A walk that meets a block that is not stored fails the whole fetch. *)
PollFails(p) ==
    /\ polls[p].pc = "open"
    /\ IF Walking(p) /\ polls[p].walk[1] \notin stored THEN UNCHANGED failed ELSE RequestFails
    /\ ShowError
    /\ polls' = [polls EXCEPT ![p] = NoPoll]
    /\ UNCHANGED fetch

-----------------------------------------------------------------------------

Navigate ==
    \/ OpenDashboard \/ OpenBlocks
    \/ \E n \in 0..MaxHeight : OpenBlock(n)
    \/ \E ns \in Namespaces : OpenPolicies(ns)

List   == PageHeight \/ PageList \/ PreviousPage \/ NextPage
Detail == BlockHeight \/ BlockRows \/ BlockShown \/ TurnTxPage

Policies ==
    \/ PressEnter
    \/ \E ns \in Namespaces :
          ChooseNamespace(ns) \/ TypeText(ns) \/ PoliciesShown(ns) \/ PoliciesFail(ns)

PollStep(p) ==
    \/ PollHeight(p) \/ LatestTop(p) \/ LatestList(p)
    \/ RecentTop(p) \/ RecentBlock(p) \/ PollShown(p)

UiNext ==
    \/ Next /\ UNCHANGED uiVars
    \/ (Navigate \/ NextBlock \/ Policies) /\ UNCHANGED ledgerVars
    \/ /\ List \/ Detail \/ FetchFails
          \/ \E p \in Polls : Poll(p) \/ PollStep(p) \/ PollFails(p)
       /\ UNCHANGED <<ledgerVars, search>>

UiSpec == UiInit /\ [][UiNext]_allVars

(* Every owed block is stored; the timer fires, and every request is       *)
(* answered, or given up when its timeout ends.                            *)
UiFairSpec ==
    /\ UiSpec
    /\ \A n \in 0..(MaxHeight - 1) : WF_allVars(Store(n) /\ UNCHANGED uiVars)
    /\ \A p \in Polls :
          /\ WF_allVars(Poll(p) /\ UNCHANGED <<ledgerVars, search>>)
          /\ WF_allVars((PollStep(p) \/ PollFails(p)) /\ UNCHANGED <<ledgerVars, search>>)

-----------------------------------------------------------------------------
(* The types of the variables: a list never stands on a page that is not    *)
(* there.                                                                  *)
UiTypeOK ==
    /\ tab.page \in {"dashboard", "blocks", "block", "policies"}
    /\ tab.num \in 0..MaxHeight
    /\ tab.page = "blocks" => HighestBlock(GetBlockHeight, tab.cur) >= 0
    /\ fetch.pc \in {"none", "height", "list", "both"}
    /\ \A p \in Polls : polls[p].got \in 0..RecentCount
    /\ search.clicks \in 0..MaxClicks
    /\ failed \in 0..MaxFaults

(***************************************************************************)
(* ui/lib/api.ts:357, 377: a block number serves as an offset.  Where the   *)
(* stored blocks have no gap when the list is read, the page holds the     *)
(* window it names and the dashboard the newest blocks, although the       *)
(* height they are counted from was read before.                           *)
(***************************************************************************)
NoGap == stored = 0..GetBlockHeight

NewData == tab'.data # tab.data /\ tab'.data # <<>>

ListsAreTheirWindow ==
    [][ NoGap =>
        /\ tab'.page = "blocks" /\ NewData
             => tab'.data[1].rows = tab'.data[1].lowest..tab'.data[1].highest
        /\ \A p \in Polls :
              polls'[p].latest # polls[p].latest /\ polls'[p].latest # <<>>
                => LET top == polls[p].top[1]
                   IN  {n \in stored : top - LatestCount < n /\ n <= top} \subseteq polls'[p].latest[1]
      ]_allVars

(* A reader who turns to an older page misses no block number, however many *)
(* blocks the chain has grown by since the page before.                    *)
NextPageMissesNothing ==
    [][ /\ tab'.page = "blocks" /\ NewData /\ tab.data # <<>>
        /\ tab'.data[1].page > tab.data[1].page
        => tab'.data[1].highest >= tab.data[1].lowest - 1 ]_allVars

(* page.tsx:66: a dashboard that stays open shows the height in the end,    *)
(* whatever failed or was missing before.                                  *)
DashboardCatchesUp ==
    <>[](tab.page = "dashboard" /\ stored # {})
        => <>[](Shown /\ tab.data[1].height = GetBlockHeight)

NoSearchOpen == \A ns \in Namespaces : search.open[ns] = 0

(* policies/page.tsx:26-45: whichever order the answers of overlapping      *)
(* searches come in, in the end the page has rows or says why not, and     *)
(* no spinner is left.                                                     *)
PoliciesAreAnswered ==
    tab.page = "policies" /\ NoSearchOpen => ~tab.loading /\ (tab.error \/ tab.data # <<>>)

(* policies/page.tsx:78: "Policy rows returned for the selected             *)
(* namespace."  Once every search is answered, the rows are of the         *)
(* namespace the user asked for last.                                      *)
SelectedPoliciesAreShown ==
    tab.page = "policies" /\ NoSearchOpen /\ tab.data # <<>> => tab.data = <<search.chosen>>

(* README.md:359: "paginated tx list".  The transactions of the window the  *)
(* page names (blocks/[id]/page.tsx:196) are on it.                        *)
TxWindowIsShown ==
    tab.page = "block" /\ Shown =>
        \A k \in 0..(tab.data[1].count - 1) :
            k \div TxPageSize = tab.cur => k \in tab.data[1].rows
=============================================================================
