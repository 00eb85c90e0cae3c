------------------------- MODULE ExplorerUiProofs -------------------------
(***************************************************************************)
(* Theorems about ExplorerUi: what the pages of a tab show while blocks    *)
(* are stored, for every number of blocks, every size of a page, every     *)
(* number of overlapping fetches and searches, and every start block.      *)
(***************************************************************************)
EXTENDS ExplorerUi, GapScanProofs, FiniteSetTheorems

-----------------------------------------------------------------------------
(* The inductive invariant. *)

Ledger == stored \subseteq 0..(MaxHeight - 1)

TabFields    == {"page", "num", "cur", "data", "loading", "error"}
PollFields   == {"pc", "height", "top", "latest", "walk", "from", "got", "recent"}
SearchFields == {"url", "chosen", "active", "open", "clicks"}

UiFields ==
    /\ DOMAIN tab = TabFields /\ DOMAIN fetch = {"pc", "height", "rows"}
    /\ polls = [p \in Polls |-> polls[p]] /\ \A p \in Polls : DOMAIN polls[p] = PollFields
    /\ DOMAIN search = SearchFields

TabOK ==
    /\ tab.page \in {"dashboard", "blocks", "block", "policies"}
    /\ tab.num \in 0..MaxHeight
    /\ tab.page = "block" /\ tab.data # <<>> => tab.data[1].height \in 0..GetBlockHeight
    /\ failed \in 0..MaxFaults

(* A list that is shown was counted down from a height of some time before, *)
(* and the page that is asked for is at most the one after it.             *)
ListOK ==
    tab.page = "blocks" =>
        /\ tab.cur \in Nat /\ tab.cur * PageSize <= GetBlockHeight
        /\ tab.data # <<>> =>
              /\ tab.data[1].page \in Nat
              /\ tab.data[1].height \in 0..GetBlockHeight
              /\ tab.data[1].page * PageSize <= tab.data[1].height
              /\ tab.data[1].highest = HighestBlock(tab.data[1].height, tab.data[1].page)
              /\ tab.data[1].lowest = LowestBlock(tab.data[1].highest)
              /\ tab.cur <= tab.data[1].page + 1
              /\ Shown => tab.cur = tab.data[1].page

(* A fetch belongs to the page that is shown, and a list is asked for with *)
(* a height that the page before did not exceed.                           *)
FetchOK ==
    /\ fetch.pc \in {"none", "height", "list", "both"}
    /\ fetch.pc \in {"height", "list"} => tab.page = "blocks"
    /\ fetch.pc = "both" => tab.page = "block"
    /\ fetch.height # <<>> => fetch.height[1] \in 0..GetBlockHeight
    /\ fetch.pc = "list" =>
          /\ fetch.height # <<>> /\ tab.cur * PageSize <= fetch.height[1]
          /\ tab.data # <<>> => tab.data[1].height <= fetch.height[1]

PollsOK ==
    \A p \in Polls :
        /\ tab.page # "dashboard" => polls[p] = NoPoll
        /\ polls[p].got \in 0..RecentCount
        /\ polls[p].top # <<>> => polls[p].top[1] \in Nat

SearchOK ==
    /\ search.clicks \in 0..MaxClicks
    /\ search.open \in [Namespaces -> Nat]
    /\ tab.page = "policies" => search.url \in Namespaces
    /\ tab.page # "policies" => \A ns \in Namespaces : search.open[ns] = 0
    /\ PoliciesAreAnswered

UiIInv == Ledger /\ UiFields /\ TabOK /\ ListOK /\ FetchOK /\ PollsOK /\ SearchOK

-----------------------------------------------------------------------------
(* Heights and pages. *)

LEMMA HighestFacts ==
    ASSUME NEW S, NEW m \in Nat, S \subseteq 0..(m - 1), S # {}
    PROVE  Max(S) \in S /\ \A n \in S : n <= Max(S)
<1> DEFINE T == {m - n : n \in S}
<1>0. \A n \in S : n \in Int /\ 0 <= n /\ n <= m - 1
  OBVIOUS
<1>1. T \subseteq Nat /\ T # {}
  <2>1. \A n \in S : m - n \in Nat
    BY <1>0
  <2> QED BY <2>1
<1>2. PICK x \in T : \A y \in T : x <= y
  BY <1>1, NatHasLeast
<1>3. PICK top \in S : x = m - top
  BY <1>2
<1>4. ASSUME NEW n \in S PROVE top >= n
  <2>1. m - top <= m - n
    BY <1>2, <1>3
  <2> QED BY <1>0, <2>1
<1>5. Max(S) \in S /\ \A n \in S : Max(S) >= n
  BY <1>3, <1>4 DEF Max
<1>6. ASSUME NEW n \in S PROVE n <= Max(S)
  <2>1. Max(S) >= n /\ Max(S) \in Int /\ n \in Int
    BY <1>0, <1>5
  <2> QED BY <2>1
<1> QED BY <1>5, <1>6

LEMMA Constants ==
    /\ StartBlk \in Nat /\ MaxHeight \in Nat /\ MaxFaults \in Nat /\ MaxClicks \in Nat
    /\ TxCount \in [0..(MaxHeight - 1) -> Nat]
    /\ DefaultTxLimit \in Nat \ {0} /\ PageSize \in Nat \ {0} /\ TxPageSize \in Nat \ {0}
    /\ LatestCount \in Nat \ {0} /\ RecentCount \in Nat \ {0}
BY UiAssumption

LEMMA HeightFacts ==
    ASSUME Ledger
    PROVE  GetBlockHeight \in 0..MaxHeight /\ \A n \in stored : n <= GetBlockHeight
<1>1. CASE stored = {}
  BY <1>1, Constants DEF GetBlockHeight
<1>2. CASE stored # {}
  <2>1. Max(stored) \in stored /\ \A n \in stored : n <= Max(stored)
    BY <1>2, Constants, HighestFacts DEF Ledger
  <2>2. Max(stored) \in 0..(MaxHeight - 1)
    BY <2>1 DEF Ledger
  <2> QED BY <1>2, <2>1, <2>2, Constants DEF GetBlockHeight
<1> QED BY <1>1, <1>2

LEMMA HeightGrows ==
    ASSUME Ledger, Ledger', stored \subseteq stored'
    PROVE  GetBlockHeight <= GetBlockHeight' /\ GetBlockHeight' \in 0..MaxHeight
<1>1. CASE stored' = {}
  BY <1>1, Constants DEF GetBlockHeight
<1>2. CASE stored' # {}
  <2>1. Max(stored') \in stored' /\ \A n \in stored' : n <= Max(stored')
    BY <1>2, Constants, HighestFacts DEF Ledger
  <2>2. GetBlockHeight' = Max(stored') /\ Max(stored') \in 0..MaxHeight
    <3>1. Max(stored') \in 0..(MaxHeight - 1)
      BY <2>1 DEF Ledger
    <3> QED BY <1>2, <3>1, Constants DEF GetBlockHeight
  <2>3. CASE stored = {}
    BY <2>2, <2>3 DEF GetBlockHeight
  <2>4. CASE stored # {}
    <3>1. Max(stored) \in stored
      BY <2>4, Constants, HighestFacts DEF Ledger
    <3> QED BY <2>1, <2>2, <2>4, <3>1 DEF GetBlockHeight
  <2> QED BY <2>2, <2>3, <2>4
<1> QED BY <1>1, <1>2

(* A page before the last one of a height begins at or below that height.  *)
LEMMA LaterPage ==
    ASSUME NEW high \in Nat, NEW cur \in Nat, cur < TotalPages(high) - 1
    PROVE  (cur + 1) * PageSize <= high
<1> DEFINE n == (high + PageSize) \div PageSize
<1>1. n \in Nat /\ n * PageSize <= high + PageSize
  BY Constants
<1>2. TotalPages(high) \in {1, n}
  <2>1. {1, n} \subseteq Nat /\ {1, n} # {}
    BY <1>1
  <2> HIDE DEF n
  <2>2. {1, n} \subseteq 0..((n + 2) - 1) /\ n + 2 \in Nat
    BY <1>1
  <2>3. Max({1, n}) \in {1, n}
    BY <2>2, HighestFacts
  <2> QED BY <2>3 DEF TotalPages, n
<1> HIDE DEF n
<1>3. cur + 2 <= n
  BY <1>1, <1>2
<1>4. (cur + 2) * PageSize <= n * PageSize
  BY <1>1, <1>3, Constants
<1>5. (cur + 2) * PageSize = (cur + 1) * PageSize + PageSize
  BY Constants
<1> QED BY <1>1, <1>4, <1>5, Constants, SMTT(30)

LEMMA PageBefore ==
    ASSUME NEW cur \in Nat, NEW high \in Nat, cur > 0, cur * PageSize <= high
    PROVE  cur - 1 \in Nat /\ (cur - 1) * PageSize <= high
BY Constants

-----------------------------------------------------------------------------
(* What a step does to the tab. *)

LEMMA ShowFacts ==
    ASSUME UiFields, NEW r, Show(r)
    PROVE  /\ DOMAIN tab' = TabFields
           /\ tab'.page = tab.page /\ tab'.num = tab.num /\ tab'.cur = tab.cur
           /\ tab'.data = <<r>> /\ tab'.data # <<>> /\ tab'.data[1] = r
           /\ failed' = failed
BY DEF UiFields, Show, TabFields

LEMMA ErrorFacts ==
    ASSUME UiFields, ShowError
    PROVE  /\ DOMAIN tab' = TabFields
           /\ tab'.page = tab.page /\ tab'.num = tab.num /\ tab'.cur = tab.cur
           /\ tab'.data = tab.data /\ ~Shown'
BY DEF UiFields, ShowError, TabFields, Shown

LEMMA TurnFacts ==
    ASSUME UiFields, NEW page, TurnTo(page)
    PROVE  /\ DOMAIN tab' = TabFields
           /\ tab'.page = tab.page /\ tab'.num = tab.num /\ tab'.cur = page
           /\ tab'.data = tab.data /\ ~Shown' /\ failed' = failed /\ polls' = polls
BY DEF UiFields, TurnTo, TabFields, Shown

LEMMA PageFacts ==
    \A name, num :
        LET page == Page(name, num)
        IN  /\ DOMAIN page = TabFields /\ page.page = name /\ page.num = num /\ page.cur = 0
            /\ page.data = <<>> /\ page.loading
BY DEF Page, TabFields

LEMMA NoPollFacts ==
    /\ DOMAIN NoPoll = PollFields /\ NoPoll.pc = "none" /\ NoPoll.height = <<>>
    /\ NoPoll.top = <<>> /\ NoPoll.latest = <<>> /\ NoPoll.walk = <<>> /\ NoPoll.got = 0
    /\ ~NoPoll.recent
BY DEF NoPoll, PollFields

LEMMA NoFetchFacts ==
    /\ DOMAIN NoFetch = {"pc", "height", "rows"}
    /\ NoFetch.pc = "none" /\ NoFetch.height = <<>> /\ NoFetch.rows = <<>>
BY DEF NoFetch

(* What a step of one page leaves of the others. *)
LEMMA SearchKept ==
    ASSUME SearchOK, search' = search, tab.page # "policies", tab'.page = tab.page
    PROVE  SearchOK'
BY DEF SearchOK, PoliciesAreAnswered, NoSearchOpen

LEMMA PollsKept ==
    ASSUME PollsOK, polls' = polls, tab'.page = tab.page
    PROVE  PollsOK'
BY DEF PollsOK

-----------------------------------------------------------------------------
(* The blocks that are stored. *)

LEMMA LedgerStep ==
    ASSUME UiIInv, Next, UNCHANGED uiVars
    PROVE  UiIInv'
<1>1. stored \subseteq stored' /\ Ledger'
  BY Constants DEF UiIInv, Ledger, Next, Produce, Store, Owed
<1>2. GetBlockHeight <= GetBlockHeight' /\ GetBlockHeight \in 0..MaxHeight
      /\ GetBlockHeight' \in 0..MaxHeight
  BY <1>1, HeightGrows, HeightFacts DEF UiIInv
<1>3. UNCHANGED <<tab, fetch, polls, search, failed>>
  BY DEF uiVars
<1>4. \A h \in 0..GetBlockHeight : h \in 0..GetBlockHeight'
  BY <1>2
<1>5. UiFields' /\ PollsOK'
  BY <1>3 DEF UiIInv, UiFields, PollsOK
<1>6. TabOK'
  BY <1>3, <1>4 DEF UiIInv, TabOK
<1>7. FetchOK'
  BY <1>3, <1>4 DEF UiIInv, FetchOK
<1>8. ListOK'
  <2>1. tab.cur \in Nat /\ tab.cur * PageSize <= GetBlockHeight =>
            tab.cur * PageSize <= GetBlockHeight'
    BY <1>2, Constants
  <2> QED BY <1>3, <1>4, <2>1 DEF UiIInv, ListOK, Shown, HighestBlock, LowestBlock, AtLeastZero
<1>9. SearchOK'
  BY <1>3 DEF UiIInv, SearchOK, PoliciesAreAnswered, NoSearchOpen
<1> QED BY <1>1, <1>5, <1>6, <1>7, <1>8, <1>9 DEF UiIInv

LEMMA LedgerKept ==
    ASSUME Ledger, UNCHANGED ledgerVars
    PROVE  /\ Ledger' /\ stored' = stored /\ GetBlockHeight' = GetBlockHeight
           /\ GetBlockHeight \in 0..MaxHeight
BY HeightFacts DEF Ledger, ledgerVars, GetBlockHeight

-----------------------------------------------------------------------------
(* Navigation. *)

(* A page begins with nothing shown, and with a fetch and searches of its   *)
(* own.                                                                    *)
LEMMA GoToStep ==
    ASSUME UiIInv, UNCHANGED ledgerVars,
           NEW name \in {"dashboard", "blocks", "block", "policies"}, NEW num \in 0..MaxHeight,
           NEW pc \in {"none", "height", "both"}, NEW asked,
           GoTo(Page(name, num), [NoFetch EXCEPT !.pc = pc], asked),
           pc = "height" => name = "blocks", pc = "both" => name = "block",
           DOMAIN asked = SearchFields, asked.clicks = 0, asked.open \in [Namespaces -> Nat],
           name = "policies" => /\ asked.url \in Namespaces
                                /\ \E ns \in Namespaces : asked.open[ns] # 0,
           name # "policies" => \A ns \in Namespaces : asked.open[ns] = 0
    PROVE  UiIInv'
<1>1. /\ tab' = Page(name, num) /\ fetch' = [NoFetch EXCEPT !.pc = pc]
      /\ polls' = [p \in Polls |-> NoPoll] /\ search' = asked /\ failed' = failed
  BY DEF GoTo
<1>2. /\ DOMAIN tab' = TabFields /\ tab'.page = name /\ tab'.num = num /\ tab'.cur = 0
      /\ tab'.data = <<>> /\ tab'.loading
  BY <1>1, PageFacts
<1>3. /\ DOMAIN fetch' = {"pc", "height", "rows"} /\ fetch'.pc = pc /\ fetch'.height = <<>>
  BY <1>1, NoFetchFacts
<1>4. Ledger' /\ GetBlockHeight' = GetBlockHeight /\ GetBlockHeight \in 0..MaxHeight
  BY LedgerKept DEF UiIInv
<1>5. UiFields'
  BY <1>1, <1>2, <1>3, NoPollFacts DEF UiFields, TabFields, PollFields, SearchFields
<1>6. TabOK'
  BY <1>1, <1>2 DEF UiIInv, TabOK
<1>7. ListOK'
  <2>1. 0 * PageSize <= GetBlockHeight
    BY <1>4, Constants
  <2> QED BY <1>2, <1>4, <2>1 DEF ListOK
<1>8. FetchOK'
  BY <1>2, <1>3 DEF FetchOK
<1>9. PollsOK'
  BY <1>1, NoPollFacts, Constants, SMTT(30) DEF PollsOK
<1>10. SearchOK'
  BY <1>1, <1>2, Constants DEF SearchOK, PoliciesAreAnswered, NoSearchOpen
<1> QED BY <1>4, <1>5, <1>6, <1>7, <1>8, <1>9, <1>10 DEF UiIInv

LEMMA NoSearchFacts ==
    /\ DOMAIN NoSearch = SearchFields /\ NoSearch.clicks = 0
    /\ NoSearch.open = [ns \in Namespaces |-> 0]
BY DEF NoSearch, SearchFields

(* Searches that start: of one namespace, which becomes the active one.     *)
LEMMA AskFacts ==
    ASSUME NEW asked, DOMAIN asked = SearchFields, asked.open \in [Namespaces -> Nat],
           NEW ns \in Namespaces, NEW n \in Nat
    PROVE  /\ DOMAIN Ask(asked, ns, n) = SearchFields
           /\ Ask(asked, ns, n).clicks = asked.clicks
           /\ Ask(asked, ns, n).url = asked.url
           /\ Ask(asked, ns, n).open \in [Namespaces -> Nat]
           /\ \A m \in Namespaces : asked.open[m] # 0 => Ask(asked, ns, n).open[m] # 0
           /\ n # 0 => Ask(asked, ns, n).open[ns] # 0
BY DEF Ask, SearchFields

LEMMA NavigateStep ==
    ASSUME UiIInv, UNCHANGED ledgerVars, Navigate
    PROVE  UiIInv'
<1>1. CASE OpenDashboard
  <2>1. [NoFetch EXCEPT !.pc = "none"] = NoFetch
    BY DEF NoFetch
  <2>2. GoTo(Page("dashboard", 0), [NoFetch EXCEPT !.pc = "none"], NoSearch)
    BY <1>1, <2>1 DEF OpenDashboard
  <2>3. 0 \in 0..MaxHeight /\ NoSearch.open \in [Namespaces -> Nat]
    BY NoSearchFacts, Constants
  <2> QED BY <2>2, <2>3, GoToStep, NoSearchFacts
<1>2. CASE OpenBlocks
  <2>1. GoTo(Page("blocks", 0), [NoFetch EXCEPT !.pc = "height"], NoSearch)
    BY <1>2 DEF OpenBlocks
  <2>2. 0 \in 0..MaxHeight /\ NoSearch.open \in [Namespaces -> Nat]
    BY NoSearchFacts, Constants
  <2> QED BY <2>1, <2>2, GoToStep, NoSearchFacts
<1>3. ASSUME NEW n \in 0..MaxHeight, OpenBlock(n)
      PROVE  UiIInv'
  BY <1>3, GoToStep, NoSearchFacts DEF OpenBlock
<1>4. ASSUME NEW ns \in Namespaces, OpenPolicies(ns)
      PROVE  UiIInv'
  <2> DEFINE start == [NoSearch EXCEPT !.url = ns, !.chosen = ns]
             n == IF ns = DefaultNamespace THEN 1 ELSE 2
             asked == Ask(start, ns, n)
  <2>1. /\ DOMAIN start = SearchFields /\ start.clicks = 0 /\ start.url = ns
        /\ start.open \in [Namespaces -> Nat]
    BY NoSearchFacts DEF SearchFields
  <2>2. n \in Nat /\ n # 0
    OBVIOUS
  <2>3. GoTo(Page("policies", 0), NoFetch, asked)
    BY <1>4 DEF OpenPolicies
  <2> HIDE DEF start, n
  <2>4. /\ DOMAIN asked = SearchFields /\ asked.clicks = start.clicks /\ asked.url = start.url
        /\ asked.open \in [Namespaces -> Nat] /\ (n # 0 => asked.open[ns] # 0)
    BY <2>1, <2>2, AskFacts
  <2>5. [NoFetch EXCEPT !.pc = "none"] = NoFetch
    BY DEF NoFetch
  <2> HIDE DEF asked
  <2>6. asked.clicks = 0 /\ asked.url \in Namespaces /\ asked.open[ns] # 0
    BY <2>1, <2>2, <2>4
  <2>7. 0 \in 0..MaxHeight
    BY Constants
  <2> QED BY <2>3, <2>4, <2>5, <2>6, <2>7, GoToStep
<1> QED BY <1>1, <1>2, <1>3, <1>4 DEF Navigate

LEMMA NextBlockStep ==
    ASSUME UiIInv, UNCHANGED ledgerVars, NextBlock
    PROVE  UiIInv'
<1>1. tab.num + 1 \in 0..MaxHeight
  <2>1. tab.data[1].height \in 0..GetBlockHeight /\ tab.num < tab.data[1].height
        /\ tab.num \in 0..MaxHeight
    BY DEF UiIInv, TabOK, NextBlock, Shown
  <2>2. GetBlockHeight \in 0..MaxHeight
    BY HeightFacts DEF UiIInv
  <2> QED BY <2>1, <2>2, Constants
<1> QED BY <1>1, GoToStep, NoSearchFacts DEF NextBlock, OpenBlock

-----------------------------------------------------------------------------
(* The pages of blocks. *)

(* A step of the list or of a block leaves the rest. *)
LEMMA PageStep ==
    ASSUME UiIInv, UNCHANGED <<ledgerVars, search>>, polls' = polls, tab.page # "policies",
           tab'.page = tab.page, DOMAIN tab' = TabFields, DOMAIN fetch' = {"pc", "height", "rows"}
    PROVE  Ledger' /\ UiFields' /\ PollsOK' /\ SearchOK' /\ GetBlockHeight' = GetBlockHeight
BY LedgerKept, PollsKept, SearchKept DEF UiIInv, UiFields, TabFields

(* The first answer of the list: no page that is asked for is out of range. *)
LEMMA PageHeightStep ==
    ASSUME UiIInv, PageHeight
    PROVE  /\ fetch' = [fetch EXCEPT !.pc = "list", !.height = <<GetBlockHeight>>]
           /\ UNCHANGED <<tab, failed, polls>>
<1>1. tab.page = "blocks"
  BY DEF UiIInv, PageHeight, FetchOK
<1>2. ~(HighestBlock(GetBlockHeight, tab.cur) < 0)
  <2>1. tab.cur \in Nat /\ tab.cur * PageSize <= GetBlockHeight /\ GetBlockHeight \in Nat
    BY <1>1, HeightFacts, Constants DEF UiIInv, ListOK
  <2> QED BY <2>1, Constants DEF HighestBlock
<1> QED BY <1>2 DEF PageHeight

LEMMA ListStep ==
    ASSUME UiIInv, UNCHANGED <<ledgerVars, search>>, List
    PROVE  UiIInv'
<1>0. GetBlockHeight \in 0..MaxHeight /\ GetBlockHeight \in Nat
  BY HeightFacts, Constants DEF UiIInv
<1>1. CASE PageHeight
  <2>1. /\ fetch' = [fetch EXCEPT !.pc = "list", !.height = <<GetBlockHeight>>]
        /\ tab' = tab /\ failed' = failed /\ polls' = polls /\ tab.page = "blocks"
    BY <1>1, PageHeightStep DEF UiIInv, PageHeight, FetchOK
  <2>2. /\ DOMAIN fetch' = {"pc", "height", "rows"} /\ fetch'.pc = "list"
        /\ fetch'.height = <<GetBlockHeight>> /\ DOMAIN tab = TabFields
    BY <2>1 DEF UiIInv, UiFields, TabFields
  <2>3. Ledger' /\ UiFields' /\ PollsOK' /\ SearchOK' /\ GetBlockHeight' = GetBlockHeight
    BY <2>1, <2>2, PageStep
  <2>4. TabOK' /\ ListOK'
    BY <2>1, <2>3 DEF UiIInv, TabOK, ListOK, Shown, HighestBlock, LowestBlock, AtLeastZero
  <2>5. fetch'.height # <<>> /\ fetch'.height[1] = GetBlockHeight
    BY <2>2
  <2>6. FetchOK'
    <3>1. tab.cur * PageSize <= GetBlockHeight
          /\ (tab.data # <<>> => tab.data[1].height \in 0..GetBlockHeight)
      BY <2>1 DEF UiIInv, ListOK
    <3> QED BY <1>0, <2>1, <2>2, <2>3, <2>5, <3>1 DEF FetchOK
  <2> QED BY <2>3, <2>4, <2>6 DEF UiIInv
<1>2. CASE PageList
  <2> DEFINE high == HighestBlock(fetch.height[1], tab.cur)
             low  == LowestBlock(high)
             r == [page |-> tab.cur, height |-> fetch.height[1], highest |-> high, lowest |-> low,
                   rows |-> ListBlocks(low, high - low + 1)]
  <2>1. /\ tab.page = "blocks" /\ fetch.height[1] \in 0..GetBlockHeight
        /\ tab.cur * PageSize <= fetch.height[1] /\ tab.cur \in Nat
        /\ tab.cur * PageSize <= GetBlockHeight
    BY <1>2 DEF UiIInv, PageList, FetchOK, ListOK
  <2>2. Show(r) /\ fetch' = NoFetch /\ polls' = polls
    BY <1>2 DEF PageList
  <2>3. /\ r.page = tab.cur /\ r.height = fetch.height[1] /\ r.highest = high /\ r.lowest = low
    OBVIOUS
  <2> HIDE DEF r
  <2>4. /\ DOMAIN tab' = TabFields /\ tab'.page = "blocks" /\ tab'.num = tab.num
        /\ tab'.cur = tab.cur /\ tab'.data # <<>> /\ tab'.data[1] = r /\ failed' = failed
    BY <2>1, <2>2, ShowFacts DEF UiIInv
  <2>5. Ledger' /\ UiFields' /\ PollsOK' /\ SearchOK' /\ GetBlockHeight' = GetBlockHeight
    BY <2>1, <2>2, <2>4, NoFetchFacts, PageStep
  <2>6. TabOK' /\ FetchOK'
    BY <2>2, <2>4, NoFetchFacts DEF UiIInv, TabOK, FetchOK
  <2>7. ListOK'
    BY <2>1, <2>3, <2>4, <2>5 DEF ListOK
  <2> QED BY <2>5, <2>6, <2>7 DEF UiIInv
<1>3. CASE PreviousPage \/ NextPage
  <2>1. /\ tab.page = "blocks" /\ Shown /\ fetch' = [NoFetch EXCEPT !.pc = "height"]
    BY <1>3 DEF PreviousPage, NextPage
  <2>2. /\ tab.cur \in Nat /\ tab.cur * PageSize <= GetBlockHeight
        /\ tab.data # <<>> /\ tab.data[1].height \in 0..GetBlockHeight
        /\ tab.cur = tab.data[1].page
    BY <2>1 DEF UiIInv, ListOK, Shown
  <2>3. PICK c : /\ TurnTo(c) /\ c \in Nat /\ c * PageSize <= GetBlockHeight /\ c <= tab.cur + 1
    <3>1. CASE PreviousPage
      <4>1. TurnTo(tab.cur - 1) /\ tab.cur > 0
        BY <3>1 DEF PreviousPage
      <4>2. tab.cur - 1 \in Nat /\ (tab.cur - 1) * PageSize <= GetBlockHeight
        BY <1>0, <2>2, <4>1, PageBefore
      <4> QED BY <2>2, <4>1, <4>2
    <3>2. CASE NextPage
      <4>1. TurnTo(tab.cur + 1) /\ tab.cur < TotalPages(tab.data[1].height) - 1
        BY <3>2 DEF NextPage
      <4>2. tab.data[1].height \in Nat /\ tab.data[1].height <= GetBlockHeight
        BY <1>0, <2>2
      <4>3. (tab.cur + 1) * PageSize <= tab.data[1].height
        BY <2>2, <4>1, <4>2, LaterPage
      <4>4. (tab.cur + 1) * PageSize \in Int /\ tab.cur + 1 \in Nat
        BY <2>2, Constants
      <4> QED BY <1>0, <2>2, <4>1, <4>2, <4>3, <4>4
    <3> QED BY <1>3, <3>1, <3>2
  <2>4. /\ DOMAIN tab' = TabFields /\ tab'.page = "blocks" /\ tab'.num = tab.num /\ tab'.cur = c
        /\ tab'.data = tab.data /\ ~Shown' /\ failed' = failed /\ polls' = polls
    BY <2>1, <2>3, TurnFacts DEF UiIInv
  <2>5. DOMAIN fetch' = {"pc", "height", "rows"} /\ fetch'.pc = "height" /\ fetch'.height = <<>>
    BY <2>1, NoFetchFacts
  <2>6. Ledger' /\ UiFields' /\ PollsOK' /\ SearchOK' /\ GetBlockHeight' = GetBlockHeight
    BY <2>1, <2>4, <2>5, PageStep
  <2>7. TabOK' /\ FetchOK'
    BY <2>4, <2>5 DEF UiIInv, TabOK, FetchOK
  <2>8. ListOK'
    BY <2>1, <2>2, <2>3, <2>4, <2>6 DEF UiIInv, ListOK, HighestBlock, LowestBlock, AtLeastZero
  <2> QED BY <2>6, <2>7, <2>8 DEF UiIInv
<1> QED BY <1>1, <1>2, <1>3 DEF List

LEMMA DetailStep ==
    ASSUME UiIInv, UNCHANGED <<ledgerVars, search>>, Detail
    PROVE  UiIInv'
<1>0. GetBlockHeight \in 0..MaxHeight /\ GetBlockHeight' = GetBlockHeight
  BY LedgerKept DEF UiIInv
<1>1. CASE BlockHeight \/ BlockRows
  <2>1. /\ tab' = tab /\ polls' = polls /\ failed' = failed
        /\ fetch.pc = "both" /\ tab.page = "block" /\ DOMAIN tab = TabFields
    BY <1>1 DEF UiIInv, BlockHeight, BlockRows, FetchOK, UiFields, TabFields
  <2>2. /\ DOMAIN fetch' = {"pc", "height", "rows"} /\ fetch'.pc = "both"
        /\ fetch'.height # <<>> => fetch'.height[1] \in 0..GetBlockHeight
    <3>1. CASE BlockHeight
      BY <1>0, <2>1, <3>1 DEF BlockHeight, UiIInv, UiFields
    <3>2. CASE BlockRows
      BY <2>1, <3>2 DEF BlockRows, UiIInv, UiFields, FetchOK
    <3> QED BY <1>1, <3>1, <3>2
  <2>3. Ledger' /\ UiFields' /\ PollsOK' /\ SearchOK'
    BY <2>1, <2>2, PageStep
  <2>4. TabOK' /\ ListOK' /\ FetchOK'
    BY <1>0, <2>1, <2>2 DEF UiIInv, TabOK, ListOK, FetchOK
  <2> QED BY <2>3, <2>4 DEF UiIInv
<1>2. CASE BlockShown
  <2> DEFINE r == [height |-> fetch.height[1], count |-> TxCount[tab.num], rows |-> fetch.rows[1]]
  <2>1. /\ tab.page = "block" /\ fetch.height[1] \in 0..GetBlockHeight /\ Show(r)
        /\ fetch' = NoFetch /\ polls' = polls
    BY <1>2 DEF UiIInv, BlockShown, FetchOK
  <2>2. r.height = fetch.height[1]
    OBVIOUS
  <2> HIDE DEF r
  <2>3. /\ DOMAIN tab' = TabFields /\ tab'.page = "block" /\ tab'.num = tab.num
        /\ tab'.data # <<>> /\ tab'.data[1] = r /\ failed' = failed
    BY <2>1, ShowFacts DEF UiIInv
  <2>4. Ledger' /\ UiFields' /\ PollsOK' /\ SearchOK'
    BY <2>1, <2>3, NoFetchFacts, PageStep
  <2>5. TabOK' /\ ListOK' /\ FetchOK'
    BY <1>0, <2>1, <2>2, <2>3, NoFetchFacts DEF UiIInv, TabOK, ListOK, FetchOK
  <2> QED BY <2>4, <2>5 DEF UiIInv
<1>3. CASE TurnTxPage
  <2>1. PICK page : tab.page = "block" /\ TurnTo(page) /\ fetch' = [NoFetch EXCEPT !.pc = "both"]
    BY <1>3 DEF TurnTxPage
  <2>2. /\ DOMAIN tab' = TabFields /\ tab'.page = "block" /\ tab'.num = tab.num
        /\ tab'.data = tab.data /\ failed' = failed /\ polls' = polls
    BY <2>1, TurnFacts DEF UiIInv
  <2>3. DOMAIN fetch' = {"pc", "height", "rows"} /\ fetch'.pc = "both" /\ fetch'.height = <<>>
    BY <2>1, NoFetchFacts
  <2>4. Ledger' /\ UiFields' /\ PollsOK' /\ SearchOK'
    BY <2>1, <2>2, <2>3, PageStep
  <2>5. TabOK' /\ ListOK' /\ FetchOK'
    BY <1>0, <2>1, <2>2, <2>3 DEF UiIInv, TabOK, ListOK, FetchOK
  <2> QED BY <2>4, <2>5 DEF UiIInv
<1> QED BY <1>1, <1>2, <1>3 DEF Detail

(* One more request has failed, or a page was not found. *)
LEMMA FailedBound ==
    ASSUME failed \in 0..MaxFaults, failed' = failed \/ RequestFails
    PROVE  failed' \in 0..MaxFaults
BY Constants DEF RequestFails

LEMMA FetchFailsStep ==
    ASSUME UiIInv, UNCHANGED <<ledgerVars, search>>, FetchFails
    PROVE  UiIInv'
<1>0. GetBlockHeight' = GetBlockHeight
  BY LedgerKept DEF UiIInv
<1>1. /\ ShowError /\ fetch' = NoFetch /\ polls' = polls /\ tab.page # "policies"
      /\ failed' \in 0..MaxFaults
  <2>1. fetch.pc \in {"height", "list", "both"} /\ ShowError /\ fetch' = NoFetch /\ polls' = polls
    BY DEF UiIInv, FetchFails, FetchOK
  <2>2. tab.page # "policies"
    BY <2>1 DEF UiIInv, FetchOK
  <2>3. failed' = failed \/ RequestFails
    BY DEF FetchFails
  <2> QED BY <2>1, <2>2, <2>3, FailedBound DEF UiIInv, TabOK
<1>2. /\ DOMAIN tab' = TabFields /\ tab'.page = tab.page /\ tab'.num = tab.num
      /\ tab'.cur = tab.cur /\ tab'.data = tab.data /\ ~Shown'
  BY <1>1, ErrorFacts DEF UiIInv
<1>3. Ledger' /\ UiFields' /\ PollsOK' /\ SearchOK'
  BY <1>1, <1>2, NoFetchFacts, PageStep
<1>4. TabOK' /\ FetchOK'
  BY <1>0, <1>1, <1>2, NoFetchFacts DEF UiIInv, TabOK, FetchOK
<1>5. ListOK'
  BY <1>0, <1>2 DEF UiIInv, ListOK, HighestBlock, LowestBlock, AtLeastZero
<1> QED BY <1>3, <1>4, <1>5 DEF UiIInv

-----------------------------------------------------------------------------
(* The policies. *)

(* A step of the searches leaves the rest. *)
LEMMA PoliciesPageStep ==
    ASSUME UiIInv, UNCHANGED <<ledgerVars, fetch, polls>>, tab.page = "policies",
           DOMAIN tab' = TabFields, tab'.page = tab.page, tab'.num = tab.num,
           DOMAIN search' = SearchFields, failed' \in 0..MaxFaults
    PROVE  Ledger' /\ UiFields' /\ TabOK' /\ ListOK' /\ FetchOK' /\ PollsOK'
<1>1. Ledger' /\ GetBlockHeight' = GetBlockHeight
  BY LedgerKept DEF UiIInv
<1>2. UiFields'
  BY DEF UiIInv, UiFields, TabFields, SearchFields
<1>3. TabOK' /\ ListOK' /\ PollsOK'
  BY <1>1 DEF UiIInv, TabOK, ListOK, PollsOK
<1>4. fetch.pc \notin {"height", "list", "both"} /\ fetch' = fetch
  BY DEF UiIInv, FetchOK
<1>5. FetchOK'
  BY <1>1, <1>4 DEF UiIInv, FetchOK
<1> QED BY <1>1, <1>2, <1>3, <1>5

(* Searches start: at least one has no answer yet.                          *)
LEMMA SearchForStep ==
    ASSUME UiIInv, UNCHANGED ledgerVars, NEW asked, SearchFor(asked),
           DOMAIN asked = SearchFields, asked.open \in [Namespaces -> Nat],
           asked.url \in Namespaces, asked.clicks = search.clicks,
           \E ns \in Namespaces : asked.open[ns] # 0
    PROVE  UiIInv'
<1>1. /\ tab.page = "policies" /\ search' = [asked EXCEPT !.clicks = @ + 1]
      /\ tab' = [tab EXCEPT !.loading = TRUE, !.error = FALSE]
      /\ UNCHANGED <<fetch, polls, failed>> /\ search.clicks < MaxClicks
  BY DEF SearchFor
<1>2. /\ DOMAIN tab' = TabFields /\ tab'.page = "policies" /\ tab'.num = tab.num
  BY <1>1 DEF UiIInv, UiFields, TabFields
<1>3. /\ DOMAIN search' = SearchFields /\ search'.open = asked.open /\ search'.url = asked.url
      /\ search'.clicks = search.clicks + 1
  BY <1>1 DEF SearchFields
<1>4. failed' \in 0..MaxFaults
  BY <1>1 DEF UiIInv, TabOK
<1>5. Ledger' /\ UiFields' /\ TabOK' /\ ListOK' /\ FetchOK' /\ PollsOK'
  BY <1>1, <1>2, <1>3, <1>4, PoliciesPageStep
<1>6. search'.clicks \in 0..MaxClicks
  <2>1. search.clicks \in 0..MaxClicks
    BY DEF UiIInv, SearchOK
  <2> QED BY <1>1, <1>3, <2>1, Constants, SMTT(30)
<1>7. SearchOK'
  BY <1>2, <1>3, <1>6 DEF SearchOK, PoliciesAreAnswered, NoSearchOpen
<1> QED BY <1>5, <1>7 DEF UiIInv

(* An answer, or a failure, leaves rows or an error and no spinner.         *)
LEMMA SearchEndsStep ==
    ASSUME UiIInv, UNCHANGED ledgerVars, NEW ns \in Namespaces, SearchEnds(ns),
           DOMAIN tab' = TabFields, tab'.page = tab.page, tab'.num = tab.num, ~tab'.loading,
           tab'.error \/ tab'.data # <<>>, failed' \in 0..MaxFaults
    PROVE  UiIInv'
<1>1. /\ search.open[ns] > 0 /\ search' = [search EXCEPT !.open[ns] = @ - 1]
      /\ UNCHANGED <<fetch, polls>>
  BY DEF SearchEnds
<1>2. search.open \in [Namespaces -> Nat] /\ tab.page = "policies"
  BY <1>1 DEF UiIInv, SearchOK
<1>3. /\ DOMAIN search' = SearchFields /\ search'.open \in [Namespaces -> Nat]
      /\ search'.url = search.url /\ search'.clicks = search.clicks
  BY <1>1, <1>2 DEF UiIInv, UiFields, SearchFields
<1>4. Ledger' /\ UiFields' /\ TabOK' /\ ListOK' /\ FetchOK' /\ PollsOK'
  BY <1>1, <1>2, <1>3, PoliciesPageStep
<1>5. PoliciesAreAnswered'
  BY DEF PoliciesAreAnswered
<1>6. SearchOK'
  BY <1>2, <1>3, <1>5 DEF UiIInv, SearchOK
<1> QED BY <1>4, <1>6 DEF UiIInv

LEMMA PoliciesStep ==
    ASSUME UiIInv, UNCHANGED ledgerVars, Policies
    PROVE  UiIInv'
<1>0. /\ DOMAIN search = SearchFields /\ search.open \in [Namespaces -> Nat]
      /\ tab.page = "policies" => search.url \in Namespaces
      /\ DOMAIN tab = TabFields /\ failed \in 0..MaxFaults
  BY DEF UiIInv, UiFields, SearchOK, SearchFields, TabFields, TabOK
<1>1. CASE PressEnter
  <2> DEFINE start == [search EXCEPT !.chosen = search.url]
             asked == Ask(start, search.url, 1)
  <2>1. tab.page = "policies" /\ SearchFor(asked)
    BY <1>1 DEF PressEnter, SearchFor
  <2>2. /\ DOMAIN start = SearchFields /\ start.open \in [Namespaces -> Nat]
        /\ start.url = search.url /\ start.clicks = search.clicks /\ search.url \in Namespaces
    BY <1>0, <2>1 DEF SearchFields
  <2> HIDE DEF start
  <2>3. /\ DOMAIN asked = SearchFields /\ asked.open \in [Namespaces -> Nat]
        /\ asked.url = start.url /\ asked.clicks = start.clicks
        /\ (1 # 0 => asked.open[search.url] # 0)
    BY <2>2, AskFacts
  <2> HIDE DEF asked
  <2> QED BY <2>1, <2>2, <2>3, SearchForStep
<1>2. ASSUME NEW ns \in Namespaces, ChooseNamespace(ns)
      PROVE  UiIInv'
  <2> DEFINE first == Ask(search, ns, 1)
             start == [first EXCEPT !.chosen = ns]
             n == IF ns = start.url THEN 0 ELSE 2
             asked == Ask(start, start.url, n)
  <2>1. tab.page = "policies" /\ SearchFor(asked)
    BY <1>2 DEF ChooseNamespace, SearchFor, WithEffect
  <2>2. /\ DOMAIN first = SearchFields /\ first.open \in [Namespaces -> Nat]
        /\ first.url = search.url /\ first.clicks = search.clicks /\ (1 # 0 => first.open[ns] # 0)
    BY <1>0, AskFacts
  <2>3. search.url \in Namespaces /\ n \in Nat
    BY <1>0, <2>1
  <2> HIDE DEF first
  <2>4. /\ DOMAIN start = SearchFields /\ start.open = first.open
        /\ start.url = search.url /\ start.clicks = search.clicks
    BY <2>2 DEF SearchFields
  <2> HIDE DEF start, n
  <2>5. start.open \in [Namespaces -> Nat] /\ start.url \in Namespaces
    BY <2>2, <2>3, <2>4
  <2>6. /\ DOMAIN asked = SearchFields /\ asked.open \in [Namespaces -> Nat]
        /\ asked.url = start.url /\ asked.clicks = start.clicks
        /\ \A m \in Namespaces : start.open[m] # 0 => asked.open[m] # 0
    BY <2>3, <2>4, <2>5, AskFacts, ZenonT(60)
  <2> HIDE DEF asked
  <2> QED BY <2>1, <2>2, <2>3, <2>4, <2>5, <2>6, SearchForStep
<1>3. ASSUME NEW ns \in Namespaces, TypeText(ns)
      PROVE  UiIInv'
  <2> DEFINE url == search.url
             asked == Ask(search, url, 2)
  <2>1. tab.page = "policies" /\ SearchFor(asked)
    BY <1>3 DEF TypeText, SearchFor, WithEffect
  <2>2. /\ url \in Namespaces /\ DOMAIN search = SearchFields
        /\ search.open \in [Namespaces -> Nat] /\ search.url = url
    BY <1>0, <2>1
  <2> HIDE DEF url
  <2>3. 2 \in Nat /\ 2 # 0
    OBVIOUS
  <2>4. /\ DOMAIN asked = SearchFields /\ asked.open \in [Namespaces -> Nat]
        /\ asked.url = search.url /\ asked.clicks = search.clicks /\ asked.open[url] # 0
    BY <2>2, <2>3, AskFacts, ZenonT(60)
  <2> HIDE DEF asked
  <2> QED BY <2>1, <2>2, <2>4, SearchForStep
<1>4. ASSUME NEW ns \in Namespaces, PoliciesShown(ns)
      PROVE  UiIInv'
  <2>1. PICK found : /\ tab' = [tab EXCEPT !.data = found, !.loading = FALSE,
                                           !.error = tab.error \/ found = <<>>]
                     /\ failed' = failed /\ SearchEnds(ns)
    BY <1>4 DEF PoliciesShown
  <2>2. /\ DOMAIN tab' = TabFields /\ tab'.page = tab.page /\ tab'.num = tab.num
        /\ ~tab'.loading /\ tab'.data = found /\ tab'.error = (tab.error \/ found = <<>>)
    BY <1>0, <2>1 DEF TabFields
  <2> QED BY <1>0, <2>1, <2>2, SearchEndsStep
<1>5. ASSUME NEW ns \in Namespaces, PoliciesFail(ns)
      PROVE  UiIInv'
  <2>1. /\ tab' = [tab EXCEPT !.data = <<>>, !.loading = FALSE, !.error = TRUE]
        /\ RequestFails /\ SearchEnds(ns)
    BY <1>5 DEF PoliciesFail
  <2>2. /\ DOMAIN tab' = TabFields /\ tab'.page = tab.page /\ tab'.num = tab.num
        /\ ~tab'.loading /\ tab'.error
    BY <1>0, <2>1 DEF TabFields
  <2> QED BY <1>0, <2>1, <2>2, FailedBound, SearchEndsStep
<1> QED BY <1>1, <1>2, <1>3, <1>4, <1>5 DEF Policies

-----------------------------------------------------------------------------
(* The dashboard. *)

LEMMA MinOfTwo ==
    ASSUME NEW a \in Nat, NEW b \in Nat
    PROVE  Min({a, b}) \in {a, b} /\ Min({a, b}) <= a /\ Min({a, b}) <= b
<1>1. {a, b} \subseteq Nat /\ {a, b} # {}
  OBVIOUS
<1>2. \E x \in {a, b} : \A y \in {a, b} : x <= y
  BY <1>1, NatHasLeast
<1> QED BY <1>2 DEF Min

(* The transactions that a walk has found never exceed those it looks for.  *)
LEMMA RecentBound ==
    ASSUME NEW n \in 0..(MaxHeight - 1), NEW got \in 0..RecentCount
    PROVE  Min({got + Cardinality(GetBlock(n)), RecentCount}) \in 0..RecentCount
<1> DEFINE count == Min({TxCount[n], DefaultTxLimit})
<1>1. TxCount[n] \in Nat /\ DefaultTxLimit \in Nat /\ RecentCount \in Nat /\ got \in Nat
  BY Constants
<1>2. count \in Nat
  BY <1>1, MinOfTwo
<1> HIDE DEF count
<1>3. IsFiniteSet(0..(count - 1))
  BY <1>2, FS_Interval
<1>4. Cardinality(0..(count - 1)) \in Nat
  BY <1>3, FS_CardinalityType
<1>5. Cardinality(GetBlock(n)) \in Nat
  BY <1>4 DEF GetBlock, count
<1>6. got + Cardinality(GetBlock(n)) \in Nat
  BY <1>1, <1>5
<1> DEFINE sum == got + Cardinality(GetBlock(n))
<1> HIDE DEF sum
<1>7. sum \in Nat
  BY <1>6 DEF sum
<1>8. Min({sum, RecentCount}) \in {sum, RecentCount} /\ Min({sum, RecentCount}) <= RecentCount
  BY <1>1, <1>7, MinOfTwo
<1>9. Min({sum, RecentCount}) \in 0..RecentCount
  BY <1>1, <1>7, <1>8
<1> QED BY <1>9 DEF sum

(* A step of one fetch leaves the others and the rest. *)
LEMMA PollsPageStep ==
    ASSUME UiIInv, UNCHANGED <<ledgerVars, search, fetch>>, tab.page = "dashboard",
           DOMAIN tab' = TabFields, tab'.page = tab.page, tab'.num = tab.num,
           failed' \in 0..MaxFaults, NEW p \in Polls, NEW poll,
           polls' = [polls EXCEPT ![p] = poll],
           DOMAIN poll = PollFields, poll.got \in 0..RecentCount,
           poll.top # <<>> => poll.top[1] \in Nat
    PROVE  UiIInv'
<1>1. Ledger' /\ GetBlockHeight' = GetBlockHeight
  BY LedgerKept DEF UiIInv
<1>2. /\ polls' = [q \in Polls |-> polls'[q]] /\ polls'[p] = poll
      /\ \A q \in Polls : q # p => polls'[q] = polls[q]
  BY DEF UiIInv, UiFields
<1>3. UiFields'
  BY <1>2 DEF UiIInv, UiFields, TabFields, PollFields
<1>4. PollsOK'
  BY <1>2 DEF UiIInv, PollsOK
<1>5. TabOK' /\ ListOK'
  BY <1>1 DEF UiIInv, TabOK, ListOK
<1>6. fetch.pc \notin {"height", "list", "both"} /\ fetch' = fetch
  BY DEF UiIInv, FetchOK
<1>7. FetchOK'
  BY <1>1, <1>6 DEF UiIInv, FetchOK
<1>8. SearchOK'
  BY SearchKept DEF UiIInv
<1> QED BY <1>1, <1>3, <1>4, <1>5, <1>7, <1>8 DEF UiIInv

(* Only a dashboard has fetches under way. *)
LEMMA PollIsOfDashboard ==
    ASSUME UiIInv, NEW p \in Polls, polls[p] # NoPoll
    PROVE  tab.page = "dashboard"
BY DEF UiIInv, PollsOK

LEMMA PollingStep ==
    ASSUME UiIInv, UNCHANGED <<ledgerVars, search>>, NEW p \in Polls,
           Poll(p) \/ PollStep(p) \/ PollFails(p)
    PROVE  UiIInv'
<1>0. /\ GetBlockHeight \in Nat /\ DOMAIN tab = TabFields /\ failed \in 0..MaxFaults
      /\ DOMAIN polls[p] = PollFields /\ polls[p].got \in 0..RecentCount
      /\ polls[p].top # <<>> => polls[p].top[1] \in Nat
      /\ polls = [q \in Polls |-> polls[q]]
  BY HeightFacts, Constants DEF UiIInv, UiFields, TabFields, PollFields, TabOK, PollsOK
<1>1. tab.page = "dashboard"
  <2>1. CASE Poll(p)
    BY <2>1 DEF Poll
  <2>2. CASE PollStep(p) \/ PollFails(p)
    <3>1. polls[p] # NoPoll
      BY <2>2, NoPollFacts DEF PollStep, PollFails, PollHeight, LatestTop, LatestList, RecentTop,
                               RecentBlock, Walking, PollShown
    <3> QED BY <3>1, PollIsOfDashboard
  <2> QED BY <2>1, <2>2
<1>2. CASE Poll(p) \/ PollHeight(p) \/ LatestTop(p) \/ LatestList(p) \/ RecentTop(p) \/ RecentBlock(p)
  <2>1. UNCHANGED <<tab, fetch, failed>>
    BY <1>2 DEF Poll, PollHeight, LatestTop, LatestList, RecentTop, RecentBlock
  <2>2. PICK poll : /\ polls' = [polls EXCEPT ![p] = poll] /\ DOMAIN poll = PollFields
                    /\ poll.got \in 0..RecentCount /\ (poll.top # <<>> => poll.top[1] \in Nat)
    <3>1. CASE Poll(p)
      <4> DEFINE poll == [polls[p] EXCEPT !.pc = "open"]
      <4>2. polls' = [polls EXCEPT ![p] = poll]
        BY <1>0, <3>1 DEF Poll
      <4>3. DOMAIN poll = PollFields /\ poll.got = polls[p].got /\ poll.top = polls[p].top
        BY <1>0 DEF PollFields
      <4> HIDE DEF poll
      <4> QED BY <1>0, <4>2, <4>3
    <3>2. CASE PollHeight(p)
      <4> DEFINE poll == [polls[p] EXCEPT !.height = <<GetBlockHeight>>]
      <4>2. polls' = [polls EXCEPT ![p] = poll]
        BY <1>0, <3>2 DEF PollHeight
      <4>3. DOMAIN poll = PollFields /\ poll.got = polls[p].got /\ poll.top = polls[p].top
        BY <1>0 DEF PollFields
      <4> HIDE DEF poll
      <4> QED BY <1>0, <4>2, <4>3
    <3>3. CASE LatestTop(p)
      <4> DEFINE poll == [polls[p] EXCEPT !.top = <<GetBlockHeight>>]
      <4>2. polls' = [polls EXCEPT ![p] = poll]
        BY <1>0, <3>3 DEF LatestTop
      <4>3. DOMAIN poll = PollFields /\ poll.got = polls[p].got /\ poll.top[1] = GetBlockHeight
        BY <1>0 DEF PollFields
      <4> HIDE DEF poll
      <4> QED BY <1>0, <4>2, <4>3
    <3>4. CASE LatestList(p)
      <4> DEFINE rows == ListBlocks(LatestOffset(polls[p].top[1]), LatestCount)
                 poll == [polls[p] EXCEPT !.latest = <<rows>>]
      <4>1. polls' = [polls EXCEPT ![p].latest = <<rows>>]
        BY <3>4 DEF LatestList
      <4> HIDE DEF rows
      <4>2. polls' = [polls EXCEPT ![p] = poll]
        BY <1>0, <4>1
      <4>3. DOMAIN poll = PollFields /\ poll.got = polls[p].got /\ poll.top = polls[p].top
        BY <1>0 DEF PollFields
      <4> HIDE DEF poll
      <4> QED BY <1>0, <4>2, <4>3
    <3>5. CASE RecentTop(p)
      <4> DEFINE poll == [polls[p] EXCEPT !.walk = <<GetBlockHeight>>, !.from = GetBlockHeight]
      <4>2. polls' = [polls EXCEPT ![p] = poll]
        BY <1>0, <3>5 DEF RecentTop
      <4>3. DOMAIN poll = PollFields /\ poll.got = polls[p].got /\ poll.top = polls[p].top
        BY <1>0 DEF PollFields
      <4> HIDE DEF poll
      <4> QED BY <1>0, <4>2, <4>3
    <3>6. CASE RecentBlock(p)
      <4> DEFINE n == polls[p].walk[1]
                 got == Min({polls[p].got + Cardinality(GetBlock(n)), RecentCount})
                 done == n = 0 \/ got = RecentCount \/ polls[p].from - n > RecentDepth
                 poll == [polls[p] EXCEPT !.got = got, !.walk = <<n - 1>>, !.recent = done]
      <4>1. n \in 0..(MaxHeight - 1)
        BY <3>6 DEF RecentBlock, UiIInv, Ledger
      <4>2. got \in 0..RecentCount
        BY <1>0, <4>1, RecentBound
      <4>3. polls' = [polls EXCEPT ![p].got = got, ![p].walk = <<n - 1>>, ![p].recent = done]
        BY <3>6 DEF RecentBlock
      <4> HIDE DEF n, got, done
      <4>4. polls' = [polls EXCEPT ![p] = poll]
        BY <1>0, <4>3
      <4>5. DOMAIN poll = PollFields /\ poll.got = got /\ poll.top = polls[p].top
        BY <1>0 DEF PollFields
      <4> HIDE DEF poll
      <4> QED BY <1>0, <4>2, <4>4, <4>5
    <3> QED BY <1>2, <3>1, <3>2, <3>3, <3>4, <3>5, <3>6
  <2> QED BY <1>0, <1>1, <2>1, <2>2, PollsPageStep
<1>3. CASE PollShown(p) \/ PollFails(p)
  <2>1. /\ polls' = [polls EXCEPT ![p] = NoPoll] /\ fetch' = fetch
        /\ DOMAIN tab' = TabFields /\ tab'.page = tab.page /\ tab'.num = tab.num
        /\ failed' \in 0..MaxFaults
    <3>1. CASE PollShown(p)
      <4>1. PICK r : Show(r)
        BY <3>1 DEF PollShown
      <4> QED BY <1>0, <3>1, <4>1, ShowFacts DEF PollShown, UiIInv
    <3>2. CASE PollFails(p)
      <4>1. ShowError /\ (failed' = failed \/ RequestFails)
        BY <3>2 DEF PollFails
      <4> QED BY <1>0, <3>2, <4>1, ErrorFacts, FailedBound DEF PollFails, UiIInv
    <3> QED BY <1>3, <3>1, <3>2
  <2>2. NoPoll.got \in 0..RecentCount
    BY NoPollFacts, Constants
  <2> QED BY <1>1, <2>1, <2>2, NoPollFacts, PollsPageStep
<1> QED BY <1>2, <1>3 DEF PollStep

-----------------------------------------------------------------------------

LEMMA UiInitially == UiInit => UiIInv
<1> SUFFICES ASSUME UiInit PROVE UiIInv
  OBVIOUS
<1>1. /\ stored = {} /\ tab = Page("dashboard", 0) /\ fetch = NoFetch
      /\ polls = [p \in Polls |-> NoPoll] /\ search = NoSearch /\ failed = 0
  BY DEF UiInit, Init
<1>2. Ledger
  BY <1>1 DEF Ledger
<1>3. /\ DOMAIN tab = TabFields /\ tab.page = "dashboard" /\ tab.num = 0
  BY <1>1, PageFacts
<1>4. UiFields /\ FetchOK
  BY <1>1, <1>3, NoFetchFacts, NoPollFacts, NoSearchFacts
     DEF UiFields, FetchOK, TabFields, PollFields, SearchFields
<1>5. TabOK /\ ListOK
  BY <1>1, <1>3, Constants DEF TabOK, ListOK
<1>6. PollsOK
  BY <1>1, NoPollFacts, Constants DEF PollsOK
<1>7. SearchOK
  BY <1>1, <1>3, NoSearchFacts, Constants DEF SearchOK, PoliciesAreAnswered
<1> QED BY <1>2, <1>4, <1>5, <1>6, <1>7 DEF UiIInv

LEMMA UiStep == UiIInv /\ [UiNext]_allVars => UiIInv'
<1> SUFFICES ASSUME UiIInv, [UiNext]_allVars PROVE UiIInv'
  OBVIOUS
<1>1. CASE Next /\ UNCHANGED uiVars
  BY <1>1, LedgerStep
<1>2. CASE (Navigate \/ NextBlock \/ Policies) /\ UNCHANGED ledgerVars
  BY <1>2, NavigateStep, NextBlockStep, PoliciesStep
<1>3. CASE (List \/ Detail \/ FetchFails) /\ UNCHANGED <<ledgerVars, search>>
  BY <1>3, ListStep, DetailStep, FetchFailsStep
<1>4. ASSUME NEW p \in Polls, Poll(p) \/ PollStep(p) \/ PollFails(p),
             UNCHANGED <<ledgerVars, search>>
      PROVE  UiIInv'
  BY <1>4, PollingStep
<1>5. CASE UNCHANGED allVars
  <2>1. stored' = stored /\ UNCHANGED <<tab, fetch, polls, search, failed>>
    BY <1>5 DEF allVars, ledgerVars, uiVars
  <2>2. GetBlockHeight' = GetBlockHeight
    BY <2>1 DEF GetBlockHeight
  <2>3. Ledger' /\ UiFields' /\ TabOK' /\ FetchOK' /\ PollsOK'
    BY <2>1, <2>2 DEF UiIInv, Ledger, UiFields, TabOK, FetchOK, PollsOK
  <2>4. ListOK'
    BY <2>1, <2>2 DEF UiIInv, ListOK, Shown, HighestBlock, LowestBlock, AtLeastZero
  <2>5. SearchOK'
    BY <2>1 DEF UiIInv, SearchOK, PoliciesAreAnswered, NoSearchOpen
  <2> QED BY <2>3, <2>4, <2>5 DEF UiIInv
<1> QED BY <1>1, <1>2, <1>3, <1>4, <1>5 DEF UiNext

(* What the pages hold and wait for in every reachable state: the           *)
(* inductive invariant of the theorems below.                              *)
THEOREM UiInvariance == UiSpec => []UiIInv
BY UiInitially, UiStep, PTL DEF UiSpec

(* A tab only asks: the ledger below it is the one that both models of the  *)
(* ingestion implement, so the pages may be read with either of them.      *)
THEOREM TabLeavesTheLedger == UiSpec => Spec
<1>1. UiInit => Init
  BY DEF UiInit
<1>2. [UiNext]_allVars => [Next]_ledgerVars
  BY DEF UiNext, allVars
<1> QED BY <1>1, <1>2, PTL DEF UiSpec, Spec

(* Types; and a list never stands on a page that is not there.              *)
THEOREM UiTypeCorrect == UiSpec => []UiTypeOK
<1>1. ASSUME UiIInv PROVE UiTypeOK
  <2>1. tab.page = "blocks" => HighestBlock(GetBlockHeight, tab.cur) >= 0
    <3>1. GetBlockHeight \in Nat
      BY <1>1, HeightFacts, Constants DEF UiIInv
    <3> QED BY <1>1, <3>1, Constants DEF UiIInv, ListOK, HighestBlock
  <2> QED BY <1>1, <2>1 DEF UiIInv, UiTypeOK, TabOK, FetchOK, PollsOK, SearchOK
<1>2. UiIInv => UiTypeOK
  BY <1>1
<1> QED BY <1>2, UiInvariance, PTL

(* policies/page.tsx:26-45: whichever order the answers of overlapping      *)
(* searches come in, once all are in the page has rows or says why not.    *)
THEOREM SearchesAreAnswered == UiSpec => []PoliciesAreAnswered
<1>1. UiIInv => PoliciesAreAnswered
  BY DEF UiIInv, SearchOK
<1> QED BY <1>1, UiInvariance, PTL

-----------------------------------------------------------------------------
(* The list of blocks. *)

(* Only the second answer of a fetch shows a list. *)
LEMMA ListIsShown ==
    ASSUME UiIInv, [UiNext]_allVars, tab'.page = "blocks", NewData
    PROVE  PageList /\ UNCHANGED ledgerVars
<1>1. tab' # tab /\ tab'.data # tab.data /\ tab'.data # <<>>
  BY DEF NewData
<1>2. ~UNCHANGED uiVars
  BY <1>1 DEF uiVars
<1>3. ~Navigate /\ ~NextBlock
  <2>1. ASSUME NEW name, NEW num, NEW start, NEW asked, GoTo(Page(name, num), start, asked)
        PROVE  FALSE
    <3>1. tab' = Page(name, num)
      BY <2>1 DEF GoTo
    <3> QED BY <1>1, <3>1, PageFacts
  <2> QED BY <2>1 DEF Navigate, NextBlock, OpenDashboard, OpenBlocks, OpenBlock, OpenPolicies
<1>4. ~Policies
  <2> SUFFICES ASSUME Policies PROVE FALSE
    OBVIOUS
  <2>1. tab.page = "policies"
    <3>1. CASE PressEnter \/ \E ns \in Namespaces : ChooseNamespace(ns) \/ TypeText(ns)
      BY <3>1 DEF PressEnter, ChooseNamespace, TypeText, SearchFor
    <3>2. CASE \E ns \in Namespaces : PoliciesShown(ns) \/ PoliciesFail(ns)
      <4>1. PICK ns \in Namespaces : search.open[ns] > 0
        BY <3>2 DEF PoliciesShown, PoliciesFail, SearchEnds
      <4> QED BY <4>1 DEF UiIInv, SearchOK
    <3> QED BY <3>1, <3>2 DEF Policies
  <2>2. tab'.page = tab.page
    BY DEF Policies, PressEnter, ChooseNamespace, TypeText, SearchFor, PoliciesShown, PoliciesFail,
           UiIInv, UiFields, TabFields
  <2> QED BY <2>1, <2>2
<1>5. ~Detail
  <2> SUFFICES ASSUME Detail PROVE FALSE
    OBVIOUS
  <2>1. tab.page = "block"
    BY DEF Detail, BlockHeight, BlockRows, BlockShown, TurnTxPage, UiIInv, FetchOK
  <2>2. tab'.page = tab.page
    <3>1. CASE BlockHeight \/ BlockRows
      BY <3>1 DEF BlockHeight, BlockRows
    <3>2. CASE BlockShown
      BY <3>2, ShowFacts DEF BlockShown, UiIInv
    <3>3. CASE TurnTxPage
      BY <3>3, TurnFacts DEF TurnTxPage, UiIInv
    <3> QED BY <3>1, <3>2, <3>3 DEF Detail
  <2> QED BY <2>1, <2>2
<1>6. ~FetchFails
  BY <1>1, ErrorFacts DEF FetchFails, UiIInv
<1>7. ASSUME NEW p \in Polls, Poll(p) \/ PollStep(p) \/ PollFails(p)
      PROVE  FALSE
  <2>1. CASE PollShown(p)
    <3>1. polls[p] # NoPoll
      BY <2>1, NoPollFacts DEF PollShown
    <3>2. PICK r : Show(r)
      BY <2>1 DEF PollShown
    <3> QED BY <3>1, <3>2, PollIsOfDashboard, ShowFacts DEF UiIInv
  <2>2. CASE PollFails(p)
    BY <1>1, <2>2, ErrorFacts DEF PollFails, UiIInv
  <2>3. CASE Poll(p) \/ PollHeight(p) \/ LatestTop(p) \/ LatestList(p) \/ RecentTop(p) \/ RecentBlock(p)
    BY <1>1, <2>3 DEF Poll, PollHeight, LatestTop, LatestList, RecentTop, RecentBlock
  <2> QED BY <1>7, <2>1, <2>2, <2>3 DEF PollStep
<1>8. ~PageHeight /\ ~PreviousPage /\ ~NextPage
  <2>1. ~PageHeight
    BY <1>1, PageHeightStep
  <2>2. ~PreviousPage /\ ~NextPage
    BY <1>1, TurnFacts DEF PreviousPage, NextPage, UiIInv
  <2> QED BY <2>1, <2>2
<1>9. ~UNCHANGED allVars
  BY <1>2 DEF allVars
<1> QED BY <1>2, <1>3, <1>4, <1>5, <1>6, <1>7, <1>8, <1>9 DEF UiNext, List

(* What a list shows. *)
LEMMA ShownListFacts ==
    ASSUME UiIInv, PageList
    PROVE  LET high == HighestBlock(fetch.height[1], tab.cur)
               low  == LowestBlock(high)
           IN  /\ tab'.data[1].page = tab.cur /\ tab'.data[1].highest = high
               /\ tab'.data[1].lowest = low
               /\ tab'.data[1].rows = ListBlocks(low, high - low + 1)
               /\ tab.page = "blocks" /\ tab.cur \in Nat /\ tab.cur * PageSize <= fetch.height[1]
               /\ fetch.height[1] \in 0..GetBlockHeight
               /\ tab.data # <<>> => tab.data[1].height <= fetch.height[1]
<1> DEFINE high == HighestBlock(fetch.height[1], tab.cur)
           low  == LowestBlock(high)
           rows == ListBlocks(low, high - low + 1)
           r == [page |-> tab.cur, height |-> fetch.height[1], highest |-> high, lowest |-> low,
                 rows |-> rows]
<1>1. Show(r)
  BY DEF PageList
<1>2. r.page = tab.cur /\ r.highest = high /\ r.lowest = low /\ r.rows = rows
  OBVIOUS
<1> HIDE DEF r
<1>3. tab'.data[1] = r
  BY <1>1, ShowFacts DEF UiIInv
<1>4. /\ tab.page = "blocks" /\ fetch.height[1] \in 0..GetBlockHeight /\ tab.cur \in Nat
      /\ tab.cur * PageSize <= fetch.height[1]
      /\ tab.data # <<>> => tab.data[1].height <= fetch.height[1]
  BY DEF UiIInv, PageList, FetchOK, ListOK
<1> QED BY <1>2, <1>3, <1>4

(* Without a gap a block stands at the offset that its number is. *)
LEMMA OffsetIsNumber ==
    ASSUME Ledger, NoGap, NEW n \in stored
    PROVE  Cardinality({m \in stored : m < n}) = n
<1>1. GetBlockHeight \in Nat /\ stored = 0..GetBlockHeight /\ n \in Nat
  BY HeightFacts, Constants DEF NoGap, Ledger
<1>2. {m \in stored : m < n} = 0..(n - 1)
  BY <1>1
<1>3. Cardinality(0..(n - 1)) = n
  <2>1. Cardinality(0..(n - 1)) = IF 0 > n - 1 THEN 0 ELSE (n - 1) - 0 + 1
    BY <1>1, FS_Interval
  <2> QED BY <1>1, <2>1
<1> QED BY <1>2, <1>3

LEMMA ListWithoutGap ==
    ASSUME Ledger, NoGap, NEW off \in Nat, NEW lim \in Int
    PROVE  ListBlocks(off, lim) = {n \in stored : off <= n /\ n <= off + lim - 1}
<1>1. \A n \in stored : Cardinality({m \in stored : m < n}) = n /\ n \in Nat
  BY OffsetIsNumber, Constants DEF Ledger
<1>2. \A n \in stored : Cardinality({m \in stored : m < n}) \in off..(off + lim - 1)
                            <=> off <= n /\ n <= off + lim - 1
  BY <1>1
<1> QED BY <1>2 DEF ListBlocks

LEMMA WindowFacts ==
    ASSUME NEW high \in Nat
    PROVE  /\ LowestBlock(high) \in 0..high
           /\ LowestBlock(high) - 1 <= high
           /\ LowestBlock(high) = 0 \/ LowestBlock(high) - 1 = high - PageSize
BY Constants DEF LowestBlock, AtLeastZero

(* blocks/page.tsx and api.ts:377: a page shows the window it names when no *)
(* block is missing, though its height was read before.                    *)
LEMMA ListIsWindow ==
    ASSUME UiIInv, NoGap, PageList
    PROVE  tab'.data[1].rows = tab'.data[1].lowest..tab'.data[1].highest
<1> DEFINE high == HighestBlock(fetch.height[1], tab.cur)
           low  == LowestBlock(high)
<1>1. /\ tab'.data[1].highest = high /\ tab'.data[1].lowest = low
      /\ tab'.data[1].rows = ListBlocks(low, high - low + 1)
      /\ tab.cur \in Nat /\ tab.cur * PageSize <= fetch.height[1]
      /\ fetch.height[1] \in 0..GetBlockHeight
  BY ShownListFacts
<1>2. GetBlockHeight \in Nat /\ stored = 0..GetBlockHeight
  BY HeightFacts, Constants DEF UiIInv, NoGap
<1>3. high \in 0..GetBlockHeight
  <2>1. tab.cur * PageSize \in Nat
    BY <1>1, Constants
  <2> QED BY <1>1, <1>2, <2>1 DEF HighestBlock
<1>4. low \in 0..high
  BY <1>2, <1>3, WindowFacts
<1> HIDE DEF high, low
<1>5. ListBlocks(low, high - low + 1) = {n \in stored : low <= n /\ n <= low + (high - low + 1) - 1}
  BY <1>2, <1>3, <1>4, ListWithoutGap DEF UiIInv
<1>6. {n \in stored : low <= n /\ n <= low + (high - low + 1) - 1} = low..high
  BY <1>2, <1>3, <1>4
<1> QED BY <1>1, <1>5, <1>6

(* api.ts:357: so do the newest blocks of the dashboard. *)
LEMMA LatestAreNewest ==
    ASSUME UiIInv, NoGap, [UiNext]_allVars, NEW p \in Polls,
           polls'[p].latest # polls[p].latest, polls'[p].latest # <<>>
    PROVE  LET top == polls[p].top[1]
           IN  {n \in stored : top - LatestCount < n /\ n <= top} \subseteq polls'[p].latest[1]
<1> DEFINE top == polls[p].top[1]
           off == LatestOffset(top)
<1>1. LatestList(p)
  <2>1. polls' # polls
    OBVIOUS
  <2>2. polls' # [q \in Polls |-> NoPoll]
    BY NoPollFacts
  <2>3. ~(Navigate \/ NextBlock)
    BY <2>2 DEF Navigate, NextBlock, OpenDashboard, OpenBlocks, OpenBlock, OpenPolicies, GoTo
  <2>4. ~(List \/ Detail \/ FetchFails \/ Policies)
    BY <2>1 DEF List, Detail, FetchFails, Policies, PageHeight, PageList, PreviousPage, NextPage,
                BlockHeight, BlockRows, BlockShown, TurnTxPage, TurnTo, PressEnter,
                ChooseNamespace, TypeText, SearchFor, PoliciesShown, PoliciesFail, SearchEnds
  <2>5. ~UNCHANGED uiVars /\ ~UNCHANGED allVars
    BY <2>1 DEF uiVars, allVars
  <2>6. PICK q \in Polls : Poll(q) \/ PollStep(q) \/ PollFails(q)
    BY <2>3, <2>4, <2>5 DEF UiNext
  <2>7. /\ polls = [r \in Polls |-> polls[r]] /\ DOMAIN polls[q] = PollFields
    BY DEF UiIInv, UiFields, PollFields
  <2>8. CASE LatestList(q)
    <3>1. q = p
      BY <2>7, <2>8 DEF LatestList
    <3> QED BY <2>8, <3>1
  <2>9. CASE PollShown(q) \/ PollFails(q)
    <3>1. polls' = [polls EXCEPT ![q] = NoPoll]
      BY <2>9 DEF PollShown, PollFails
    <3> QED BY <2>7, <3>1, NoPollFacts
  <2>10. CASE Poll(q) \/ PollHeight(q) \/ LatestTop(q) \/ RecentTop(q) \/ RecentBlock(q)
    <3>1. polls'[p].latest = polls[p].latest
      <4>1. CASE Poll(q)
        BY <2>7, <4>1 DEF Poll, PollFields
      <4>2. CASE PollHeight(q)
        BY <2>7, <4>2 DEF PollHeight, PollFields
      <4>3. CASE LatestTop(q)
        BY <2>7, <4>3 DEF LatestTop, PollFields
      <4>4. CASE RecentTop(q)
        BY <2>7, <4>4 DEF RecentTop, PollFields
      <4>5. CASE RecentBlock(q)
        <5>1. PICK got, walk, recent :
                 polls' = [polls EXCEPT ![q].got = got, ![q].walk = walk, ![q].recent = recent]
          BY <4>5 DEF RecentBlock
        <5> QED BY <2>7, <5>1 DEF PollFields
      <4> QED BY <2>10, <4>1, <4>2, <4>3, <4>4, <4>5
    <3> QED BY <3>1
  <2> QED BY <2>6, <2>8, <2>9, <2>10 DEF PollStep
<1>2. top \in Nat
  BY <1>1 DEF LatestList, UiIInv, PollsOK
<1>3. polls'[p].latest = <<ListBlocks(off, LatestCount)>>
  <2> DEFINE rows == ListBlocks(off, LatestCount)
  <2>1. polls' = [polls EXCEPT ![p].latest = <<rows>>]
    BY <1>1 DEF LatestList
  <2> HIDE DEF rows
  <2>2. polls'[p].latest = <<rows>>
    BY <2>1 DEF UiIInv, UiFields, PollFields
  <2> QED BY <2>2 DEF rows
<1>4. off \in Nat /\ LatestCount \in Nat /\ off <= AtLeastZero(top - LatestCount + 1)
  BY <1>2, Constants, SMTT(30) DEF LatestOffset, AtLeastZero
<1>5. \A n \in Nat : top - LatestCount < n /\ n <= top => off <= n /\ n <= off + LatestCount - 1
  BY <1>2, Constants DEF LatestOffset, AtLeastZero
<1> HIDE DEF top, off
<1>6. ListBlocks(off, LatestCount) = {n \in stored : off <= n /\ n <= off + LatestCount - 1}
  BY <1>4, ListWithoutGap DEF UiIInv
<1>7. stored \subseteq Nat
  BY Constants DEF UiIInv, Ledger
<1>8. {n \in stored : top - LatestCount < n /\ n <= top} \subseteq ListBlocks(off, LatestCount)
  BY <1>5, <1>6, <1>7
<1>9. polls'[p].latest[1] = ListBlocks(off, LatestCount)
  BY <1>3
<1> QED BY <1>8, <1>9 DEF top

(* api.ts:357, 377: where no block is missing, lists hold the window that   *)
(* they name, whatever was stored since their height was read.             *)
THEOREM ListsShowTheirWindow == UiSpec => ListsAreTheirWindow
<1>1. ASSUME UiIInv, [UiNext]_allVars
      PROVE  NoGap =>
        /\ tab'.page = "blocks" /\ NewData
             => tab'.data[1].rows = tab'.data[1].lowest..tab'.data[1].highest
        /\ \A p \in Polls :
              polls'[p].latest # polls[p].latest /\ polls'[p].latest # <<>>
                => LET top == polls[p].top[1]
                   IN  {n \in stored : top - LatestCount < n /\ n <= top} \subseteq polls'[p].latest[1]
  BY <1>1, ListIsShown, ListIsWindow, LatestAreNewest
<1>2. UiIInv /\ [UiNext]_allVars =>
        (NoGap =>
        /\ tab'.page = "blocks" /\ NewData
             => tab'.data[1].rows = tab'.data[1].lowest..tab'.data[1].highest
        /\ \A p \in Polls :
              polls'[p].latest # polls[p].latest /\ polls'[p].latest # <<>>
                => LET top == polls[p].top[1]
                   IN  {n \in stored : top - LatestCount < n /\ n <= top} \subseteq polls'[p].latest[1])
  BY <1>1
<1> QED BY <1>2, UiInvariance, PTL DEF UiSpec, ListsAreTheirWindow

(* blocks/page.tsx: a reader who turns to the next page misses no block     *)
(* number, however much the chain has grown.                               *)
THEOREM PagesContinue == UiSpec => NextPageMissesNothing
<1>1. ASSUME UiIInv, [UiNext]_allVars, tab'.page = "blocks", NewData, tab.data # <<>>,
             tab'.data[1].page > tab.data[1].page
      PROVE  tab'.data[1].highest >= tab.data[1].lowest - 1
  <2> DEFINE high == HighestBlock(fetch.height[1], tab.cur)
             old  == tab.data[1]
  <2>1. PageList
    BY <1>1, ListIsShown
  <2>2. /\ tab'.data[1].page = tab.cur /\ tab'.data[1].highest = high
        /\ tab.page = "blocks" /\ tab.cur \in Nat /\ tab.cur * PageSize <= fetch.height[1]
        /\ fetch.height[1] \in 0..GetBlockHeight /\ old.height <= fetch.height[1]
    BY <1>1, <2>1, ShownListFacts
  <2>3. /\ old.page \in Nat /\ old.height \in 0..GetBlockHeight
        /\ old.page * PageSize <= old.height
        /\ old.highest = HighestBlock(old.height, old.page) /\ old.lowest = LowestBlock(old.highest)
        /\ tab.cur <= old.page + 1
    BY <1>1, <2>2 DEF UiIInv, ListOK
  <2>4. GetBlockHeight \in Nat
    BY <1>1, HeightFacts, Constants DEF UiIInv
  <2>5. tab.cur = old.page + 1
    BY <1>1, <2>2, <2>3
  <2> DEFINE seen == old.page * PageSize
             below == fetch.height[1]
  <2>6. below \in Nat /\ seen \in Nat /\ old.height \in Nat /\ PageSize \in Nat
    BY <2>2, <2>3, <2>4, Constants, SMTT(30)
  <2>7. tab.cur * PageSize = seen + PageSize
    BY <2>3, <2>5, Constants
  <2>8. high = below - tab.cur * PageSize /\ old.highest = old.height - seen
    BY <2>3 DEF HighestBlock
  <2>9. old.height <= below /\ seen <= old.height /\ tab.cur * PageSize <= below
    BY <2>2, <2>3
  <2> HIDE DEF high, seen, below
  <2>10. high >= old.highest - PageSize /\ high >= 0 /\ old.highest \in Nat /\ high \in Nat
    BY <2>6, <2>7, <2>8, <2>9
  <2>11. old.lowest \in 0..old.highest /\ (old.lowest = 0 \/ old.lowest - 1 = old.highest - PageSize)
    BY <2>3, <2>10, WindowFacts
  <2>12. high >= old.lowest - 1
    BY <2>6, <2>10, <2>11
  <2> QED BY <2>2, <2>12
<1>2. UiIInv /\ [UiNext]_allVars =>
        (/\ tab'.page = "blocks" /\ NewData /\ tab.data # <<>>
         /\ tab'.data[1].page > tab.data[1].page
         => tab'.data[1].highest >= tab.data[1].lowest - 1)
  BY <1>1
<1> QED BY <1>2, UiInvariance, PTL DEF UiSpec, NextPageMissesNothing
=============================================================================
