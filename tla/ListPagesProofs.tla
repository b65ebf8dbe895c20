--------------------------- MODULE ListPagesProofs --------------------------
(* The catalog pages with every set of scenarios, texts, records and page      *)
(* sizes, opened at any view: the state keeps its types, only answers to what  *)
(* the controls ask come on screen (the refinement of QueryView), what is on   *)
(* screen is what bookmark and controls ask for, and what the user has not     *)
(* touched keeps the value of the bookmark; both but for the sorts the         *)
(* conversations' schema does not name.                                        *)
EXTENDS ListPages, FiniteSetTheorems, TLAPS
LOCAL INSTANCE FiniteSetsExt

\* The scenario of a behaviour never changes.
Framed == /\ at.page \in Pages /\ at.query \in DOMAIN P.queries /\ at.gestures \in Nat
          /\ at.fields \subseteq P.schema /\ at.column \in P.columns \cup {P.sort}
          /\ at.loaded \in Params
ListInv == TypeOK /\ Framed

\* Every field of a page's schema survives the round trip through the URL.
LEMMA Sheets ==
  ASSUME NEW p \in Pages
  PROVE  /\ Catalog[p].parsed = Catalog[p].schema
         /\ Catalog[p].built = Catalog[p].schema
         /\ Catalog[p].dir \in {"asc", "desc"}
  <1>1. /\ parseAuditSearchParams = auditSearchSchema
        /\ buildAuditSearchParams = auditSearchSchema
    BY DEF parseAuditSearchParams, buildAuditSearchParams, auditSearchSchema
  <1>2. /\ parseClientsSearchParams = clientsSearchSchema
        /\ buildClientsSearchParams = clientsSearchSchema
    BY DEF parseClientsSearchParams, buildClientsSearchParams, clientsSearchSchema
  <1>3. /\ parseConversationsSearchParams = conversationsSearchSchema
        /\ buildConversationsSearchParams = conversationsSearchSchema
    BY DEF parseConversationsSearchParams, buildConversationsSearchParams,
           conversationsSearchSchema
  <1>4. /\ parseMemorySearchParams = memorySearchSchema
        /\ buildMemorySearchParams = memorySearchSchema
    BY DEF parseMemorySearchParams, buildMemorySearchParams, memorySearchSchema
  <1>5. /\ parseToolSearchParams = toolSearchSchema
        /\ buildToolSearchParams = toolSearchSchema
    BY DEF parseToolSearchParams, buildToolSearchParams, toolSearchSchema
  <1>6. /\ parseAnalyticsSearchParams = analyticsFilterSchema
        /\ buildAnalyticsSearchParams = analyticsFilterSchema
    BY DEF parseAnalyticsSearchParams, buildAnalyticsSearchParams, analyticsFilterSchema
  <1>7. /\ parseExperimentSearchParams = experimentSearchSchema
        /\ buildExperimentSearchParams = experimentSearchSchema
    BY DEF parseExperimentSearchParams, buildExperimentSearchParams, experimentSearchSchema
  <1>8. parseHelpSearchParams = helpSearchSchema /\ buildHelpSearchParams = helpSearchSchema
    BY DEF parseHelpSearchParams, buildHelpSearchParams, helpSearchSchema
  <1> QED BY <1>1, <1>2, <1>3, <1>4, <1>5, <1>6, <1>7, <1>8
          DEF Pages, Catalog, AuditLogsPage, ClientManagementPage, ConversationsPage,
              MemoryExplorerPage, ToolMonitoringPage, AnalyticsPage,
              ExperimentDashboardPage, HelpPage

-----------------------------------------------------------------------------
(* The URL carries every view, but for a sort its enumeration does not name.   *)

LEMMA FirstView ==
  ASSUME Framed
  PROVE  /\ Default(P) \in Params
         /\ Default(P).by = P.sort /\ Default(P).page = 1
  BY Sheets, TextsHold, SizesNat DEF Framed, P, Params, Default, Bys

LEMMA Built ==
  ASSUME Framed, NEW v \in Params
  PROVE  /\ Build(v) = v
         /\ Build(FirstPage(v)) \in Params
         /\ Build(FirstPage(v)).on = v.on /\ Build(FirstPage(v)).search = v.search
         /\ Build(FirstPage(v)).by = v.by /\ Build(FirstPage(v)).dir = v.dir
         /\ Build(FirstPage(v)).size = v.size
  <1>1. \A w \in Params : Build(w) = w
    <2> TAKE w \in Params
    <2>1. w.on \cap P.built = w.on
      BY Sheets DEF Framed, P, Params
    <2> QED BY <2>1 DEF Build, Params
  <1>2. FirstPage(v) \in Params
    BY DEF FirstPage, Params
  <1>3. /\ FirstPage(v).on = v.on /\ FirstPage(v).search = v.search
        /\ FirstPage(v).by = v.by /\ FirstPage(v).dir = v.dir /\ FirstPage(v).size = v.size
    BY DEF FirstPage, Params
  <1> QED BY <1>1, <1>2, <1>3

\* What each callback patches, and what it leaves.
LEMMA SearchingIs ==
  ASSUME NEW v \in Params, NEW t \in Texts
  PROVE  /\ Searching(v, t) \in Params /\ Searching(v, t).search = t
         /\ Searching(v, t).on = v.on /\ Searching(v, t).by = v.by
         /\ Searching(v, t).dir = v.dir /\ Searching(v, t).size = v.size
         /\ Searching(v, t).page = v.page
  BY DEF Searching, Params

LEMMA FilteringIs ==
  ASSUME NEW v \in Params, NEW c, NEW on \in SUBSET at.fields
  PROVE  /\ Filtering(v, c, on) \in Params /\ Filtering(v, c, on).on = (v.on \ c) \cup on
         /\ Filtering(v, c, on).search = v.search /\ Filtering(v, c, on).by = v.by
         /\ Filtering(v, c, on).dir = v.dir /\ Filtering(v, c, on).size = v.size
         /\ Filtering(v, c, on).page = v.page
  BY DEF Filtering, Params

LEMMA SortingIs ==
  ASSUME NEW v \in Params, NEW by \in Bys, NEW dir \in {"asc", "desc"}
  PROVE  /\ Sorting(v, by, dir) \in Params
         /\ Sorting(v, by, dir).by = by /\ Sorting(v, by, dir).dir = dir
         /\ Sorting(v, by, dir).on = v.on /\ Sorting(v, by, dir).search = v.search
         /\ Sorting(v, by, dir).size = v.size /\ Sorting(v, by, dir).page = v.page
  BY DEF Sorting, Params

LEMMA TurningIs ==
  ASSUME NEW v \in Params, NEW n \in Nat \ {0}
  PROVE  /\ Turning(v, n) \in Params /\ Turning(v, n).page = n
         /\ Turning(v, n).on = v.on /\ Turning(v, n).search = v.search
         /\ Turning(v, n).by = v.by /\ Turning(v, n).dir = v.dir
         /\ Turning(v, n).size = v.size
  BY DEF Turning, Params

LEMMA ResizingIs ==
  ASSUME NEW v \in Params, NEW n \in Sizes
  PROVE  /\ Resizing(v, n) \in Params /\ Resizing(v, n).size = n /\ Resizing(v, n).page = 1
         /\ Resizing(v, n).on = v.on /\ Resizing(v, n).search = v.search
         /\ Resizing(v, n).by = v.by /\ Resizing(v, n).dir = v.dir
  <1> DEFINE w(k) == [v EXCEPT !.size = n, !.page = k]
  <1>1. \A k \in Nat \ {0} : /\ w(k) \in Params /\ w(k).size = n /\ w(k).page = k
                             /\ w(k).on = v.on /\ w(k).search = v.search
                             /\ w(k).by = v.by /\ w(k).dir = v.dir
    BY DEF Params
  <1>2. 1 \in Nat \ {0} /\ Resizing(v, n) = w(1)
    BY DEF Resizing
  <1> HIDE DEF w
  <1> QED BY <1>1, <1>2

LEMMA Parsed ==
  ASSUME Framed, NEW u \in Params
  PROVE  /\ Parse(u) \in Params
         /\ Parse(u).on = u.on /\ Parse(u).search = u.search
         /\ Parse(u).dir = u.dir /\ Parse(u).size = u.size /\ Parse(u).page = u.page
         /\ Parse(u).by \in {u.by, P.sort}
  <1>1. u.on \cap P.parsed = u.on
    BY Sheets DEF Framed, P, Params
  <1>2. Parse(u) = [u EXCEPT !.by = IF u.by \in P.sorts THEN u.by ELSE P.sort]
    BY <1>1 DEF Parse, Params
  <1> QED BY <1>2 DEF Params, Bys

\* What a query asks is a question of the catalog.
LEMMA KeyType ==
  ASSUME Framed, NEW v \in Params, NEW row \in Items \cup {None}
  PROVE  Key(v, row) \in Questions
  <1> DEFINE k == IF P.paged /\ Q.keys # {} THEN [v EXCEPT !.on = @ \cap Q.keys]
                  ELSE [Default(P) EXCEPT !.on = v.on \cap Q.keys]
  <1>1. k \in Params
    BY FirstView DEF Params
  <1>2. at.fields \subseteq UNION {Catalog[p].schema : p \in Pages}
    BY DEF Framed, P
  <1>3. Bys \subseteq UNION {Catalog[p].columns \cup {Catalog[p].sort} : p \in Pages}
    BY DEF Framed, P, Bys
  <1>4. (IF Q.waits THEN row ELSE None) \in Items \cup {None}
    OBVIOUS
  <1>5. Key(v, row) = <<k, IF Q.waits THEN row ELSE None>>
    BY DEF Key
  <1> HIDE DEF k
  <1> QED BY <1>1, <1>2, <1>3, <1>4, <1>5 DEF Params, Questions

-----------------------------------------------------------------------------
(* Parsing loses nothing but the sorts no enumeration names.                   *)

\* The columns of a table against the enumeration of its schema, page by page.
LEMMA Columns ==
  ASSUME NEW p \in Pages
  PROVE  /\ p # "conversations" => Catalog[p].columns \subseteq Catalog[p].sorts
         /\ p = "conversations" =>
              /\ Catalog[p].columns \subseteq
                   Catalog[p].sorts \cup {"customer_name", "intent_label"}
              /\ Catalog[p].sorts \cap {"customer_name", "intent_label"} = {}
  <1>1. /\ buildAuditColumns \subseteq AUDIT_SORT_FIELDS
        /\ buildClientColumns \subseteq CLIENT_SORT_FIELDS
        /\ buildMemoryColumns \subseteq MEMORY_SORT_FIELDS
        /\ buildToolColumns \subseteq TOOL_SORT_FIELDS
    BY DEF buildAuditColumns, AUDIT_SORT_FIELDS, buildClientColumns, CLIENT_SORT_FIELDS,
           buildMemoryColumns, MEMORY_SORT_FIELDS, buildToolColumns, TOOL_SORT_FIELDS
  <1>2. /\ buildConversationColumns \subseteq
             CONVERSATION_SORT_FIELDS \cup {"customer_name", "intent_label"}
        /\ CONVERSATION_SORT_FIELDS \cap {"customer_name", "intent_label"} = {}
    BY DEF buildConversationColumns, CONVERSATION_SORT_FIELDS
  <1> QED BY <1>1, <1>2
          DEF Pages, Catalog, AuditLogsPage, ClientManagementPage, ConversationsPage,
              MemoryExplorerPage, ToolMonitoringPage, AnalyticsPage,
              ExperimentDashboardPage, HelpPage

LEMMA GrantedTwice ==
  ASSUME Framed, NEW u \in Params
  PROVE  /\ Parse(u) = Granted(u)
         /\ \A w \in Params : u.by \in {w.by, Granted(w).by} => Granted(u).by = Granted(w).by
  <1>1. u.on \cap P.parsed = u.on
    BY Sheets DEF Framed, P, Params
  <1>2. \A by \in Bys : (IF by \in P.sorts THEN by ELSE P.sort)
                       = (IF by \in Unnamed THEN P.sort ELSE by)
    <2>1. Bys \subseteq P.columns \cup {P.sort} /\ at.page \in Pages
      BY DEF Bys, Framed
    <2>2. CASE at.page = "conversations"
      BY <2>1, <2>2, Columns DEF P, Unnamed
    <2>3. CASE at.page # "conversations"
      BY <2>1, <2>3, Columns DEF P, Unnamed
    <2> QED BY <2>2, <2>3
  <1>3. Parse(u) = Granted(u)
    BY <1>1, <1>2 DEF Parse, Granted, Params
  <1>4. \A w \in Params : Granted(w).by = IF w.by \in Unnamed THEN P.sort ELSE w.by
    BY DEF Granted, Params
  <1> QED BY <1>3, <1>4

-----------------------------------------------------------------------------
(* Every action leaves the scenario alone and every variable in its type.      *)

\* The next state has its types, given those of its parts.
LEMMA Holds ==
  ASSUME Framed, at' = at, url' \in Params, rendered' \in Params, wanted' \in Params,
         mounted' \in BOOLEAN, timer' \in BOOLEAN, crossed' \in BOOLEAN,
         box' \in Texts, debounced' \in Texts, selected' \in Items \cup {None},
         tries' \in 0..2, gestures' \in 0..at.gestures,
         cached' \subseteq Questions, last' \in cached' \cup {None}
  PROVE  ListInv'
  <1>1. P' = P /\ Params' = Params
    BY DEF P, Params, Bys
  <1>2. Framed'
    BY <1>1 DEF Framed
  <1>3. TypeOK'
    BY <1>1 DEF TypeOK, Framed
  <1> QED BY <1>2, <1>3 DEF ListInv

\* The parts of the state.
LEMMA Parts ==
  ASSUME ListInv
  PROVE  /\ url \in Params /\ rendered \in Params /\ wanted \in Params
         /\ mounted \in BOOLEAN /\ timer \in BOOLEAN /\ crossed \in BOOLEAN
         /\ box \in Texts /\ debounced \in Texts /\ selected \in Items \cup {None}
         /\ tries \in 0..2 /\ gestures \in 0..at.gestures
         /\ cached \subseteq Questions /\ last \in cached \cup {None}
         /\ Framed /\ at.gestures \in Nat
  BY DEF ListInv, TypeOK, Framed

\* A callback patches parameters of the page's own type.
LEMMA Navigated ==
  ASSUME Framed, NEW v \in Params, NEW w
  PROVE  /\ Navigate(v, w) => url' = v /\ wanted' = w /\ crossed' \in BOOLEAN
         /\ updateParams(v, w) => /\ url' \in Params /\ crossed' \in BOOLEAN
                                  /\ url'.on = v.on /\ url'.search = v.search
                                  /\ url'.by = v.by /\ url'.dir = v.dir /\ url'.size = v.size
         /\ updateParams(v, w) /\ w \in Params => wanted' \in Params
  <1>1. w \in Params => FirstPage(w) \in Params
    BY DEF FirstPage, Params
  <1> QED BY <1>1, Built DEF Navigate, updateParams

LEMMA Gestured ==
  ASSUME ListInv, NEW fields, Gesture(fields)
  PROVE  gestures' \in 0..at.gestures /\ mounted
  BY Parts DEF Gesture

\* Where the observer looks after a render or a selection.
LEMMA Looked ==
  ASSUME ListInv, NEW v \in Params, NEW row \in Items \cup {None}, Look(v, row)
  PROVE  /\ cached' = cached /\ last' \in {last, Key(v, row)} /\ last' \in cached \cup {None}
         /\ tries' \in 0..2
  BY Parts DEF Look

\* The number of pages of what is shown.
LEMMA CountType == ListInv => PageCount \in Nat \ {0}
  <1> SUFFICES ASSUME ListInv, ShownKey # None, Total(ShownKey) # 0
               PROVE  PageCount \in Nat \ {0}
    BY DEF PageCount
  <1>1. rendered.size \in Nat \ {0}
    BY Parts, SizesNat DEF Params
  <1>2. IsFiniteSet(Found(ShownKey))
    <2>1. IsFiniteSet({ShownKey[2]})
      BY FS_Singleton
    <2>2. Narrow(ShownKey[1].search, ShownKey[1].on \cap Q.sent \cap DOMAIN Q.handler)
            \subseteq Items
      BY DEF Narrow
    <2> QED BY <2>1, <2>2, ItemsNat, FS_Subset DEF Found
  <1>3. Total(ShownKey) \in Nat \ {0}
    BY <1>2, FS_CardinalityType DEF Total
  <1>4. PageCount = (Total(ShownKey) + rendered.size - 1) \div rendered.size
    BY DEF PageCount
  <1> HIDE DEF PageCount, Total
  <1>5. \A a, b \in Nat \ {0} : (a + b - 1) \div b \in Nat \ {0}
    OBVIOUS
  <1> QED BY <1>1, <1>3, <1>4, <1>5

\* The controls of a table.
LEMMA TableStep ==
  ASSUME ListInv,
         \/ \E c \in P.controls : Set(c)
         \/ handleSortingChange \/ Turn \/ Resize \/ resetAllFilters
  PROVE  ListInv' /\ UNCHANGED <<rendered, selected, last>> /\ at' = at
  <1>p. /\ rendered \in Params /\ wanted \in Params /\ Framed
        /\ mounted \in BOOLEAN /\ timer \in BOOLEAN
        /\ box \in Texts /\ debounced \in Texts /\ selected \in Items \cup {None}
        /\ tries \in 0..2 /\ cached \subseteq Questions /\ last \in cached \cup {None}
    BY Parts
  <1>h. ASSUME NEW fields, Gesture(fields), url' \in Params, wanted' \in Params,
               crossed' \in BOOLEAN,
               UNCHANGED <<at, rendered, Toolbar, selected, Query0>>
        PROVE  ListInv' /\ UNCHANGED <<rendered, selected, last>> /\ at' = at
    <2>1. /\ at' = at /\ rendered' = rendered /\ selected' = selected /\ last' = last
          /\ mounted' = mounted /\ box' = box /\ debounced' = debounced /\ timer' = timer
          /\ cached' = cached /\ tries' = tries
      BY <1>h DEF Toolbar, Query0
    <2>2. gestures' \in 0..at.gestures
      BY <1>h, Gestured
    <2> QED BY <1>p, <1>h, <2>1, <2>2, Holds
  <1>1. ASSUME NEW c \in P.controls, Set(c)
        PROVE  ListInv' /\ UNCHANGED <<rendered, selected, last>> /\ at' = at
    <2>1. PICK on \in SUBSET (c \cap at.fields) :
            /\ Gesture(c)
            /\ updateParams(Filtering(rendered, c, on), Filtering(wanted, c, on))
            /\ UNCHANGED <<at, rendered, Toolbar, selected, Query0>>
      BY <1>1 DEF Set
    <2>2. Filtering(rendered, c, on) \in Params /\ Filtering(wanted, c, on) \in Params
      BY <1>p, <2>1, FilteringIs
    <2> QED BY <1>p, <1>h, <2>1, <2>2, Navigated
  <1>2. CASE handleSortingChange
    <2>1. PICK by \in Bys \cap P.columns, dir \in {"asc", "desc"} :
            /\ Gesture({"sort"})
            /\ Navigate(Sorting(rendered, by, dir), Sorting(wanted, by, dir))
            /\ UNCHANGED <<at, rendered, Toolbar, selected, Query0>>
      BY <1>2 DEF handleSortingChange
    <2>2. Sorting(rendered, by, dir) \in Params /\ Sorting(wanted, by, dir) \in Params
      BY <1>p, SortingIs
    <2> QED BY <1>p, <1>h, <2>1, <2>2, Navigated
  <1>3. CASE Turn
    <2>1. PICK n \in (IF rendered.page <= 1 THEN {} ELSE {1, rendered.page - 1})
                     \cup (IF rendered.page >= PageCount THEN {}
                           ELSE {rendered.page + 1, PageCount}) :
            Navigate(Turning(rendered, n), Turning(wanted, n))
      BY <1>3 DEF Turn
    <2>2. n \in Nat \ {0}
      <3>1. rendered.page \in Nat \ {0}
        BY <1>p DEF Params
      <3> QED BY <2>1, <3>1, CountType
    <2>3. Turning(rendered, n) \in Params /\ Turning(wanted, n) \in Params
      BY <1>p, <2>2, TurningIs
    <2> QED BY <1>p, <1>h, <1>3, <2>1, <2>3, Navigated DEF Turn
  <1>4. CASE Resize
    <2>1. PICK n \in Sizes \ {rendered.size} :
            /\ Gesture({"size"})
            /\ Navigate(Resizing(rendered, n), Resizing(wanted, n))
            /\ UNCHANGED <<at, rendered, Toolbar, selected, Query0>>
      BY <1>4 DEF Resize
    <2>2. Resizing(rendered, n) \in Params /\ Resizing(wanted, n) \in Params
      BY <1>p, <2>1, ResizingIs
    <2> QED BY <1>p, <1>h, <2>1, <2>2, Navigated
  <1>5. CASE resetAllFilters
    BY <1>p, <1>h, <1>5, FirstView, Navigated DEF resetAllFilters
  <1> QED BY <1>1, <1>2, <1>3, <1>4, <1>5

\* The search box with its debounce, and the commits.
LEMMA BoxStep ==
  ASSUME ListInv, Mount \/ (\E t \in Texts : Type(t)) \/ Fire \/ resetFilters
  PROVE  ListInv' /\ UNCHANGED <<rendered, selected, last>> /\ at' = at
  <1>p. /\ rendered \in Params /\ url \in Params /\ wanted \in Params /\ Framed
        /\ mounted \in BOOLEAN
        /\ timer \in BOOLEAN /\ crossed \in BOOLEAN
        /\ box \in Texts /\ debounced \in Texts /\ selected \in Items \cup {None}
        /\ tries \in 0..2 /\ cached \subseteq Questions /\ last \in cached \cup {None}
        /\ gestures \in 0..at.gestures /\ rendered.search \in Texts
    BY Parts DEF Params
  <1>1. CASE Mount
    <2>1. url' \in Params /\ wanted' \in Params /\ crossed' \in BOOLEAN
      <3>1. CASE P.searches
        BY <1>p, <1>1, <3>1, Navigated DEF Mount
      <3>2. CASE ~P.searches
        BY <1>p, <1>1, <3>2 DEF Mount, Location
      <3> QED BY <3>1, <3>2
    <2>2. /\ at' = at /\ rendered' = rendered /\ timer' = timer /\ selected' = selected
          /\ cached' = cached /\ last' = last /\ tries' = tries /\ gestures' = gestures
          /\ mounted' = TRUE /\ box' = rendered.search /\ debounced' = rendered.search
      BY <1>1 DEF Mount, Query0
    <2> QED BY <1>p, <2>1, <2>2, Holds
  <1>2. ASSUME NEW t \in Texts, Type(t)
        PROVE  ListInv' /\ UNCHANGED <<rendered, selected, last>> /\ at' = at
    <2>1. /\ at' = at /\ rendered' = rendered /\ url' = url /\ selected' = selected
          /\ cached' = cached /\ last' = last /\ tries' = tries /\ mounted' = mounted
          /\ box' = t /\ timer' = TRUE /\ debounced' = debounced /\ crossed' = crossed
          /\ wanted' = wanted
      BY <1>2 DEF Type, Query0, Location
    <2>2. gestures' \in 0..at.gestures
      BY <1>2, Gestured DEF Type
    <2> QED BY <1>p, <2>1, <2>2, Holds
  <1>3. CASE Fire
    <2>1. url' \in Params /\ wanted' \in Params /\ crossed' \in BOOLEAN
      <3>1. Searching(rendered, box) \in Params /\ Searching(wanted, box) \in Params
        BY <1>p, SearchingIs
      <3>2. CASE box # debounced
        BY <1>p, <1>3, <3>1, <3>2, Navigated DEF Fire
      <3>3. CASE box = debounced
        BY <1>p, <1>3, <3>3 DEF Fire, Location
      <3> QED BY <3>2, <3>3
    <2>2. /\ at' = at /\ rendered' = rendered /\ timer' = FALSE /\ selected' = selected
          /\ cached' = cached /\ last' = last /\ tries' = tries /\ gestures' = gestures
          /\ mounted' = mounted /\ box' = box /\ debounced' = box
      BY <1>3 DEF Fire, Query0
    <2> QED BY <1>p, <2>1, <2>2, Holds
  <1>4. CASE resetFilters
    <2>1. url' \in Params /\ wanted' \in Params /\ crossed' \in BOOLEAN
      <3>1. /\ Filtering(rendered, {"intent"}, {}) \in Params
            /\ Filtering(wanted, at.fields, {}) \in Params
        BY <1>p, FilteringIs
      <3>2. FirstPage(Searching(Filtering(wanted, at.fields, {}), NoText)) \in Params
        <4>1. Searching(Filtering(wanted, at.fields, {}), NoText) \in Params
          BY <3>1, TextsHold, SearchingIs
        <4> QED BY <4>1 DEF FirstPage, Params
      <3> QED BY <1>p, <1>4, <3>1, <3>2, Built DEF resetFilters
    <2>2. /\ at' = at /\ rendered' = rendered /\ selected' = selected
          /\ cached' = cached /\ last' = last /\ tries' = tries
          /\ mounted' = mounted /\ box' = NoText /\ debounced' = debounced
      BY <1>4 DEF resetFilters, Query0
    <2>3. timer' \in BOOLEAN
      BY <1>4 DEF resetFilters
    <2>4. gestures' \in 0..at.gestures
      BY <1>4, Gestured DEF resetFilters
    <2> QED BY <1>p, <2>1, <2>2, <2>3, <2>4, TextsHold, Holds
  <1> QED BY <1>1, <1>2, <1>3, <1>4

(* The controls ask another question: a commit and a selection.  What is last   *)
(* seen stays, or is the cached answer to the new question.                     *)
LEMMA LookStep ==
  ASSUME ListInv, Rerender \/ Select
  PROVE  ListInv' /\ at' = at /\ Asked' \in Questions /\ last' \in {last, Asked'}
  <1>p. /\ rendered \in Params /\ url \in Params /\ wanted \in Params /\ Framed
        /\ mounted \in BOOLEAN
        /\ timer \in BOOLEAN /\ crossed \in BOOLEAN
        /\ box \in Texts /\ debounced \in Texts /\ selected \in Items \cup {None}
        /\ cached \subseteq Questions /\ gestures \in 0..at.gestures
    BY Parts
  <1>1. CASE Rerender
    <2>1. Parse(url) \in Params /\ Parse(url).search \in Texts
      BY <1>p, Parsed DEF Params
    <2>2. /\ at' = at /\ url' = url /\ rendered' = Parse(url) /\ mounted' = mounted
          /\ selected' = selected /\ crossed' = crossed /\ gestures' = gestures
          /\ debounced' = debounced /\ wanted' = wanted /\ Look(Parse(url), selected)
      BY <1>1 DEF Rerender, Location
    <2>3. box' \in Texts /\ timer' \in BOOLEAN
      BY <1>1, <1>p, <2>1 DEF Rerender
    <2>4. /\ cached' = cached /\ last' \in {last, Key(Parse(url), selected)}
          /\ last' \in cached \cup {None} /\ tries' \in 0..2
      BY <1>p, <2>1, <2>2, Looked
    <2>5. Asked' = Key(Parse(url), selected)
      BY <2>2 DEF Asked, Key, P, Q, Default
    <2> QED BY <1>p, <2>1, <2>2, <2>3, <2>4, <2>5, KeyType, Holds
  <1>2. CASE Select
    <2>1. PICK i \in Items \ {selected} :
            /\ Gesture({}) /\ selected' = i /\ Look(rendered, i)
            /\ UNCHANGED <<at, Location, rendered, Toolbar>>
      BY <1>2 DEF Select
    <2>2. /\ at' = at /\ url' = url /\ rendered' = rendered /\ mounted' = mounted
          /\ box' = box /\ debounced' = debounced /\ timer' = timer /\ crossed' = crossed
          /\ wanted' = wanted
      BY <2>1 DEF Toolbar, Location
    <2>3. /\ cached' = cached /\ last' \in {last, Key(rendered, i)}
          /\ last' \in cached \cup {None} /\ tries' \in 0..2
      BY <1>p, <2>1, Looked
    <2>4. gestures' \in 0..at.gestures
      BY <2>1, Gestured
    <2>5. Asked' = Key(rendered, i)
      BY <2>1, <2>2 DEF Asked, Key, P, Q, Default
    <2> QED BY <1>p, <2>1, <2>2, <2>3, <2>4, <2>5, KeyType, Holds
  <1> QED BY <1>1, <1>2

(* The query: the answer that arrives is the one to what is asked. *)
LEMMA QueryStep ==
  ASSUME ListInv, Refetch \/ Answer \/ Fail
  PROVE  ListInv' /\ UNCHANGED <<rendered, selected>> /\ at' = at /\ last' \in {last, Asked}
  <1>p. /\ rendered \in Params /\ url \in Params /\ wanted \in Params /\ Framed
        /\ mounted \in BOOLEAN
        /\ timer \in BOOLEAN /\ crossed \in BOOLEAN
        /\ box \in Texts /\ debounced \in Texts /\ selected \in Items \cup {None}
        /\ tries \in 0..2 /\ cached \subseteq Questions /\ last \in cached \cup {None}
        /\ gestures \in 0..at.gestures /\ at.gestures \in Nat
    BY Parts
  <1>1. /\ at' = at /\ rendered' = rendered /\ url' = url /\ selected' = selected
        /\ mounted' = mounted /\ box' = box /\ debounced' = debounced /\ timer' = timer
        /\ crossed' = crossed /\ wanted' = wanted
    BY DEF Refetch, Answer, Fail, Toolbar, Location
  <1>2. gestures' \in 0..at.gestures
    BY <1>p DEF Refetch, Answer, Fail
  <1>3. tries' \in 0..2
    BY <1>p DEF Refetch, Answer, Fail, Fetching, Failed
  <1>4. Asked \in Questions
    BY <1>p, KeyType DEF Asked
  <1>5. /\ cached' \subseteq Questions /\ last' \in cached' \cup {None}
        /\ last' \in {last, Asked}
    BY <1>p, <1>4 DEF Refetch, Answer, Fail
  <1> QED BY <1>p, <1>1, <1>2, <1>3, <1>5, Holds

LEMMA ListInit == Init => ListInv
  <1> SUFFICES ASSUME Init PROVE ListInv
    OBVIOUS
  <1>1. PICK s \in Scenarios : \E u \in Loads(s) :
          /\ at = [page |-> s.page, query |-> s.query, fields |-> s.fields,
                   column |-> s.column, gestures |-> s.gestures, loaded |-> u]
          /\ url = u /\ rendered = Parse(u) /\ wanted = u
    BY DEF Init
  <1>2. PICK u \in Loads(s) :
          /\ at = [page |-> s.page, query |-> s.query, fields |-> s.fields,
                   column |-> s.column, gestures |-> s.gestures, loaded |-> u]
          /\ url = u /\ rendered = Parse(u) /\ wanted = u
    BY <1>1
  <1>3. /\ at.page = s.page /\ at.query = s.query /\ at.fields = s.fields
        /\ at.column = s.column /\ at.gestures = s.gestures /\ at.loaded = u
        /\ P = Catalog[s.page]
    BY <1>2 DEF P
  <1>4. /\ s.page \in Pages /\ s.query \in DOMAIN P.queries /\ s.gestures \in Nat
        /\ s.fields \subseteq P.schema /\ s.column \in P.columns \cup {P.sort}
    BY <1>3, ScenariosFit
  <1>6. u \in Params
    <2>1. P.dir \in {"asc", "desc"} /\ {P.sort, s.column} = Bys
      BY <1>3, <1>4, Sheets DEF Bys
    <2>2. u \in [search : Texts, on : SUBSET at.fields, by : {P.sort, s.column},
                 dir : {"asc", "desc"}, size : Sizes, page : {1, 2}]
      BY <1>2, <1>3, <2>1, TextsHold, SizesNat DEF Loads
    <2> QED BY <2>1, <2>2, SizesNat DEF Params
  <1>7. Framed
    BY <1>3, <1>4, <1>6 DEF Framed
  <1>8. rendered \in Params
    BY <1>2, <1>6, <1>7, Parsed
  <1>9. 0 \in 0..at.gestures
    BY <1>3, <1>4
  <1>10. TypeOK
    <2>1. /\ mounted = FALSE /\ box = NoText /\ debounced = NoText /\ timer = FALSE
          /\ selected = None /\ cached = {} /\ last = None /\ tries = 0
          /\ crossed = FALSE /\ gestures = 0
      BY DEF Init
    <2>2. tries \in 0..2 /\ gestures \in 0..at.gestures
      BY <1>9, <2>1
    <2>3. url \in Params /\ wanted \in Params
      BY <1>2, <1>6
    <2> QED BY <1>7, <1>8, <2>1, <2>2, <2>3, TextsHold DEF TypeOK, Framed
  <1> QED BY <1>7, <1>10 DEF ListInv

LEMMA ListStep == ListInv /\ [Next]_vars => ListInv'
  <1> SUFFICES ASSUME ListInv, [Next]_vars PROVE ListInv'
    OBVIOUS
  <1>1. CASE UNCHANGED vars
    <2>1. Framed'
      BY <1>1 DEF vars, ListInv, Framed, P, Params, Bys
    <2>2. TypeOK'
      BY <1>1 DEF vars, ListInv, TypeOK, P, Params, Bys
    <2> QED BY <2>1, <2>2 DEF ListInv
  <1> QED BY <1>1, TableStep, BoxStep, LookStep, QueryStep DEF Next

(* Every variable of every page has its type (TypeOK). *)
THEOREM TypeCorrect == Spec => []TypeOK
  <1>1. ListInv => TypeOK
    BY DEF ListInv
  <1> QED BY <1>1, ListInit, ListStep, PTL DEF Spec

-----------------------------------------------------------------------------
(* The refinement: with what is asked as the question and what was last seen   *)
(* as the answer, a page implements QueryView.                                 *)

LEMMA ShownStep == ListInv /\ [Next]_vars => [Shown!Next]_<<Asked, last>>
  <1> SUFFICES ASSUME ListInv, [Next]_vars PROVE [Shown!Next]_<<Asked, last>>
    OBVIOUS
  <1>1. ASSUME UNCHANGED <<rendered, selected, last>>, at' = at
        PROVE  UNCHANGED <<Asked, last>>
    BY <1>1 DEF Asked, Key, P, Q, Default
  <1>2. ASSUME Rerender \/ Select PROVE Shown!Want
    <2>1. Asked' \in Questions /\ last' \in {last, Asked'}
      BY <1>2, LookStep
    <2> QED BY <2>1 DEF Shown!Want
  <1>3. ASSUME Refetch \/ Answer \/ Fail
        PROVE  Shown!Arrive \/ UNCHANGED <<Asked, last>>
    <2>1. UNCHANGED <<rendered, selected>> /\ at' = at /\ last' \in {last, Asked}
      BY <1>3, QueryStep
    <2>2. Asked' = Asked
      BY <2>1 DEF Asked, Key, P, Q, Default
    <2> QED BY <2>1, <2>2 DEF Shown!Arrive
  <1>4. CASE UNCHANGED vars
    BY <1>1, <1>4 DEF vars
  <1> QED BY <1>1, <1>2, <1>3, <1>4, TableStep, BoxStep DEF Next, Shown!Next

(* Whatever the controls, the transitions and the retries do, only an answer to *)
(* what the controls ask comes on screen (QueryView, ShowsAskedAnswers).        *)
THEOREM ShowsAskedAnswersTheorem == Spec => ShowsAskedAnswers
  <1>1. Init => Shown!Init
    <2> SUFFICES ASSUME Init PROVE Asked \in Questions /\ last = None
      BY DEF Shown!Init
    <2>1. ListInv
      BY ListInit
    <2> QED BY <2>1, Parts, KeyType DEF Asked, Init
  <1> QED BY <1>1, ListInit, ListStep, ShownStep, PTL DEF Spec, ShowsAskedAnswers, Shown!Spec

-----------------------------------------------------------------------------
(* What was not touched is as it was opened, in the URL and on the page: a      *)
(* callback patches what it closed over, and what it closed over agrees with    *)
(* the view the page was opened with wherever the user changed nothing.         *)

\* The parameters u agree with the opened view but for the fields of T.
Agrees(u, T) ==
  /\ \A f \in at.fields \ T : f \in u.on <=> f \in at.loaded.on
  /\ "search" \notin T => u.search = at.loaded.search
  /\ "sort" \notin T => /\ u.by \in {at.loaded.by, Granted(at.loaded).by}
                       /\ u.dir = at.loaded.dir
  /\ "size" \notin T => u.size = at.loaded.size
\* No keystroke is pending, and the box shows the opened search.
Quiet == /\ ~timer
         /\ mounted => box = at.loaded.search /\ debounced = at.loaded.search
Kept == /\ Agrees(url, touched) /\ Agrees(rendered, touched)
        /\ "search" \notin touched => Quiet

LEMMA AgreesSame ==
  ASSUME NEW u, NEW w, NEW T, NEW S, T \subseteq S, Agrees(u, T),
         w.on = u.on, w.search = u.search, w.by = u.by, w.dir = u.dir, w.size = u.size
  PROVE  Agrees(w, S)
  BY DEF Agrees

\* The opened view is read the same before and after a step.
LEMMA GrantedStays == at' = at => Granted(at.loaded)' = Granted(at.loaded)
  BY DEF Granted, Unnamed, P

LEMMA KeptTable ==
  ASSUME ListInv, Kept,
         \/ \E c \in P.controls : Set(c)
         \/ handleSortingChange \/ Turn \/ Resize \/ resetAllFilters
  PROVE  Kept'
  <1>p. rendered \in Params /\ Framed
    BY Parts
  <1>k. Agrees(rendered, touched) /\ ("search" \notin touched => Quiet)
    BY DEF Kept
  <1>h. ASSUME NEW fields, Gesture(fields), Agrees(url', touched \cup fields),
               UNCHANGED <<at, rendered, Toolbar, selected, Query0>>
        PROVE  Kept'
    <2>1. /\ at' = at /\ rendered' = rendered /\ touched' = touched \cup fields
          /\ mounted' = mounted /\ box' = box /\ debounced' = debounced /\ timer' = timer
      BY <1>h DEF Toolbar, Gesture
    <2>2. Agrees(url, touched)' /\ Agrees(rendered, touched)'
      BY <1>h, <1>k, <2>1, GrantedStays DEF Agrees
    <2>3. "search" \notin touched' => Quiet'
      BY <1>k, <2>1 DEF Quiet
    <2> QED BY <2>2, <2>3 DEF Kept
  <1>1. ASSUME NEW c \in P.controls, Set(c) PROVE Kept'
    <2>1. PICK on \in SUBSET (c \cap at.fields) :
            /\ Gesture(c)
            /\ updateParams(Filtering(rendered, c, on), Filtering(wanted, c, on))
            /\ UNCHANGED <<at, rendered, Toolbar, selected, Query0>>
      BY <1>1 DEF Set
    <2> DEFINE v == Filtering(rendered, c, on)
    <2>2. v \in Params /\ v.on = (rendered.on \ c) \cup on /\ v.search = rendered.search
          /\ v.by = rendered.by /\ v.dir = rendered.dir /\ v.size = rendered.size
      BY <1>p, <2>1, FilteringIs
    <2>3. /\ url'.on = v.on /\ url'.search = v.search /\ url'.by = v.by
          /\ url'.dir = v.dir /\ url'.size = v.size
      BY <1>p, <2>1, <2>2, Navigated
    <2> HIDE DEF v
    <2>4. on \subseteq c
      BY <2>1
    <2>5. Agrees(url', touched \cup c)
      BY <1>k, <2>2, <2>3, <2>4 DEF Agrees
    <2> QED BY <1>h, <2>1, <2>5
  <1>2. CASE handleSortingChange
    <2>1. PICK by \in Bys \cap P.columns, dir \in {"asc", "desc"} :
            /\ Gesture({"sort"})
            /\ Navigate(Sorting(rendered, by, dir), Sorting(wanted, by, dir))
            /\ UNCHANGED <<at, rendered, Toolbar, selected, Query0>>
      BY <1>2 DEF handleSortingChange
    <2> DEFINE v == Sorting(rendered, by, dir)
    <2>2. v \in Params /\ v.on = rendered.on /\ v.search = rendered.search
          /\ v.size = rendered.size
      BY <1>p, SortingIs
    <2>3. url' = v
      BY <1>p, <2>1, <2>2, Navigated
    <2> HIDE DEF v
    <2>4. Agrees(url', touched \cup {"sort"})
      BY <1>k, <2>2, <2>3 DEF Agrees
    <2> QED BY <1>h, <2>1, <2>4
  <1>3. CASE Turn
    <2>1. PICK n \in (IF rendered.page <= 1 THEN {} ELSE {1, rendered.page - 1})
                     \cup (IF rendered.page >= PageCount THEN {}
                           ELSE {rendered.page + 1, PageCount}) :
            Navigate(Turning(rendered, n), Turning(wanted, n))
      BY <1>3 DEF Turn
    <2>2. n \in Nat \ {0}
      <3>1. rendered.page \in Nat \ {0}
        BY <1>p DEF Params
      <3> QED BY <2>1, <3>1, CountType
    <2> DEFINE v == Turning(rendered, n)
    <2>3. v \in Params /\ v.on = rendered.on /\ v.search = rendered.search
          /\ v.by = rendered.by /\ v.dir = rendered.dir /\ v.size = rendered.size
      BY <1>p, <2>2, TurningIs
    <2>4. url' = v
      BY <1>p, <2>1, <2>3, Navigated
    <2> HIDE DEF v
    <2>5. Agrees(url', touched \cup {"page"})
      BY <1>k, <2>3, <2>4, AgreesSame
    <2> QED BY <1>h, <1>3, <2>5 DEF Turn
  <1>4. CASE Resize
    <2>1. PICK n \in Sizes \ {rendered.size} :
            /\ Gesture({"size"})
            /\ Navigate(Resizing(rendered, n), Resizing(wanted, n))
            /\ UNCHANGED <<at, rendered, Toolbar, selected, Query0>>
      BY <1>4 DEF Resize
    <2> DEFINE v == Resizing(rendered, n)
    <2>2. v \in Params /\ v.on = rendered.on /\ v.search = rendered.search
          /\ v.by = rendered.by /\ v.dir = rendered.dir
      BY <1>p, <2>1, ResizingIs
    <2>3. url' = v
      BY <1>p, <2>1, <2>2, Navigated
    <2> HIDE DEF v
    <2>4. Agrees(url', touched \cup {"size"})
      BY <1>k, <2>2, <2>3 DEF Agrees
    <2> QED BY <1>h, <2>1, <2>4
  <1>5. CASE resetAllFilters
    <2> DEFINE fields == at.fields \cup {"search", "sort", "size", "reset"}
    <2>1. Gesture(fields) /\ UNCHANGED <<at, rendered, Toolbar, selected, Query0>>
      BY <1>5 DEF resetAllFilters
    <2>2. Agrees(url', touched \cup fields)
      BY DEF Agrees
    <2> QED BY <1>h, <2>1, <2>2
  <1> QED BY <1>1, <1>2, <1>3, <1>4, <1>5

LEMMA KeptBox ==
  ASSUME ListInv, Kept, Mount \/ (\E t \in Texts : Type(t)) \/ Fire \/ resetFilters
  PROVE  Kept'
  <1>p. rendered \in Params /\ Framed /\ box \in Texts
    BY Parts
  <1>k. /\ Agrees(url, touched) /\ Agrees(rendered, touched)
        /\ "search" \notin touched => Quiet
    BY DEF Kept
  <1>h. ASSUME at' = at, rendered' = rendered, touched \subseteq touched',
               Agrees(url', touched'), "search" \notin touched' => Quiet'
        PROVE  Kept'
    <2>1. Agrees(rendered, touched)'
      BY <1>h, <1>k, GrantedStays DEF Agrees
    <2>2. Agrees(url, touched)'
      BY <1>h, GrantedStays DEF Agrees
    <2> QED BY <1>h, <2>1, <2>2 DEF Kept
  <1>1. CASE Mount
    <2>1. /\ at' = at /\ rendered' = rendered /\ timer' = timer /\ touched' = touched
          /\ box' = rendered.search /\ debounced' = rendered.search
      BY <1>1 DEF Mount
    <2>2. Agrees(url', touched')
      <3>1. CASE P.searches
        <4>1. /\ url'.on = rendered.on /\ url'.search = rendered.search
              /\ url'.by = rendered.by /\ url'.dir = rendered.dir
              /\ url'.size = rendered.size
          BY <1>1, <1>p, <3>1, Navigated DEF Mount
        <4> QED BY <1>k, <2>1, <4>1, AgreesSame
      <3>2. CASE ~P.searches
        <4>1. url' = url
          BY <1>1, <3>2 DEF Mount, Location
        <4> QED BY <1>k, <2>1, <4>1 DEF Agrees
      <3> QED BY <3>1, <3>2
    <2>3. "search" \notin touched' => Quiet'
      BY <1>k, <2>1 DEF Quiet, Agrees
    <2> QED BY <1>h, <2>1, <2>2, <2>3
  <1>2. ASSUME NEW t \in Texts, Type(t) PROVE Kept'
    <2>1. /\ at' = at /\ rendered' = rendered /\ touched' = touched \cup {"search"}
          /\ url' = url
      BY <1>2 DEF Type, Gesture, Location
    <2>2. Agrees(url', touched')
      BY <1>k, <2>1, AgreesSame
    <2> QED BY <1>h, <2>1, <2>2
  <1>3. CASE Fire
    <2>1. /\ at' = at /\ rendered' = rendered /\ touched' = touched
          /\ "search" \in touched
      BY <1>3, <1>k DEF Fire, Quiet
    <2>2. Agrees(url', touched')
      <3> DEFINE v == Searching(rendered, box)
      <3>1. v \in Params /\ v.on = rendered.on /\ v.by = rendered.by
            /\ v.dir = rendered.dir /\ v.size = rendered.size
        BY <1>p, SearchingIs
      <3>2. box # debounced => updateParams(v, Searching(wanted, box))
        BY <1>3 DEF Fire
      <3> HIDE DEF v
      <3>3. CASE box # debounced
        <4>1. /\ url'.on = v.on /\ url'.by = v.by /\ url'.dir = v.dir /\ url'.size = v.size
          BY <1>p, <3>1, <3>2, <3>3, Navigated
        <4> QED BY <1>k, <2>1, <3>1, <4>1 DEF Agrees
      <3>4. CASE box = debounced
        <4>1. url' = url
          BY <1>3, <3>4 DEF Fire, Location
        <4> QED BY <1>k, <2>1, <4>1 DEF Agrees
      <3> QED BY <3>3, <3>4
    <2> QED BY <1>h, <2>1, <2>2
  <1>4. CASE resetFilters
    <2>1. /\ at' = at /\ rendered' = rendered
          /\ touched' = touched \cup at.fields \cup {"search", "reset"}
      BY <1>4 DEF resetFilters, Gesture
    <2> DEFINE v == Filtering(rendered, {"intent"}, {})
    <2>2. v \in Params /\ v.by = rendered.by /\ v.dir = rendered.dir
          /\ v.size = rendered.size
      BY <1>p, FilteringIs
    <2>3. url' = Build(FirstPage(v))
      BY <1>4 DEF resetFilters
    <2> HIDE DEF v
    <2>4. url'.by = v.by /\ url'.dir = v.dir /\ url'.size = v.size
      BY <1>p, <2>2, <2>3, Built
    <2>5. Agrees(url', touched')
      BY <1>k, <2>1, <2>2, <2>4 DEF Agrees
    <2> QED BY <1>h, <2>1, <2>5
  <1> QED BY <1>1, <1>2, <1>3, <1>4

LEMMA KeptCommit == ListInv /\ Kept /\ Rerender => Kept'
  <1> SUFFICES ASSUME ListInv, Kept, Rerender PROVE Kept'
    OBVIOUS
  <1>p. url \in Params /\ Framed
    BY Parts
  <1>k. /\ Agrees(url, touched) /\ Agrees(rendered, touched)
        /\ "search" \notin touched => Quiet
    BY DEF Kept
  <1> DEFINE v == Parse(url)
  <1>1. /\ v.on = url.on /\ v.search = url.search /\ v.dir = url.dir /\ v.size = url.size
        /\ url.by \in {at.loaded.by, Granted(at.loaded).by} => v.by = Granted(at.loaded).by
    <2>1. at.loaded \in Params
      BY <1>p DEF Framed
    <2> QED BY <1>p, <2>1, Parsed, GrantedTwice
  <1>2. /\ at' = at /\ url' = url /\ touched' = touched /\ rendered' = v
        /\ mounted' = mounted /\ debounced' = debounced
    BY DEF Rerender, Location
  <1>3. v.search = rendered.search => box' = box /\ timer' = timer
    <2>1. /\ box' = IF mounted /\ P.searches /\ v.search # rendered.search
                    THEN v.search ELSE box
          /\ timer' = (timer \/ ((mounted /\ P.searches /\ v.search # rendered.search)
                                 /\ box # v.search))
      BY DEF Rerender
    <2>2. timer \in BOOLEAN
      BY Parts
    <2> HIDE DEF v
    <2> QED BY <2>1, <2>2
  <1> HIDE DEF v
  <1>4. Agrees(v, touched)
    BY <1>p, <1>k, <1>1 DEF Agrees
  <1>5. Agrees(url, touched)' /\ Agrees(rendered, touched)'
    BY <1>k, <1>2, <1>4, GrantedStays DEF Agrees
  <1>6. "search" \notin touched' => Quiet'
    BY <1>k, <1>1, <1>2, <1>3 DEF Agrees, Quiet
  <1> QED BY <1>5, <1>6 DEF Kept

LEMMA KeptStep == ListInv /\ Kept /\ [Next]_vars => Kept'
  <1> SUFFICES ASSUME ListInv, Kept, [Next]_vars PROVE Kept'
    OBVIOUS
  <1>1. ASSUME at' = at, url' = url, rendered' = rendered, touched' = touched,
               mounted' = mounted, box' = box, debounced' = debounced, timer' = timer
        PROVE  Kept'
    BY <1>1, GrantedStays DEF Kept, Agrees, Quiet
  <1>2. CASE Refetch \/ Answer \/ Fail
    BY <1>1, <1>2 DEF Refetch, Answer, Fail, Toolbar, Location
  <1>3. CASE Select
    <2>1. touched' = touched
      BY <1>3 DEF Select, Gesture
    <2>2. /\ at' = at /\ url' = url /\ rendered' = rendered /\ mounted' = mounted
          /\ box' = box /\ debounced' = debounced /\ timer' = timer
      BY <1>3 DEF Select, Toolbar, Location
    <2> QED BY <1>1, <2>1, <2>2
  <1>4. CASE UNCHANGED vars
    BY <1>1, <1>4 DEF vars
  <1> QED BY <1>2, <1>3, <1>4, KeptTable, KeptBox, KeptCommit DEF Next

LEMMA KeptInit == Init => Kept
  <1> SUFFICES ASSUME Init PROVE Kept
    OBVIOUS
  <1>1. ListInv
    BY ListInit
  <1>2. url = at.loaded /\ rendered = Parse(url) /\ mounted = FALSE /\ timer = FALSE
    <2>1. PICK s \in Scenarios : \E u \in Loads(s) :
            /\ at = [page |-> s.page, query |-> s.query, fields |-> s.fields,
                     column |-> s.column, gestures |-> s.gestures, loaded |-> u]
            /\ url = u /\ rendered = Parse(u) /\ wanted = u
      BY DEF Init
    <2> QED BY <2>1 DEF Init
  <1>3. url \in Params /\ Framed
    BY <1>1, Parts
  <1>4. /\ rendered.on = url.on /\ rendered.search = url.search /\ rendered.dir = url.dir
        /\ rendered.size = url.size /\ rendered.by = Granted(url).by
    BY <1>2, <1>3, Parsed, GrantedTwice
  <1>5. Agrees(url, touched) /\ Agrees(rendered, touched) /\ Quiet
    BY <1>2, <1>4 DEF Agrees, Quiet
  <1> QED BY <1>5 DEF Kept

(* Whatever view the page was opened at, no stale closure of a debounce, an     *)
(* effect or a click changes what the user has not: not a filter, not the       *)
(* search, the direction or the page size, and not the sort, but for a sort of  *)
(* the conversations by customer or intent, which the mount replaces by the     *)
(* default one (UntouchedKeepLoaded).                                           *)
THEOREM UntouchedKeepLoadedTheorem == Spec => []UntouchedKeepLoaded
  <1>1. Kept => UntouchedKeepLoaded
    BY DEF Kept, Agrees, UntouchedKeepLoaded
  <1> QED BY <1>1, ListInit, ListStep, KeptInit, KeptStep, PTL DEF Spec

-----------------------------------------------------------------------------
(* No field of a page is lost between its schema, the key of a query, the      *)
(* request of the endpoint and the handler: page by page.                      *)

\* What a query must do for its answers to be those the controls describe: every
\* field it is meant to obey is in its key, its request and its handler, and no
\* other is in all three.
Faithful(c, r) ==
  /\ r.waits => r.keys = {}
  /\ ~r.waits => c.schema \cap r.keys \cap r.sent \cap DOMAIN r.handler = c.schema \cap r.meant
  /\ r.meant = {} <=> r.keys = {}
  /\ c.paged /\ r.keys # {} => c.schema \subseteq r.keys

LEMMA ListFaithful ==
  ASSUME NEW c, NEW schema, NEW sent, NEW handler, c.schema = schema,
         sent = schema, DOMAIN handler = schema, schema # {}
  PROVE  Faithful(c, List(schema, sent, handler))
  <1> DEFINE r == List(schema, sent, handler)
  <1>1. /\ r.keys = schema /\ r.meant = schema /\ r.waits = FALSE /\ r.sent = sent
        /\ r.handler = handler
    BY DEF List, Query
  <1> HIDE DEF r
  <1>2. Faithful(c, r)
    BY <1>1 DEF Faithful
  <1> QED BY <1>2 DEF r

LEMMA WholeFaithful ==
  ASSUME NEW c
  PROVE  Faithful(c, Detail) /\ Faithful(c, Stats(TRUE)) /\ Faithful(c, Stats(FALSE))
  BY DEF Faithful, Detail, Stats, Query, Whole

LEMMA AuditFaithful ==
  ASSUME NEW q \in DOMAIN AuditLogsPage.queries
  PROVE  Faithful(AuditLogsPage, AuditLogsPage.queries[q])
  <1>1. /\ DOMAIN auditHandlers = auditSearchSchema
        /\ listAuditLogs = auditSearchSchema /\ auditSearchSchema # {}
    BY DEF auditHandlers, listAuditLogs, auditSearchSchema, Dates
  <1>2. Faithful(AuditLogsPage, useAuditLogsList)
    <2>1. AuditLogsPage.schema = auditSearchSchema
      BY DEF AuditLogsPage
    <2> QED BY <1>1, <2>1, ListFaithful DEF useAuditLogsList
  <1>3. AuditLogsPage.queries[q] \in {useAuditLogsList, AuditInspector, AuditStats}
    BY DEF AuditLogsPage
  <1> QED BY <1>2, <1>3, WholeFaithful DEF AuditInspector, AuditStats

LEMMA ClientsFaithful ==
  ASSUME NEW q \in DOMAIN ClientManagementPage.queries
  PROVE  Faithful(ClientManagementPage, ClientManagementPage.queries[q])
  <1>1. /\ DOMAIN clientsHandlers = clientsSearchSchema
        /\ listClients = clientsSearchSchema /\ clientsSearchSchema # {}
    BY DEF clientsHandlers, listClients, clientsSearchSchema, Dates
  <1>2. Faithful(ClientManagementPage, useClientsList)
    <2>1. ClientManagementPage.schema = clientsSearchSchema
      BY DEF ClientManagementPage
    <2> QED BY <1>1, <2>1, ListFaithful DEF useClientsList
  <1>3. ClientManagementPage.queries[q] \in {useClientsList, ClientDetailPanel, ClientStats}
    BY DEF ClientManagementPage
  <1> QED BY <1>2, <1>3, WholeFaithful DEF ClientDetailPanel, ClientStats

LEMMA ConversationsFaithful ==
  ASSUME NEW q \in DOMAIN ConversationsPage.queries
  PROVE  Faithful(ConversationsPage, ConversationsPage.queries[q])
  <1>1. /\ DOMAIN conversationsHandlers = conversationsSearchSchema
        /\ listConversations = conversationsSearchSchema /\ conversationsSearchSchema # {}
    BY DEF conversationsHandlers, listConversations, conversationsSearchSchema
  <1>2. Faithful(ConversationsPage, useConversations)
    <2>1. ConversationsPage.schema = conversationsSearchSchema
      BY DEF ConversationsPage
    <2> QED BY <1>1, <2>1, ListFaithful DEF useConversations
  <1>3. ConversationsPage.queries[q] \in {useConversations}
    BY DEF ConversationsPage
  <1> QED BY <1>2, <1>3, WholeFaithful

LEMMA MemoryFaithful ==
  ASSUME NEW q \in DOMAIN MemoryExplorerPage.queries
  PROVE  Faithful(MemoryExplorerPage, MemoryExplorerPage.queries[q])
  <1>1. /\ DOMAIN memoryHandlers = memorySearchSchema
        /\ listMemory = memorySearchSchema /\ memorySearchSchema # {}
    BY DEF memoryHandlers, listMemory, memorySearchSchema, Dates
  <1>2. Faithful(MemoryExplorerPage, useMemoryList)
    <2>1. MemoryExplorerPage.schema = memorySearchSchema
      BY DEF MemoryExplorerPage
    <2> QED BY <1>1, <2>1, ListFaithful DEF useMemoryList
  <1>3. MemoryExplorerPage.queries[q] \in {useMemoryList, MemoryInspector, MemoryStats}
    BY DEF MemoryExplorerPage
  <1> QED BY <1>2, <1>3, WholeFaithful DEF MemoryInspector, MemoryStats

LEMMA ToolsFaithful ==
  ASSUME NEW q \in DOMAIN ToolMonitoringPage.queries
  PROVE  Faithful(ToolMonitoringPage, ToolMonitoringPage.queries[q])
  <1>1. /\ DOMAIN toolsHandlers = toolSearchSchema
        /\ listTools = toolSearchSchema /\ toolSearchSchema # {}
    BY DEF toolsHandlers, listTools, toolSearchSchema, Dates
  <1>2. Faithful(ToolMonitoringPage, useToolsList)
    <2>1. ToolMonitoringPage.schema = toolSearchSchema
      BY DEF ToolMonitoringPage
    <2> QED BY <1>1, <2>1, ListFaithful DEF useToolsList
  <1>3. ToolMonitoringPage.queries[q] \in {useToolsList, ToolInspector, ToolNavigation, ToolStats}
    BY DEF ToolMonitoringPage
  <1> QED BY <1>2, <1>3, WholeFaithful DEF ToolNavigation, ToolInspector, ToolStats

LEMMA AnalyticsFaithful ==
  ASSUME NEW q \in DOMAIN AnalyticsPage.queries
  PROVE  Faithful(AnalyticsPage, AnalyticsPage.queries[q])
  <1>1. /\ AnalyticsPage.schema = analyticsFilterSchema /\ AnalyticsPage.paged = FALSE
        /\ buildQuery = analyticsFilterSchema /\ analyticsFilterSchema # {}
    BY DEF AnalyticsPage, buildQuery, analyticsFilterSchema, Dates
  <1>2. /\ DOMAIN filterByRange = analyticsFilterSchema \ {"memoryType"}
        /\ DOMAIN filterMemoryEntries = {"memoryType"} \cup Dates
        /\ analyticsFilterSchema \ {"memoryType"} # {}
    BY DEF filterByRange, filterMemoryEntries, analyticsFilterSchema, Dates
  <1>3. DOMAIN ofTicketsAndMemories = analyticsFilterSchema
    <2>1. "memoryType" \in analyticsFilterSchema /\ Dates \subseteq analyticsFilterSchema
      BY DEF analyticsFilterSchema
    <2>2. DOMAIN ofTicketsAndMemories = DOMAIN filterByRange \cup DOMAIN filterMemoryEntries
      BY DEF ofTicketsAndMemories
    <2> QED BY <1>2, <2>1, <2>2
  <1>4. Faithful(AnalyticsPage, useAnalyticsCharts) /\ Faithful(AnalyticsPage, useAnalyticsTables)
    BY <1>1, <1>3, ListFaithful DEF useAnalyticsCharts, useAnalyticsTables
  <1>5. Faithful(AnalyticsPage, useAnalyticsSummary)
    <2> DEFINE r == useAnalyticsSummary
    <2>1. /\ r.keys = analyticsFilterSchema /\ r.meant = analyticsFilterSchema \ {"memoryType"}
          /\ r.waits = FALSE /\ r.sent = buildQuery /\ r.handler = filterByRange
      BY DEF useAnalyticsSummary, Query
    <2> HIDE DEF r
    <2>2. Faithful(AnalyticsPage, r)
      BY <1>1, <1>2, <2>1 DEF Faithful
    <2> QED BY <2>2 DEF r
  <1>6. AnalyticsPage.queries[q] \in {useAnalyticsSummary, useAnalyticsCharts, useAnalyticsTables}
    BY DEF AnalyticsPage
  <1> QED BY <1>4, <1>5, <1>6

LEMMA ExperimentsFaithful ==
  ASSUME NEW q \in DOMAIN ExperimentDashboardPage.queries
  PROVE  Faithful(ExperimentDashboardPage, ExperimentDashboardPage.queries[q])
  <1>1. /\ ExperimentDashboardPage.schema = experimentSearchSchema
        /\ ExperimentDashboardPage.paged = FALSE
    BY DEF ExperimentDashboardPage
  <1>2. Faithful(ExperimentDashboardPage, useExperimentCompare)
    BY <1>1 DEF Faithful, useExperimentCompare, Query, compareExperiments, experimentsHandlers
  <1>3. Faithful(ExperimentDashboardPage, AblationCards)
    BY <1>1 DEF Faithful, AblationCards, Query
  <1>4. ExperimentDashboardPage.queries[q]
          \in {useExperimentsList, useExperimentCompare, useExperimentCharts, AblationCards}
    BY DEF ExperimentDashboardPage
  <1> QED BY <1>2, <1>3, <1>4, WholeFaithful DEF useExperimentsList, useExperimentCharts

\* The help page narrows in the browser, and asks for everything.
LEMMA HelpAsks ==
  ASSUME NEW q \in DOMAIN HelpPage.queries
  PROVE  /\ HelpPage.queries[q].keys = {} /\ HelpPage.queries[q].waits = FALSE
         /\ HelpPage.queries[q].meant = {"category"}
         /\ HelpPage.paged = FALSE /\ HelpPage.reset = "none"
  BY DEF HelpPage, useHelp, Query

LEMMA QueriesFaithful ==
  ASSUME NEW p \in Pages, p # "help", NEW q \in DOMAIN Catalog[p].queries
  PROVE  Faithful(Catalog[p], Catalog[p].queries[q])
  <1>1. p \in {"audit", "clients", "conversations", "memory", "tools", "analytics", "experiments"}
    BY DEF Pages, Catalog
  <1>2. Catalog[p] \in {AuditLogsPage, ClientManagementPage, ConversationsPage, MemoryExplorerPage,
                        ToolMonitoringPage, AnalyticsPage, ExperimentDashboardPage}
    BY <1>1 DEF Catalog
  <1> QED BY <1>2, AuditFaithful, ClientsFaithful, ConversationsFaithful, MemoryFaithful,
             ToolsFaithful, AnalyticsFaithful, ExperimentsFaithful

\* What the pages without a table, a search box or a Reset have in common.
LEMMA PlainPages ==
  ASSUME NEW p \in Pages
  PROVE  /\ Catalog[p].paged \in BOOLEAN /\ Catalog[p].searches \in BOOLEAN
         /\ ~Catalog[p].paged => Catalog[p].columns = {} /\ Catalog[p].sorts = {}
         /\ ~Catalog[p].paged /\ p # "help" => ~Catalog[p].searches
         /\ Catalog[p].reset = "patches" => Catalog[p].searches
         /\ Catalog[p].reset # "none" => Catalog[p].schema \subseteq Catalog[p].active
  <1>1. /\ auditSearchSchema \subseteq AuditLogsPage.active
        /\ clientsSearchSchema \subseteq ClientManagementPage.active
        /\ conversationsSearchSchema \subseteq ConversationsPage.active
        /\ memorySearchSchema \subseteq MemoryExplorerPage.active
        /\ toolSearchSchema \subseteq ToolMonitoringPage.active
        /\ analyticsFilterSchema \subseteq AnalyticsPage.active
    BY DEF AuditLogsPage, auditSearchSchema, ClientManagementPage, clientsSearchSchema,
           ConversationsPage, conversationsSearchSchema, MemoryExplorerPage, memorySearchSchema,
           ToolMonitoringPage, toolSearchSchema, AnalyticsPage, analyticsFilterSchema,
           hasActiveAnalyticsFilters, Dates
  <1>2. /\ AuditLogsPage.schema = auditSearchSchema
        /\ ClientManagementPage.schema = clientsSearchSchema
        /\ ConversationsPage.schema = conversationsSearchSchema
        /\ MemoryExplorerPage.schema = memorySearchSchema
        /\ ToolMonitoringPage.schema = toolSearchSchema
        /\ AnalyticsPage.schema = analyticsFilterSchema
    BY DEF AuditLogsPage, ClientManagementPage, ConversationsPage, MemoryExplorerPage,
           ToolMonitoringPage, AnalyticsPage
  <1>3. /\ AuditLogsPage.paged = TRUE /\ AuditLogsPage.searches = TRUE
        /\ ClientManagementPage.paged = TRUE /\ ClientManagementPage.searches = TRUE
        /\ ConversationsPage.paged = TRUE /\ ConversationsPage.searches = TRUE
        /\ MemoryExplorerPage.paged = TRUE /\ MemoryExplorerPage.searches = TRUE
        /\ ToolMonitoringPage.paged = TRUE /\ ToolMonitoringPage.searches = TRUE
        /\ AnalyticsPage.paged = FALSE /\ AnalyticsPage.searches = FALSE
        /\ ExperimentDashboardPage.paged = FALSE /\ ExperimentDashboardPage.searches = FALSE
        /\ HelpPage.paged = FALSE /\ HelpPage.searches = TRUE
    BY DEF AuditLogsPage, ClientManagementPage, ConversationsPage, MemoryExplorerPage,
           ToolMonitoringPage, AnalyticsPage, ExperimentDashboardPage, HelpPage
  <1>4. /\ AnalyticsPage.columns = {} /\ AnalyticsPage.sorts = {} /\ AnalyticsPage.reset = "empty"
        /\ ExperimentDashboardPage.columns = {} /\ ExperimentDashboardPage.sorts = {}
        /\ ExperimentDashboardPage.reset = "none"
        /\ HelpPage.columns = {} /\ HelpPage.sorts = {} /\ HelpPage.reset = "none"
    BY DEF AnalyticsPage, ExperimentDashboardPage, HelpPage
  <1>5. p \in {"audit", "clients", "conversations", "memory", "tools", "analytics", "experiments",
               "help"}
    BY DEF Pages, Catalog
  <1>6. /\ Catalog["audit"] = AuditLogsPage /\ Catalog["clients"] = ClientManagementPage
        /\ Catalog["conversations"] = ConversationsPage /\ Catalog["memory"] = MemoryExplorerPage
        /\ Catalog["tools"] = ToolMonitoringPage /\ Catalog["analytics"] = AnalyticsPage
        /\ Catalog["experiments"] = ExperimentDashboardPage /\ Catalog["help"] = HelpPage
    BY DEF Catalog
  <1>7. CASE p = "audit"  BY <1>1, <1>2, <1>3, <1>4, <1>6, <1>7
  <1>8. CASE p = "clients"  BY <1>1, <1>2, <1>3, <1>4, <1>6, <1>8
  <1>9. CASE p = "conversations"  BY <1>1, <1>2, <1>3, <1>4, <1>6, <1>9
  <1>10. CASE p = "memory"  BY <1>1, <1>2, <1>3, <1>4, <1>6, <1>10
  <1>11. CASE p = "tools"  BY <1>1, <1>2, <1>3, <1>4, <1>6, <1>11
  <1>12. CASE p = "analytics"  BY <1>1, <1>2, <1>3, <1>4, <1>6, <1>12
  <1>13. CASE p = "experiments"  BY <1>1, <1>2, <1>3, <1>4, <1>6, <1>13
  <1>14. CASE p = "help"  BY <1>1, <1>2, <1>3, <1>4, <1>6, <1>14
  <1> QED BY <1>5, <1>7, <1>8, <1>9, <1>10, <1>11, <1>12, <1>13, <1>14

-----------------------------------------------------------------------------
(* Where nothing can search or sort, the parameters keep the page's own search *)
(* and order: with that, what a query asks is what the page displays.          *)

\* What a URL or a commit holds of a control the page does not have.
Plain(u) == /\ ~P.searches => u.search = NoText
            /\ P.columns = {} => u.dir = P.dir
\* What is rendered is sorted by a column the enumeration of the page names.
ViewInv == /\ Plain(url) /\ Plain(rendered) /\ (~P.searches => ~timer)
           /\ rendered.by \in P.sorts \cup {P.sort}

LEMMA PlainTable ==
  ASSUME ListInv, ViewInv,
         \/ \E c \in P.controls : Set(c)
         \/ handleSortingChange \/ Turn \/ Resize \/ resetAllFilters
  PROVE  ViewInv'
  <1>p. rendered \in Params /\ Framed /\ Plain(rendered)
    BY Parts DEF ViewInv
  <1>h. ASSUME UNCHANGED <<at, rendered, Toolbar, selected, Query0>>, Plain(url') PROVE ViewInv'
    <2>1. at' = at /\ rendered' = rendered /\ timer' = timer
      BY <1>h DEF Toolbar
    <2>2. P' = P
      BY <2>1 DEF P
    <2>3. (~P.searches => ~timer) /\ rendered.by \in P.sorts \cup {P.sort}
      BY DEF ViewInv
    <2> QED BY <1>p, <1>h, <2>1, <2>2, <2>3 DEF ViewInv, Plain
  <1>1. ASSUME NEW c \in P.controls, Set(c) PROVE ViewInv'
    <2>1. PICK on \in SUBSET (c \cap at.fields) :
            /\ updateParams(Filtering(rendered, c, on), Filtering(wanted, c, on))
            /\ UNCHANGED <<at, rendered, Toolbar, selected, Query0>>
      BY <1>1 DEF Set
    <2> DEFINE v == Filtering(rendered, c, on)
    <2>2. v \in Params /\ v.search = rendered.search /\ v.dir = rendered.dir
      BY <1>p, <2>1, FilteringIs
    <2>3. url'.search = v.search /\ url'.dir = v.dir
      BY <1>p, <2>1, <2>2, Navigated
    <2> HIDE DEF v
    <2> QED BY <1>p, <1>h, <2>1, <2>2, <2>3 DEF Plain
  <1>2. CASE handleSortingChange
    <2>1. PICK by \in Bys \cap P.columns, dir \in {"asc", "desc"} :
            /\ Navigate(Sorting(rendered, by, dir), Sorting(wanted, by, dir))
            /\ UNCHANGED <<at, rendered, Toolbar, selected, Query0>>
      BY <1>2 DEF handleSortingChange
    <2> DEFINE v == Sorting(rendered, by, dir)
    <2>2. v \in Params /\ v.search = rendered.search /\ P.columns # {}
      BY <1>p, <2>1, SortingIs
    <2>3. url' = v
      BY <1>p, <2>1, <2>2, Navigated
    <2> HIDE DEF v
    <2> QED BY <1>p, <1>h, <2>1, <2>2, <2>3 DEF Plain
  <1>3. CASE Turn
    <2>1. PICK n \in (IF rendered.page <= 1 THEN {} ELSE {1, rendered.page - 1})
                     \cup (IF rendered.page >= PageCount THEN {}
                           ELSE {rendered.page + 1, PageCount}) :
            Navigate(Turning(rendered, n), Turning(wanted, n))
      BY <1>3 DEF Turn
    <2>2. n \in Nat \ {0}
      <3>1. rendered.page \in Nat \ {0}
        BY <1>p DEF Params
      <3> QED BY <2>1, <3>1, CountType
    <2> DEFINE v == Turning(rendered, n)
    <2>3. v \in Params /\ v.search = rendered.search /\ v.dir = rendered.dir
      BY <1>p, <2>2, TurningIs
    <2>4. url' = v
      BY <1>p, <2>1, <2>3, Navigated
    <2> HIDE DEF v
    <2> QED BY <1>p, <1>h, <1>3, <2>3, <2>4 DEF Plain, Turn
  <1>4. CASE Resize
    <2>1. PICK n \in Sizes \ {rendered.size} :
            /\ Navigate(Resizing(rendered, n), Resizing(wanted, n))
            /\ UNCHANGED <<at, rendered, Toolbar, selected, Query0>>
      BY <1>4 DEF Resize
    <2> DEFINE v == Resizing(rendered, n)
    <2>2. v \in Params /\ v.search = rendered.search /\ v.dir = rendered.dir
      BY <1>p, <2>1, ResizingIs
    <2>4. url' = v
      BY <1>p, <2>1, <2>2, Navigated
    <2> HIDE DEF v
    <2> QED BY <1>p, <1>h, <2>1, <2>2, <2>4 DEF Plain
  <1>5. CASE resetAllFilters
    <2>1. url' = Default(P) /\ UNCHANGED <<at, rendered, Toolbar, selected, Query0>>
      BY <1>p, <1>5, FirstView, Navigated DEF resetAllFilters
    <2>2. Plain(Default(P))
      BY DEF Plain, Default
    <2> QED BY <1>h, <2>1, <2>2
  <1> QED BY <1>1, <1>2, <1>3, <1>4, <1>5

LEMMA PlainBox ==
  ASSUME ListInv, ViewInv, Mount \/ (\E t \in Texts : Type(t)) \/ Fire \/ resetFilters
  PROVE  ViewInv'
  <1>p. rendered \in Params /\ Framed /\ box \in Texts /\ Plain(rendered) /\ Plain(url)
        /\ (~P.searches => ~timer) /\ rendered.by \in P.sorts \cup {P.sort}
    BY Parts DEF ViewInv
  <1>h. ASSUME at' = at, rendered' = rendered, Plain(url'), P.searches \/ timer' = timer
        PROVE  ViewInv'
    <2>1. P' = P
      BY <1>h DEF P
    <2> QED BY <1>p, <1>h, <2>1 DEF ViewInv, Plain
  <1>1. CASE Mount
    <2>1. /\ at' = at /\ rendered' = rendered /\ timer' = timer
      BY <1>1 DEF Mount
    <2>2. Plain(url')
      <3>1. CASE P.searches
        <4>1. url'.search = rendered.search /\ url'.dir = rendered.dir
          BY <1>1, <1>p, <3>1, Navigated DEF Mount
        <4> QED BY <1>p, <4>1 DEF Plain
      <3>2. CASE ~P.searches
        BY <1>1, <1>p, <3>2 DEF Mount, Location
      <3> QED BY <3>1, <3>2
    <2> QED BY <1>h, <2>1, <2>2
  <1>2. ASSUME NEW t \in Texts, Type(t) PROVE ViewInv'
    <2>1. at' = at /\ rendered' = rendered /\ url' = url /\ P.searches
      BY <1>2 DEF Type, Location
    <2> QED BY <1>p, <1>h, <2>1
  <1>3. CASE Fire
    <2>1. at' = at /\ rendered' = rendered /\ P.searches
      BY <1>3, <1>p DEF Fire
    <2>2. Plain(url')
      <3> DEFINE v == Searching(rendered, box)
      <3>1. v \in Params /\ v.dir = rendered.dir
        BY <1>p, SearchingIs
      <3>2. box # debounced => updateParams(v, Searching(wanted, box))
        BY <1>3 DEF Fire
      <3> HIDE DEF v
      <3>3. CASE box # debounced
        <4>1. url'.dir = v.dir
          BY <1>p, <3>1, <3>2, <3>3, Navigated
        <4> QED BY <1>p, <2>1, <3>1, <4>1 DEF Plain
      <3>4. CASE box = debounced
        BY <1>3, <1>p, <3>4 DEF Fire, Location
      <3> QED BY <3>3, <3>4
    <2> QED BY <1>h, <2>1, <2>2
  <1>4. CASE resetFilters
    <2>1. at' = at /\ rendered' = rendered /\ P.searches
      <3>1. P.reset = "patches"
        BY <1>4 DEF resetFilters
      <3>2. P.searches
        BY <1>p, <3>1, PlainPages DEF P, Framed
      <3> QED BY <1>4, <3>2 DEF resetFilters
    <2> DEFINE v == Filtering(rendered, {"intent"}, {})
    <2>2. v \in Params /\ v.dir = rendered.dir
      BY <1>p, FilteringIs
    <2>3. url' = Build(FirstPage(v))
      BY <1>4 DEF resetFilters
    <2> HIDE DEF v
    <2>4. url'.dir = v.dir
      BY <1>p, <2>2, <2>3, Built
    <2>5. Plain(url')
      BY <1>p, <2>1, <2>2, <2>4 DEF Plain
    <2> QED BY <1>h, <2>1, <2>5
  <1> QED BY <1>1, <1>2, <1>3, <1>4

LEMMA PlainCommit == ListInv /\ ViewInv /\ Rerender => ViewInv'
  <1> SUFFICES ASSUME ListInv, ViewInv, Rerender PROVE ViewInv'
    OBVIOUS
  <1>p. url \in Params /\ Framed /\ Plain(url) /\ (~P.searches => ~timer)
    BY Parts DEF ViewInv
  <1> DEFINE v == Parse(url)
  <1>1. v.search = url.search /\ v.dir = url.dir /\ v.by \in P.sorts \cup {P.sort}
    <2>1. v.search = url.search /\ v.dir = url.dir
      BY <1>p, Parsed
    <2>2. v.by = IF url.by \in P.sorts THEN url.by ELSE P.sort
      BY <1>p DEF Parse, Params
    <2> QED BY <2>1, <2>2
  <1>2. at' = at /\ url' = url /\ rendered' = v
    BY DEF Rerender, Location
  <1>3. ~P.searches => timer' = timer
    <2>1. timer' = (timer \/ ((mounted /\ P.searches /\ v.search # rendered.search)
                              /\ box # v.search))
      BY DEF Rerender
    <2>2. timer \in BOOLEAN
      BY Parts
    <2> HIDE DEF v
    <2> QED BY <2>1, <2>2
  <1> HIDE DEF v
  <1>4. P' = P
    BY <1>2 DEF P
  <1> QED BY <1>p, <1>1, <1>2, <1>3, <1>4 DEF ViewInv, Plain

LEMMA PlainStep == ListInv /\ ViewInv /\ [Next]_vars => ViewInv'
  <1> SUFFICES ASSUME ListInv, ViewInv, [Next]_vars PROVE ViewInv'
    OBVIOUS
  <1>1. ASSUME at' = at, url' = url, rendered' = rendered, timer' = timer
        PROVE  ViewInv'
    BY <1>1 DEF ViewInv, Plain, P
  <1>2. CASE Refetch \/ Answer \/ Fail
    BY <1>1, <1>2 DEF Refetch, Answer, Fail, Toolbar, Location
  <1>3. CASE Select
    <2>1. at' = at /\ url' = url /\ rendered' = rendered /\ timer' = timer
      BY <1>3 DEF Select, Toolbar, Location
    <2> QED BY <1>1, <2>1
  <1>4. CASE UNCHANGED vars
    BY <1>1, <1>4 DEF vars
  <1> QED BY <1>2, <1>3, <1>4, PlainTable, PlainBox, PlainCommit DEF Next

LEMMA PlainInit == Init => ViewInv
  <1> SUFFICES ASSUME Init PROVE ViewInv
    OBVIOUS
  <1>0. PICK s \in Scenarios : \E u \in Loads(s) :
          /\ at = [page |-> s.page, query |-> s.query, fields |-> s.fields,
                   column |-> s.column, gestures |-> s.gestures, loaded |-> u]
          /\ url = u /\ rendered = Parse(u) /\ wanted = u
    BY DEF Init
  <1>1. PICK u \in Loads(s) :
          /\ at = [page |-> s.page, query |-> s.query, fields |-> s.fields,
                   column |-> s.column, gestures |-> s.gestures, loaded |-> u]
          /\ url = u /\ rendered = Parse(u) /\ wanted = u
    BY <1>0
  <1>2. P = Catalog[s.page]
    BY <1>1 DEF P
  <1>3. (~P.searches => url.search = NoText) /\ (P.columns = {} => url.dir = P.dir)
    BY <1>1, <1>2 DEF Loads
  <1>4. url \in Params /\ Framed
    BY ListInit, Parts
  <1>5. rendered.search = url.search /\ rendered.dir = url.dir
    BY <1>1, <1>4, Parsed
  <1>6. rendered.by \in P.sorts \cup {P.sort}
    <2>1. rendered.by = IF url.by \in P.sorts THEN url.by ELSE P.sort
      BY <1>1, <1>4 DEF Parse, Params
    <2> QED BY <2>1
  <1>7. timer = FALSE
    BY DEF Init
  <1> QED BY <1>3, <1>5, <1>6, <1>7 DEF ViewInv, Plain

-----------------------------------------------------------------------------
(* The way from the controls to the URL: unless a callback ran between a        *)
(* navigation and its commit, the URL holds what the bookmark, the debounced    *)
(* search and the controls ask for, but for the sorts no enumeration names.     *)

Named(by) == IF by \in Unnamed THEN P.sort ELSE by
Same(u, w) == /\ u.search = w.search /\ u.on = w.on /\ Named(u.by) = Named(w.by)
              /\ u.dir = w.dir /\ u.size = w.size /\ u.page = w.page
Meant == ~crossed => Same(url, wanted)

\* Parameters that are the same are granted the same view.
LEMMA SameGranted ==
  ASSUME NEW u \in Params, NEW w \in Params, Same(u, w)
  PROVE  Granted(u) = Granted(w)
  <1>1. \A x \in Params :
          Granted(x) = [search |-> x.search, on |-> x.on, by |-> Named(x.by), dir |-> x.dir,
                        size |-> x.size, page |-> x.page]
    BY DEF Granted, Params, Named
  <1> QED BY <1>1 DEF Same

LEMMA SameParsed ==
  ASSUME Framed, NEW u \in Params, NEW w \in Params, Same(u, w)
  PROVE  Same(Parse(u), w)
  <1>1. Parse(u).by = Named(u.by)
    <2>1. Granted(u).by = Named(u.by)
      BY DEF Granted, Params, Named
    <2> QED BY <2>1, GrantedTwice
  <1>2. Named(Parse(u).by) = Named(u.by)
    BY <1>1 DEF Named
  <1> QED BY <1>2, Parsed DEF Same

\* The patches of the callbacks keep the same the same.
LEMMA SamePatched ==
  ASSUME NEW v \in Params, NEW w \in Params, Same(v, w)
  PROVE  /\ Same(FirstPage(v), FirstPage(w))
         /\ \A t \in Texts : Same(Searching(v, t), Searching(w, t))
         /\ \A c : \A on \in SUBSET at.fields : Same(Filtering(v, c, on), Filtering(w, c, on))
         /\ \A by \in Bys, dir \in {"asc", "desc"} : Same(Sorting(v, by, dir), Sorting(w, by, dir))
         /\ \A n \in Nat \ {0} : Same(Turning(v, n), Turning(w, n))
         /\ \A n \in Sizes : Same(Resizing(v, n), Resizing(w, n))
  <1>1. Same(FirstPage(v), FirstPage(w))
    <2>1. CASE P.paged
      <3>1. \A x \in Params :
              /\ FirstPage(x).search = x.search /\ FirstPage(x).on = x.on
              /\ FirstPage(x).by = x.by /\ FirstPage(x).dir = x.dir
              /\ FirstPage(x).size = x.size /\ FirstPage(x).page = 1
        BY <2>1 DEF FirstPage, Params
      <3> QED BY <3>1 DEF Same
    <2>2. CASE ~P.paged
      BY <2>2 DEF FirstPage
    <2> QED BY <2>1, <2>2
  <1>2. ASSUME NEW t \in Texts PROVE Same(Searching(v, t), Searching(w, t))
    BY SearchingIs DEF Same
  <1>3. ASSUME NEW c, NEW on \in SUBSET at.fields
        PROVE  Same(Filtering(v, c, on), Filtering(w, c, on))
    <2>1. /\ Filtering(v, c, on).search = v.search
          /\ Filtering(v, c, on).on = (v.on \ c) \cup on
          /\ Filtering(v, c, on).by = v.by /\ Filtering(v, c, on).dir = v.dir
          /\ Filtering(v, c, on).size = v.size /\ Filtering(v, c, on).page = v.page
      BY FilteringIs
    <2>2. /\ Filtering(w, c, on).search = w.search
          /\ Filtering(w, c, on).on = (w.on \ c) \cup on
          /\ Filtering(w, c, on).by = w.by /\ Filtering(w, c, on).dir = w.dir
          /\ Filtering(w, c, on).size = w.size /\ Filtering(w, c, on).page = w.page
      BY FilteringIs
    <2> QED BY <2>1, <2>2 DEF Same
  <1>4. ASSUME NEW by \in Bys, NEW dir \in {"asc", "desc"}
        PROVE  Same(Sorting(v, by, dir), Sorting(w, by, dir))
    BY SortingIs DEF Same
  <1>5. ASSUME NEW n \in Nat \ {0} PROVE Same(Turning(v, n), Turning(w, n))
    BY TurningIs DEF Same
  <1>6. ASSUME NEW n \in Sizes PROVE Same(Resizing(v, n), Resizing(w, n))
    BY ResizingIs DEF Same
  <1> QED BY <1>1, <1>2, <1>3, <1>4, <1>5, <1>6

\* A callback that closed over the present URL writes what is asked for.
LEMMA MeantNavigate ==
  ASSUME ListInv, Meant, NEW v \in Params, NEW w \in Params, at' = at,
         Same(rendered, wanted) => Same(v, w),
         Navigate(v, w) \/ updateParams(v, w)
  PROVE  Meant'
  <1> SUFFICES ASSUME ~crossed' PROVE Same(url, wanted)'
    BY DEF Meant
  <1>p. url \in Params /\ wanted \in Params /\ Framed /\ crossed \in BOOLEAN
    BY Parts
  <1>1. crossed' = (crossed \/ Parse(url) # rendered)
    BY DEF Navigate, updateParams
  <1>2. ~crossed /\ Parse(url) = rendered
    BY <1>p, <1>1
  <1>3. Same(v, w)
    BY <1>p, <1>2, SameParsed DEF Meant
  <1>4. Same(url', wanted')
    <2>1. CASE Navigate(v, w)
      BY <1>p, <1>3, <2>1, Navigated
    <2>2. CASE updateParams(v, w)
      <3>1. FirstPage(v) \in Params /\ Same(FirstPage(v), FirstPage(w))
        BY <1>3, SamePatched DEF FirstPage, Params
      <3>2. Navigate(FirstPage(v), FirstPage(w))
        BY <2>2 DEF updateParams
      <3> HIDE DEF FirstPage
      <3> QED BY <1>p, <3>1, <3>2, Navigated
    <2> QED BY <2>1, <2>2
  <1>5. P' = P /\ Unnamed' = Unnamed
    BY DEF P, Unnamed
  <1> QED BY <1>4, <1>5 DEF Same, Named

\* Where the URL and what is asked for stay.
LEMMA MeantStays ==
  ASSUME Meant, at' = at, UNCHANGED Location
  PROVE  Meant'
  <1>1. P' = P /\ Unnamed' = Unnamed
    BY DEF P, Unnamed
  <1>2. url' = url /\ wanted' = wanted /\ crossed' = crossed
    BY DEF Location
  <1> QED BY <1>1, <1>2 DEF Meant, Same, Named

LEMMA MeantStep == ListInv /\ Meant /\ [Next]_vars => Meant'
  <1> SUFFICES ASSUME ListInv, Meant, [Next]_vars PROVE Meant'
    OBVIOUS
  <1>p. rendered \in Params /\ wanted \in Params /\ Framed /\ box \in Texts
    BY Parts
  <1>1. CASE Mount
    <2>1. at' = at /\ (updateParams(rendered, wanted) \/ UNCHANGED Location)
      BY <1>1 DEF Mount
    <2> QED BY <1>p, <2>1, MeantNavigate, MeantStays
  <1>2. CASE Fire
    <2>1. /\ at' = at
          /\ \/ updateParams(Searching(rendered, box), Searching(wanted, box))
             \/ UNCHANGED Location
      BY <1>2 DEF Fire
    <2>2. /\ Searching(rendered, box) \in Params /\ Searching(wanted, box) \in Params
          /\ Same(rendered, wanted) => Same(Searching(rendered, box), Searching(wanted, box))
      BY <1>p, SearchingIs, SamePatched
    <2> QED BY <2>1, <2>2, MeantNavigate, MeantStays
  <1>3. ASSUME NEW c \in P.controls, Set(c) PROVE Meant'
    <2>1. PICK on \in SUBSET (c \cap at.fields) :
            /\ updateParams(Filtering(rendered, c, on), Filtering(wanted, c, on))
            /\ at' = at
      BY <1>3 DEF Set
    <2>2. on \in SUBSET at.fields
      BY <2>1
    <2>3. /\ Filtering(rendered, c, on) \in Params /\ Filtering(wanted, c, on) \in Params
          /\ Same(rendered, wanted) =>
               Same(Filtering(rendered, c, on), Filtering(wanted, c, on))
      BY <1>p, <2>2, FilteringIs, SamePatched
    <2> QED BY <2>1, <2>3, MeantNavigate
  <1>4. CASE handleSortingChange
    <2>1. PICK by \in Bys \cap P.columns, dir \in {"asc", "desc"} :
            /\ Navigate(Sorting(rendered, by, dir), Sorting(wanted, by, dir))
            /\ at' = at
      BY <1>4 DEF handleSortingChange
    <2>2. /\ Sorting(rendered, by, dir) \in Params /\ Sorting(wanted, by, dir) \in Params
          /\ Same(rendered, wanted) => Same(Sorting(rendered, by, dir), Sorting(wanted, by, dir))
      BY <1>p, SortingIs, SamePatched
    <2> QED BY <2>1, <2>2, MeantNavigate
  <1>5. CASE Turn
    <2>1. PICK n \in (IF rendered.page <= 1 THEN {} ELSE {1, rendered.page - 1})
                     \cup (IF rendered.page >= PageCount THEN {}
                           ELSE {rendered.page + 1, PageCount}) :
            Navigate(Turning(rendered, n), Turning(wanted, n))
      BY <1>5 DEF Turn
    <2>2. n \in Nat \ {0}
      <3>1. rendered.page \in Nat \ {0}
        BY <1>p DEF Params
      <3> QED BY <2>1, <3>1, CountType
    <2>3. /\ Turning(rendered, n) \in Params /\ Turning(wanted, n) \in Params
          /\ Same(rendered, wanted) => Same(Turning(rendered, n), Turning(wanted, n))
      BY <1>p, <2>2, TurningIs, SamePatched
    <2>4. at' = at
      BY <1>5 DEF Turn
    <2> QED BY <2>1, <2>3, <2>4, MeantNavigate
  <1>6. CASE Resize
    <2>1. PICK n \in Sizes \ {rendered.size} :
            Navigate(Resizing(rendered, n), Resizing(wanted, n)) /\ at' = at
      BY <1>6 DEF Resize
    <2>2. /\ Resizing(rendered, n) \in Params /\ Resizing(wanted, n) \in Params
          /\ Same(rendered, wanted) => Same(Resizing(rendered, n), Resizing(wanted, n))
      BY <1>p, ResizingIs, SamePatched
    <2> QED BY <2>1, <2>2, MeantNavigate
  <1>7. CASE resetAllFilters
    <2>1. Navigate(Default(P), Default(P)) /\ at' = at
      BY <1>7 DEF resetAllFilters
    <2>2. Default(P) \in Params /\ Same(Default(P), Default(P))
      BY <1>p, FirstView DEF Same
    <2> QED BY <2>1, <2>2, MeantNavigate
  <1>8. CASE resetFilters
    BY <1>8 DEF resetFilters, Meant
  <1>9. CASE (\E t \in Texts : Type(t)) \/ Rerender \/ Select
    BY <1>9, MeantStays DEF Type, Rerender, Select
  <1>10. CASE Refetch \/ Answer \/ Fail
    BY <1>10, MeantStays DEF Refetch, Answer, Fail
  <1>11. CASE UNCHANGED vars
    BY <1>11, MeantStays DEF vars, Location
  <1> QED BY <1>1, <1>2, <1>3, <1>4, <1>5, <1>6, <1>7, <1>8, <1>9, <1>10, <1>11 DEF Next

LEMMA MeantInit == Init => Meant
  <1> SUFFICES ASSUME Init PROVE Meant
    OBVIOUS
  <1>1. url = wanted
    BY DEF Init
  <1> QED BY <1>1 DEF Meant, Same

-----------------------------------------------------------------------------
(* What is shown once the answer is there.                                     *)

\* A table of one record: the same in every order, and on its first page.
LEMMA SortedOne ==
  ASSUME NEW x, NEW by, NEW dir
  PROVE  Sorted({x}, by, dir) = <<x>>
  <1>1. Cardinality({x}) = 1
    BY FS_Singleton
  <1>2. 1..1 = {1}
    OBVIOUS
  <1>3. \A s \in [1..1 -> {x}] : s = <<x>>
    <2> TAKE s \in [1..1 -> {x}]
    <2>1. s[1] = x /\ DOMAIN s = 1..1
      BY <1>2
    <2> QED BY <1>2, <2>1
  <1>4. <<x>> \in [1..1 -> {x}]
    BY <1>2
  <1> DEFINE R(s) == \A i, j \in 1..1 : i < j =>
                       IF dir = "asc" THEN Rank(by, s[i]) < Rank(by, s[j])
                                      ELSE Rank(by, s[i]) > Rank(by, s[j])
  <1>5. R(<<x>>)
    <2>1. \A i, j \in 1..1 : ~(i < j)
      OBVIOUS
    <2> QED BY <2>1
  <1>6. Sorted({x}, by, dir) = CHOOSE s \in [1..1 -> {x}] : R(s)
    BY <1>1 DEF Sorted
  <1> HIDE DEF R
  <1>7. Sorted({x}, by, dir) \in [1..1 -> {x}]
    BY <1>4, <1>5, <1>6
  <1> QED BY <1>3, <1>7

LEMMA ViewOne ==
  ASSUME ListInv, NEW x
  PROVE  View({x}, Default(P)) = <<x>>
  <1> DEFINE d == Default(P)
  <1>1. Sorted({x}, d.by, d.dir) = <<x>>
    BY SortedOne
  <1>2. d.page = 1 /\ d.size \in Nat \ {0}
    BY SizesNat DEF Default
  <1> HIDE DEF d
  <1>3. Slice(<<x>>, 1, d.size) = <<x>>
    <2>1. (1 - 1) * d.size + 1 = 1 /\ 1 * d.size = d.size /\ Len(<<x>>) = 1
      BY <1>2
    <2>2. Min({d.size, 1}) = 1
      BY <1>2 DEF Min
    <2>3. SubSeq(<<x>>, 1, 1) = <<x>>
      <3> DEFINE z == <<x>>
      <3>1. z \in Seq({x}) /\ Len(z) = 1 /\ z[1] = x
        OBVIOUS
      <3> HIDE DEF z
      <3>2. SubSeq(z, 1, 1) \in Seq({x}) /\ Len(SubSeq(z, 1, 1)) = 1
            /\ SubSeq(z, 1, 1)[1] = z[1]
        BY <3>1
      <3>3. SubSeq(z, 1, 1) = z
        BY <3>1, <3>2
      <3> QED BY <3>3 DEF z
    <2> QED BY <2>1, <2>2, <2>3 DEF Slice
  <1>4. View({x}, d) = <<x>>
    BY <1>1, <1>2, <1>3 DEF View
  <1> QED BY <1>4 DEF d

\* Everything, when nothing narrows.
LEMMA NarrowNothing == Narrow(NoText, {}) = Items
  BY DEF Narrow

\* What the query asks, when it does not wait for a row: nothing of the controls,
\* or everything they describe.
LEMMA AskedIs ==
  ASSUME ListInv, ViewInv, ~Q.waits, at.page # "help"
  PROVE  /\ Q.keys = {} => Found(Asked) = Items /\ Asked[1] = Default(P)
         /\ Q.keys # {} => Found(Asked) = Narrow(rendered.search, rendered.on \cap Q.meant)
         /\ Q.keys # {} /\ P.paged => Asked[1] = rendered
         /\ ~P.paged => Asked[1].by = P.sort /\ Asked[1].dir = P.dir
  <1>p. /\ rendered \in Params /\ Framed /\ rendered.on \subseteq P.schema
        /\ (~P.searches => rendered.search = NoText)
    <2>1. rendered \in Params /\ Framed /\ Plain(rendered)
      BY Parts DEF ViewInv
    <2> QED BY <2>1 DEF Plain, Params, Framed
  <1>q. Faithful(P, Q)
    BY <1>p, QueriesFaithful DEF Framed, P, Q
  <1>d. /\ Default(P) \in Params /\ Default(P).by = P.sort /\ Default(P).dir = P.dir
        /\ Default(P).search = NoText /\ Default(P).on = {}
    BY <1>p, FirstView DEF Default
  <1>s. P.paged \in BOOLEAN /\ (~P.paged => ~P.searches)
    BY <1>p, PlainPages DEF Framed, P
  <1> DEFINE k == Asked[1]
  <1>1. k = IF P.paged /\ Q.keys # {} THEN [rendered EXCEPT !.on = @ \cap Q.keys]
            ELSE [Default(P) EXCEPT !.on = rendered.on \cap Q.keys]
    BY DEF Asked, Key
  <1>2. Found(Asked) = Narrow(k.search, k.on \cap Q.sent \cap DOMAIN Q.handler)
    BY DEF Found
  <1> HIDE DEF k
  <1>3. k.on = rendered.on \cap Q.keys
    BY <1>1, <1>d, <1>p DEF Params
  <1>4. rendered.on \cap Q.keys \cap Q.sent \cap DOMAIN Q.handler = rendered.on \cap Q.meant
    BY <1>p, <1>q DEF Faithful
  <1>5. k.on \cap Q.sent \cap DOMAIN Q.handler = rendered.on \cap Q.meant
    BY <1>3, <1>4
  <1>6. ASSUME Q.keys = {} PROVE Found(Asked) = Items /\ k = Default(P)
    <2>1. k = Default(P)
      BY <1>1, <1>6, <1>d DEF Params
    <2>2. Q.meant = {}
      BY <1>q, <1>6 DEF Faithful
    <2> QED BY <1>2, <1>5, <1>d, <2>1, <2>2, NarrowNothing
  <1>7. ASSUME Q.keys # {}
        PROVE  Found(Asked) = Narrow(rendered.search, rendered.on \cap Q.meant)
    <2>1. k.search = rendered.search
      <3>1. CASE P.paged
        BY <1>1, <1>7, <1>p, <3>1 DEF Params
      <3>2. CASE ~P.paged
        BY <1>1, <1>d, <1>p, <1>s, <3>2 DEF Params
      <3> QED BY <3>1, <3>2
    <2> QED BY <1>2, <1>5, <2>1
  <1>8. ASSUME Q.keys # {}, P.paged PROVE k = rendered
    <2>1. P.schema \subseteq Q.keys
      BY <1>q, <1>8 DEF Faithful
    <2>2. rendered.on \cap Q.keys = rendered.on
      BY <1>p, <2>1
    <2> QED BY <1>1, <1>8, <1>p, <2>2 DEF Params
  <1>9. ~P.paged => k.by = P.sort /\ k.dir = P.dir
    BY <1>1, <1>d DEF Params
  <1> QED BY <1>6, <1>7, <1>8, <1>9 DEF k

\* The help page narrows the whole content by the rendered parameters.
LEMMA HelpRows ==
  ASSUME ListInv, Settled, at.page = "help"
  PROVE  /\ ~Q.waits /\ Q.meant # {} /\ Q.keys = {}
         /\ Rows = View(Narrow(rendered.search, rendered.on \cap Q.meant), Default(P))
  <1>p. Framed
    BY Parts
  <1>1. P = HelpPage
    BY DEF P, Catalog
  <1>2. Q.keys = {} /\ Q.waits = FALSE /\ Q.meant = {"category"}
    BY <1>p, <1>1, HelpAsks DEF Framed, Q
  <1>d. Default(P) \in Params /\ Default(P).search = NoText /\ Default(P).on = {}
    BY <1>p, FirstView DEF Default
  <1>3. Asked[1] = Default(P)
    <2>1. Asked[1] = [Default(P) EXCEPT !.on = {}]
      BY <1>2 DEF Asked, Key
    <2> QED BY <1>d, <2>1 DEF Params
  <1>4. Found(Asked) = Items
    <2>1. Found(Asked) = Narrow(NoText, {} \cap Q.sent \cap DOMAIN Q.handler)
      BY <1>2, <1>3, <1>d DEF Found
    <2> QED BY <2>1, NarrowNothing
  <1>5. ShownKey = Asked
    BY DEF ShownKey, Settled
  <1>6. InBrowser(at.page) = {"category"}
    BY DEF InBrowser, filterHelpContent
  <1>7. Narrowed(Items) = Narrow(rendered.search, rendered.on \cap Q.meant)
    <2>1. Narrow(rendered.search, rendered.on \cap {"category"}) \subseteq Items
      BY DEF Narrow
    <2> QED BY <1>2, <1>6, <2>1 DEF Narrowed
  <1> QED BY <1>2, <1>3, <1>4, <1>5, <1>7 DEF Rows

\* The way from the last commit to the rows.
LEMMA RowsDescribed ==
  ASSUME ListInv, ViewInv, Settled
  PROVE  Rows = Described(rendered)
  <1> SUFFICES Rows = IF Q.waits THEN <<selected>>
                      ELSE View(IF Q.meant = {} THEN Items
                                ELSE Narrow(rendered.search, rendered.on \cap Q.meant),
                                IF Q.keys = {} THEN Default(P) ELSE rendered)
    BY DEF Described
  <1>1. CASE at.page = "help"
    BY <1>1, HelpRows
  <1>2. CASE at.page # "help"
    <2>p. Framed /\ rendered.by \in P.sorts \cup {P.sort} /\ Plain(rendered)
      BY Parts DEF ViewInv
    <2>1. Rows = View(Found(Asked), Asked[1])
      <3>1. ShownKey = Asked
        BY DEF ShownKey, Settled
      <3>2. Narrowed(Found(Asked)) = Found(Asked)
        BY <1>2 DEF Narrowed, InBrowser
      <3> QED BY <3>1, <3>2 DEF Rows
    <2>q. Faithful(P, Q)
      BY <1>2, <2>p, QueriesFaithful DEF Framed, P, Q
    <2>2. CASE Q.waits
      <3>1. Q.keys = {}
        BY <2>2, <2>q DEF Faithful
      <3>2. Asked[1] = Default(P) /\ Asked[2] = selected
        <4>1. Asked = <<[Default(P) EXCEPT !.on = {}], selected>>
          BY <2>2, <3>1 DEF Asked, Key
        <4>2. [Default(P) EXCEPT !.on = {}] = Default(P)
          BY DEF Default
        <4> QED BY <4>1, <4>2
      <3>3. Found(Asked) = {selected}
        BY <2>2, <3>2 DEF Found
      <3> QED BY <2>1, <2>2, <3>2, <3>3, ViewOne
    <2>3. CASE ~Q.waits
      <3>1. Q.meant = {} <=> Q.keys = {}
        BY <2>q DEF Faithful
      <3>2. CASE Q.keys = {}
        BY <1>2, <2>1, <2>3, <3>1, <3>2, AskedIs
      <3>3. CASE Q.keys # {}
        <4>1. Found(Asked) = Narrow(rendered.search, rendered.on \cap Q.meant)
          BY <1>2, <2>3, <3>3, AskedIs
        <4>2. CASE P.paged
          BY <1>2, <2>1, <2>3, <3>1, <3>3, <4>1, <4>2, AskedIs
        <4>3. CASE ~P.paged
          <5>1. Asked[1].by = P.sort /\ Asked[1].dir = P.dir
            BY <1>2, <2>3, <4>3, AskedIs
          <5>2. P.columns = {} /\ P.sorts = {}
            BY <2>p, <4>3, PlainPages DEF Framed, P
          <5>3. rendered.by = P.sort /\ rendered.dir = P.dir
            BY <2>p, <5>2 DEF Plain
          <5>4. \A S : View(S, Asked[1]) = View(S, rendered)
            BY <4>3, <5>1, <5>3 DEF View
          <5> QED BY <2>1, <2>3, <3>1, <3>3, <4>1, <5>4
        <4> QED BY <4>2, <4>3
      <3> QED BY <3>2, <3>3
    <2> QED BY <2>2, <2>3
  <1> QED BY <1>1, <1>2

LEMMA ViewMatches == ListInv /\ ViewInv /\ Meant => SettledViewMatches
  <1> SUFFICES ASSUME ListInv, ViewInv, Meant, Settled
               PROVE  /\ Rows = Described(rendered)
                      /\ ~crossed /\ rendered = Parse(url)
                           => Rows = Described(Granted(wanted))
    BY DEF SettledViewMatches
  <1>1. Rows = Described(rendered)
    BY RowsDescribed
  <1>2. ASSUME ~crossed, rendered = Parse(url) PROVE rendered = Granted(wanted)
    <2>1. url \in Params /\ wanted \in Params /\ Framed
      BY Parts
    <2>2. Granted(url) = Granted(wanted)
      BY <1>2, <2>1, SameGranted DEF Meant
    <2> QED BY <1>2, <2>1, <2>2, GrantedTwice
  <1> QED BY <1>1, <1>2

LEMMA ResetMatches == ListInv /\ ViewInv => ResetOffered
  <1> SUFFICES ASSUME ListInv, ViewInv, P.reset # "none", ~Active, ~Q.waits
               PROVE  ~(Cardinality(Found(Asked)) < Cardinality(Items))
    BY DEF ResetOffered
  <1>p. rendered \in Params /\ Framed /\ Plain(rendered) /\ at.page \in Pages
    BY Parts DEF ViewInv, Framed
  <1>1. at.page # "help"
    BY HelpAsks DEF P, Catalog, HelpPage
  <1>2. P.schema \subseteq P.active
    BY <1>p, PlainPages DEF P
  <1>3. rendered.on = {}
    <2>1. rendered.on \subseteq P.schema
      BY <1>p DEF Params, Framed
    <2>2. rendered.on \cap P.active = {}
      BY DEF Active
    <2> QED BY <1>2, <2>1, <2>2
  <1>4. rendered.search = NoText
    BY <1>p DEF Active, Plain
  <1>5. Found(Asked) = Items
    <2>1. Q.keys # {} => Found(Asked) = Narrow(NoText, {} \cap Q.meant)
      BY <1>1, <1>3, <1>4, AskedIs
    <2> QED BY <1>1, <2>1, AskedIs, NarrowNothing
  <1>6. Cardinality(Items) \in Nat
    BY ItemsNat, FS_CardinalityType
  <1> QED BY <1>5, <1>6

(* Once the answer is there, the rows are those the last commit describes; and  *)
(* when the commit is of the present URL and no callback crossed a navigation,  *)
(* they are those the bookmark, the search and the controls ask for, through    *)
(* URL, schema, key, request and handler, but for a sort of the conversations   *)
(* by customer or intent, which is shown as the default one                     *)
(* (SettledViewMatches).                                                        *)
THEOREM SettledViewMatchesTheorem == Spec => []SettledViewMatches
  BY ListInit, ListStep, PlainInit, PlainStep, MeantInit, MeantStep, ViewMatches, PTL DEF Spec

(* A page that hides records because of its URL offers Reset (ResetOffered).   *)
THEOREM ResetOfferedTheorem == Spec => []ResetOffered
  BY ListInit, ListStep, PlainInit, PlainStep, ResetMatches, PTL DEF Spec
=============================================================================
