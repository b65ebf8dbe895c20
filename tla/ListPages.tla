------------------------------ MODULE ListPages -----------------------------
(* One page of the catalog in use: the URL, the parameters of its last         *)
(* commit, the search box with its debounce, and one of its queries.           *)
(*                                                                             *)
(* A setSearchParams changes the URL at once but the page re-renders in a      *)
(* transition (createBrowserRouter), so every callback between the two still   *)
(* closes over the rendered parameters: url and rendered are two variables.    *)
(* The records are external data: each filter keeps some of them (Keeps), each *)
(* text matches some (Matches), a sort is by number or by the reverse.         *)
EXTENDS DashboardPages, Naturals, Sequences
LOCAL INSTANCE FiniteSetsExt

CONSTANTS Scenarios,        \* which page, query, filters and column are watched, and
                            \* the bound of the run: after how many gestures it stops
          Texts, NoText,    \* what the search box may hold; the empty box
          Items,            \* the records behind the page: 1..n
          Keeps(_, _),      \* Keeps(f, i): record i passes filter f when narrowed
          Matches(_, _),    \* Matches(t, i): record i contains text t
          Sizes, DefaultSize,
          None

ASSUME ScenariosFit ==
  \A s \in Scenarios :
    LET p == Catalog[s.page] IN
    /\ s.page \in Pages /\ s.query \in DOMAIN p.queries /\ s.gestures \in Nat
    /\ s.fields \subseteq p.schema /\ s.column \in p.columns \cup {p.sort}
ASSUME ItemsNat == Items \subseteq Nat \ {0} /\ IsFiniteSet(Items) /\ None \notin Items
ASSUME TextsHold == NoText \in Texts
ASSUME SizesNat == Sizes \subseteq Nat \ {0} /\ DefaultSize \in Sizes

VARIABLES at,        \* the scenario, with the parameters the page was loaded with
          url, rendered,                   \* URL parameters; those of the last commit
          mounted, box, debounced, timer,  \* useSearchToolbar and useDebounce
          selected,                        \* the row whose detail is open
          cached, last, tries,             \* query cache, last answer seen, failures
          wanted,                          \* ghost: what bookmark and controls ask for
          touched, crossed,                \* ghosts: fields set by hand; a stale closure ran
          gestures
vars == <<at, url, rendered, mounted, box, debounced, timer, selected, cached, last, tries,
          wanted, touched, crossed, gestures>>
-----------------------------------------------------------------------------
P == Catalog[at.page]
Q == P.queries[at.query]
Bys == {P.sort, at.column}
Params == [search : Texts, on : SUBSET at.fields, by : Bys, dir : {"asc", "desc"},
           size : Sizes, page : Nat \ {0}]
Default(p) == [search |-> NoText, on |-> {}, by |-> p.sort, dir |-> p.dir,
               size |-> DefaultSize, page |-> 1]

(* parse*SearchParams: unknown fields are dropped, a sort outside the enum     *)
(* falls back to the default one.  build*SearchParams: what the URL can carry. *)
Parse(u) == [u EXCEPT !.on = @ \cap P.parsed,
                      !.by = IF @ \in P.sorts THEN @ ELSE P.sort]
Build(v) == [v EXCEPT !.on = @ \cap P.built]

-----------------------------------------------------------------------------
(* The query: its key, the request of the endpoint, the answer of the handler. *)
Key(v, row) ==
  <<IF P.paged /\ Q.keys # {} THEN [v EXCEPT !.on = @ \cap Q.keys]
    ELSE [Default(P) EXCEPT !.on = v.on \cap Q.keys],
    IF Q.waits THEN row ELSE None>>
Asked == Key(rendered, selected)
Enabled == Q.waits => selected # None

Narrow(search, on) == {i \in Items : /\ search # NoText => Matches(search, i)
                                     /\ \A f \in on : Keeps(f, i)}
Rank(by, i) == IF by = P.sort THEN i ELSE Max(Items) - i
Sorted(S, by, dir) ==
  CHOOSE s \in [1..Cardinality(S) -> S] :
    \A i, j \in 1..Cardinality(S) : i < j =>
      IF dir = "asc" THEN Rank(by, s[i]) < Rank(by, s[j]) ELSE Rank(by, s[i]) > Rank(by, s[j])
Slice(s, page, size) == SubSeq(s, (page - 1) * size + 1, Min({page * size, Len(s)}))
View(S, v) == IF P.paged THEN Slice(Sorted(S, v.by, v.dir), v.page, v.size)
                         ELSE Sorted(S, v.by, v.dir)

(* What the handler finds for key k, by the fields the endpoint sent and the   *)
(* handler compares. *)
Found(k) == IF Q.waits THEN {k[2]}
            ELSE Narrow(k[1].search, k[1].on \cap Q.sent \cap DOMAIN Q.handler)
Total(k) == Cardinality(Found(k))

(* What is on screen: the answer for what is asked, else the one kept from     *)
(* before, else nothing. *)
Failed == tries = 2
ShownKey == IF ~Enabled THEN None
            ELSE IF Asked \in cached THEN Asked
            ELSE IF Q.held /\ ~Failed THEN last ELSE None
Settled == Enabled /\ Asked \in cached
(* filterHelpContent narrows in the browser, by the rendered parameters. *)
Narrowed(S) == IF InBrowser(at.page) = {} THEN S
               ELSE S \cap Narrow(rendered.search, rendered.on \cap InBrowser(at.page))
Rows == View(Narrowed(Found(ShownKey)), ShownKey[1])
PageCount == IF ShownKey = None \/ Total(ShownKey) = 0 THEN 1
             ELSE (Total(ShownKey) + rendered.size - 1) \div rendered.size
Active == (P.searches /\ rendered.search # NoText) \/ rendered.on \cap P.active # {}

-----------------------------------------------------------------------------
(* The callbacks of the page. *)
Query0 == <<cached, last, tries>>
Look(v, row) ==          \* the observer moves to the key of what is rendered
  LET k == Key(v, row) IN
  /\ last' = IF k \in cached /\ (Q.waits => row # None) THEN k ELSE last
  /\ tries' = IF k = Asked THEN tries ELSE 0
  /\ UNCHANGED cached
FirstPage(v) == IF P.paged THEN [v EXCEPT !.page = 1] ELSE v
Navigate(v, w) == /\ url' = Build(v) /\ wanted' = w
                  /\ crossed' = (crossed \/ Parse(url) # rendered)
updateParams(v, w) == Navigate(FirstPage(v), FirstPage(w))
Location == <<url, wanted, crossed>>
(* What the callbacks patch. *)
Searching(v, text) == [v EXCEPT !.search = text]
Filtering(v, c, on) == [v EXCEPT !.on = (@ \ c) \cup on]
Sorting(v, by, dir) == [v EXCEPT !.by = by, !.dir = dir]
Turning(v, n) == [v EXCEPT !.page = n]
Resizing(v, n) == [v EXCEPT !.size = n, !.page = 1]
Gesture(fields) == /\ mounted /\ gestures < at.gestures
                   /\ gestures' = gestures + 1
                   /\ touched' = touched \cup fields
Toolbar == <<mounted, box, debounced, timer>>

(* The toolbar mounts with the page, the help page's once its content is       *)
(* there; the first effect reports the debounced value it starts with.         *)
Mount ==
  /\ ~mounted /\ (at.page = "help" => Settled)
  /\ mounted' = TRUE /\ box' = rendered.search /\ debounced' = rendered.search
  /\ IF P.searches THEN updateParams(rendered, wanted) ELSE UNCHANGED Location
  /\ UNCHANGED <<at, rendered, timer, selected, Query0, touched, gestures>>
Type(t) ==
  /\ P.searches /\ t # box /\ Gesture({"search"})
  /\ box' = t /\ timer' = TRUE
  /\ UNCHANGED <<at, Location, rendered, mounted, debounced, selected, Query0>>
\* Mutant: the effect reports the value debounced before this one.
Fire_Previous ==
  /\ timer /\ timer' = FALSE /\ debounced' = box
  /\ IF box # debounced
     THEN updateParams(Searching(rendered, debounced), Searching(wanted, box))
     ELSE UNCHANGED Location
  /\ UNCHANGED <<at, rendered, mounted, box, selected, Query0, touched, gestures>>
(* useDebounce: the timer of the last keystroke; a changed value runs the      *)
(* effect that patches the search.                                             *)
Fire ==
  /\ timer /\ timer' = FALSE /\ debounced' = box
  /\ IF box # debounced THEN updateParams(Searching(rendered, box), Searching(wanted, box))
                        ELSE UNCHANGED Location
  /\ UNCHANGED <<at, rendered, mounted, box, selected, Query0, touched, gestures>>
(* The transition commits: a changed search overwrites the box and restarts    *)
(* its timer.                                                                  *)
Rerender ==
  LET v == Parse(url)
      resync == mounted /\ P.searches /\ v.search # rendered.search IN
  /\ v # rendered /\ rendered' = v
  /\ box' = IF resync THEN v.search ELSE box
  /\ timer' = (timer \/ (resync /\ box # v.search))
  /\ Look(v, selected)
  /\ UNCHANGED <<at, Location, mounted, debounced, selected, touched, gestures>>

Set(c) == \E on \in SUBSET (c \cap at.fields) :
  /\ on # rendered.on \cap c /\ Gesture(c)
  /\ updateParams(Filtering(rendered, c, on), Filtering(wanted, c, on))
  /\ UNCHANGED <<at, rendered, Toolbar, selected, Query0>>
handleSortingChange == \E by \in Bys \cap P.columns, dir \in {"asc", "desc"} :
  /\ <<by, dir>> # <<rendered.by, rendered.dir>> /\ Gesture({"sort"})
  /\ Navigate(Sorting(rendered, by, dir), Sorting(wanted, by, dir))
  /\ UNCHANGED <<at, rendered, Toolbar, selected, Query0>>
\* Mutant: Previous stays enabled on the first page.
Turn_NoFloor ==
  /\ P.paged /\ Gesture({"page"})
  /\ Navigate(Turning(rendered, rendered.page - 1), Turning(wanted, rendered.page - 1))
  /\ UNCHANGED <<at, rendered, Toolbar, selected, Query0>>
Turn ==
  /\ P.paged /\ Gesture({"page"})
  /\ \E n \in (IF rendered.page <= 1 THEN {} ELSE {1, rendered.page - 1})
              \cup (IF rendered.page >= PageCount THEN {}
                    ELSE {rendered.page + 1, PageCount}) :
       Navigate(Turning(rendered, n), Turning(wanted, n))
  /\ UNCHANGED <<at, rendered, Toolbar, selected, Query0>>
Resize == \E n \in Sizes \ {rendered.size} :
  /\ P.paged /\ Gesture({"size"}) /\ Navigate(Resizing(rendered, n), Resizing(wanted, n))
  /\ UNCHANGED <<at, rendered, Toolbar, selected, Query0>>
(* Reset empties the URL; the conversations toolbar instead patches search,    *)
(* status and intent, each from the same rendered parameters: the last stands, *)
(* and the other two have crossed a navigation.                                *)
resetAllFilters ==
  /\ P.reset = "empty" /\ Active /\ Gesture(at.fields \cup {"search", "sort", "size", "reset"})
  /\ Navigate(Default(P), Default(P))
  /\ UNCHANGED <<at, rendered, Toolbar, selected, Query0>>
resetFilters ==
  /\ P.reset = "patches" /\ Active /\ Gesture(at.fields \cup {"search", "reset"})
  /\ box' = NoText /\ timer' = (timer \/ box # NoText)
  /\ url' = Build(FirstPage(Filtering(rendered, {"intent"}, {}))) /\ crossed' = TRUE
  /\ wanted' = FirstPage(Searching(Filtering(wanted, at.fields, {}), NoText))
  /\ UNCHANGED <<at, rendered, mounted, debounced, selected, Query0>>
Select == \E i \in Items \ {selected} :
  /\ Q.waits /\ Gesture({}) /\ selected' = i /\ Look(rendered, i)
  /\ UNCHANGED <<at, Location, rendered, Toolbar>>
Refetch ==
  /\ Enabled /\ Failed /\ Asked \notin cached /\ gestures < at.gestures
  /\ gestures' = gestures + 1 /\ tries' = 0
  /\ UNCHANGED <<at, Location, rendered, Toolbar, selected, cached, last, touched>>

(* The fetch for what is asked: moving away aborts it (its signal is handed to *)
(* fetch), a first failure is retried.                                         *)
Fetching == Enabled /\ Asked \notin cached /\ ~Failed
\* Mutant: an answer is shown for the URL's parameters, not for those that asked.
Answer_Newest ==
  /\ Fetching /\ cached' = cached \cup {Asked} /\ last' = Key(Parse(url), selected)
  /\ UNCHANGED <<at, Location, rendered, Toolbar, selected, tries, touched, gestures>>
Answer ==
  /\ Fetching /\ cached' = cached \cup {Asked} /\ last' = Asked
  /\ UNCHANGED <<at, Location, rendered, Toolbar, selected, tries, touched, gestures>>
Fail ==
  /\ Fetching /\ tries' = tries + 1
  /\ UNCHANGED <<at, Location, rendered, Toolbar, selected, cached, last, touched, gestures>>
-----------------------------------------------------------------------------
(* A page may be opened at any view its controls can have put into the URL:    *)
(* any search, filters, column of its headers, direction and page size, on its *)
(* first page or a later one. *)
Loads(s) == LET p == Catalog[s.page] IN
  [search : IF p.searches THEN Texts ELSE {NoText}, on : SUBSET s.fields,
   by : {p.sort, s.column}, dir : IF p.columns = {} THEN {p.dir} ELSE {"asc", "desc"},
   size : IF p.paged THEN Sizes ELSE {DefaultSize}, page : IF p.paged THEN {1, 2} ELSE {1}]
Init ==
  /\ \E s \in Scenarios : \E u \in Loads(s) :
       /\ at = [page |-> s.page, query |-> s.query, fields |-> s.fields,
                column |-> s.column, gestures |-> s.gestures, loaded |-> u]
       /\ url = u /\ rendered = Parse(u) /\ wanted = u
  /\ mounted = FALSE /\ box = NoText /\ debounced = NoText /\ timer = FALSE
  /\ selected = None /\ cached = {} /\ last = None /\ tries = 0
  /\ touched = {} /\ crossed = FALSE /\ gestures = 0
Next ==
  \/ Mount \/ (\E t \in Texts : Type(t)) \/ Fire \/ Rerender
  \/ (\E c \in P.controls : Set(c)) \/ handleSortingChange \/ Turn \/ Resize
  \/ resetAllFilters \/ resetFilters \/ Select \/ Refetch \/ Answer \/ Fail
Spec == Init /\ [][Next]_vars /\ WF_vars(Mount) /\ WF_vars(Fire) /\ WF_vars(Rerender)
-----------------------------------------------------------------------------
Questions ==
  [search : Texts, on : SUBSET UNION {Catalog[p].schema : p \in Pages},
   by : UNION {Catalog[p].columns \cup {Catalog[p].sort} : p \in Pages},
   dir : {"asc", "desc"}, size : Sizes, page : Nat \ {0}]
  \X (Items \cup {None})

(* Types of the state. *)
TypeOK ==
  /\ at.page \in Pages /\ at.query \in DOMAIN P.queries
  /\ {url, rendered, wanted} \subseteq Params
  /\ {mounted, timer, crossed} \subseteq BOOLEAN /\ {box, debounced} \subseteq Texts
  /\ selected \in Items \cup {None} /\ tries \in 0..2 /\ gestures \in 0..at.gestures
  /\ cached \subseteq Questions /\ last \in cached \cup {None}

(* The two sortable columns the schema of their page does not name: a sort by  *)
(* one of them becomes the default sort when the URL is parsed. *)
Unnamed == IF at.page = "conversations" THEN {"customer_name", "intent_label"} ELSE {}
Granted(w) == [w EXCEPT !.by = IF @ \in Unnamed THEN P.sort ELSE @]
(* The rows that parameters v describe, by what the query is meant to obey. *)
Described(v) ==
  IF Q.waits THEN <<selected>>
  ELSE View(IF Q.meant = {} THEN Items ELSE Narrow(v.search, v.on \cap Q.meant),
            IF Q.keys = {} THEN Default(P) ELSE v)

(* Once the answer is there, the rows are exactly the records the parameters   *)
(* of the last commit describe, in their order, on their page; and when that   *)
(* commit is of the present URL, they are the records that the bookmark, the   *)
(* debounced search and every control used since ask for: no field is lost     *)
(* between control, URL, schema, query key, request and handler, but for a     *)
(* sort of the conversations by customer or intent (Unnamed), which becomes    *)
(* the default one.  After a callback ran between a navigation and its commit  *)
(* (crossed) only the first half holds.                                        *)
SettledViewMatches ==
  Settled => /\ Rows = Described(rendered)
             /\ ~crossed /\ rendered = Parse(url) => Rows = Described(Granted(wanted))

(* A table that hides records because of the URL offers Reset, on the pages    *)
(* that have one, filters without a control included.                          *)
ResetOffered ==
  Settled /\ P.reset # "none" /\ Cardinality(Found(Asked)) < Cardinality(Items)
    => Active \/ Q.waits

(* Whatever the stale closures of debounce, effects and clicks do, a filter,   *)
(* the search, the sort and the page size keep the value of the bookmark,      *)
(* whatever that is, until the user changes that very field; but for a sort of *)
(* the conversations by customer or intent, which the toolbar's mount effect   *)
(* already replaces by the default one.                                        *)
UntouchedKeepLoaded ==
  /\ \A f \in at.fields \ touched : f \in url.on <=> f \in at.loaded.on
  /\ "search" \notin touched => url.search = at.loaded.search
  /\ "sort" \notin touched => /\ url.by \in {at.loaded.by, Granted(at.loaded).by}
                              /\ url.dir = at.loaded.dir
  /\ "size" \notin touched => url.size = at.loaded.size

(* The box, its debounced value, the URL and the page end up agreeing on the   *)
(* search, however typing, timers and commits interleave with the other        *)
(* controls (use-search-toolbar.ts:4-11), unless a callback ran between a      *)
(* navigation and its commit or Reset was used: the text that was there typed  *)
(* again within the debounce after a Reset is never applied.                   *)
SearchSettles ==
  <>[](mounted /\ P.searches /\ ~crossed /\ "reset" \notin touched
         => /\ box = debounced /\ debounced = url.search
            /\ url.search = rendered.search)

(* Only an answer to what the controls ask comes on screen. *)
Shown == INSTANCE QueryView WITH Nothing <- None, wanted <- Asked, got <- last
ShowsAskedAnswers == Shown!Spec

(* DEMO_SCRIPT.md:131-132: every view is bookmarkable and survives a refresh.  *)
RefreshKeepsView == touched = {} /\ gestures = 0 => url = at.loaded
=============================================================================
