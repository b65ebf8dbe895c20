---------------------------- MODULE SectionForms ----------------------------
(* The Settings or the Profile page: one record on the server, its copy in the *)
(* query cache, and the section cards that edit it with react-hook-form.       *)
(*                                                                             *)
(* A save is a PUT of one section that answers with the whole record, which    *)
(* replaces the cached one.  The cards render the cached record in a commit of *)
(* its own (Commit), so a card may still hold the values of the render before. *)
(* PUTs and the GET are served and answered in any order, and each may fail.   *)
EXTENDS FormSections, Sequences

CONSTANTS Pages,        \* the pages, and for each the sections whose cards are watched
          Texts,        \* what the inputs of a card may hold
          Clean,        \* what the schema makes of a text (trimmed, split), or Invalid
          Invalid,
          First,        \* the value every section starts with
          MaxSaves, MaxFetches,  \* bounds: saves and refetches of one behaviour
          None

Values == {Clean[t] : t \in Texts} \ {Invalid}
Sections == UNION {Pages[p] : p \in DOMAIN Pages}

ASSUME PagesFit == \A p \in DOMAIN Pages : Pages[p] \subseteq SectionsOf(p)
ASSUME CleanType == Clean \in [Texts -> Values \cup {Invalid}] /\ First \in Values
\* A saved value is a text of its form that cleans to itself.
ASSUME ValuesAreClean == Values \subseteq Texts /\ \A v \in Values : Clean[v] = v
ASSUME BoundsNat == MaxSaves \in Nat /\ MaxFetches \in Nat

VARIABLES page, section,  \* the open page; its section shown in Settings
          open, status,   \* the page is mounted; status of its query
          server, cache,  \* the record: each section's value, and whether the fields
                          \* its card does not send are still there
          card,           \* the mounted cards
          puts, get,      \* the saves sent, each until it ended; the refetch in flight
          fetches,        \* refetches so far
          acked, current  \* ghosts: the last save of each section acknowledged, if it is
                          \* known to be the last one served; the cache is known current
vars == <<page, section, open, status, server, cache, card, puts, get, fetches, acked, current>>

-----------------------------------------------------------------------------
Stored == [value : Values, carried : BOOLEAN]
Records == [Sections -> Stored]
\* A card: the values of its last render, its form and the form's baseline.
CardState == [props : Values, form : Texts, base : Texts, editing : BOOLEAN,
              submitting : BOOLEAN]
Put == [section : Sections, value : Values, answer : Records \cup {None}, live : BOOLEAN,
        alone : BOOLEAN, only : BOOLEAN]
Get == [answer : Records \cup {None}, alone : BOOLEAN]
ASSUME NoneIsNone == None \notin Values \cup Records \cup CardState \cup Put \cup Get
InFlight == {i \in DOMAIN puts : puts[i] # None}
Of(c) == {i \in InFlight : puts[i].section = c}

\* useForm({defaultValues}): a card as it mounts.
Fresh(v) == [props |-> v, form |-> v, base |-> v, editing |-> FALSE, submitting |-> FALSE]
\* form.reset(values)
ResetTo(k, v) == [k EXCEPT !.form = v, !.base = v]
isDirty(k) == k.form # k.base
Mounted(c) == card[c] # None

(* settings-page.tsx, profile-page.tsx: no card on a failed query; in Settings *)
(* the card of the active section, in Profile every card. *)
Shown(c, o, st, s) == o /\ st = "success" /\ c \in Pages[page] /\ (page = "settings" => c = s)
(* The cards after a render that shows or hides them: one that stays keeps its *)
(* state, one that appears starts afresh. *)
Cards(o, st, s, rec) ==
  [c \in Sections |-> IF ~Shown(c, o, st, s) THEN None
                      ELSE IF Mounted(c) THEN card[c] ELSE Fresh(rec[c].value)]
\* An unmounted card no longer hears of its save.
Hears(ps, cs) ==
  [i \in DOMAIN ps |-> IF ps[i] # None /\ cs[ps[i].section] = None
                   THEN [ps[i] EXCEPT !.live = FALSE] ELSE ps[i]]

-----------------------------------------------------------------------------
(* A card's own gestures. *)
startEditing(c) ==
  /\ Mounted(c) /\ ~card[c].editing
  /\ card' = [card EXCEPT ![c].editing = TRUE]
  /\ UNCHANGED <<page, section, open, status, server, cache, puts, get, fetches, acked, current>>

\* The inputs are enabled while editing, also while a save is in flight.
Type(c, t) ==
  /\ Mounted(c) /\ card[c].editing /\ t # card[c].form
  /\ card' = [card EXCEPT ![c].form = t]
  /\ UNCHANGED <<page, section, open, status, server, cache, puts, get, fetches, acked, current>>

handleCancel(c) ==
  /\ Mounted(c) /\ card[c].editing /\ ~card[c].submitting
  /\ card' = [card EXCEPT ![c] = [ResetTo(@, @.props) EXCEPT !.editing = FALSE]]
  /\ UNCHANGED <<page, section, open, status, server, cache, puts, get, fetches, acked, current>>

handleReset(c) ==
  /\ Mounted(c) /\ card[c].editing /\ isDirty(card[c]) /\ ~card[c].submitting
  /\ card' = [card EXCEPT ![c] = ResetTo(@, @.props)]
  /\ UNCHANGED <<page, section, open, status, server, cache, puts, get, fetches, acked, current>>

(* Save: a form the schema refuses only shows its errors; otherwise the card's *)
(* section goes out, as the schema cleaned it. *)
Payload_Raw(k) == k.form                      \* mutant: what was typed goes out as it is
Payload(k) == Clean[k.form]
onSubmit(c) ==
  /\ Mounted(c) /\ card[c].editing /\ isDirty(card[c]) /\ ~card[c].submitting
  /\ Payload(card[c]) # Invalid
  /\ Len(puts) < MaxSaves
  /\ card' = [card EXCEPT ![c].submitting = TRUE]
  /\ puts' = Append([i \in DOMAIN puts |->
                      IF puts[i] = None THEN None
                      ELSE [puts[i] EXCEPT !.alone = FALSE, !.only = @ /\ puts[i].section # c]],
                    [section |-> c, value |-> Payload(card[c]), answer |-> None,
                     live |-> TRUE, alone |-> InFlight = {} /\ get = None,
                     only |-> Of(c) = {}])
  /\ get' = IF get = None THEN None ELSE [get EXCEPT !.alone = FALSE]
  /\ UNCHANGED <<page, section, open, status, server, cache, fetches, acked, current>>

(* The page renders the record now cached; the effect of each card follows it   *)
(* unless editing. *)
Follow_Always(k, v) == ResetTo([k EXCEPT !.props = v], v)  \* mutant: also while editing
Follow_Never(k, v) == [k EXCEPT !.props = v]   \* mutant: the effect runs when editing ends only
Follow(k, v) == IF k.editing THEN [k EXCEPT !.props = v]
                ELSE ResetTo([k EXCEPT !.props = v], v)
Commit ==
  /\ \E c \in Sections : Mounted(c) /\ card[c].props # cache[c].value
  /\ card' = [c \in Sections |-> IF Mounted(c) THEN Follow(card[c], cache[c].value) ELSE None]
  /\ UNCHANGED <<page, section, open, status, server, cache, puts, get, fetches, acked, current>>

-----------------------------------------------------------------------------
(* The handlers of PUT: one section replaced, what it does not send carried    *)
(* over where the handler spreads it back. *)
\* mutant: the client sends the cached record with its section replaced
updateSettingsSection_Whole(c, v) == [cache EXCEPT ![c] = [value |-> v, carried |-> @.carried]]
updateSettingsSection(c, v) ==
  [server EXCEPT ![c] = [value |-> v,
                         carried |-> @.carried /\ Carried(c) \subseteq CardOf[c].keeps]]
Apply(i) ==
  /\ i \in InFlight /\ puts[i].answer = None
  /\ server' = updateSettingsSection(puts[i].section, puts[i].value)
  /\ puts' = [puts EXCEPT ![i].answer = server']
  /\ UNCHANGED <<page, section, open, status, cache, card, get, fetches, acked, current>>

(* onSuccess: the answer becomes the cached record, and revives a failed query. *)
(* A card still there stops editing: form.reset(data), and then the effect on   *)
(* isEditing resets it to what it was last rendered with.                       *)
onSuccess_NoCache(answer) == UNCHANGED <<cache, status>>  \* mutant: the cache is not set
onSuccess(answer) == cache' = answer /\ status' = "success"
Saved(k) == [ResetTo(k, k.props) EXCEPT !.editing = FALSE, !.submitting = FALSE]
Answered(i) ==
  /\ i \in InFlight /\ puts[i].answer # None
  /\ LET p == puts[i]
         cs == Cards(open, "success", section, p.answer)
     IN /\ onSuccess(p.answer)
        /\ card' = IF p.live THEN [cs EXCEPT ![p.section] = Saved(@)] ELSE cs
        /\ acked' = [acked EXCEPT ![p.section] = IF p.only THEN p.value ELSE None]
        /\ current' = p.alone
  /\ puts' = [puts EXCEPT ![i] = None]
  /\ UNCHANGED <<page, section, open, server, get, fetches>>

(* The request is refused, or served but its answer lost: the card stays in    *)
(* edit mode with the user's values. *)
Failed(i) ==
  /\ i \in InFlight
  /\ card' = IF puts[i].live THEN [card EXCEPT ![puts[i].section].submitting = FALSE] ELSE card
  /\ acked' = IF puts[i].answer = None /\ puts[i].only THEN acked
              ELSE [acked EXCEPT ![puts[i].section] = None]
  /\ current' = (current /\ puts[i].answer = None)
  /\ puts' = [puts EXCEPT ![i] = None]
  /\ UNCHANGED <<page, section, open, status, server, cache, get, fetches>>

-----------------------------------------------------------------------------
(* useSettings, useProfile: the query refetches when the page mounts stale, on *)
(* reconnect and on Retry.  Its function consumes the abort signal, so leaving *)
(* the page cancels it.  A fetch that failed twice fails the query. *)
refetch ==
  /\ open /\ get = None /\ fetches < MaxFetches
  /\ fetches' = fetches + 1
  /\ get' = [answer |-> None, alone |-> InFlight = {}]
  /\ puts' = [i \in DOMAIN puts |-> IF puts[i] = None THEN None ELSE [puts[i] EXCEPT !.alone = FALSE]]
  /\ UNCHANGED <<page, section, open, status, server, cache, card, acked, current>>
getSettings ==
  /\ get # None /\ get.answer = None
  /\ get' = [get EXCEPT !.answer = server]
  /\ UNCHANGED <<page, section, open, status, server, cache, card, puts, fetches, acked, current>>
Fetched ==
  /\ get # None /\ get.answer # None
  /\ cache' = get.answer /\ status' = "success"
  /\ card' = Cards(open, "success", section, get.answer)
  /\ current' = get.alone
  /\ get' = None
  /\ UNCHANGED <<page, section, open, server, puts, fetches, acked>>
FetchFailed ==
  /\ get # None
  /\ status' = "error" /\ get' = None
  /\ card' = Cards(open, "error", section, cache)
  /\ puts' = Hears(puts, card')
  /\ UNCHANGED <<page, section, open, server, cache, fetches, acked, current>>

(* Choosing another section, and leaving and opening the page, unmount cards. *)
Show(o, s) ==
  /\ open' = o /\ section' = s
  /\ card' = Cards(o, status, s, cache)
  /\ puts' = Hears(puts, card')
  /\ UNCHANGED <<page, status, server, cache, fetches, acked, current>>
handleSelectSection(s) ==
  /\ open /\ page = "settings" /\ s \in (SETTINGS_NAV_ITEMS \cap Pages[page]) \ {section}
  /\ Show(TRUE, s) /\ UNCHANGED get
Leave == open /\ Show(FALSE, section) /\ get' = None
\* Any link may carry the section in its URL.
Open(s) == ~open /\ s \in Pages[page] /\ (page = "profile" => s = section) /\ Show(TRUE, s) /\ UNCHANGED get

-----------------------------------------------------------------------------
(* The page as its first load left it. *)
Init ==
  /\ page \in DOMAIN Pages
  /\ section \in Pages[page]
  /\ page = "profile" => section = CHOOSE s \in Pages[page] : TRUE
  /\ open = TRUE /\ status = "success"
  /\ server = [c \in Sections |-> [value |-> First, carried |-> TRUE]]
  /\ cache = server
  /\ card = [c \in Sections |-> IF Shown(c, TRUE, "success", section) THEN Fresh(First) ELSE None]
  /\ puts = <<>> /\ get = None /\ fetches = 0
  /\ acked = [c \in Sections |-> First] /\ current = TRUE

Gesture(c) == \/ startEditing(c) \/ handleCancel(c) \/ handleReset(c)
              \/ \E t \in Texts : Type(c, t)
              \/ onSubmit(c)
Next == \/ \E c \in Sections : Gesture(c)
        \/ Commit
        \/ \E i \in 1..MaxSaves : Apply(i) \/ Answered(i) \/ Failed(i)
        \/ refetch \/ getSettings \/ Fetched \/ FetchFailed
        \/ Leave
        \/ \E s \in Sections : handleSelectSection(s) \/ Open(s)

(* The browser renders what changed, and ends the requests it sent. *)
Spec == /\ Init /\ [][Next]_vars
        /\ WF_vars(Commit)
        /\ WF_vars(\E i \in 1..MaxSaves : Apply(i) \/ Answered(i) \/ Failed(i))
-----------------------------------------------------------------------------
TypeOK ==
  /\ page \in DOMAIN Pages /\ section \in Pages[page]
  /\ open \in BOOLEAN /\ status \in {"success", "error"} /\ current \in BOOLEAN
  /\ server \in Records /\ cache \in Records
  /\ card \in [Sections -> CardState \cup {None}]
  /\ puts \in Seq(Put \cup {None}) /\ Len(puts) <= MaxSaves
  /\ get \in Get \cup {None} /\ fetches \in 0..MaxFetches
  /\ acked \in [Sections -> Values \cup {None}]

(* Once every request has ended, if the last one to change the cache overlapped *)
(* no other and no answer was lost, the cache is the server's record, and every *)
(* card that is not being edited shows it with a clean form: the re-baselining  *)
(* of use-settings-section-form.ts:43-53 leaves no stale value and no stuck     *)
(* isDirty, whichever of its two renders lands first. *)
QuietShowsServer ==
  current /\ InFlight = {} =>
    /\ cache = server
    /\ \A c \in Sections :
         Mounted(c) /\ ~card[c].editing /\ card[c].props = cache[c].value =>
           card[c].form = server[c].value /\ ~isDirty(card[c])

(* Cards save independently: whatever the other cards save meanwhile and in     *)
(* whatever order the answers come, a section on the server is the last save of *)
(* it that was acknowledged, with the fields its card never sends still there   *)
(* (updateSettingsSection, updateProfile; types/mocked.ts:694-699, 743-746).    *)
SavesStandAlone ==
  \A c \in Sections : /\ server[c].carried
                      /\ Of(c) = {} /\ acked[c] # None => server[c].value = acked[c]

(* While a card stays in edit mode, no step changes its form but the user's own *)
(* typing and Reset: neither a refetch, nor another card's save, nor a failed   *)
(* save of its own (use-settings-section-form.ts:11-13, 34-35). *)
EditsKept ==
  [][\A c \in Sections :
       /\ Mounted(c) /\ card[c].editing
       /\ card'[c] # None /\ card'[c].editing /\ card'[c].form # card[c].form
       => handleReset(c) \/ \E t \in Texts : Type(c, t)]_vars

(* A save ends, and from then on or a little later no card waits for it and     *)
(* every card that is not being edited shows what is cached. *)
SaveSettles ==
  \A i \in 1..MaxSaves :
    i \in InFlight ~>
      /\ i \notin InFlight
      /\ \A c \in Sections : Mounted(c) => IF card[c].editing
                                           THEN card[c].submitting => Of(c) # {}
                                           ELSE card[c].form = cache[c].value
=============================================================================
