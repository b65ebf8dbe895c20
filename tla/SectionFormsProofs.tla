------------------------- MODULE SectionFormsProofs -------------------------
(***************************************************************************)
(* Proofs about the Settings and Profile forms, for every set of watched   *)
(* sections, contents of the inputs, schema, and number of saves and       *)
(* refetches.                                                              *)
(***************************************************************************)
EXTENDS SectionForms, SequenceTheorems, TLAPS

-----------------------------------------------------------------------------
(* Type correctness rests on two more facts: a card is mounted exactly while *)
(* the page shows it, and a save that still reports to its card finds it.   *)
Renders == \A c \in Sections : Mounted(c) <=> Shown(c, open, status, section)
Live == \A i \in InFlight : puts[i].live => Mounted(puts[i].section)
FormsInv == TypeOK /\ Renders /\ Live

MaybePut == Put \cup {None}

LEMMA PutAt ==
  ASSUME TypeOK, NEW i \in InFlight
  PROVE  i \in DOMAIN puts /\ puts[i] \in Put /\ puts[i] # None
  <1>1. i \in DOMAIN puts /\ puts[i] # None
    BY DEF InFlight
  <1>2. puts[i] \in Put \cup {None}
    BY <1>1, ElementOfSeq DEF TypeOK
  <1> QED BY <1>1, <1>2

\* One entry of the list replaced.
LEMMA ReplacePut ==
  ASSUME TypeOK, NEW i \in DOMAIN puts, NEW x \in MaybePut
  PROVE  LET ps == [puts EXCEPT ![i] = x]
         IN ps \in Seq(MaybePut) /\ Len(ps) = Len(puts) /\ DOMAIN ps = DOMAIN puts
  BY DEF TypeOK, MaybePut

\* Every entry of the list replaced.
LEMMA RewritePuts ==
  ASSUME TypeOK, NEW ps, DOMAIN ps = DOMAIN puts, ps = [i \in DOMAIN puts |-> ps[i]],
         \A i \in DOMAIN puts : ps[i] \in MaybePut
  PROVE  ps \in Seq(MaybePut) /\ Len(ps) = Len(puts)
  <1>1. DOMAIN puts = 1 .. Len(puts) /\ Len(puts) \in Nat
    BY DEF TypeOK
  <1>2. ps \in [1 .. Len(puts) -> MaybePut]
    BY <1>1
  <1> QED BY <1>1, <1>2

LEMMA HearsType ==
  ASSUME TypeOK, NEW cs
  PROVE  /\ Hears(puts, cs) \in Seq(MaybePut) /\ Len(Hears(puts, cs)) = Len(puts)
         /\ DOMAIN Hears(puts, cs) = DOMAIN puts
  <1> DEFINE ps == Hears(puts, cs)
  <1>1. DOMAIN ps = DOMAIN puts /\ ps = [i \in DOMAIN puts |-> ps[i]]
    BY DEF Hears
  <1>2. \A i \in DOMAIN puts : ps[i] \in MaybePut
    <2> TAKE i \in DOMAIN puts
    <2>1. CASE puts[i] = None
      BY <2>1 DEF Hears, MaybePut
    <2>2. CASE puts[i] # None
      <3>1. puts[i] \in Put  BY <2>2, PutAt DEF InFlight
      <3>2. ps[i] \in {puts[i], [puts[i] EXCEPT !.live = FALSE]}
        BY <2>2 DEF Hears
      <3>3. [puts[i] EXCEPT !.live = FALSE] \in Put
        BY <3>1 DEF Put
      <3> QED BY <3>1, <3>2, <3>3 DEF MaybePut
    <2> QED BY <2>1, <2>2
  <1> HIDE DEF ps
  <1> QED BY <1>1, <1>2, RewritePuts DEF ps

\* The list after another save was sent.
Joined(c) == [i \in DOMAIN puts |->
                IF puts[i] = None THEN None
                ELSE [puts[i] EXCEPT !.alone = FALSE, !.only = @ /\ puts[i].section # c]]
LEMMA JoinedType ==
  ASSUME TypeOK, NEW c
  PROVE  /\ Joined(c) \in Seq(MaybePut) /\ Len(Joined(c)) = Len(puts)
         /\ DOMAIN Joined(c) = DOMAIN puts
  <1> DEFINE ps == Joined(c)
  <1>1. DOMAIN ps = DOMAIN puts /\ ps = [i \in DOMAIN puts |-> ps[i]]
    BY DEF Joined
  <1>2. \A i \in DOMAIN puts : ps[i] \in MaybePut
    <2> TAKE i \in DOMAIN puts
    <2>1. CASE puts[i] = None
      BY <2>1 DEF Joined, MaybePut
    <2>2. CASE puts[i] # None
      <3>1. puts[i] \in Put  BY <2>2, PutAt DEF InFlight
      <3>2. ps[i] = [puts[i] EXCEPT !.alone = FALSE, !.only = @ /\ puts[i].section # c]
        BY <2>2 DEF Joined
      <3>3. (puts[i].only /\ puts[i].section # c) \in BOOLEAN
        BY <3>1
      <3>4. ps[i] \in Put
        BY <3>1, <3>2, <3>3 DEF Put
      <3> QED BY <3>4 DEF MaybePut
    <2> QED BY <2>1, <2>2
  <1> HIDE DEF ps
  <1> QED BY <1>1, <1>2, RewritePuts DEF ps

\* The list after a refetch was sent.
Overlapped == [i \in DOMAIN puts |->
                 IF puts[i] = None THEN None ELSE [puts[i] EXCEPT !.alone = FALSE]]
LEMMA OverlappedType ==
  ASSUME TypeOK
  PROVE  /\ Overlapped \in Seq(MaybePut) /\ Len(Overlapped) = Len(puts)
         /\ DOMAIN Overlapped = DOMAIN puts
  <1> DEFINE ps == Overlapped
  <1>1. DOMAIN ps = DOMAIN puts /\ ps = [i \in DOMAIN puts |-> ps[i]]
    BY DEF Overlapped
  <1>2. \A i \in DOMAIN puts : ps[i] \in MaybePut
    <2> TAKE i \in DOMAIN puts
    <2>1. CASE puts[i] = None
      BY <2>1 DEF Overlapped, MaybePut
    <2>2. CASE puts[i] # None
      <3>1. puts[i] \in Put  BY <2>2, PutAt DEF InFlight
      <3>2. ps[i] = [puts[i] EXCEPT !.alone = FALSE]
        BY <2>2 DEF Overlapped
      <3>4. ps[i] \in Put
        BY <3>1, <3>2 DEF Put
      <3> QED BY <3>4 DEF MaybePut
    <2> QED BY <2>1, <2>2
  <1> HIDE DEF ps
  <1> QED BY <1>1, <1>2, RewritePuts DEF ps

\* The cards after any render.
LEMMA CardsType ==
  ASSUME TypeOK, NEW o, NEW st, NEW s, NEW rec \in Records
  PROVE  Cards(o, st, s, rec) \in [Sections -> CardState \cup {None}]
  <1>1. \A c \in Sections : Fresh(rec[c].value) \in CardState
    BY ValuesAreClean DEF Records, Stored, Fresh, CardState
  <1> QED BY <1>1 DEF TypeOK, Cards, Mounted

\* A card patched in one place.
LEMMA CardAt ==
  ASSUME TypeOK, NEW c \in Sections, Mounted(c)
  PROVE  /\ card[c] \in CardState
         /\ \A k \in CardState : [card EXCEPT ![c] = k] \in [Sections -> CardState \cup {None}]
  BY DEF TypeOK, Mounted

LEMMA CardPatches ==
  ASSUME NEW k \in CardState
  PROVE  /\ [k EXCEPT !.editing = TRUE] \in CardState
         /\ [k EXCEPT !.submitting = TRUE] \in CardState
         /\ [k EXCEPT !.submitting = FALSE] \in CardState
         /\ \A t \in Texts : [k EXCEPT !.form = t] \in CardState
         /\ \A v \in Values : /\ ResetTo(k, v) \in CardState
                              /\ [ResetTo(k, v) EXCEPT !.editing = FALSE] \in CardState
                              /\ [k EXCEPT !.props = v] \in CardState
                              /\ Follow(k, v) \in CardState
         /\ Saved(k) \in CardState
  <1>1. \A v \in Values : ResetTo(k, v) \in CardState /\ [k EXCEPT !.props = v] \in CardState
    BY ValuesAreClean DEF CardState, ResetTo
  <1>2. \A v \in Values : Follow(k, v) \in CardState
    <2> TAKE v \in Values
    <2>1. [k EXCEPT !.props = v] \in CardState  BY <1>1
    <2>2. ResetTo([k EXCEPT !.props = v], v) \in CardState
      BY <2>1, ValuesAreClean DEF CardState, ResetTo
    <2> QED BY <2>1, <2>2 DEF Follow
  <1>3. \A v \in Values : [ResetTo(k, v) EXCEPT !.editing = FALSE] \in CardState
    BY <1>1 DEF CardState
  <1>4. Saved(k) \in CardState
    <2>1. k.props \in Values  BY DEF CardState
    <2> QED BY <2>1, <1>1 DEF Saved, CardState
  <1>5. /\ [k EXCEPT !.editing = TRUE] \in CardState
        /\ [k EXCEPT !.submitting = TRUE] \in CardState
        /\ [k EXCEPT !.submitting = FALSE] \in CardState
        /\ \A t \in Texts : [k EXCEPT !.form = t] \in CardState
    BY DEF CardState
  <1> QED BY <1>1, <1>2, <1>3, <1>4, <1>5

\* Each form's own gestures, and the render of what is cached.
LEMMA GestureType ==
  ASSUME TypeOK, NEW c \in Sections, Gesture(c)
  PROVE  TypeOK'
  <1>1. CASE startEditing(c)
    <2>1. card' = [card EXCEPT ![c] = [card[c] EXCEPT !.editing = TRUE]] /\ Mounted(c)
      BY <1>1 DEF startEditing
    <2>2. card' \in [Sections -> CardState \cup {None}]
      BY <2>1, CardAt, CardPatches
    <2> QED BY <1>1, <2>2 DEF startEditing, TypeOK
  <1>2. CASE handleCancel(c)
    <2>1. /\ card' = [card EXCEPT ![c] =
                        [ResetTo(card[c], card[c].props) EXCEPT !.editing = FALSE]]
          /\ Mounted(c)
      BY <1>2 DEF handleCancel
    <2>2. card[c].props \in Values
      BY <2>1, CardAt DEF CardState
    <2>3. card' \in [Sections -> CardState \cup {None}]
      BY <2>1, <2>2, CardAt, CardPatches
    <2> QED BY <1>2, <2>3 DEF handleCancel, TypeOK
  <1>3. CASE handleReset(c)
    <2>1. card' = [card EXCEPT ![c] = ResetTo(card[c], card[c].props)] /\ Mounted(c)
      BY <1>3 DEF handleReset
    <2>2. card[c].props \in Values
      BY <2>1, CardAt DEF CardState
    <2>3. card' \in [Sections -> CardState \cup {None}]
      BY <2>1, <2>2, CardAt, CardPatches
    <2> QED BY <1>3, <2>3 DEF handleReset, TypeOK
  <1>4. ASSUME NEW t \in Texts, Type(c, t) PROVE TypeOK'
    <2>1. card' = [card EXCEPT ![c] = [card[c] EXCEPT !.form = t]] /\ Mounted(c)
      BY <1>4 DEF Type
    <2>2. card' \in [Sections -> CardState \cup {None}]
      BY <2>1, CardAt, CardPatches
    <2> QED BY <1>4, <2>2 DEF Type, TypeOK
  <1>5. CASE onSubmit(c)
    <2> DEFINE p == [section |-> c, value |-> Payload(card[c]), answer |-> None,
                     live |-> TRUE, alone |-> InFlight = {} /\ get = None,
                     only |-> Of(c) = {}]
    <2>1. /\ Mounted(c) /\ Payload(card[c]) # Invalid /\ Len(puts) < MaxSaves
          /\ card' = [card EXCEPT ![c] = [card[c] EXCEPT !.submitting = TRUE]]
          /\ puts' = Append(Joined(c), p)
          /\ get' = IF get = None THEN None ELSE [get EXCEPT !.alone = FALSE]
          /\ UNCHANGED <<page, section, open, status, server, cache, fetches, acked, current>>
      BY <1>5 DEF onSubmit, Joined
    <2>2. card' \in [Sections -> CardState \cup {None}]
      BY <2>1, CardAt, CardPatches
    <2>3. Payload(card[c]) \in Values
      <3>1. card[c].form \in Texts  BY <2>1, CardAt DEF CardState
      <3> QED BY <3>1, <2>1, CleanType DEF Payload
    <2>4. p \in Put
      <3>1. (InFlight = {} /\ get = None) \in BOOLEAN /\ (Of(c) = {}) \in BOOLEAN
        OBVIOUS
      <3> QED BY <3>1, <2>3 DEF Put
    <2> HIDE DEF p
    <2>5. puts' \in Seq(MaybePut) /\ Len(puts') = Len(puts) + 1
      BY <2>1, <2>4, JoinedType DEF MaybePut
    <2>6. get' \in Get \cup {None}
      BY <2>1 DEF TypeOK, Get
    <2>7. Len(puts') <= MaxSaves
      <3>1. Len(puts) \in Nat  BY DEF TypeOK
      <3> QED BY <2>1, <2>5, <3>1, BoundsNat
    <2> QED BY <2>1, <2>2, <2>5, <2>6, <2>7 DEF TypeOK, MaybePut
  <1> QED BY <1>1, <1>2, <1>3, <1>4, <1>5 DEF Gesture

LEMMA CommitType ==
  ASSUME TypeOK, Commit
  PROVE  TypeOK'
  <1>1. \A c \in Sections : Mounted(c) => Follow(card[c], cache[c].value) \in CardState
    <2> TAKE c \in Sections
    <2> HAVE Mounted(c)
    <2>1. cache[c].value \in Values  BY DEF TypeOK, Records, Stored
    <2> QED BY <2>1, CardAt, CardPatches
  <1>2. card' \in [Sections -> CardState \cup {None}]
    BY <1>1 DEF Commit
  <1> QED BY <1>2 DEF Commit, TypeOK

\* The steps of a save after it was sent.
LEMMA SaveType ==
  ASSUME FormsInv, NEW i \in 1 .. MaxSaves, Apply(i) \/ Answered(i) \/ Failed(i)
  PROVE  TypeOK'
  <1>0. i \in InFlight /\ TypeOK
    BY DEF Apply, Answered, Failed, FormsInv
  <1>p. i \in DOMAIN puts /\ puts[i] \in Put /\ puts[i] # None
    BY <1>0, PutAt
  <1>s. /\ puts[i].section \in Sections /\ puts[i].value \in Values
        /\ puts[i].answer \in Records \cup {None} /\ puts[i].live \in BOOLEAN
        /\ puts[i].alone \in BOOLEAN /\ puts[i].only \in BOOLEAN
    BY <1>p DEF Put
  <1>n. /\ [puts EXCEPT ![i] = None] \in Seq(MaybePut)
        /\ Len([puts EXCEPT ![i] = None]) = Len(puts)
    BY <1>0, <1>p, ReplacePut DEF MaybePut
  <1>1. CASE Apply(i)
    <2> DEFINE c == puts[i].section
               ok == server[c].carried /\ Carried(c) \subseteq CardOf[c].keeps
    <2>1. server' \in Records
      <3>1. ok \in BOOLEAN
        OBVIOUS
      <3>2. server' = [server EXCEPT ![c] = [value |-> puts[i].value, carried |-> ok]]
        BY <1>1 DEF Apply, updateSettingsSection
      <3> HIDE DEF ok
      <3>3. [value |-> puts[i].value, carried |-> ok] \in Stored
        BY <3>1, <1>s DEF Stored
      <3> QED BY <3>2, <3>3, <1>0, <1>s DEF TypeOK, Records
    <2>2. [puts[i] EXCEPT !.answer = server'] \in MaybePut
      BY <1>p, <2>1 DEF Put, MaybePut
    <2>3. puts' = [puts EXCEPT ![i] = [puts[i] EXCEPT !.answer = server']]
      BY <1>1 DEF Apply
    <2>4. puts' \in Seq(MaybePut) /\ Len(puts') = Len(puts)
      BY <1>0, <1>p, <2>2, <2>3, ReplacePut
    <2> QED BY <1>0, <1>1, <2>1, <2>4 DEF Apply, TypeOK, MaybePut
  <1>2. CASE Answered(i)
    <2> DEFINE cs == Cards(open, "success", section, puts[i].answer)
    <2>1. puts[i].answer \in Records
      BY <1>2, <1>s DEF Answered
    <2>2. cs \in [Sections -> CardState \cup {None}]
      BY <1>0, <2>1, CardsType
    <2>3. /\ cache' = puts[i].answer /\ status' = "success"
          /\ card' = IF puts[i].live
                     THEN [cs EXCEPT ![puts[i].section] = Saved(cs[puts[i].section])] ELSE cs
          /\ acked' = [acked EXCEPT ![puts[i].section] =
                         IF puts[i].only THEN puts[i].value ELSE None]
          /\ current' = puts[i].alone
          /\ puts' = [puts EXCEPT ![i] = None]
          /\ UNCHANGED <<page, section, open, server, get, fetches>>
      BY <1>2 DEF Answered, onSuccess
    <2>4. acked' \in [Sections -> Values \cup {None}]
      BY <1>0, <2>3, <1>s DEF TypeOK
    <2>5. card' \in [Sections -> CardState \cup {None}]
      <3>1. CASE ~puts[i].live
        BY <3>1, <2>2, <2>3
      <3>2. CASE puts[i].live
        <4>1. Mounted(puts[i].section) /\ Shown(puts[i].section, open, status, section)
          BY <1>0, <1>s, <3>2 DEF FormsInv, Live, Renders
        <4>2. cs[puts[i].section] = card[puts[i].section]
          BY <4>1, <1>s DEF Cards, Shown
        <4>3. Saved(card[puts[i].section]) \in CardState
          BY <1>0, <1>s, <4>1, CardAt, CardPatches
        <4> HIDE DEF cs
        <4> QED BY <2>2, <2>3, <3>2, <4>2, <4>3
      <3> QED BY <3>1, <3>2
    <2> HIDE DEF cs
    <2> QED BY <1>0, <2>1, <2>3, <2>4, <2>5, <1>n, <1>s DEF TypeOK, MaybePut
  <1>3. CASE Failed(i)
    <2>1. /\ card' = IF puts[i].live
                     THEN [card EXCEPT ![puts[i].section] =
                             [card[puts[i].section] EXCEPT !.submitting = FALSE]] ELSE card
          /\ acked' = IF puts[i].answer = None /\ puts[i].only THEN acked
                      ELSE [acked EXCEPT ![puts[i].section] = None]
          /\ current' = (current /\ puts[i].answer = None)
          /\ puts' = [puts EXCEPT ![i] = None]
          /\ UNCHANGED <<page, section, open, status, server, cache, get, fetches>>
      BY <1>3 DEF Failed
    <2>2. card' \in [Sections -> CardState \cup {None}]
      <3>1. CASE ~puts[i].live
        BY <1>0, <2>1, <3>1 DEF TypeOK
      <3>2. CASE puts[i].live
        <4>1. Mounted(puts[i].section)
          BY <1>0, <3>2 DEF FormsInv, Live
        <4> QED BY <1>0, <1>s, <2>1, <3>2, <4>1, CardAt, CardPatches
      <3> QED BY <3>1, <3>2
    <2>3. acked' \in [Sections -> Values \cup {None}]
      BY <1>0, <2>1, <1>s DEF TypeOK
    <2>4. current' \in BOOLEAN
      BY <2>1
    <2> QED BY <1>0, <2>1, <2>2, <2>3, <2>4, <1>n DEF TypeOK, MaybePut
  <1> QED BY <1>1, <1>2, <1>3

\* The query, and the steps that show or hide cards.
LEMMA PageType ==
  ASSUME TypeOK,
         \/ refetch \/ getSettings \/ Fetched \/ FetchFailed \/ Leave
         \/ \E s \in Sections : handleSelectSection(s) \/ Open(s)
  PROVE  TypeOK'
  <1>c. cache \in Records /\ server \in Records /\ get \in Get \cup {None}
    BY DEF TypeOK
  <1>1. CASE refetch
    <2>1. /\ puts' = Overlapped /\ fetches < MaxFetches /\ fetches' = fetches + 1
          /\ get' = [answer |-> None, alone |-> InFlight = {}]
          /\ UNCHANGED <<page, section, open, status, server, cache, card, acked, current>>
      BY <1>1 DEF refetch, Overlapped
    <2>2. get' \in Get
      BY <2>1 DEF Get
    <2>3. fetches' \in 0 .. MaxFetches
      BY <2>1, BoundsNat DEF TypeOK
    <2>4. puts' \in Seq(MaybePut) /\ Len(puts') = Len(puts)
      BY <2>1, OverlappedType
    <2> QED BY <2>1, <2>2, <2>3, <2>4 DEF TypeOK, MaybePut
  <1>2. CASE getSettings
    <2>1. get' \in Get
      BY <1>2, <1>c DEF getSettings, Get
    <2> QED BY <1>2, <2>1 DEF getSettings, TypeOK
  <1>3. CASE Fetched
    <2>1. get.answer \in Records /\ get.alone \in BOOLEAN
      BY <1>3, <1>c DEF Fetched, Get
    <2>2. card' \in [Sections -> CardState \cup {None}]
      BY <1>3, <2>1, CardsType DEF Fetched
    <2> QED BY <1>3, <2>1, <2>2 DEF Fetched, TypeOK
  <1>4. CASE FetchFailed
    <2>1. card' \in [Sections -> CardState \cup {None}]
      BY <1>4, <1>c, CardsType DEF FetchFailed
    <2>2. puts' \in Seq(MaybePut) /\ Len(puts') = Len(puts)
      BY <1>4, HearsType DEF FetchFailed
    <2> QED BY <1>4, <2>1, <2>2 DEF FetchFailed, TypeOK, MaybePut
  <1>5. ASSUME NEW o \in BOOLEAN, NEW s \in Pages[page], Show(o, s), get' \in {get, None}
        PROVE  TypeOK'
    <2>1. card' \in [Sections -> CardState \cup {None}]
      BY <1>5, <1>c, CardsType DEF Show
    <2>2. puts' \in Seq(MaybePut) /\ Len(puts') = Len(puts)
      BY <1>5, HearsType DEF Show
    <2> QED BY <1>5, <2>1, <2>2 DEF Show, TypeOK, MaybePut
  <1>6. CASE Leave
    BY <1>5, <1>6 DEF Leave, TypeOK
  <1>7. ASSUME NEW s \in Sections, handleSelectSection(s) \/ Open(s) PROVE TypeOK'
    <2>1. s \in Pages[page] /\ Show(TRUE, s) /\ get' = get
      BY <1>7 DEF handleSelectSection, Open
    <2> QED BY <1>5, <2>1
  <1> QED BY <1>1, <1>2, <1>3, <1>4, <1>6, <1>7

LEMMA TypeStep == FormsInv /\ [Next]_vars => TypeOK'
  <1> SUFFICES ASSUME FormsInv, [Next]_vars PROVE TypeOK'
    OBVIOUS
  <1>1. TypeOK
    BY DEF FormsInv
  <1>2. CASE UNCHANGED vars
    BY <1>1, <1>2 DEF vars, TypeOK
  <1>3. CASE Next
    BY <1>1, <1>3, GestureType, CommitType, SaveType, PageType DEF Next
  <1> QED BY <1>2, <1>3

-----------------------------------------------------------------------------
(* The saves in flight, as each rewriting of the list leaves them.          *)

LEMMA NotNone ==
  /\ \A k \in CardState : k # None
  /\ \A p \in Put : p # None
  /\ \A g \in Get : g # None
  /\ \A r \in Records : r # None
  /\ \A v \in Values : v # None
  BY NoneIsNone

Same(p, q) == /\ p.section = q.section /\ p.value = q.value
              /\ p.answer = q.answer

LEMMA Rewritten ==
  ASSUME TypeOK, NEW i \in InFlight, NEW c, NEW cs
  PROVE  /\ Joined(c)[i] # None /\ Same(Joined(c)[i], puts[i])
         /\ (Joined(c)[i].live <=> puts[i].live) /\ ~Joined(c)[i].alone
         /\ Joined(c)[i].only <=> puts[i].only /\ puts[i].section # c
         /\ Overlapped[i] # None /\ Same(Overlapped[i], puts[i])
         /\ (Overlapped[i].live <=> puts[i].live) /\ ~Overlapped[i].alone
         /\ Overlapped[i].only <=> puts[i].only
         /\ Hears(puts, cs)[i] # None /\ Same(Hears(puts, cs)[i], puts[i])
         /\ Hears(puts, cs)[i].alone <=> puts[i].alone
         /\ Hears(puts, cs)[i].only <=> puts[i].only
         /\ Hears(puts, cs)[i].live <=> puts[i].live /\ cs[puts[i].section] # None
  <1>1. i \in DOMAIN puts /\ puts[i] \in Put /\ puts[i] # None
    BY PutAt
  <1>2. /\ Joined(c)[i] = [puts[i] EXCEPT !.alone = FALSE, !.only = @ /\ puts[i].section # c]
        /\ Overlapped[i] = [puts[i] EXCEPT !.alone = FALSE]
        /\ Hears(puts, cs)[i] = IF cs[puts[i].section] = None
                                THEN [puts[i] EXCEPT !.live = FALSE] ELSE puts[i]
    BY <1>1 DEF Joined, Overlapped, Hears
  <1>3. /\ Joined(c)[i] # None /\ Same(Joined(c)[i], puts[i])
        /\ (Joined(c)[i].live <=> puts[i].live) /\ ~Joined(c)[i].alone
        /\ Joined(c)[i].only <=> puts[i].only /\ puts[i].section # c
    <2> DEFINE b == puts[i].only /\ puts[i].section # c
    <2>1. b \in BOOLEAN  OBVIOUS
    <2>2. Joined(c)[i] = [puts[i] EXCEPT !.alone = FALSE, !.only = b]
      BY <1>2
    <2> HIDE DEF b
    <2>3. Joined(c)[i] \in Put
      BY <1>1, <2>1, <2>2 DEF Put
    <2>4. Joined(c)[i].only = b
      BY <1>1, <2>2 DEF Put
    <2> QED BY <1>1, <2>2, <2>3, <2>4, NotNone DEF Put, Same, b
  <1>4. /\ Overlapped[i] # None /\ Same(Overlapped[i], puts[i])
        /\ (Overlapped[i].live <=> puts[i].live) /\ ~Overlapped[i].alone
        /\ Overlapped[i].only <=> puts[i].only
    <2>1. Overlapped[i] \in Put
      BY <1>1, <1>2 DEF Put
    <2> QED BY <1>1, <1>2, <2>1, NotNone DEF Put, Same
  <1>5. /\ Hears(puts, cs)[i] # None /\ Same(Hears(puts, cs)[i], puts[i])
        /\ Hears(puts, cs)[i].alone <=> puts[i].alone
        /\ Hears(puts, cs)[i].only <=> puts[i].only
        /\ Hears(puts, cs)[i].live <=> puts[i].live /\ cs[puts[i].section] # None
    <2>1. CASE cs[puts[i].section] = None
      <3>1. Hears(puts, cs)[i] = [puts[i] EXCEPT !.live = FALSE]
        BY <1>2, <2>1
      <3>2. Hears(puts, cs)[i] \in Put
        BY <1>1, <3>1 DEF Put
      <3> QED BY <1>1, <2>1, <3>1, <3>2, NotNone DEF Put, Same
    <2>2. CASE cs[puts[i].section] # None
      <3>1. Hears(puts, cs)[i] = puts[i]
        BY <1>2, <2>2
      <3> QED BY <1>1, <2>2, <3>1 DEF Same
    <2> QED BY <2>1, <2>2
  <1> QED BY <1>3, <1>4, <1>5

\* The rewritings keep what is in flight.
LEMMA RewrittenFlight ==
  ASSUME TypeOK, NEW c, NEW cs, NEW i
  PROVE  /\ i \in DOMAIN puts /\ Joined(c)[i] # None => i \in InFlight
         /\ i \in DOMAIN puts /\ Overlapped[i] # None => i \in InFlight
         /\ i \in DOMAIN puts /\ Hears(puts, cs)[i] # None => i \in InFlight
  BY DEF Joined, Overlapped, Hears, InFlight

\* What a render leaves of the cards.
LEMMA CardsShown ==
  ASSUME TypeOK, NEW o, NEW st, NEW s, NEW rec \in Records, NEW c \in Sections
  PROVE  /\ Cards(o, st, s, rec)[c] # None <=> Shown(c, o, st, s)
         /\ \/ Cards(o, st, s, rec)[c] = None
            \/ Mounted(c) /\ Cards(o, st, s, rec)[c] = card[c]
            \/ ~Mounted(c) /\ Cards(o, st, s, rec)[c] = Fresh(rec[c].value)
  <1>1. Fresh(rec[c].value) # None
    BY NotNone, ValuesAreClean DEF Records, Stored, Fresh, CardState
  <1> QED BY <1>1 DEF Cards, Mounted

\* A step of one card leaves the same cards mounted.
LEMMA SameMounted ==
  ASSUME TypeOK, NEW c \in Sections, Mounted(c), NEW k \in CardState,
         card' = [card EXCEPT ![c] = k]
  PROVE  \A d \in Sections : Mounted(d)' <=> Mounted(d)
  BY NotNone DEF TypeOK, Mounted

LEMMA GestureMounted ==
  ASSUME TypeOK, NEW c \in Sections, Gesture(c)
  PROVE  /\ \A d \in Sections : Mounted(d)' <=> Mounted(d)
         /\ UNCHANGED <<page, section, open, status, server, cache, fetches, acked, current>>
         /\ UNCHANGED puts \/ onSubmit(c)
  <1>1. CASE startEditing(c)
    BY <1>1, SameMounted, CardAt, CardPatches DEF startEditing
  <1>2. CASE handleCancel(c)
    <2>1. Mounted(c) /\ card[c].props \in Values
      BY <1>2, CardAt DEF handleCancel, CardState
    <2> QED BY <1>2, <2>1, SameMounted, CardAt, CardPatches DEF handleCancel
  <1>3. CASE handleReset(c)
    <2>1. Mounted(c) /\ card[c].props \in Values
      BY <1>3, CardAt DEF handleReset, CardState
    <2> QED BY <1>3, <2>1, SameMounted, CardAt, CardPatches DEF handleReset
  <1>4. ASSUME NEW t \in Texts, Type(c, t)
        PROVE  /\ \A d \in Sections : Mounted(d)' <=> Mounted(d)
               /\ UNCHANGED <<page, section, open, status, server, cache, fetches, acked,
                              current>>
               /\ UNCHANGED puts
    BY <1>4, SameMounted, CardAt, CardPatches DEF Type
  <1>5. CASE onSubmit(c)
    BY <1>5, SameMounted, CardAt, CardPatches DEF onSubmit
  <1> QED BY <1>1, <1>2, <1>3, <1>4, <1>5 DEF Gesture

LEMMA RendersStep == FormsInv /\ [Next]_vars => Renders'
  <1> SUFFICES ASSUME FormsInv, [Next]_vars PROVE Renders'
    OBVIOUS
  <1>t. TypeOK /\ Renders /\ Live /\ cache \in Records
    BY DEF FormsInv, TypeOK
  <1>1. CASE UNCHANGED vars
    BY <1>t, <1>1 DEF vars, Renders, Mounted, Shown
  <1>2. ASSUME NEW c \in Sections, Gesture(c) PROVE Renders'
    BY <1>t, <1>2, GestureMounted DEF Renders, Shown
  <1>3. CASE Commit
    <2>1. \A c \in Sections : Mounted(c) => Follow(card[c], cache[c].value) # None
      <3> TAKE c \in Sections
      <3> HAVE Mounted(c)
      <3>1. cache[c].value \in Values  BY <1>t DEF Records, Stored
      <3> QED BY <1>t, <3>1, CardAt, CardPatches, NotNone
    <2> QED BY <1>t, <1>3, <2>1 DEF Commit, Renders, Mounted, Shown
  <1>4. ASSUME NEW i \in 1 .. MaxSaves, Apply(i) PROVE Renders'
    BY <1>t, <1>4 DEF Apply, Renders, Mounted, Shown
  <1>5. ASSUME NEW i \in 1 .. MaxSaves, Answered(i) PROVE Renders'
    <2> DEFINE c == puts[i].section
               cs == Cards(open, "success", section, puts[i].answer)
    <2>1. i \in InFlight /\ puts[i] \in Put /\ puts[i].answer # None
      BY <1>t, <1>5, PutAt DEF Answered
    <2>2. c \in Sections /\ puts[i].answer \in Records
      BY <2>1 DEF Put
    <2>3. \A d \in Sections : cs[d] # None <=> Shown(d, open, "success", section)
      BY <1>t, <2>2, CardsShown
    <2>4. /\ status' = "success" /\ UNCHANGED <<page, section, open>>
          /\ card' = IF puts[i].live THEN [cs EXCEPT ![c] = Saved(cs[c])] ELSE cs
      BY <1>5 DEF Answered, onSuccess
    <2>5. puts[i].live => cs[c] = card[c] /\ Saved(card[c]) # None
      <3> HAVE puts[i].live
      <3>1. Mounted(c) /\ Shown(c, open, status, section)
        BY <1>t, <2>1, <2>2 DEF Live, Renders
      <3>2. cs[c] = card[c]
        BY <3>1, <2>2 DEF Cards, Shown
      <3> QED BY <1>t, <2>2, <3>1, <3>2, CardAt, CardPatches, NotNone
    <2>6. DOMAIN cs = Sections
      BY DEF Cards
    <2> HIDE DEF cs, c
    <2>7. \A d \in Sections : card'[d] # None <=> cs[d] # None
      <3>1. CASE puts[i].live
        <4>1. card' = [cs EXCEPT ![c] = Saved(card[c])]
          BY <3>1, <2>4, <2>5
        <4>2. \A d \in Sections : card'[d] = IF d = c THEN Saved(card[c]) ELSE cs[d]
          BY <4>1, <2>6
        <4>3. cs[c] # None
          BY <2>5, <3>1, <2>1, <1>t DEF Live, Mounted, c
        <4> QED BY <4>2, <4>3, <2>5, <3>1
      <3>2. CASE ~puts[i].live
        BY <3>2, <2>4
      <3> QED BY <3>1, <3>2
    <2>8. \A d \in Sections : Shown(d, open, status, section)' <=> Shown(d, open, "success", section)
      BY <2>4 DEF Shown
    <2> QED BY <2>3, <2>7, <2>8 DEF Renders, Mounted
  <1>6. ASSUME NEW i \in 1 .. MaxSaves, Failed(i) PROVE Renders'
    <2> DEFINE c == puts[i].section
    <2>1. i \in InFlight /\ puts[i] \in Put
      BY <1>t, <1>6, PutAt DEF Failed
    <2>2. c \in Sections
      BY <2>1 DEF Put
    <2>3. /\ UNCHANGED <<page, section, open, status>>
          /\ card' = IF puts[i].live THEN [card EXCEPT ![c] = [card[c] EXCEPT !.submitting = FALSE]]
                     ELSE card
      BY <1>6 DEF Failed
    <2>4. \A d \in Sections : Mounted(d)' <=> Mounted(d)
      <3>1. CASE puts[i].live
        <4>1. Mounted(c)  BY <1>t, <2>1, <3>1 DEF Live
        <4> QED BY <1>t, <2>2, <2>3, <3>1, <4>1, SameMounted, CardAt, CardPatches
      <3>2. CASE ~puts[i].live
        BY <2>3, <3>2 DEF Mounted
      <3> QED BY <3>1, <3>2
    <2> QED BY <1>t, <2>3, <2>4 DEF Renders, Shown
  <1>7. CASE refetch
    BY <1>t, <1>7 DEF refetch, Renders, Mounted, Shown
  <1>8. CASE getSettings
    BY <1>t, <1>8 DEF getSettings, Renders, Mounted, Shown
  <1>9. CASE Fetched
    <2>1. get.answer \in Records
      BY <1>t, <1>9 DEF Fetched, TypeOK, Get
    <2>2. /\ card' = Cards(open, "success", section, get.answer) /\ status' = "success"
          /\ UNCHANGED <<page, section, open>>
      BY <1>9 DEF Fetched
    <2>3. \A d \in Sections : card'[d] # None <=> Shown(d, open, "success", section)
      BY <1>t, <2>1, <2>2, CardsShown
    <2> QED BY <2>2, <2>3 DEF Renders, Mounted, Shown
  <1>10. CASE FetchFailed
    <2>2. /\ card' = Cards(open, "error", section, cache) /\ status' = "error"
          /\ UNCHANGED <<page, section, open>>
      BY <1>10 DEF FetchFailed
    <2>3. \A d \in Sections : card'[d] # None <=> Shown(d, open, "error", section)
      BY <1>t, <2>2, CardsShown
    <2> QED BY <2>2, <2>3 DEF Renders, Mounted, Shown
  <1>11. ASSUME NEW o, NEW s, Show(o, s) PROVE Renders'
    <2>2. /\ card' = Cards(o, status, s, cache) /\ open' = o /\ section' = s
          /\ UNCHANGED <<page, status>>
      BY <1>11 DEF Show
    <2>3. \A d \in Sections : card'[d] # None <=> Shown(d, o, status, s)
      BY <1>t, <2>2, CardsShown
    <2> QED BY <2>2, <2>3 DEF Renders, Mounted, Shown
  <1>12. CASE Leave
    BY <1>11, <1>12 DEF Leave
  <1>13. ASSUME NEW s \in Sections, handleSelectSection(s) \/ Open(s) PROVE Renders'
    BY <1>11, <1>13 DEF handleSelectSection, Open
  <1> QED BY <1>1, <1>2, <1>3, <1>4, <1>5, <1>6, <1>7, <1>8, <1>9, <1>10, <1>12, <1>13 DEF Next

\* A new save: the list, and what it says of the ones before.
LEMMA Submitted ==
  ASSUME TypeOK, NEW c \in Sections, onSubmit(c)
  PROVE  LET n == Len(puts) + 1 IN
         /\ DOMAIN puts' = DOMAIN puts \cup {n} /\ n \notin DOMAIN puts
         /\ \A j \in DOMAIN puts : puts'[j] = Joined(c)[j]
         /\ puts'[n].section = c /\ puts'[n].value = Payload(card[c])
         /\ puts'[n].answer = None /\ puts'[n].live
         /\ puts'[n].alone <=> InFlight = {} /\ get = None
         /\ puts'[n].only <=> Of(c) = {}
         /\ InFlight' = InFlight \cup {n} /\ n \notin InFlight
         /\ Mounted(c) /\ Payload(card[c]) \in Values
  <1> DEFINE p == [section |-> c, value |-> Payload(card[c]), answer |-> None,
                   live |-> TRUE, alone |-> InFlight = {} /\ get = None,
                   only |-> Of(c) = {}]
             n == Len(puts) + 1
  <1>1. puts' = Append(Joined(c), p) /\ Mounted(c) /\ Payload(card[c]) # Invalid
    BY DEF onSubmit, Joined
  <1>2. Joined(c) \in Seq(MaybePut) /\ Len(Joined(c)) = Len(puts)
        /\ DOMAIN Joined(c) = DOMAIN puts
    BY JoinedType
  <1>3. p # None
    <2>1. card[c].form \in Texts  BY <1>1, CardAt DEF CardState
    <2>2. Payload(card[c]) \in Values  BY <2>1, <1>1, CleanType DEF Payload
    <2>3. (InFlight = {} /\ get = None) \in BOOLEAN /\ (Of(c) = {}) \in BOOLEAN
      OBVIOUS
    <2>4. p \in Put  BY <2>2, <2>3 DEF Put
    <2> HIDE DEF p
    <2> QED BY <2>4, NotNone
  <1>v. Payload(card[c]) \in Values
    <2>1. card[c].form \in Texts  BY <1>1, CardAt DEF CardState
    <2> QED BY <2>1, <1>1, CleanType DEF Payload
  <1> HIDE DEF p
  <1>d. DOMAIN puts = 1 .. Len(puts) /\ Len(puts) \in Nat
    BY DEF TypeOK
  <1>4. /\ DOMAIN puts' = DOMAIN puts \cup {n} /\ n \notin DOMAIN puts
        /\ \A j \in DOMAIN puts : puts'[j] = Joined(c)[j]
        /\ puts'[n] = p
    <2>1. Len(Append(Joined(c), p)) = n /\ DOMAIN Append(Joined(c), p) = 1 .. n
      BY <1>2, <1>d
    <2> QED BY <1>1, <1>2, <1>d, <2>1
  <1>5. \A j \in DOMAIN puts : puts'[j] # None <=> puts[j] # None
    <2> TAKE j \in DOMAIN puts
    <2>1. puts[j] # None => Joined(c)[j] # None
      BY Rewritten DEF InFlight
    <2>2. puts[j] = None => Joined(c)[j] = None
      BY DEF Joined
    <2> QED BY <1>4, <2>1, <2>2
  <1>6. InFlight' = InFlight \cup {n} /\ n \notin InFlight
    <2> HIDE DEF n
    <2> QED BY <1>3, <1>4, <1>5 DEF InFlight
  <1>7. /\ p.section = c /\ p.value = Payload(card[c]) /\ p.answer = None /\ p.live
        /\ p.alone <=> InFlight = {} /\ get = None
        /\ p.only <=> Of(c) = {}
    BY Zenon DEF p
  <1> QED BY <1>1, <1>v, <1>4, <1>6, <1>7

\* An ended save, and one that was served.
LEMMA Ended ==
  ASSUME TypeOK, NEW i \in InFlight, puts' = [puts EXCEPT ![i] = None]
  PROVE  /\ InFlight' = InFlight \ {i}
         /\ \A j \in InFlight \ {i} : puts'[j] = puts[j]
  BY DEF TypeOK, InFlight

LEMMA Served ==
  ASSUME TypeOK, NEW i \in InFlight, server' \in Records, puts[i].answer = None,
         puts' = [puts EXCEPT ![i].answer = server']
  PROVE  /\ InFlight' = InFlight
         /\ \A j \in InFlight : /\ puts'[j].section = puts[j].section
                                /\ puts'[j].value = puts[j].value
                                /\ puts'[j].live = puts[j].live
                                /\ puts'[j].alone = puts[j].alone
                                /\ puts'[j].only = puts[j].only
         /\ puts'[i].answer = server'
         /\ \A j \in InFlight \ {i} : puts'[j] = puts[j]
  <1>1. i \in DOMAIN puts /\ puts[i] \in Put
    BY PutAt
  <1>2. [puts[i] EXCEPT !.answer = server'] \in Put
    BY <1>1 DEF Put
  <1>3. [puts[i] EXCEPT !.answer = server'] # None
    BY <1>2, NotNone
  <1>4. DOMAIN puts' = DOMAIN puts
        /\ \A j \in DOMAIN puts : puts'[j] = IF j = i THEN [puts[i] EXCEPT !.answer = server']
                                             ELSE puts[j]
    BY <1>1 DEF TypeOK
  <1>5. InFlight' = InFlight
    BY <1>1, <1>3, <1>4 DEF InFlight
  <1>6. \A j \in InFlight : j \in DOMAIN puts
    BY DEF InFlight
  <1>7. /\ puts'[i].section = puts[i].section /\ puts'[i].value = puts[i].value
        /\ puts'[i].live = puts[i].live /\ puts'[i].alone = puts[i].alone
        /\ puts'[i].only = puts[i].only /\ puts'[i].answer = server'
    BY <1>1, <1>4 DEF Put
  <1> QED BY <1>4, <1>5, <1>6, <1>7

LEMMA LiveStep == FormsInv /\ [Next]_vars => Live'
  <1> SUFFICES ASSUME FormsInv, [Next]_vars PROVE Live'
    OBVIOUS
  <1>t. TypeOK /\ Renders /\ Live /\ Renders'
    BY RendersStep DEF FormsInv
  <1>s. \A j \in InFlight : puts[j].section \in Sections
    BY <1>t, PutAt DEF Put
  <1>1. CASE UNCHANGED vars
    BY <1>t, <1>1 DEF vars, Live, InFlight, Mounted
  <1>2. ASSUME NEW c \in Sections, Gesture(c) PROVE Live'
    <2>1. \A d \in Sections : Mounted(d)' <=> Mounted(d)
      BY <1>t, <1>2, GestureMounted
    <2>2. CASE UNCHANGED puts
      BY <1>t, <1>s, <2>1, <2>2 DEF Live, InFlight
    <2>3. CASE onSubmit(c)
      <3>1. ASSUME NEW j \in InFlight', puts'[j].live PROVE card'[puts'[j].section] # None
        <4>1. CASE j = Len(puts) + 1
          <5>1. puts'[j].section = c /\ Mounted(c)
            BY <1>t, <2>3, <4>1, Submitted
          <5> QED BY <2>1, <5>1 DEF Mounted
        <4>2. CASE j # Len(puts) + 1
          <5>1. j \in InFlight /\ j \in DOMAIN puts
            BY <1>t, <2>3, <3>1, <4>2, Submitted DEF InFlight
          <5>2. puts'[j] = Joined(c)[j]
            BY <1>t, <2>3, <5>1, Submitted
          <5>3. puts'[j].section = puts[j].section /\ puts[j].live
            BY <1>t, <3>1, <5>1, <5>2, Rewritten DEF Same
          <5> QED BY <1>t, <1>s, <2>1, <5>1, <5>3 DEF Live, Mounted
        <4> QED BY <4>1, <4>2
      <3> QED BY <3>1 DEF Live, Mounted
    <2> QED BY <1>t, <1>2, <2>2, <2>3, GestureMounted
  <1>3. CASE Commit
    <2>1. \A d \in Sections : Mounted(d)' <=> Mounted(d)
      BY <1>t, <1>3 DEF Commit, Renders, Shown
    <2> QED BY <1>t, <1>s, <1>3, <2>1 DEF Commit, Live, InFlight
  <1>4. ASSUME NEW i \in 1 .. MaxSaves, Apply(i) PROVE Live'
    <2>1. i \in InFlight /\ puts[i].answer = None /\ UNCHANGED card
          /\ puts' = [puts EXCEPT ![i].answer = server']
      BY <1>4 DEF Apply
    <2>2. server' \in Records
      BY <1>4, SaveType DEF TypeOK
    <2>3. /\ InFlight' = InFlight
          /\ \A j \in InFlight : puts'[j].section = puts[j].section
                                 /\ puts'[j].live = puts[j].live
      BY <1>t, <2>1, <2>2, Served
    <2> QED BY <1>t, <2>1, <2>3 DEF Live, Mounted
  <1>5. ASSUME NEW i \in 1 .. MaxSaves, Answered(i) PROVE Live'
    <2>1. i \in InFlight /\ puts' = [puts EXCEPT ![i] = None]
          /\ status' = "success" /\ UNCHANGED <<page, section, open>>
      BY <1>5 DEF Answered, onSuccess
    <2>2. /\ InFlight' = InFlight \ {i}
          /\ \A j \in InFlight \ {i} : puts'[j] = puts[j]
      BY <1>t, <2>1, Ended
    <2>3. \A d \in Sections : Mounted(d) => Mounted(d)'
      BY <1>t, <2>1 DEF Renders, Shown
    <2> QED BY <1>t, <1>s, <2>2, <2>3 DEF Live
  <1>6. ASSUME NEW i \in 1 .. MaxSaves, Failed(i) PROVE Live'
    <2>1. i \in InFlight /\ puts' = [puts EXCEPT ![i] = None]
          /\ UNCHANGED <<page, section, open, status>>
      BY <1>6 DEF Failed
    <2>2. /\ InFlight' = InFlight \ {i}
          /\ \A j \in InFlight \ {i} : puts'[j] = puts[j]
      BY <1>t, <2>1, Ended
    <2>3. \A d \in Sections : Mounted(d) => Mounted(d)'
      BY <1>t, <2>1 DEF Renders, Shown
    <2> QED BY <1>t, <1>s, <2>2, <2>3 DEF Live
  <1>7. CASE refetch
    <2>1. puts' = Overlapped /\ UNCHANGED card
      BY <1>7 DEF refetch, Overlapped
    <2>2. ASSUME NEW j \in InFlight', puts'[j].live PROVE card'[puts'[j].section] # None
      <3>1. j \in InFlight
        BY <1>t, <2>1, <2>2, RewrittenFlight, OverlappedType DEF InFlight
      <3>2. puts'[j].section = puts[j].section /\ puts[j].live
        BY <1>t, <2>1, <2>2, <3>1, Rewritten DEF Same
      <3> QED BY <1>t, <2>1, <3>1, <3>2 DEF Live, Mounted
    <2> QED BY <2>2 DEF Live, Mounted
  <1>8. CASE getSettings
    BY <1>t, <1>8 DEF getSettings, Live, InFlight, Mounted
  <1>9. CASE Fetched
    <2>1. UNCHANGED <<puts, page, section, open>> /\ status' = "success"
      BY <1>9 DEF Fetched
    <2>3. \A d \in Sections : Mounted(d) => Mounted(d)'
      BY <1>t, <2>1 DEF Renders, Shown
    <2> QED BY <1>t, <1>s, <2>1, <2>3 DEF Live, InFlight
  <1>10. ASSUME puts' = Hears(puts, card') PROVE Live'
    <2>2. ASSUME NEW j \in InFlight', puts'[j].live PROVE card'[puts'[j].section] # None
      <3>1. j \in InFlight
        BY <1>t, <1>10, <2>2, RewrittenFlight, HearsType DEF InFlight
      <3>2. puts'[j].section = puts[j].section /\ card'[puts[j].section] # None
        BY <1>t, <1>10, <2>2, <3>1, Rewritten DEF Same
      <3> QED BY <3>2
    <2> QED BY <2>2 DEF Live, Mounted
  <1>11. CASE FetchFailed \/ Leave
    BY <1>10, <1>11 DEF FetchFailed, Leave, Show
  <1>12. ASSUME NEW s \in Sections, handleSelectSection(s) \/ Open(s) PROVE Live'
    BY <1>10, <1>12 DEF handleSelectSection, Open, Show
  <1> QED BY <1>1, <1>2, <1>3, <1>4, <1>5, <1>6, <1>7, <1>8, <1>9, <1>11, <1>12 DEF Next

LEMMA FormsInit == Init => FormsInv
  <1> SUFFICES ASSUME Init PROVE FormsInv
    OBVIOUS
  <1>1. server \in Records
    BY CleanType DEF Init, Records, Stored
  <1>2. Fresh(First) \in CardState
    BY CleanType, ValuesAreClean DEF Fresh, CardState
  <1>3. card \in [Sections -> CardState \cup {None}]
    BY <1>2 DEF Init
  <1>4. puts = <<>> /\ puts \in Seq(Put \cup {None}) /\ Len(puts) <= MaxSaves
    BY BoundsNat DEF Init
  <1>5. fetches \in 0 .. MaxFetches /\ acked \in [Sections -> Values \cup {None}]
    BY BoundsNat, CleanType DEF Init
  <1>6. TypeOK
    BY <1>1, <1>3, <1>4, <1>5 DEF TypeOK, Init
  <1>7. Renders
    <2>1. Fresh(First) # None
      BY <1>2, NotNone
    <2> QED BY <2>1 DEF Renders, Mounted, Init
  <1>8. Live
    BY <1>4 DEF Live, InFlight
  <1> QED BY <1>6, <1>7, <1>8 DEF FormsInv

LEMMA FormsStep == FormsInv /\ [Next]_vars => FormsInv'
  BY TypeStep, RendersStep, LiveStep DEF FormsInv

(* Every state of the forms is well typed.                                  *)
THEOREM TypeCorrect == Spec => []TypeOK
  <1>1. FormsInv => TypeOK
    BY DEF FormsInv
  <1> QED BY <1>1, FormsInit, FormsStep, PTL DEF Spec

-----------------------------------------------------------------------------
(* Cards save independently.  The section on the server is the last save of *)
(* it that was acknowledged because a save that is the only one of its      *)
(* section stays the only one, and no other save reaches the section.       *)

CarriedOver == \A c \in Sections : server[c].carried
OnlyOne == \A i \in InFlight : puts[i].only => Of(puts[i].section) = {i}
OnlyServed == \A i \in InFlight : puts[i].only /\ puts[i].answer # None =>
                                    server[puts[i].section].value = puts[i].value
AckedStands == \A c \in Sections :
                 acked[c] # None /\ (\A i \in Of(c) : puts[i].answer = None) =>
                   server[c].value = acked[c]
SavesInv == FormsInv /\ CarriedOver /\ OnlyOne /\ OnlyServed /\ AckedStands

\* The handler of every card's section carries over what the card does not send.
LEMMA CardsKeep ==
  ASSUME NEW c \in Sections
  PROVE  Carried(c) \subseteq CardOf[c].keeps
  <1>1. c \in DOMAIN CardOf
    BY PagesFit DEF Sections, SectionsOf
  <1> QED BY <1>1 DEF Carried, CardOf, Card, GeneralSettingsCard, AiModelsSettingsCard,
          MemorySettingsCard, SecuritySettingsCard, NotificationsSettingsCard,
          AppearanceSettingsCard, ProfileInfoCard, PreferencesCard

\* What a step makes of the saves in flight.
Unmoved == /\ InFlight' = InFlight
           /\ \A j \in InFlight : /\ puts'[j].section = puts[j].section
                                  /\ puts'[j].value = puts[j].value
                                  /\ puts'[j].answer = puts[j].answer
                                  /\ puts'[j].only <=> puts[j].only
                                  /\ puts'[j].alone => puts[j].alone
           /\ UNCHANGED <<server, acked>>

LEMMA Flight ==
  ASSUME FormsInv, [Next]_vars
  PROVE  \/ Unmoved
         \/ \E c \in Sections : onSubmit(c)
         \/ \E i \in 1 .. MaxSaves : Apply(i) \/ Answered(i) \/ Failed(i)
  <1>t. TypeOK
    BY DEF FormsInv
  <1>1. ASSUME UNCHANGED <<puts, server, acked>> PROVE Unmoved
    <2>1. puts' = puts /\ UNCHANGED <<server, acked>>
      BY <1>1
    <2>2. InFlight' = InFlight
      BY <2>1 DEF InFlight
    <2>3. \A j \in InFlight : puts'[j] = puts[j]
      BY <2>1
    <2> HIDE <1>1
    <2>4. \A j \in InFlight : /\ puts'[j].section = puts[j].section
                              /\ puts'[j].value = puts[j].value
                              /\ puts'[j].answer = puts[j].answer
                              /\ puts'[j].only <=> puts[j].only
                              /\ puts'[j].alone => puts[j].alone
      BY <2>3
    <2> QED BY <2>1, <2>2, <2>4 DEF Unmoved
  <1>2. CASE UNCHANGED vars
    BY <1>1, <1>2 DEF vars
  <1>3. ASSUME NEW c \in Sections, Gesture(c), ~onSubmit(c) PROVE Unmoved
    <2>1. CASE startEditing(c)
      BY <1>1, <2>1 DEF startEditing
    <2>2. CASE handleCancel(c)
      BY <1>1, <2>2 DEF handleCancel
    <2>3. CASE handleReset(c)
      BY <1>1, <2>3 DEF handleReset
    <2>4. ASSUME NEW t \in Texts, Type(c, t) PROVE Unmoved
      BY <1>1, <2>4 DEF Type
    <2> QED BY <1>3, <2>1, <2>2, <2>3, <2>4 DEF Gesture
  <1>4. CASE Commit \/ getSettings \/ Fetched
    BY <1>1, <1>4 DEF Commit, getSettings, Fetched
  <1>5. CASE refetch
    <2>1. puts' = Overlapped /\ UNCHANGED <<server, acked>>
      BY <1>5 DEF refetch, Overlapped
    <2>2. InFlight' = InFlight
      BY <1>t, <2>1, RewrittenFlight, Rewritten, OverlappedType DEF InFlight
    <2> QED BY <1>t, <2>1, <2>2, Rewritten DEF Unmoved, Same
  <1>6. ASSUME puts' = Hears(puts, card'), UNCHANGED <<server, acked>> PROVE Unmoved
    <2>2. InFlight' = InFlight
      BY <1>t, <1>6, RewrittenFlight, Rewritten, HearsType DEF InFlight
    <2> QED BY <1>t, <1>6, <2>2, Rewritten DEF Unmoved, Same
  <1>7. CASE FetchFailed \/ Leave
    BY <1>6, <1>7 DEF FetchFailed, Leave, Show
  <1>8. ASSUME NEW s \in Sections, handleSelectSection(s) \/ Open(s) PROVE Unmoved
    BY <1>6, <1>8 DEF handleSelectSection, Open, Show
  <1> QED BY <1>2, <1>3, <1>4, <1>5, <1>7, <1>8 DEF Next

LEMMA SavesStep == SavesInv /\ [Next]_vars => SavesInv'
  <1> SUFFICES ASSUME SavesInv, [Next]_vars PROVE SavesInv'
    OBVIOUS
  <1>t. FormsInv /\ FormsInv' /\ TypeOK /\ TypeOK'
    BY FormsStep DEF SavesInv, FormsInv
  <1>i. CarriedOver /\ OnlyOne /\ OnlyServed /\ AckedStands
    BY DEF SavesInv
  <1>p. \A j \in InFlight : puts[j] \in Put /\ puts[j].section \in Sections
                            /\ puts[j].value \in Values
    BY <1>t, PutAt DEF Put
  <1>1. CASE Unmoved
    <2>1. \A c : Of(c)' = Of(c)
      BY <1>1 DEF Unmoved, Of
    <2>2. CarriedOver' /\ OnlyOne' /\ OnlyServed' /\ AckedStands'
      <3>1. CarriedOver'
        BY <1>1, <1>i DEF Unmoved, CarriedOver
      <3>2. OnlyOne'
        BY <1>1, <1>i DEF Unmoved, OnlyOne, Of
      <3>3. OnlyServed'
        BY <1>1, <1>i DEF Unmoved, OnlyServed
      <3>4. AckedStands'
        BY <1>1, <1>i DEF Unmoved, AckedStands, Of
      <3> QED BY <3>1, <3>2, <3>3, <3>4
    <2> QED BY <1>t, <2>2 DEF SavesInv
  <1>2. ASSUME NEW c \in Sections, onSubmit(c) PROVE SavesInv'
    <2> DEFINE n == Len(puts) + 1
    <2>1. /\ InFlight' = InFlight \cup {n} /\ n \notin InFlight
          /\ puts'[n].section = c /\ puts'[n].answer = None
          /\ puts'[n].only <=> Of(c) = {}
      BY <1>t, <1>2, Submitted
    <2>2. \A j \in InFlight : /\ puts'[j].section = puts[j].section
                              /\ puts'[j].value = puts[j].value
                              /\ puts'[j].answer = puts[j].answer
                              /\ puts'[j].only <=> puts[j].only /\ puts[j].section # c
      <3> TAKE j \in InFlight
      <3>1. puts'[j] = Joined(c)[j]
        BY <1>t, <1>2, Submitted DEF InFlight
      <3> QED BY <1>t, <3>1, Rewritten DEF Same
    <2>3. UNCHANGED <<server, acked>>
      BY <1>2 DEF onSubmit
    <2> HIDE DEF n
    <2>4. /\ \A d : d # c => Of(d)' = Of(d)
          /\ Of(c)' = Of(c) \cup {n}
      BY <2>1, <2>2 DEF Of
    <2>5. CarriedOver'
      BY <1>i, <2>3 DEF CarriedOver
    <2>6. OnlyOne'
      BY <1>i, <2>1, <2>2 DEF OnlyOne, Of
    <2>7. OnlyServed'
      BY <1>i, <2>1, <2>2, <2>3 DEF OnlyServed
    <2>8. AckedStands'
      BY <1>i, <2>1, <2>2, <2>3 DEF AckedStands, Of
    <2> QED BY <1>t, <2>5, <2>6, <2>7, <2>8 DEF SavesInv
  <1>3. ASSUME NEW i \in 1 .. MaxSaves, Apply(i) PROVE SavesInv'
    <2> DEFINE c == puts[i].section
    <2>1. /\ i \in InFlight /\ puts[i].answer = None /\ UNCHANGED acked
          /\ puts' = [puts EXCEPT ![i].answer = server']
          /\ server' = updateSettingsSection(c, puts[i].value)
      BY <1>3 DEF Apply
    <2>2. server' \in Records /\ server \in Records
      BY <1>t DEF TypeOK
    <2>3. /\ InFlight' = InFlight
          /\ \A j \in InFlight : /\ puts'[j].section = puts[j].section
                                 /\ puts'[j].value = puts[j].value
                                 /\ puts'[j].only = puts[j].only
          /\ puts'[i].answer = server' /\ puts'[i].answer # None
          /\ \A j \in InFlight \ {i} : puts'[j] = puts[j]
      BY <1>t, <2>1, <2>2, Served, NotNone
    <2>4. c \in Sections
      BY <1>p, <2>1
    <2>5. /\ \A d \in Sections \ {c} : server'[d] = server[d]
          /\ server'[c].value = puts[i].value
          /\ server'[c].carried
      BY <1>i, <2>1, <2>2, <2>4, CardsKeep DEF updateSettingsSection, CarriedOver, Records
    <2> HIDE DEF c
    <2>6. CarriedOver'
      BY <1>i, <2>5 DEF CarriedOver
    <2>7. OnlyOne'
      BY <1>i, <2>3 DEF OnlyOne, Of
    <2>8. OnlyServed'
      <3>1. ASSUME NEW j \in InFlight', puts'[j].only, puts'[j].answer # None
            PROVE  server'[puts'[j].section].value = puts'[j].value
        <4>1. CASE j = i
          BY <2>1, <2>3, <2>5, <4>1 DEF c
        <4>2. CASE j # i
          <5>1. j \in InFlight /\ puts'[j] = puts[j] /\ puts[j].only
            BY <2>3, <3>1, <4>2
          <5>2. Of(puts[j].section) = {j}
            BY <1>i, <5>1 DEF OnlyOne
          <5>3. puts[j].section # c
            BY <2>1, <4>2, <5>2 DEF Of, c
          <5> QED BY <1>i, <1>p, <2>5, <3>1, <5>1, <5>3 DEF OnlyServed
        <4> QED BY <4>1, <4>2
      <3> QED BY <3>1 DEF OnlyServed
    <2>9. AckedStands'
      <3>1. ASSUME NEW d \in Sections, acked[d] # None,
                   \A j \in Of(d)' : puts'[j].answer = None
            PROVE  server'[d].value = acked[d]
        <4>1. d # c
          BY <2>1, <2>3, <3>1 DEF Of, c
        <4>2. \A j \in Of(d) : j \in Of(d)' /\ puts'[j] = puts[j]
          BY <2>1, <2>3, <4>1 DEF Of, c
        <4> QED BY <1>i, <2>5, <3>1, <4>1, <4>2 DEF AckedStands
      <3> QED BY <2>1, <3>1 DEF AckedStands
    <2> QED BY <1>t, <2>6, <2>7, <2>8, <2>9 DEF SavesInv
  <1>4. ASSUME NEW i \in 1 .. MaxSaves, Answered(i) \/ Failed(i) PROVE SavesInv'
    <2> DEFINE c == puts[i].section
    <2>1. /\ i \in InFlight /\ UNCHANGED server
          /\ puts' = [puts EXCEPT ![i] = None]
      BY <1>4 DEF Answered, Failed
    <2>2. /\ InFlight' = InFlight \ {i}
          /\ \A j \in InFlight \ {i} : puts'[j] = puts[j]
      BY <1>t, <2>1, Ended
    <2>3. \A d : Of(d)' = Of(d) \ {i}
      BY <2>2 DEF Of
    <2>4. c \in Sections /\ i \in Of(c)
      BY <1>p, <2>1 DEF Of
    <2>5. \A d \in Sections \ {c} : i \notin Of(d) /\ acked'[d] = acked[d]
      BY <1>4, <1>t DEF Answered, Failed, Of, TypeOK
    <2>6. \/ acked'[c] = None
          \/ acked'[c] = puts[i].value /\ puts[i].only /\ puts[i].answer # None
          \/ acked'[c] = acked[c] /\ puts[i].only /\ puts[i].answer = None
      BY <1>4, <1>t, <2>4 DEF Answered, Failed, TypeOK
    <2>7. CarriedOver'
      BY <1>i, <2>1 DEF CarriedOver
    <2>8. OnlyOne'
      BY <1>i, <2>2 DEF OnlyOne, Of
    <2>9. OnlyServed'
      BY <1>i, <2>1, <2>2 DEF OnlyServed
    <2>10. AckedStands'
      <3>1. ASSUME NEW d \in Sections, acked'[d] # None,
                   \A j \in Of(d)' : puts'[j].answer = None
            PROVE  server[d].value = acked'[d]
        <4>1. CASE d # c
          <5>1. \A j \in Of(d) : puts[j].answer = None
            BY <2>2, <2>3, <2>5, <3>1, <4>1 DEF Of
          <5> QED BY <1>i, <2>5, <3>1, <4>1, <5>1 DEF AckedStands
        <4>2. CASE d = c
          <5>1. puts[i].only => Of(c) = {i}
            BY <1>i, <2>1 DEF OnlyOne
          <5>2. CASE acked'[c] = puts[i].value /\ puts[i].only /\ puts[i].answer # None
            BY <1>i, <2>1, <4>2, <5>2 DEF OnlyServed
          <5>3. CASE acked'[c] = acked[c] /\ puts[i].only /\ puts[i].answer = None
            BY <1>i, <3>1, <4>2, <5>1, <5>3 DEF AckedStands
          <5> QED BY <2>6, <3>1, <4>2, <5>2, <5>3
        <4> QED BY <4>1, <4>2
      <3> QED BY <2>1, <3>1 DEF AckedStands
    <2> QED BY <1>t, <2>7, <2>8, <2>9, <2>10 DEF SavesInv
  <1> QED BY <1>t, <1>1, <1>2, <1>3, <1>4, Flight

LEMMA SavesInit == Init => SavesInv
  <1> SUFFICES ASSUME Init PROVE SavesInv
    OBVIOUS
  <1>1. FormsInv
    BY FormsInit
  <1>2. InFlight = {} /\ (\A c : Of(c) = {})
    BY DEF Init, InFlight, Of
  <1>3. \A c \in Sections : /\ server[c].carried /\ server[c].value = First
                            /\ acked[c] = First
    BY DEF Init
  <1> QED BY <1>1, <1>2, <1>3 DEF SavesInv, CarriedOver, OnlyOne, OnlyServed, AckedStands

(* A save reaches its own section only, keeps the fields its card never      *)
(* sends, and stands once it is acknowledged, in whatever order the saves of *)
(* all the cards are served and answered.                                    *)
THEOREM SavesStandAloneTheorem == Spec => []SavesStandAlone
  <1>1. SavesInv => SavesStandAlone
    BY DEF SavesInv, CarriedOver, AckedStands, SavesStandAlone
  <1> QED BY <1>1, SavesInit, SavesStep, PTL DEF Spec

-----------------------------------------------------------------------------
(* What is cached is the server's record whenever it is known current, and a *)
(* card that is not edited is clean.  A save, or a refetch, that overlapped   *)
(* nothing answers with the record as it is.                                  *)

AloneSave == \A i \in InFlight :
               puts[i].alone => /\ InFlight = {i} /\ get = None
                                /\ puts[i].answer # None => puts[i].answer = server
AloneGet == get # None /\ get.alone =>
              InFlight = {} /\ (get.answer # None => get.answer = server)
CacheCurrent == current /\ (\A i \in InFlight : puts[i].answer = None) => cache = server
CleanCards == \A c \in Sections :
                Mounted(c) /\ ~card[c].editing =>
                  card[c].form = card[c].props /\ card[c].base = card[c].props
QuietInv == FormsInv /\ AloneSave /\ AloneGet /\ CacheCurrent /\ CleanCards

\* A card that appears, follows what is cached, or was saved, is clean.
Clear(k) == k.form = k.props /\ k.base = k.props
LEMMA ClearCards ==
  ASSUME NEW v \in Values, NEW k \in CardState
  PROVE  /\ Clear(Fresh(v)) /\ Clear(Saved(k))
         /\ Clear([ResetTo(k, k.props) EXCEPT !.editing = FALSE])
         /\ ~k.editing => Clear(Follow(k, v))
         /\ Follow(k, v).editing <=> k.editing
  <1>1. k.props \in Values
    BY DEF CardState
  <1> QED BY <1>1 DEF Clear, Fresh, Saved, ResetTo, Follow, CardState

LEMMA CleanRender ==
  ASSUME TypeOK, CleanCards, NEW o, NEW st, NEW s, NEW rec \in Records, NEW c \in Sections
  PROVE  LET k == Cards(o, st, s, rec)[c]
         IN k # None /\ ~k.editing => Clear(k)
  <1>1. Clear(Fresh(rec[c].value))
    BY DEF Clear, Fresh
  <1> QED BY <1>1, CardsShown DEF CleanCards, Clear

LEMMA CleanStep == FormsInv /\ CleanCards /\ [Next]_vars => CleanCards'
  <1> SUFFICES ASSUME FormsInv, CleanCards, [Next]_vars PROVE CleanCards'
    OBVIOUS
  <1>t. TypeOK /\ Live /\ Renders /\ cache \in Records
    BY DEF FormsInv, TypeOK
  <1>1. CASE UNCHANGED card
    BY <1>1 DEF CleanCards, Mounted
  <1>2. ASSUME NEW c \in Sections, Mounted(c), NEW k \in CardState,
               card' = [card EXCEPT ![c] = k], ~k.editing => Clear(k)
        PROVE  CleanCards'
    BY <1>t, <1>2 DEF CleanCards, Mounted, Clear, TypeOK
  <1>3. ASSUME NEW c \in Sections, Gesture(c) PROVE CleanCards'
    <2>1. Mounted(c) /\ card[c] \in CardState /\ card[c].props \in Values
      <3>1. Mounted(c)
        BY <1>3 DEF Gesture, startEditing, handleCancel, handleReset, Type, onSubmit
      <3> QED BY <1>t, <3>1, CardAt DEF CardState
    <2>2. CASE startEditing(c)
      <3>1. [card[c] EXCEPT !.editing = TRUE].editing
        BY <2>1 DEF CardState
      <3> QED BY <1>2, <2>1, <2>2, <3>1, CardPatches DEF startEditing
    <2>3. CASE handleCancel(c)
      BY <1>2, <2>1, <2>3, CardPatches, ClearCards DEF handleCancel
    <2>4. CASE handleReset(c)
      <3>1. ResetTo(card[c], card[c].props).editing
        BY <2>1, <2>4 DEF handleReset, ResetTo, CardState
      <3> QED BY <1>2, <2>1, <2>4, <3>1, CardPatches DEF handleReset
    <2>5. ASSUME NEW t \in Texts, Type(c, t) PROVE CleanCards'
      <3>1. [card[c] EXCEPT !.form = t].editing
        BY <2>1, <2>5 DEF Type, CardState
      <3> QED BY <1>2, <2>1, <2>5, <3>1, CardPatches DEF Type
    <2>6. CASE onSubmit(c)
      <3>1. [card[c] EXCEPT !.submitting = TRUE].editing
        BY <2>1, <2>6 DEF onSubmit, CardState
      <3> QED BY <1>2, <2>1, <2>6, <3>1, CardPatches DEF onSubmit
    <2> QED BY <1>3, <2>2, <2>3, <2>4, <2>5, <2>6 DEF Gesture
  <1>4. CASE Commit
    <2>1. ASSUME NEW c \in Sections, card'[c] # None, ~card'[c].editing
          PROVE  Clear(card'[c])
      <3>1. Mounted(c) /\ card'[c] = Follow(card[c], cache[c].value)
        BY <1>4, <2>1 DEF Commit
      <3>2. card[c] \in CardState /\ cache[c].value \in Values
        BY <1>t, <3>1, CardAt DEF Records, Stored
      <3> QED BY ZenonT(30), <2>1, <3>1, <3>2, ClearCards
    <2> QED BY <2>1 DEF CleanCards, Mounted, Clear
  <1>5. ASSUME NEW o, NEW st, NEW s, NEW rec \in Records, card' = Cards(o, st, s, rec)
        PROVE  CleanCards'
    BY <1>t, <1>5, CleanRender DEF CleanCards, Mounted, Clear
  <1>6. ASSUME NEW i \in 1 .. MaxSaves, Answered(i) PROVE CleanCards'
    <2> DEFINE c == puts[i].section
               cs == Cards(open, "success", section, puts[i].answer)
    <2>1. i \in InFlight /\ puts[i] \in Put /\ puts[i].answer # None
      BY <1>t, <1>6, PutAt DEF Answered
    <2>2. c \in Sections /\ puts[i].answer \in Records
      BY <2>1 DEF Put
    <2>3. card' = IF puts[i].live THEN [cs EXCEPT ![c] = Saved(cs[c])] ELSE cs
      BY <1>6 DEF Answered
    <2>4. CASE ~puts[i].live
      BY <1>5, <2>2, <2>3, <2>4
    <2>5. CASE puts[i].live
      <3>1. Mounted(c) /\ Shown(c, open, status, section)
        BY <1>t, <2>1, <2>2, <2>5 DEF Live, Renders
      <3>2. cs[c] = card[c] /\ DOMAIN cs = Sections
        BY <3>1, <2>2 DEF Cards, Shown
      <3>3. Clear(Saved(card[c]))
        <4>1. card[c] \in CardState /\ card[c].props \in Values
          BY <1>t, <2>2, <3>1, CardAt DEF CardState
        <4> QED BY <4>1, ClearCards
      <3>4. \A d \in Sections : cs[d] # None /\ ~cs[d].editing => Clear(cs[d])
        BY <1>t, <2>2, CleanRender
      <3> HIDE DEF cs, c
      <3>5. \A d \in Sections : card'[d] = IF d = c THEN Saved(card[c]) ELSE cs[d]
        BY <2>3, <2>5, <3>2
      <3> QED BY <3>3, <3>4, <3>5 DEF CleanCards, Mounted, Clear
    <2> QED BY <2>4, <2>5
  <1>7. ASSUME NEW i \in 1 .. MaxSaves, Failed(i) PROVE CleanCards'
    <2>1. i \in InFlight /\ puts[i] \in Put /\ puts[i].section \in Sections
      BY <1>t, <1>7, PutAt DEF Failed, Put
    <2>2. CASE ~puts[i].live
      BY <1>1, <1>7, <2>2 DEF Failed
    <2>3. CASE puts[i].live
      <3> DEFINE c == puts[i].section
                 k == [card[c] EXCEPT !.submitting = FALSE]
      <3>1. Mounted(c) /\ card' = [card EXCEPT ![c] = k]
        BY <1>t, <1>7, <2>1, <2>3 DEF Live, Failed
      <3>2. card[c] \in CardState /\ k \in CardState
        BY <1>t, <2>1, <3>1, CardAt, CardPatches
      <3>3. ~k.editing => Clear(k)
        BY <2>1, <3>1, <3>2 DEF CleanCards, Clear, CardState
      <3> QED BY <1>2, <2>1, <3>1, <3>2, <3>3
    <2> QED BY <2>2, <2>3
  <1>8. CASE Fetched
    <2>1. get.answer \in Records
      BY <1>t, <1>8 DEF Fetched, TypeOK, Get
    <2> QED BY <1>5, <1>8, <2>1 DEF Fetched
  <1>9. CASE FetchFailed \/ Leave
    BY <1>t, <1>5, <1>9 DEF FetchFailed, Leave, Show
  <1>10. ASSUME NEW s \in Sections, handleSelectSection(s) \/ Open(s) PROVE CleanCards'
    BY <1>t, <1>5, <1>10 DEF handleSelectSection, Open, Show
  <1>11. ASSUME NEW i \in 1 .. MaxSaves, Apply(i) PROVE CleanCards'
    BY <1>1, <1>11 DEF Apply
  <1>12. CASE refetch \/ getSettings \/ UNCHANGED vars
    BY <1>1, <1>12 DEF refetch, getSettings, vars
  <1> QED BY <1>3, <1>4, <1>6, <1>7, <1>8, <1>9, <1>10, <1>11, <1>12 DEF Next

RecordInv == AloneSave /\ AloneGet /\ CacheCurrent

\* What a step makes of the refetch and of the cache.
LEMMA Cached ==
  ASSUME FormsInv, [Next]_vars
  PROVE  \/ get' \in {get, None} /\ UNCHANGED <<cache, current>>
         \/ refetch \/ getSettings \/ Fetched
         \/ \E c \in Sections : onSubmit(c)
         \/ \E i \in 1 .. MaxSaves : Apply(i) \/ Answered(i) \/ Failed(i)
  <1> DEFINE Held == get' \in {get, None} /\ UNCHANGED <<cache, current>>
  <1>1. CASE UNCHANGED vars
    BY <1>1 DEF vars
  <1>2. ASSUME NEW c \in Sections, Gesture(c), ~onSubmit(c) PROVE Held
    BY <1>2 DEF Gesture, startEditing, handleCancel, handleReset, Type
  <1>3. CASE Commit \/ FetchFailed \/ Leave
    BY <1>3 DEF Commit, FetchFailed, Leave, Show
  <1>4. ASSUME NEW s \in Sections, handleSelectSection(s) \/ Open(s) PROVE Held
    BY <1>4 DEF handleSelectSection, Open, Show
  <1> QED BY <1>1, <1>2, <1>3, <1>4 DEF Next

LEMMA RecordStep == FormsInv /\ RecordInv /\ [Next]_vars => RecordInv'
  <1> SUFFICES ASSUME FormsInv, RecordInv, [Next]_vars PROVE RecordInv'
    OBVIOUS
  <1>t. TypeOK
    BY DEF FormsInv
  <1>i. AloneSave /\ AloneGet /\ CacheCurrent
    BY DEF RecordInv
  <1>1. CASE Unmoved /\ get' \in {get, None} /\ UNCHANGED <<cache, current>>
    <2>1. AloneSave'
      BY <1>i, <1>1 DEF Unmoved, AloneSave
    <2>2. AloneGet'
      BY <1>i, <1>1 DEF Unmoved, AloneGet
    <2>3. CacheCurrent'
      BY <1>i, <1>1 DEF Unmoved, CacheCurrent
    <2> QED BY <2>1, <2>2, <2>3 DEF RecordInv
  <1>2. CASE Unmoved /\ refetch
    <2>1. \A j \in InFlight : ~puts'[j].alone
      BY <1>t, <1>2, Rewritten DEF refetch, Overlapped
    <2>2. /\ get' # None /\ get'.answer = None
          /\ get'.alone <=> InFlight = {}
      <3>1. (InFlight = {}) \in BOOLEAN
        OBVIOUS
      <3>2. get' \in Get
        BY <1>2, <3>1 DEF refetch, Get
      <3>3. get'.answer = None /\ (get'.alone <=> InFlight = {})
        BY <1>2, Zenon DEF refetch
      <3> QED BY <3>2, <3>3, NotNone
    <2>3. UNCHANGED <<cache, current>>
      BY <1>2 DEF refetch
    <2>4. AloneSave'
      BY <1>2, <2>1 DEF Unmoved, AloneSave
    <2>5. AloneGet'
      BY <1>2, <2>2 DEF Unmoved, AloneGet
    <2>6. CacheCurrent'
      BY <1>i, <1>2, <2>3 DEF Unmoved, CacheCurrent
    <2> QED BY <2>4, <2>5, <2>6 DEF RecordInv
  <1>3. CASE Unmoved /\ getSettings
    <2>1. get # None /\ get \in Get /\ server \in Records
      BY <1>t, <1>3 DEF getSettings, TypeOK
    <2>2. get' # None /\ get'.answer = server /\ (get'.alone <=> get.alone)
      <3>1. get' \in Get /\ get'.answer = server /\ get'.alone = get.alone
        BY <1>3, <2>1 DEF getSettings, Get
      <3> QED BY <3>1, NotNone
    <2>3. UNCHANGED <<cache, current>>
      BY <1>3 DEF getSettings
    <2>4. AloneSave'
      BY <1>i, <1>3, <2>1 DEF Unmoved, AloneSave
    <2>5. AloneGet'
      BY <1>i, <1>3, <2>1, <2>2 DEF Unmoved, AloneGet
    <2>6. CacheCurrent'
      BY <1>i, <1>3, <2>3 DEF Unmoved, CacheCurrent
    <2> QED BY <2>4, <2>5, <2>6 DEF RecordInv
  <1>4. CASE Unmoved /\ Fetched
    <2>1. /\ get # None /\ get.answer # None /\ get' = None
          /\ cache' = get.answer /\ current' = get.alone
      BY <1>4 DEF Fetched
    <2>2. AloneSave'
      BY <1>i, <1>4, <2>1 DEF Unmoved, AloneSave
    <2>3. AloneGet'
      BY <2>1 DEF AloneGet
    <2>4. CacheCurrent'
      BY <1>i, <1>4, <2>1 DEF Unmoved, AloneGet, CacheCurrent
    <2> QED BY <2>2, <2>3, <2>4 DEF RecordInv
  <1>5. ASSUME NEW c \in Sections, onSubmit(c) PROVE RecordInv'
    <2> DEFINE n == Len(puts) + 1
    <2>1. /\ InFlight' = InFlight \cup {n} /\ n \notin InFlight
          /\ puts'[n].answer = None
          /\ puts'[n].alone <=> InFlight = {} /\ get = None
      BY <1>t, <1>5, Submitted
    <2>2. \A j \in InFlight : puts'[j].answer = puts[j].answer /\ ~puts'[j].alone
      <3> TAKE j \in InFlight
      <3>1. puts'[j] = Joined(c)[j]
        BY <1>t, <1>5, Submitted DEF InFlight
      <3> QED BY <1>t, <3>1, Rewritten DEF Same
    <2>3. /\ UNCHANGED <<server, cache, current>>
          /\ get = None => get' = None
          /\ get # None => ~get'.alone
      <3>1. get # None => get \in Get
        BY <1>t DEF TypeOK
      <3>2. get' = IF get = None THEN None ELSE [get EXCEPT !.alone = FALSE]
        BY <1>5 DEF onSubmit
      <3>3. UNCHANGED <<server, cache, current>>
        BY <1>5 DEF onSubmit
      <3>4. get # None => ~get'.alone
        BY <3>1, <3>2 DEF Get
      <3> QED BY <3>2, <3>3, <3>4
    <2> HIDE DEF n
    <2>4. AloneSave'
      BY <2>1, <2>2, <2>3 DEF AloneSave
    <2>5. AloneGet'
      BY <2>3 DEF AloneGet
    <2>6. CacheCurrent'
      BY <1>i, <2>1, <2>2, <2>3 DEF CacheCurrent
    <2> QED BY <2>4, <2>5, <2>6 DEF RecordInv
  <1>6. ASSUME NEW i \in 1 .. MaxSaves, Apply(i) PROVE RecordInv'
    <2>1. /\ i \in InFlight /\ puts[i].answer = None /\ UNCHANGED <<get, cache, current>>
          /\ puts' = [puts EXCEPT ![i].answer = server']
      BY <1>6 DEF Apply
    <2>2. server' \in Records
      BY FormsStep DEF FormsInv, TypeOK
    <2>3. /\ InFlight' = InFlight
          /\ \A j \in InFlight : puts'[j].alone = puts[j].alone
          /\ puts'[i].answer = server' /\ puts'[i].answer # None
      BY <1>t, <2>1, <2>2, Served, NotNone
    <2>4. AloneSave'
      BY <1>i, <2>1, <2>3 DEF AloneSave
    <2>5. AloneGet'
      BY <1>i, <2>1, <2>3 DEF AloneGet
    <2>6. CacheCurrent'
      BY <2>1, <2>3 DEF CacheCurrent
    <2> QED BY <2>4, <2>5, <2>6 DEF RecordInv
  <1>7. ASSUME NEW i \in 1 .. MaxSaves, Answered(i) \/ Failed(i) PROVE RecordInv'
    <2>1. /\ i \in InFlight /\ UNCHANGED <<server, get>>
          /\ puts' = [puts EXCEPT ![i] = None]
      BY <1>7 DEF Answered, Failed
    <2>2. /\ InFlight' = InFlight \ {i}
          /\ \A j \in InFlight \ {i} : puts'[j] = puts[j]
      BY <1>t, <2>1, Ended
    <2>3. AloneSave'
      BY <1>i, <2>1, <2>2 DEF AloneSave
    <2>4. AloneGet'
      BY <1>i, <2>1, <2>2 DEF AloneGet
    <2>5. \/ cache' = puts[i].answer /\ puts[i].answer # None /\ current' = puts[i].alone
          \/ cache' = cache /\ current' = (current /\ puts[i].answer = None)
      BY <1>7 DEF Answered, Failed, onSuccess
    <2>6. CASE cache' = puts[i].answer /\ puts[i].answer # None /\ current' = puts[i].alone
      <3>1. puts[i].alone => puts[i].answer = server
        BY <1>i, <2>1, <2>6 DEF AloneSave
      <3> QED BY <2>1, <2>3, <2>4, <2>6, <3>1 DEF CacheCurrent, RecordInv
    <2>7. CASE cache' = cache /\ current' = (current /\ puts[i].answer = None)
      <3>1. current' => current /\ puts[i].answer = None
        BY <2>7, Zenon
      <3>2. (\A j \in InFlight' : puts'[j].answer = None) /\ puts[i].answer = None
              => \A j \in InFlight : puts[j].answer = None
        BY <2>2
      <3> QED BY <1>i, <2>1, <2>3, <2>4, <2>7, <3>1, <3>2 DEF CacheCurrent, RecordInv
    <2> QED BY <2>5, <2>6, <2>7
  <1> QED BY <1>1, <1>2, <1>3, <1>4, <1>5, <1>6, <1>7, Flight, Cached

LEMMA QuietInit == Init => QuietInv
  <1> SUFFICES ASSUME Init PROVE QuietInv
    OBVIOUS
  <1>1. FormsInv
    BY FormsInit
  <1>2. InFlight = {} /\ get = None /\ cache = server
    BY DEF Init, InFlight
  <1>3. CleanCards
    <2>1. \A c \in Sections : Mounted(c) => card[c] = Fresh(First)
      BY DEF Init, Mounted
    <2> QED BY <2>1 DEF CleanCards, Fresh
  <1> QED BY <1>1, <1>2, <1>3 DEF QuietInv, AloneSave, AloneGet, CacheCurrent

LEMMA QuietStep == QuietInv /\ [Next]_vars => QuietInv'
  <1> SUFFICES ASSUME QuietInv, [Next]_vars PROVE QuietInv'
    OBVIOUS
  <1>1. FormsInv /\ RecordInv /\ CleanCards
    BY DEF QuietInv, RecordInv
  <1>2. FormsInv' /\ RecordInv' /\ CleanCards'
    BY <1>1, FormsStep, RecordStep, CleanStep
  <1> QED BY <1>2 DEF QuietInv, RecordInv

(* Once the requests have ended, and the last to change the cache overlapped *)
(* no other, the cards that are not edited show what the server holds, with   *)
(* clean forms (QuietShowsServer).                                            *)
THEOREM QuietShowsServerTheorem == Spec => []QuietShowsServer
  <1>1. QuietInv => QuietShowsServer
    <2> SUFFICES ASSUME QuietInv, current, InFlight = {}
                 PROVE  /\ cache = server
                        /\ \A c \in Sections :
                             Mounted(c) /\ ~card[c].editing /\ card[c].props = cache[c].value =>
                               card[c].form = server[c].value /\ ~isDirty(card[c])
      BY DEF QuietShowsServer
    <2>1. cache = server
      BY DEF QuietInv, CacheCurrent
    <2> QED BY <2>1 DEF QuietInv, CleanCards, isDirty
  <1> QED BY <1>1, QuietInit, QuietStep, PTL DEF Spec

-----------------------------------------------------------------------------
(* Edits are kept: while a card stays in edit mode, only the user's typing    *)
(* and Reset change its form (EditsKept).                                     *)
Edited(c) == /\ Mounted(c) /\ card[c].editing
             /\ card'[c] # None /\ card'[c].editing /\ card'[c].form # card[c].form
Typed(c) == handleReset(c) \/ \E t \in Texts : Type(c, t)

LEMMA EditsStep ==
  ASSUME FormsInv, [Next]_vars, NEW c \in Sections, Edited(c)
  PROVE  Typed(c)
  <1>t. TypeOK /\ Live /\ Renders /\ cache \in Records
    BY DEF FormsInv, TypeOK
  <1>e. /\ Mounted(c) /\ card[c].editing /\ card[c] \in CardState
        /\ card'[c] # None /\ card'[c].editing /\ card'[c].form # card[c].form
    BY <1>t, CardAt DEF Edited
  <1>1. card' # card
    BY <1>e
  <1>2. ASSUME NEW o, NEW st, NEW s, NEW rec \in Records, card' = Cards(o, st, s, rec)
        PROVE  FALSE
    BY <1>t, <1>2, <1>e, CardsShown
  <1>3. ASSUME NEW d \in Sections, Gesture(d) PROVE Typed(c)
    <2>1. CASE d # c
      <3>1. card'[c] = card[c]
        BY <1>3, <1>t, <2>1 DEF Gesture, startEditing, handleCancel, handleReset, Type,
                                onSubmit, TypeOK
      <3> QED BY <3>1, <1>e
    <2>2. CASE d = c /\ (startEditing(d) \/ onSubmit(d))
      <3>1. \/ card'[c] = [card[c] EXCEPT !.editing = TRUE]
            \/ card'[c] = [card[c] EXCEPT !.submitting = TRUE]
        BY <1>t, <2>2 DEF startEditing, onSubmit, TypeOK
      <3> QED BY <3>1, <1>e DEF CardState
    <2>3. CASE d = c /\ handleCancel(d)
      <3>1. card'[c] = [ResetTo(card[c], card[c].props) EXCEPT !.editing = FALSE]
        BY <1>t, <2>3 DEF handleCancel, TypeOK
      <3>2. ~card'[c].editing
        BY <3>1, <1>e DEF CardState, ResetTo
      <3> QED BY <3>2, <1>e
    <2> QED BY <1>3, <2>1, <2>2, <2>3 DEF Gesture, Typed
  <1>4. CASE Commit
    <2>1. card'[c] = Follow(card[c], cache[c].value)
      BY <1>4, <1>e DEF Commit
    <2>2. card'[c].form = card[c].form
      BY <2>1, <1>e DEF Follow, CardState
    <2> QED BY <2>2, <1>e
  <1>5. ASSUME NEW i \in 1 .. MaxSaves, Answered(i) PROVE FALSE
    <2> DEFINE d == puts[i].section
               cs == Cards(open, "success", section, puts[i].answer)
    <2>1. i \in InFlight /\ puts[i] \in Put /\ puts[i].answer # None
      BY <1>t, <1>5, PutAt DEF Answered
    <2>2. d \in Sections /\ puts[i].answer \in Records
      BY <2>1 DEF Put
    <2>3. card' = IF puts[i].live THEN [cs EXCEPT ![d] = Saved(cs[d])] ELSE cs
      BY <1>5 DEF Answered
    <2>4. CASE ~puts[i].live
      BY <1>2, <2>2, <2>3, <2>4
    <2>5. CASE puts[i].live
      <3>1. DOMAIN cs = Sections
        BY DEF Cards
      <3>2. cs[c] # None => cs[c] = card[c]
        BY <1>t, <1>e, <2>2, CardsShown
      <3>3. Mounted(d) /\ Shown(d, open, status, section)
        BY <1>t, <2>1, <2>2, <2>5 DEF Live, Renders
      <3>4. cs[d] = card[d]
        BY <3>3, <2>2 DEF Cards, Shown
      <3>5. CASE d = c
        <4>1. card'[c] = Saved(card[c])
          BY <2>2, <2>3, <2>5, <3>1, <3>4, <3>5
        <4>2. ~card'[c].editing
          BY <4>1, <1>e DEF Saved, ResetTo, CardState
        <4> QED BY <4>2, <1>e
      <3>6. CASE d # c
        <4>1. card'[c] = cs[c]
          BY <2>3, <2>5, <3>1, <3>6
        <4> QED BY <4>1, <3>2, <1>e
      <3> QED BY <3>5, <3>6
    <2> QED BY <2>4, <2>5
  <1>6. ASSUME NEW i \in 1 .. MaxSaves, Failed(i) PROVE FALSE
    <2>1. \/ card'[c] = card[c]
          \/ card'[c] = [card[c] EXCEPT !.submitting = FALSE]
      BY <1>t, <1>6 DEF Failed, TypeOK
    <2> QED BY <2>1, <1>e DEF CardState
  <1>7. CASE Fetched
    <2>1. get.answer \in Records
      BY <1>t, <1>7 DEF Fetched, TypeOK, Get
    <2> QED BY <1>2, <1>7, <2>1 DEF Fetched
  <1>8. CASE FetchFailed \/ Leave
    BY <1>t, <1>2, <1>8 DEF FetchFailed, Leave, Show
  <1>9. ASSUME NEW s \in Sections, handleSelectSection(s) \/ Open(s) PROVE FALSE
    BY <1>t, <1>2, <1>9 DEF handleSelectSection, Open, Show
  <1>10. ASSUME NEW i \in 1 .. MaxSaves, Apply(i) PROVE FALSE
    BY <1>1, <1>10 DEF Apply
  <1>11. CASE refetch \/ getSettings \/ UNCHANGED vars
    BY <1>1, <1>11 DEF refetch, getSettings, vars
  <1> QED BY <1>3, <1>4, <1>5, <1>6, <1>7, <1>8, <1>9, <1>10, <1>11 DEF Next

(* An edit under way is changed by the user alone, whatever answers arrive.   *)
THEOREM EditsKeptTheorem == Spec => EditsKept
  <1>1. ASSUME FormsInv, [Next]_vars
        PROVE  [\A c \in Sections :
                  /\ Mounted(c) /\ card[c].editing
                  /\ card'[c] # None /\ card'[c].editing /\ card'[c].form # card[c].form
                  => handleReset(c) \/ \E t \in Texts : Type(c, t)]_vars
    BY <1>1, EditsStep DEF Edited, Typed
  <1> QED BY <1>1, FormsInit, FormsStep, PTL DEF Spec, EditsKept
=============================================================================
