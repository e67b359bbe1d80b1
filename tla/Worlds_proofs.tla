---------------------------- MODULE Worlds_proofs ----------------------------
(***************************************************************************)
(* What holds of Worlds for any set of worlds and any bounds: the types;   *)
(* a row carries its own world's content unless a boot showed one world's  *)
(* scratch as another; a payload that waits is scheduled; what was saved   *)
(* is kept unless a wound was taken.                                       *)
(*                                                                         *)
(* The handlers of the page are functions of one record, so the lemmas say *)
(* what saveNow and flushNow keep of such a record, and each action is a   *)
(* composition of them.                                                    *)
(*                                                                         *)
(* That what was saved is kept rests on two facts: the newest state of a   *)
(* world, wherever it is, has all that was saved in it; and the scratch,   *)
(* which the next world takes over, is needed only by a page that died or  *)
(* has just come back.                                                     *)
(***************************************************************************)
EXTENDS Worlds, TLAPS

TabType ==
    [phase : {"down", "restoring", "live"}, active : World, doc : Doc,
     memo : Body \cup {None}, due : BOOLEAN, dirty : State \cup {None},
     timer : BOOLEAN]

PutType == [state : State, calm : BOOLEAN, landed : BOOLEAN]

PageType ==
    [tab : TabType, scratch : State \cup {None}, puts : SUBSET PutType,
     saves : Nat, saved : [World -> Doc], wounds : SUBSET Wound]

\* One calm PUT at a time.
OneCalm(m) == \A p, q \in m.puts : p.calm /\ q.calm => p = q

\* A waiting payload has a timer or a calm PUT before it.
Scheduled(m) ==
    m.tab.dirty # None => m.tab.timer \/ \E p \in m.puts : p.calm

\* A content carries no mark of another world.
Own(doc, w) == \A e \in doc : e[1] = w

\* Everything the page can reach is its own world's.
PageOwn(m) ==
    "stranger" \notin m.wounds =>
        /\ Own(m.tab.doc, m.tab.active)
        /\ m.tab.dirty # None => Own(m.tab.dirty.doc, m.tab.dirty.id)
        /\ m.scratch # None => Own(m.scratch.doc, m.scratch.id)
        /\ \A p \in m.puts : Own(p.state.doc, p.state.id)

EngineOwn ==
    "stranger" \notin wounds =>
        /\ \A w \in World : row[w] # None => Own(row[w].doc, w)
        /\ get # None /\ get.doc # Unread => Own(get.doc, get.id)

GetType == [id : World, doc : Doc \cup {Unread}] \cup {None}

RowType == [World -> [doc : Doc, at : Nat] \cup {None}]

\* The types, as the lemmas use them.
Typed ==
    /\ Page \in PageType
    /\ row \in RowType
    /\ pointer \in World \cup {None}
    /\ get \in GetType
    /\ edits \in 0..MaxEdits

IInv == Typed /\ OneCalm(Page) /\ Scheduled(Page) /\ PageOwn(Page) /\ EngineOwn

-----------------------------------------------------------------------------
(* The handlers *)

LEMMA PutTyped ==
    ASSUME NEW st \in State, NEW calm \in BOOLEAN
    PROVE  /\ Put(st, calm) \in PutType
           /\ Put(st, calm).state = st
           /\ Put(st, calm).calm = calm
           /\ ~Put(st, calm).landed
BY DEF Put, PutType

LEMMA OfWorldTyped ==
    ASSUME NEW doc \in Doc, NEW w PROVE OfWorld(doc, w) \in Doc
BY DEF OfWorld, Doc

\* Worlds.save keeps the types, and its payload has a timer.
LEMMA WorldsSaveKeeps ==
    ASSUME NEW m \in PageType, NEW st \in State
    PROVE  LET n == WorldsSave(m, st) IN
           /\ n \in PageType
           /\ n.tab = [m.tab EXCEPT !.dirty = st, !.timer = TRUE]
           /\ n.scratch = m.scratch /\ n.puts = m.puts
           /\ m.wounds \subseteq n.wounds
           /\ "stranger" \in n.wounds => "stranger" \in m.wounds
<1> DEFINE n == WorldsSave(m, st)
           hurt == m.wounds \cup IF m.tab.dirty # None /\ m.tab.dirty.id # st.id
                                 THEN {"overwritten"} ELSE {}
           kept == [m.saved EXCEPT ![st.id] = @ \cup OfWorld(st.doc, st.id)]
           t == [m.tab EXCEPT !.dirty = st, !.timer = TRUE]
<1> USE DEF WorldsSave
<1>a. n.tab = t
  BY DEF PageType
<1>b. n.scratch = m.scratch /\ n.puts = m.puts /\ n.saves = m.saves
  BY DEF PageType
<1>c. n.saved = kept
  BY DEF PageType
<1>d. n.wounds = hurt
  BY DEF PageType
<1>e. n = [m EXCEPT !.tab = t, !.saved = kept, !.wounds = hurt]
  BY Zenon DEF PageType
<1> HIDE DEF WorldsSave
<1>2. t \in TabType
  BY DEF PageType, TabType
<1>3. kept \in [World -> Doc]
  <2>1. st.id \in World /\ st.doc \in Doc /\ m.saved \in [World -> Doc]
    BY DEF State, PageType
  <2>2. OfWorld(st.doc, st.id) \in Doc
    BY <2>1, OfWorldTyped
  <2>3. m.saved[st.id] \cup OfWorld(st.doc, st.id) \in Doc
    BY <2>1, <2>2 DEF Doc
  <2> QED BY <2>1, <2>3
<1>4. hurt \in SUBSET Wound /\ ("stranger" \in hurt => "stranger" \in m.wounds)
  BY DEF PageType, Wound
<1> HIDE DEF n, t, kept, hurt
<1>5. n \in PageType
  BY <1>a, <1>b, <1>c, <1>d, <1>e, <1>2, <1>3, <1>4 DEF PageType
<1> QED BY <1>a, <1>b, <1>d, <1>4, <1>5 DEF n, t, hurt

\* saveNow keeps everything, and whoever is on the page stays there.
LEMMA SaveNowKeeps ==
    ASSUME NEW m \in PageType
    PROVE  LET n == SaveNow(m) IN
           /\ n \in PageType
           /\ n.tab.active = m.tab.active /\ n.tab.doc = m.tab.doc
           /\ n.tab.phase = m.tab.phase
           /\ n.puts = m.puts
           /\ "stranger" \in n.wounds <=> "stranger" \in m.wounds
           /\ Scheduled(m) => Scheduled(n)
           /\ PageOwn(m) => PageOwn(n)
<1> DEFINE body == [id |-> m.tab.active, doc |-> m.tab.doc]
           st == [id |-> m.tab.active, doc |-> m.tab.doc, at |-> m.saves + 1]
           written == [m EXCEPT !.tab.memo = body, !.scratch = st, !.saves = @ + 1]
           n == WorldsSave(written, st)
<1>1. CASE m.tab.memo = body
  BY <1>1 DEF SaveNow
<1>2. CASE m.tab.memo # body
  <2>1. SaveNow(m) = n
    BY <1>2 DEF SaveNow
  <2>2. st \in State /\ body \in Body
    BY DEF PageType, TabType, State, Body
  <2>a. written.tab = [m.tab EXCEPT !.memo = body]
    BY DEF PageType
  <2>b. written.scratch = st /\ written.saves = m.saves + 1
    BY DEF PageType
  <2>c. /\ written.puts = m.puts /\ written.saved = m.saved
        /\ written.wounds = m.wounds
    BY DEF PageType
  <2>d. written = [m EXCEPT !.tab = [m.tab EXCEPT !.memo = body],
                            !.scratch = st, !.saves = m.saves + 1]
    BY Zenon DEF PageType
  <2>4. [m.tab EXCEPT !.memo = body] \in TabType
    BY <2>2 DEF PageType, TabType
  <2>5. m.saves + 1 \in Nat
    BY DEF PageType
  <2> HIDE DEF written
  <2>6. written \in PageType
    BY <2>2, <2>a, <2>b, <2>c, <2>d, <2>4, <2>5 DEF PageType
  <2>7. /\ n \in PageType
        /\ n.tab = [written.tab EXCEPT !.dirty = st, !.timer = TRUE]
        /\ n.scratch = written.scratch /\ n.puts = written.puts
        /\ written.wounds \subseteq n.wounds
        /\ "stranger" \in n.wounds => "stranger" \in written.wounds
    BY <2>2, <2>6, WorldsSaveKeeps
  <2>8. /\ written.tab = [m.tab EXCEPT !.memo = body]
        /\ written.scratch = st /\ written.puts = m.puts
        /\ written.wounds = m.wounds
    BY <2>a, <2>b, <2>c
  <2> HIDE DEF n
  <2>9. /\ n.tab.active = m.tab.active /\ n.tab.doc = m.tab.doc
        /\ n.tab.phase = m.tab.phase
        /\ n.tab.dirty = st /\ n.tab.timer
    BY <2>7, <2>8 DEF PageType, TabType
  <2>10. n.puts = m.puts /\ n.scratch = st
    BY <2>7, <2>8
  <2>11. "stranger" \in n.wounds <=> "stranger" \in m.wounds
    BY <2>7, <2>8
  <2>12. Scheduled(n)
    BY <2>9 DEF Scheduled
  <2>13. st.doc = m.tab.doc /\ st.id = m.tab.active
    OBVIOUS
  <2>14. PageOwn(m) => PageOwn(n)
    BY <2>9, <2>10, <2>11, <2>13 DEF PageOwn
  <2> QED BY <2>1, <2>7, <2>9, <2>10, <2>11, <2>12, <2>14
<1> QED BY <1>1, <1>2

\* flushNow empties the slot into a PUT that is not calm.
LEMMA FlushNowKeeps ==
    ASSUME NEW m \in PageType
    PROVE  LET n == FlushNow(m) IN
           /\ n \in PageType
           /\ n.tab.phase = m.tab.phase
           /\ n.tab.dirty = None
           /\ n.wounds = m.wounds
           /\ OneCalm(m) => OneCalm(n)
           /\ PageOwn(m) => PageOwn(n)
<1> DEFINE n == FlushNow(m)
           put == Put(m.tab.dirty, FALSE)
<1>1. CASE m.tab.dirty = None
  <2>1. n = [m EXCEPT !.tab.timer = FALSE]
    BY <1>1 DEF FlushNow
  <2>2. /\ n.tab = [m.tab EXCEPT !.timer = FALSE]
        /\ n.scratch = m.scratch /\ n.puts = m.puts /\ n.saves = m.saves
        /\ n.saved = m.saved /\ n.wounds = m.wounds
        /\ n = [tab |-> n.tab, scratch |-> n.scratch, puts |-> n.puts,
                saves |-> n.saves, saved |-> n.saved, wounds |-> n.wounds]
    BY <2>1 DEF PageType
  <2>3. n.tab \in TabType
    BY <2>2 DEF PageType, TabType
  <2>4. /\ n.tab.phase = m.tab.phase /\ n.tab.active = m.tab.active
        /\ n.tab.doc = m.tab.doc /\ n.tab.dirty = m.tab.dirty
    BY <2>2 DEF PageType, TabType
  <2> HIDE DEF n
  <2>5. n \in PageType
    BY <2>2, <2>3 DEF PageType
  <2>6. PageOwn(m) => PageOwn(n)
    BY <2>2, <2>4 DEF PageOwn
  <2>7. OneCalm(m) => OneCalm(n)
    BY <2>2 DEF OneCalm
  <2> QED BY <1>1, <2>2, <2>4, <2>5, <2>6, <2>7 DEF n
<1>2. CASE m.tab.dirty # None
  <2>1. n = [m EXCEPT !.tab.timer = FALSE, !.tab.dirty = None,
                      !.puts = @ \cup {put}]
    BY <1>2 DEF FlushNow
  <2>2. /\ n.tab = [m.tab EXCEPT !.timer = FALSE, !.dirty = None]
        /\ n.scratch = m.scratch /\ n.puts = m.puts \cup {put}
        /\ n.saves = m.saves /\ n.saved = m.saved /\ n.wounds = m.wounds
        /\ n = [tab |-> n.tab, scratch |-> n.scratch, puts |-> n.puts,
                saves |-> n.saves, saved |-> n.saved, wounds |-> n.wounds]
    BY <2>1 DEF PageType
  <2>3. n.tab \in TabType
    BY <2>2 DEF PageType, TabType
  <2>4. /\ n.tab.phase = m.tab.phase /\ n.tab.active = m.tab.active
        /\ n.tab.doc = m.tab.doc /\ n.tab.dirty = None
    BY <2>2 DEF PageType, TabType
  <2>5. m.tab.dirty \in State
    BY <1>2 DEF PageType, TabType
  <2>6. put \in PutType /\ put.state = m.tab.dirty /\ put.calm = FALSE
    BY <2>5, PutTyped
  <2> HIDE DEF n, put
  <2>7. n \in PageType
    BY <2>2, <2>3, <2>6 DEF PageType
  <2>8. PageOwn(m) => PageOwn(n)
    BY <1>2, <2>2, <2>4, <2>6 DEF PageOwn
  <2>9. OneCalm(m) => OneCalm(n)
    BY <2>2, <2>6 DEF OneCalm
  <2> QED BY <2>2, <2>4, <2>7, <2>8, <2>9 DEF n
<1> QED BY <1>1, <1>2

LEMMA TeardownKeeps ==
    ASSUME NEW m \in PageType
    PROVE  LET n == Teardown(m) IN
           /\ n \in PageType
           /\ n.tab.phase = m.tab.phase
           /\ n.tab.dirty = None
           /\ "stranger" \in n.wounds <=> "stranger" \in m.wounds
           /\ OneCalm(m) => OneCalm(n)
           /\ PageOwn(m) => PageOwn(n)
<1> DEFINE k == IF m.tab.memo # None THEN SaveNow(m) ELSE m
<1>1. /\ k \in PageType
      /\ k.tab.phase = m.tab.phase
      /\ "stranger" \in k.wounds <=> "stranger" \in m.wounds
      /\ OneCalm(m) => OneCalm(k)
      /\ PageOwn(m) => PageOwn(k)
  BY SaveNowKeeps DEF OneCalm
<1>2. Teardown(m) = FlushNow(k)
  BY DEF Teardown
<1> HIDE DEF k
<1> QED BY <1>1, <1>2, FlushNowKeeps

\* What an action makes of the page is the page.
LEMMA PageBecomes ==
    ASSUME NEW m \in PageType, Becomes(m)
    PROVE  Page' = m
BY DEF Becomes, Page, PageType

\* What the types say of the variables.
LEMMA PageTypes ==
    /\ tab \in TabType /\ scratch \in State \cup {None}
    /\ puts \in SUBSET PutType /\ saves \in Nat
    /\ saved \in [World -> Doc] /\ wounds \in SUBSET Wound
    <=> Page \in PageType
BY DEF Page, PageType

-----------------------------------------------------------------------------
(* Every action keeps the invariant *)

\* The fields of the page, as an action finds them.
LEMMA Fields ==
    /\ Page.tab = tab /\ Page.scratch = scratch /\ Page.puts = puts
    /\ Page.saves = saves /\ Page.saved = saved /\ Page.wounds = wounds
BY DEF Page

LEMMA FieldsNext ==
    /\ Page'.tab = tab' /\ Page'.scratch = scratch' /\ Page'.puts = puts'
    /\ Page'.saves = saves' /\ Page'.saved = saved' /\ Page'.wounds = wounds'
BY DEF Page

LEMMA TypedNext ==
    ASSUME tab' \in TabType, scratch' \in State \cup {None},
           puts' \in SUBSET PutType, saves' \in Nat, saved' \in [World -> Doc],
           wounds' \in SUBSET Wound, row' \in RowType,
           pointer' \in World \cup {None}, get' \in GetType,
           edits' \in 0..MaxEdits
    PROVE  Typed'
BY DEF Typed, Page, PageType

LEMMA GoneTyped == Gone \in TabType
BY WorldsAssumption DEF Gone, TabType, Doc

LEMMA ShownTyped ==
    ASSUME NEW w \in World, NEW doc \in Doc
    PROVE  /\ Shown(w, doc) \in TabType
           /\ Shown(w, doc).phase = "live" /\ Shown(w, doc).dirty = None
           /\ Shown(w, doc).active = w /\ Shown(w, doc).doc = doc
BY DEF Shown, Gone, TabType

LEMMA InitIInv == Init => IInv
<1> SUFFICES ASSUME Init PROVE IInv
  OBVIOUS
<1> USE WorldsAssumption DEF Init
<1>1. row \in RowType
  <2>1. CASE row = [w \in World |-> [doc |-> {<<w, 0>>}, at |-> 0]]
    <3>1. 0 \in 0..MaxEdits
      BY DEF WorldsAssumption
    <3>2. \A w \in World : {<<w, 0>>} \in Doc
      BY <3>1 DEF Doc
    <3> QED BY <2>1, <3>2 DEF RowType
  <2>2. CASE row = [w \in World |-> None]
    BY <2>2 DEF RowType
  <2> QED BY <2>1, <2>2
<1>2. tab \in TabType
  BY GoneTyped
<1>3. saved \in [World -> Doc]
  BY DEF Doc
<1>4. Page \in PageType
  BY <1>2, <1>3, PageTypes DEF PutType
<1>5. Typed
  BY <1>1, <1>4 DEF Typed, GetType, Gone
<1>6. OneCalm(Page) /\ Scheduled(Page) /\ PageOwn(Page)
  BY Fields DEF OneCalm, Scheduled, PageOwn, Own, Gone
<1>7. EngineOwn
  BY DEF EngineOwn, Own
<1> QED BY <1>5, <1>6, <1>7 DEF IInv

\* The engine's side of the invariant holds while its state stands.
LEMMA EngineStands ==
    ASSUME EngineOwn, row' = row, get' = get,
           "stranger" \in wounds => "stranger" \in wounds'
    PROVE  EngineOwn'
BY DEF EngineOwn

\* An action that makes m of the page and leaves the rows alone.
LEMMA PageStep ==
    ASSUME IInv, NEW m \in PageType, Becomes(m),
           UNCHANGED <<row, edits>>, pointer' \in World \cup {None},
           OneCalm(m), Scheduled(m), PageOwn(m),
           EngineOwn', get' \in GetType
    PROVE  IInv'
<1>1. Page' = m
  BY PageBecomes
<1>2. tab' = m.tab
  BY DEF Becomes
<1>3. Typed'
  BY <1>1, <1>2 DEF IInv, Typed
<1>4. OneCalm(Page)' /\ Scheduled(Page)' /\ PageOwn(Page)'
  BY <1>1 DEF OneCalm, Scheduled, PageOwn
<1> QED BY <1>3, <1>4 DEF IInv

\* What IInv says, unfolded for the actions.
LEMMA Known ==
    ASSUME IInv
    PROVE  /\ Page \in PageType /\ tab \in TabType
           /\ scratch \in State \cup {None} /\ puts \in SUBSET PutType
           /\ saves \in Nat /\ saved \in [World -> Doc] /\ wounds \in SUBSET Wound
           /\ row \in RowType /\ get \in GetType
           /\ pointer \in World \cup {None} /\ edits \in 0..MaxEdits
           /\ OneCalm(Page) /\ Scheduled(Page) /\ PageOwn(Page) /\ EngineOwn
BY PageTypes DEF IInv, Typed

LEMMA EditKeeps == ASSUME IInv, Edit PROVE IInv'
<1> DEFINE mark == <<tab.active, edits'>>
<1> USE Known
<1>1. edits' \in 0..MaxEdits
  BY WorldsAssumption DEF Edit
<1>2. tab.doc \cup {mark} \in Doc
  BY <1>1 DEF TabType, Doc
<1>3. /\ tab' \in TabType
      /\ tab'.active = tab.active /\ tab'.doc = tab.doc \cup {mark}
      /\ tab'.dirty = tab.dirty /\ tab'.timer = tab.timer
      /\ tab'.phase = tab.phase
  BY <1>2 DEF Edit, TabType
<1>4. Typed'
  BY <1>1, <1>3, TypedNext DEF Edit
<1>5. OneCalm(Page)' /\ Scheduled(Page)'
  BY <1>3, Fields, FieldsNext DEF Edit, OneCalm, Scheduled
<1>6. PageOwn(Page)'
  BY <1>3, Fields, FieldsNext DEF Edit, PageOwn, Own
<1>7. EngineOwn'
  BY EngineStands DEF Edit
<1> QED BY <1>4, <1>5, <1>6, <1>7 DEF IInv

LEMMA SaveTimerKeeps == ASSUME IInv, SaveTimer PROVE IInv'
<1> DEFINE m == [Page EXCEPT !.tab.due = FALSE]
           n == SaveNow(m)
<1> USE Known
<1>1. /\ m.tab = [tab EXCEPT !.due = FALSE]
      /\ m.scratch = scratch /\ m.puts = puts /\ m.wounds = wounds
  BY Fields DEF PageType
<1>2. m \in PageType
  <2>1. m = [Page EXCEPT !.tab = [tab EXCEPT !.due = FALSE]]
    BY Fields, Zenon
  <2>2. [tab EXCEPT !.due = FALSE] \in TabType
    BY DEF TabType
  <2> QED BY <2>1, <2>2 DEF PageType
<1> HIDE DEF m
<1>3. /\ m.tab.phase = tab.phase /\ m.tab.dirty = tab.dirty
      /\ m.tab.timer = tab.timer /\ m.tab.active = tab.active
      /\ m.tab.doc = tab.doc
  BY <1>1 DEF TabType
<1>4. OneCalm(m) /\ Scheduled(m) /\ PageOwn(m)
  BY <1>1, <1>3, Fields DEF OneCalm, Scheduled, PageOwn
<1>5. /\ n \in PageType /\ Scheduled(n) /\ PageOwn(n) /\ n.puts = puts
      /\ n.tab.phase = tab.phase
      /\ "stranger" \in n.wounds <=> "stranger" \in wounds
  BY <1>1, <1>2, <1>3, <1>4, SaveNowKeeps
<1>6. OneCalm(n)
  BY <1>5, Fields DEF OneCalm
<1> HIDE DEF n
<1>7. Becomes(n) /\ UNCHANGED <<row, pointer, get, edits>>
  BY DEF SaveTimer, counters, n, m
<1>8. EngineOwn'
  BY <1>5, <1>7, EngineStands DEF Becomes
<1> QED BY <1>5, <1>6, <1>7, <1>8, PageStep

LEMMA HiddenKeeps == ASSUME IInv, Hidden PROVE IInv'
<1> DEFINE n == Teardown(Page)
<1> USE Known
<1>1. /\ n \in PageType /\ n.tab.phase = tab.phase /\ n.tab.dirty = None
      /\ "stranger" \in n.wounds <=> "stranger" \in wounds
      /\ OneCalm(n) /\ PageOwn(n)
  BY TeardownKeeps, Fields
<1>2. Scheduled(n)
  BY <1>1 DEF Scheduled
<1> HIDE DEF n
<1>3. Becomes(n) /\ UNCHANGED <<row, pointer, get, edits>>
  BY DEF Hidden, counters, n
<1>4. EngineOwn'
  BY <1>1, <1>3, EngineStands DEF Becomes
<1> QED BY <1>1, <1>2, <1>3, <1>4, PageStep

LEMMA FlushKeeps == ASSUME IInv, Flush PROVE IInv'
<1> USE Known
<1>1. CASE tab.dirty = None \/ Syncing
  <2>1. tab' = [tab EXCEPT !.timer = FALSE] /\ puts' = puts
    BY <1>1 DEF Flush
  <2>2. /\ tab' \in TabType /\ tab'.dirty = tab.dirty /\ tab'.phase = tab.phase
        /\ tab'.active = tab.active /\ tab'.doc = tab.doc
    BY <2>1 DEF TabType
  <2>3. Typed'
    BY <2>1, <2>2, TypedNext DEF Flush, counters
  <2>4. OneCalm(Page)' /\ Scheduled(Page)'
    BY <1>1, <2>1, <2>2, Fields, FieldsNext DEF OneCalm, Scheduled, Syncing
  <2>5. PageOwn(Page)'
    BY <2>1, <2>2, Fields, FieldsNext DEF Flush, PageOwn
  <2>6. EngineOwn'
    BY EngineStands DEF Flush
  <2> QED BY <2>3, <2>4, <2>5, <2>6 DEF IInv
<1>2. CASE tab.dirty # None /\ ~Syncing
  <2> DEFINE put == Put(tab.dirty, TRUE)
  <2>1. /\ tab' = [tab EXCEPT !.timer = FALSE, !.dirty = None]
        /\ puts' = puts \cup {put}
    BY <1>2 DEF Flush
  <2>2. /\ tab' \in TabType /\ tab'.dirty = None /\ tab'.phase = tab.phase
        /\ tab'.active = tab.active /\ tab'.doc = tab.doc
    BY <2>1 DEF TabType
  <2>3. tab.dirty \in State
    BY <1>2 DEF TabType
  <2>4. put \in PutType /\ put.state = tab.dirty /\ put.calm
    BY <2>3, PutTyped
  <2> HIDE DEF put
  <2>5. Typed'
    BY <2>1, <2>2, <2>4, TypedNext DEF Flush, counters
  <2>6. OneCalm(Page)'
    BY <1>2, <2>1, Fields, FieldsNext DEF OneCalm, Syncing
  <2>7. Scheduled(Page)'
    BY <2>2, Fields, FieldsNext DEF Scheduled
  <2>8. PageOwn(Page)'
    BY <1>2, <2>1, <2>2, <2>4, Fields, FieldsNext DEF Flush, PageOwn
  <2>9. EngineOwn'
    BY EngineStands DEF Flush
  <2> QED BY <2>5, <2>6, <2>7, <2>8, <2>9 DEF IInv
<1> QED BY <1>1, <1>2

LEMMA PutLandsKeeps == ASSUME IInv, PutLands PROVE IInv'
<1> USE Known
<1> PICK p \in puts :
       /\ row' = [row EXCEPT ![p.state.id] = [doc |-> p.state.doc, at |-> p.state.at]]
       /\ puts' = IF p.calm THEN (puts \ {p}) \cup {[p EXCEPT !.landed = TRUE]}
                             ELSE puts \ {p}
       /\ wounds' = wounds \cup
            IF row[p.state.id] # None /\ row[p.state.id].at > p.state.at
            THEN {"late"} ELSE {}
       /\ UNCHANGED <<scratch, pointer, tab, get, counters, saves, saved>>
  BY DEF PutLands
<1> DEFINE q == [p EXCEPT !.landed = TRUE]
<1>1. /\ p \in PutType /\ p.state \in State
      /\ p.state.id \in World /\ p.state.doc \in Doc /\ p.state.at \in Nat
  BY DEF PutType, State
<1>2. q \in PutType /\ q.state = p.state /\ q.calm = p.calm
  BY <1>1 DEF PutType
<1> HIDE DEF q
<1>3. puts' \in SUBSET PutType /\ puts' \subseteq puts \cup {q}
  BY <1>2 DEF q
<1>4. p.calm => q \in puts'
  BY DEF q
<1>5. \A r \in puts : r \in puts' \/ r = p
  OBVIOUS
<1>6. wounds' \in SUBSET Wound /\ ("stranger" \in wounds => "stranger" \in wounds')
  BY DEF Wound
<1>7. row' \in RowType
  BY <1>1 DEF RowType
<1>8. Typed'
  BY <1>3, <1>6, <1>7, TypedNext DEF counters
<1>9. OneCalm(Page)'
  <2>1. \A r \in puts' : r = q \/ (r \in puts /\ (r = p => ~p.calm))
    BY DEF q
  <2> QED BY <1>2, <2>1, Fields, FieldsNext DEF OneCalm
<1>10. Scheduled(Page)'
  BY <1>2, <1>4, <1>5, Fields, FieldsNext DEF Scheduled
<1>11. PageOwn(Page)'
  BY <1>2, <1>3, <1>6, Fields, FieldsNext DEF PageOwn
<1>12. EngineOwn'
  <2> SUFFICES ASSUME "stranger" \notin wounds'
      PROVE  /\ \A w \in World : row'[w] # None => Own(row'[w].doc, w)
             /\ get' # None /\ get'.doc # Unread => Own(get'.doc, get'.id)
    BY DEF EngineOwn
  <2>1. Own(p.state.doc, p.state.id)
    BY <1>6, Fields DEF PageOwn
  <2>2. ASSUME NEW w \in World, row'[w] # None PROVE Own(row'[w].doc, w)
    <3>1. CASE w = p.state.id
      BY <1>1, <2>1, <3>1 DEF RowType
    <3>2. CASE w # p.state.id
      <4>1. row'[w] = row[w]
        BY <3>2 DEF RowType
      <4> QED BY <1>6, <2>2, <4>1 DEF EngineOwn
    <3> QED BY <3>1, <3>2
  <2> QED BY <1>6, <2>2 DEF EngineOwn
<1> QED BY <1>8, <1>9, <1>10, <1>11, <1>12 DEF IInv

LEMMA RearmedTyped ==
    ASSUME NEW t \in TabType
    PROVE  LET u == Rearmed(t) IN
           /\ u \in TabType /\ u.dirty = t.dirty /\ u.doc = t.doc
           /\ u.active = t.active /\ u.phase = t.phase
           /\ u.dirty # None => u.timer
BY DEF Rearmed, TabType

LEMMA RestoredTyped ==
    ASSUME NEW t \in TabType, NEW st \in State
    PROVE  LET u == Restored(t, st) IN
           /\ u \in TabType /\ u.dirty \in {t.dirty, st} /\ u.doc = t.doc
           /\ u.active = t.active /\ u.phase = t.phase
BY DEF Restored, TabType

LEMMA PutAnsweredKeeps == ASSUME IInv, PutAnswered PROVE IInv'
<1> USE Known
<1>1. /\ puts' \subseteq puts /\ tab' = Rearmed(tab)
      /\ UNCHANGED <<row, scratch, pointer, get, counters, saves, saved, wounds>>
  BY DEF PutAnswered
<1>2. /\ tab' \in TabType /\ tab'.dirty = tab.dirty /\ tab'.doc = tab.doc
      /\ tab'.active = tab.active /\ tab'.phase = tab.phase
      /\ tab'.dirty # None => tab'.timer
  BY <1>1, RearmedTyped
<1>3. Typed'
  BY <1>1, <1>2, TypedNext DEF counters
<1>4. OneCalm(Page)' /\ Scheduled(Page)'
  BY <1>1, <1>2, Fields, FieldsNext DEF OneCalm, Scheduled
<1>5. PageOwn(Page)'
  BY <1>1, <1>2, Fields, FieldsNext DEF PageOwn
<1>6. EngineOwn'
  BY <1>1, EngineStands
<1> QED BY <1>3, <1>4, <1>5, <1>6 DEF IInv

LEMMA CalmFailsKeeps == ASSUME IInv, CalmFails PROVE IInv'
<1> USE Known
<1> PICK p \in puts :
       /\ puts' = puts \ {p}
       /\ tab' = Rearmed(Restored(tab, p.state))
       /\ wounds' = wounds \cup
            IF ~p.landed /\ tab.dirty # None /\ tab.dirty.id # p.state.id
            THEN {"overwritten"} ELSE {}
  BY DEF CalmFails
<1> DEFINE t == Restored(tab, p.state)
<1>1. p.state \in State
  BY DEF PutType
<1>2. /\ t \in TabType /\ t.dirty \in {tab.dirty, p.state} /\ t.doc = tab.doc
      /\ t.active = tab.active /\ t.phase = tab.phase
  BY <1>1, RestoredTyped
<1> HIDE DEF t
<1>3. /\ tab' \in TabType /\ tab'.dirty = t.dirty /\ tab'.doc = t.doc
      /\ tab'.active = t.active /\ tab'.phase = t.phase
      /\ tab'.dirty # None => tab'.timer
  BY <1>2, RearmedTyped DEF t
<1>4. /\ wounds' \in SUBSET Wound
      /\ "stranger" \in wounds <=> "stranger" \in wounds'
  BY DEF Wound
<1>5. Typed'
  BY <1>2, <1>3, <1>4, TypedNext DEF CalmFails
<1>6. OneCalm(Page)' /\ Scheduled(Page)'
  BY <1>3, Fields, FieldsNext DEF OneCalm, Scheduled
<1>7. PageOwn(Page)'
  BY <1>2, <1>3, <1>4, Fields, FieldsNext DEF PageOwn, CalmFails
<1>8. EngineOwn'
  BY <1>4, EngineStands DEF CalmFails
<1> QED BY <1>5, <1>6, <1>7, <1>8 DEF IInv

LEMMA NowFailsKeeps == ASSUME IInv, NowFails PROVE IInv'
<1> USE Known
<1>1. /\ puts' \subseteq puts
      /\ \A p \in puts : p.calm => p \in puts'
      /\ wounds' \in SUBSET Wound
      /\ "stranger" \in wounds <=> "stranger" \in wounds'
  BY DEF NowFails, Wound
<1>2. Typed'
  BY <1>1, TypedNext DEF NowFails
<1>3. OneCalm(Page)' /\ Scheduled(Page)'
  BY <1>1, Fields, FieldsNext DEF NowFails, OneCalm, Scheduled
<1>4. PageOwn(Page)'
  BY <1>1, Fields, FieldsNext DEF NowFails, PageOwn
<1>5. EngineOwn'
  BY <1>1, EngineStands DEF NowFails
<1> QED BY <1>2, <1>3, <1>4, <1>5 DEF IInv

\* Whatever page dies, what is left is in order.
LEMMA DiesKeeps ==
    ASSUME IInv, NEW m \in PageType, Dies(m), PageOwn(m),
           "stranger" \in wounds => "stranger" \in m.wounds
    PROVE  IInv'
<1> USE Known
<1> DEFINE left == {[p EXCEPT !.calm = FALSE] : p \in {q \in m.puts : ~q.landed}}
           hurt == m.wounds \cup IF /\ m.tab.dirty # None
                                   /\ m.tab.dirty.id # m.scratch.id
                                 THEN {"died"} ELSE {}
<1>1. /\ tab' = Gone /\ scratch' = m.scratch /\ puts' = left
      /\ saves' = m.saves /\ saved' = m.saved /\ wounds' = hurt
      /\ get' = None /\ UNCHANGED <<row, pointer, counters>>
  BY DEF Dies, Becomes, PageType
<1>2. /\ hurt \in SUBSET Wound
      /\ "stranger" \in hurt <=> "stranger" \in m.wounds
  BY DEF PageType, Wound
<1>3. \A r \in left : /\ r \in PutType /\ ~r.calm
                      /\ \E p \in m.puts : r.state = p.state
  BY DEF PageType, PutType
<1> HIDE DEF left, hurt
<1>4. /\ Gone \in TabType /\ Gone.dirty = None /\ Gone.phase = "down"
      /\ Gone.doc = {}
  BY GoneTyped DEF Gone
<1>5. Typed'
  BY <1>1, <1>2, <1>3, <1>4, TypedNext DEF PageType, GetType, counters
<1>6. OneCalm(Page)' /\ Scheduled(Page)'
  BY <1>1, <1>3, <1>4, FieldsNext DEF OneCalm, Scheduled
<1>7. PageOwn(Page)'
  <2>1. \A p \in left : PageOwn(m) /\ "stranger" \notin m.wounds
                        => Own(p.state.doc, p.state.id)
    BY <1>3 DEF PageOwn
  <2> QED BY <1>1, <1>2, <1>4, <2>1, FieldsNext DEF PageOwn, Own
<1>8. EngineOwn'
  BY <1>1, <1>2 DEF EngineOwn
<1> QED BY <1>5, <1>6, <1>7, <1>8 DEF IInv

LEMMA CloseKeeps == ASSUME IInv, Close PROVE IInv'
<1> DEFINE m == Teardown(Page)
<1>1. /\ m \in PageType /\ PageOwn(m)
      /\ "stranger" \in wounds => "stranger" \in m.wounds
  BY Known, TeardownKeeps, Fields
<1>2. Dies(m)
  BY DEF Close
<1> HIDE DEF m
<1> QED BY <1>1, <1>2, DiesKeeps

LEMMA KillKeeps == ASSUME IInv, Kill PROVE IInv'
BY Known, DiesKeeps, Fields DEF Kill

LEMMA EvictKeeps == ASSUME IInv, Evict PROVE IInv'
<1> USE Known
<1>1. /\ wounds' \in SUBSET Wound
      /\ "stranger" \in wounds <=> "stranger" \in wounds'
  BY DEF Evict, Wound
<1>2. Typed'
  BY <1>1, TypedNext DEF Evict
<1>3. OneCalm(Page)' /\ Scheduled(Page)'
  BY Fields, FieldsNext DEF Evict, OneCalm, Scheduled
<1>4. PageOwn(Page)'
  BY <1>1, Fields, FieldsNext DEF Evict, PageOwn
<1>5. EngineOwn'
  BY <1>1, EngineStands DEF Evict
<1> QED BY <1>2, <1>3, <1>4, <1>5 DEF IInv

-----------------------------------------------------------------------------
(* The page that comes *)

\* A page that comes has nothing to send, and shows what is its own unless it
\* is marked.
LEMMA ComesKeeps ==
    ASSUME IInv, tab' \in TabType, tab'.dirty = None,
           UNCHANGED <<scratch, puts, edits, saves, saved>>,
           wounds' \in SUBSET Wound, "stranger" \in wounds => "stranger" \in wounds',
           "stranger" \notin wounds' => Own(tab'.doc, tab'.active),
           row' \in RowType, get' \in GetType, pointer' \in World \cup {None},
           EngineOwn'
    PROVE  IInv'
<1> USE Known
<1>1. Typed'
  BY TypedNext
<1>2. OneCalm(Page)' /\ Scheduled(Page)'
  BY Fields, FieldsNext DEF OneCalm, Scheduled
<1>3. PageOwn(Page)'
  BY Fields, FieldsNext DEF PageOwn
<1> QED BY <1>1, <1>2, <1>3 DEF IInv

\* The scratch, under the id of w, is w's own unless the misreading is marked.
LEMMA ScratchOwn ==
    ASSUME IInv, NEW w \in World, wounds' = wounds \cup Misread(w)
    PROVE  /\ Scratch \in Doc
           /\ wounds' \in SUBSET Wound
           /\ "stranger" \in wounds => "stranger" \in wounds'
           /\ "stranger" \notin wounds' => Own(Scratch, w)
<1> USE Known
<1>1. Scratch \in Doc
  BY DEF Scratch, State, Doc
<1>2. wounds' \in SUBSET Wound
  BY DEF Misread, Wound
<1>3. ASSUME "stranger" \notin wounds' PROVE Own(Scratch, w)
  <2>1. CASE scratch = None
    BY <2>1 DEF Scratch, Own
  <2>2. CASE scratch # None
    <3>1. scratch.id = w /\ "stranger" \notin wounds
      BY <1>3, <2>2 DEF Misread
    <3> QED BY <2>2, <3>1, Fields DEF PageOwn, Scratch
  <2> QED BY <2>1, <2>2
<1> QED BY <1>1, <1>2, <1>3

LEMMA BootHealsKeeps == ASSUME IInv, BootHeals PROVE IInv'
<1> USE Known
<1>1. PICK w \in World : /\ Fresher(w)
                        /\ tab' = Shown(w, scratch.doc)
                        /\ pointer' = w
  BY DEF BootHeals, Current
<1>2. scratch # None /\ scratch.id = w /\ scratch \in State
  BY <1>1 DEF Fresher, Unsynced
<1>3. scratch.doc \in Doc
  BY <1>2 DEF State
<1>4. /\ tab' \in TabType /\ tab'.dirty = None /\ tab'.phase = "live"
      /\ tab'.active = w /\ tab'.doc = scratch.doc
  BY <1>1, <1>3, ShownTyped
<1>5. "stranger" \notin wounds => Own(scratch.doc, w)
  BY <1>2, Fields DEF PageOwn
<1>6. EngineOwn'
  BY EngineStands DEF BootHeals
<1>7. UNCHANGED <<row, scratch, get, wounds, puts, edits, saves, saved>>
  BY DEF BootHeals, Comes
<1> QED BY <1>1, <1>4, <1>5, <1>6, <1>7, ComesKeeps

LEMMA BootFromRowKeeps == ASSUME IInv, BootFromRow PROVE IInv'
<1> USE Known
<1>1. PICK w \in World : /\ tab' = [Gone EXCEPT !.phase = "restoring", !.active = w]
                        /\ get' = [id |-> w, doc |-> Unread]
                        /\ pointer' = w
                        /\ wounds' = wounds \cup IF Fresher(w) THEN {"skew"}
                                      ELSE IF Unsynced THEN {"left"} ELSE {}
  BY DEF BootFromRow, Current
<1>2. UNCHANGED <<row, scratch, puts, edits, saves, saved>>
  BY DEF BootFromRow, Comes
<1>3. tab' \in TabType /\ tab'.dirty = None /\ tab'.doc = {}
  BY <1>1, GoneTyped DEF TabType, Gone
<1>4. /\ wounds' \in SUBSET Wound
      /\ "stranger" \in wounds <=> "stranger" \in wounds'
  BY <1>1 DEF Wound
<1>5. get' \in GetType /\ get'.doc = Unread
  BY <1>1 DEF GetType
<1>6. EngineOwn'
  BY <1>2, <1>4, <1>5 DEF EngineOwn
<1>7. Own(tab'.doc, tab'.active)
  BY <1>3 DEF Own
<1> QED BY <1>1, <1>2, <1>3, <1>4, <1>5, <1>6, <1>7, ComesKeeps

LEMMA BootOfflineKeeps == ASSUME IInv, BootOffline PROVE IInv'
<1> USE Known
<1>1. /\ tab' = Shown(Home, Scratch) /\ pointer' = Home /\ Home \in World
      /\ wounds' = wounds \cup Misread(Home)
      /\ UNCHANGED <<row, scratch, get, puts, edits, saves, saved>>
  BY WorldsAssumption DEF BootOffline, Comes
<1>2. /\ Scratch \in Doc /\ wounds' \in SUBSET Wound
      /\ "stranger" \in wounds => "stranger" \in wounds'
      /\ "stranger" \notin wounds' => Own(Scratch, Home)
  BY <1>1, ScratchOwn
<1>3. /\ tab' \in TabType /\ tab'.dirty = None /\ tab'.phase = "live"
      /\ tab'.active = Home /\ tab'.doc = Scratch
  BY <1>1, <1>2, ShownTyped
<1>4. EngineOwn'
  BY <1>1, <1>2, EngineStands
<1> QED BY <1>1, <1>2, <1>3, <1>4, ComesKeeps

LEMMA BootMigratesKeeps == ASSUME IInv, BootMigrates PROVE IInv'
<1> USE Known
<1>1. /\ tab' = Shown(Home, Scratch) /\ pointer' = Home /\ Home \in World
      /\ wounds' = wounds \cup Misread(Home)
      /\ UNCHANGED <<scratch, get, puts, edits, saves, saved>>
      /\ \/ row' = [row EXCEPT ![Home] = [doc |-> Scratch, at |-> ScratchAt]]
         \/ row' = row
  BY WorldsAssumption DEF BootMigrates, Comes
<1>2. /\ Scratch \in Doc /\ wounds' \in SUBSET Wound
      /\ "stranger" \in wounds => "stranger" \in wounds'
      /\ "stranger" \notin wounds' => Own(Scratch, Home)
  BY <1>1, ScratchOwn
<1>3. /\ tab' \in TabType /\ tab'.dirty = None /\ tab'.phase = "live"
      /\ tab'.active = Home /\ tab'.doc = Scratch
  BY <1>1, <1>2, ShownTyped
<1>4. ScratchAt \in Nat
  BY DEF ScratchAt, State
<1>5. row' \in RowType
  BY <1>1, <1>2, <1>4 DEF RowType
<1>6. EngineOwn'
  <2>1. CASE row' = row
    BY <1>1, <1>2, <2>1, EngineStands
  <2>2. CASE row' = [row EXCEPT ![Home] = [doc |-> Scratch, at |-> ScratchAt]]
    <3>1. row'[Home].doc = Scratch /\ \A w \in World \ {Home} : row'[w] = row[w]
      BY <1>1, <2>2 DEF RowType
    <3> QED BY <1>1, <1>2, <3>1 DEF EngineOwn
  <2> QED BY <1>1, <2>1, <2>2
<1> QED BY <1>1, <1>2, <1>3, <1>5, <1>6, ComesKeeps

LEMMA RestoreKeeps == ASSUME IInv, Restore PROVE IInv'
<1> USE Known
<1>1. /\ get' = None /\ UNCHANGED <<row, scratch, pointer, puts, edits, saves, saved>>
      /\ get # None
  BY DEF Restore
<1>2. /\ get.id \in World /\ get.doc \in Doc \cup {Unread}
  BY <1>1 DEF GetType
<1>3. CASE get.doc # Unread /\ tab' = Shown(get.id, get.doc) /\ wounds' = wounds
  <2>1. /\ tab' \in TabType /\ tab'.dirty = None /\ tab'.phase = "live"
        /\ tab'.active = get.id /\ tab'.doc = get.doc
    BY <1>2, <1>3, ShownTyped
  <2>2. "stranger" \notin wounds => Own(get.doc, get.id)
    BY <1>1, <1>3 DEF EngineOwn
  <2>3. EngineOwn' /\ get' \in GetType
    BY <1>1, <1>3 DEF EngineOwn, GetType
  <2> QED BY <1>1, <1>3, <2>1, <2>2, <2>3, ComesKeeps
<1>4. CASE tab' = Shown(get.id, Scratch) /\ wounds' = wounds \cup Misread(get.id)
  <2>1. /\ Scratch \in Doc /\ wounds' \in SUBSET Wound
        /\ "stranger" \in wounds => "stranger" \in wounds'
        /\ "stranger" \notin wounds' => Own(Scratch, get.id)
    BY <1>2, <1>4, ScratchOwn
  <2>2. /\ tab' \in TabType /\ tab'.dirty = None /\ tab'.phase = "live"
        /\ tab'.active = get.id /\ tab'.doc = Scratch
    BY <1>2, <1>4, <2>1, ShownTyped
  <2>3. EngineOwn' /\ get' \in GetType
    BY <1>1, <2>1 DEF EngineOwn, GetType
  <2> QED BY <1>1, <2>1, <2>2, <2>3, ComesKeeps
<1> QED BY <1>3, <1>4 DEF Restore

LEMMA ServeGetKeeps == ASSUME IInv, ServeGet PROVE IInv'
<1> USE Known
<1>1. /\ get # None /\ row[get.id] # None
      /\ get' = [get EXCEPT !.doc = row[get.id].doc]
      /\ UNCHANGED <<row, scratch, pointer, tab, puts, counters, saves, saved>>
  BY DEF ServeGet
<1>2. get \in [id : World, doc : Doc \cup {Unread}]
  BY <1>1 DEF GetType
<1>3. row[get.id].doc \in Doc
  BY <1>1, <1>2 DEF RowType
<1>4. /\ get' \in [id : World, doc : Doc \cup {Unread}]
      /\ get'.id = get.id /\ get'.doc = row[get.id].doc
  BY <1>1, <1>2, <1>3
<1>5. /\ wounds' \in SUBSET Wound
      /\ "stranger" \in wounds <=> "stranger" \in wounds'
  BY DEF ServeGet, Wound
<1>7. Typed'
  BY <1>1, <1>4, <1>5, TypedNext DEF GetType, counters
<1>8. OneCalm(Page)' /\ Scheduled(Page)'
  BY <1>1, Fields, FieldsNext DEF OneCalm, Scheduled
<1>9. PageOwn(Page)'
  BY <1>1, <1>5, Fields, FieldsNext DEF PageOwn
<1>10. EngineOwn'
  BY <1>1, <1>2, <1>4, <1>5 DEF EngineOwn
<1> QED BY <1>7, <1>8, <1>9, <1>10 DEF IInv

-----------------------------------------------------------------------------
(* Switching *)

LEMMA CreateKeeps == ASSUME IInv, Create PROVE IInv'
<1> USE Known
<1>1. PICK w \in World : row' = [row EXCEPT ![w] = [doc |-> {<<w, 0>>}, at |-> saves]]
  BY DEF Create
<1>2. /\ UNCHANGED <<pointer, get, edits>>
      /\ UNCHANGED <<tab, scratch, puts, saves, saved, wounds>>
  BY DEF Create, page, counters
<1>3. {<<w, 0>>} \in Doc
  BY WorldsAssumption DEF Doc
<1>4. row' \in RowType
  BY <1>1, <1>3 DEF RowType
<1>5. Typed'
  BY <1>2, <1>4, TypedNext
<1>6. OneCalm(Page)' /\ Scheduled(Page)'
  BY <1>2, Fields, FieldsNext DEF OneCalm, Scheduled
<1>7. PageOwn(Page)'
  BY <1>2, Fields, FieldsNext DEF PageOwn
<1>8. EngineOwn'
  <2>1. row'[w].doc = {<<w, 0>>} /\ \A v \in World \ {w} : row'[v] = row[v]
    BY <1>1 DEF RowType
  <2> QED BY <1>2, <2>1 DEF EngineOwn, Own
<1> QED BY <1>5, <1>6, <1>7, <1>8 DEF IInv

\* A world is frozen: saved, and flushed.
LEMMA FreezeKeeps ==
    ASSUME NEW m \in PageType, OneCalm(m), PageOwn(m)
    PROVE  LET n == FlushNow(SaveNow(m)) IN
           /\ n \in PageType
           /\ OneCalm(n) /\ Scheduled(n) /\ PageOwn(n)
           /\ "stranger" \in n.wounds <=> "stranger" \in m.wounds
<1> DEFINE k == SaveNow(m)
           n == FlushNow(k)
<1>1. /\ k \in PageType /\ PageOwn(k) /\ k.puts = m.puts
      /\ "stranger" \in k.wounds <=> "stranger" \in m.wounds
  BY SaveNowKeeps
<1>2. OneCalm(k)
  BY <1>1 DEF OneCalm
<1> HIDE DEF k
<1>3. /\ n \in PageType /\ n.tab.dirty = None /\ n.wounds = k.wounds
      /\ OneCalm(n) /\ PageOwn(n)
  BY <1>1, <1>2, FlushNowKeeps
<1>4. Scheduled(n)
  BY <1>3 DEF Scheduled
<1> HIDE DEF n
<1> QED BY <1>1, <1>3, <1>4 DEF n, k

LEMMA SwitchStartKeeps == ASSUME IInv, SwitchStart PROVE IInv'
<1> DEFINE n == FlushNow(SaveNow(Page))
<1> USE Known
<1>1. /\ n \in PageType /\ OneCalm(n) /\ Scheduled(n) /\ PageOwn(n)
      /\ "stranger" \in n.wounds <=> "stranger" \in wounds
  BY FreezeKeeps, Fields
<1> HIDE DEF n
<1>2. Becomes(n) /\ UNCHANGED <<row, pointer, edits>>
  BY DEF SwitchStart, n
<1>3. PICK w \in World : get' = [id |-> w, doc |-> Unread]
  BY DEF SwitchStart
<1>4. get' \in GetType /\ get'.doc = Unread
  BY <1>3 DEF GetType
<1>5. EngineOwn'
  BY <1>1, <1>2, <1>4 DEF EngineOwn, Becomes
<1> QED BY <1>1, <1>2, <1>4, <1>5, PageStep

LEMMA SwitchLandsKeeps == ASSUME IInv, SwitchLands PROVE IInv'
<1> DEFINE other == [tab EXCEPT !.active = get.id, !.doc = get.doc, !.memo = None]
           m == [Page EXCEPT !.tab = other]
           n == FlushNow(SaveNow(m))
<1> USE Known
<1>1. /\ get # None /\ get.doc # Unread /\ get' = None /\ pointer' = get.id
      /\ Becomes(n) /\ UNCHANGED <<row, edits>>
  BY DEF SwitchLands, counters
<1>2. get.id \in World /\ get.doc \in Doc
  BY <1>1 DEF GetType, Unread
<1>3. /\ other \in TabType /\ other.active = get.id /\ other.doc = get.doc
      /\ other.dirty = tab.dirty /\ other.timer = tab.timer
  BY <1>2 DEF TabType
<1> HIDE DEF other
<1>4. /\ m \in PageType /\ m.tab = other /\ m.scratch = scratch
      /\ m.puts = puts /\ m.wounds = wounds
  BY <1>3, Fields DEF PageType
<1> HIDE DEF m
<1>5. OneCalm(m)
  BY <1>4, Fields DEF OneCalm
<1>6. PageOwn(m)
  <2>1. "stranger" \notin wounds => Own(get.doc, get.id)
    BY <1>1 DEF EngineOwn
  <2> QED BY <1>3, <1>4, <2>1, Fields DEF PageOwn
<1>7. /\ n \in PageType /\ OneCalm(n) /\ Scheduled(n) /\ PageOwn(n)
      /\ "stranger" \in n.wounds <=> "stranger" \in wounds
  BY <1>4, <1>5, <1>6, FreezeKeeps
<1> HIDE DEF n
<1>8. EngineOwn' /\ get' \in GetType
  BY <1>1, <1>7 DEF EngineOwn, Becomes, GetType
<1> QED BY <1>1, <1>2, <1>7, <1>8, PageStep

LEMMA SwitchFailsKeeps == ASSUME IInv, SwitchFails PROVE IInv'
<1> USE Known
<1>1. Typed'
  BY TypedNext DEF SwitchFails, GetType
<1>2. OneCalm(Page)' /\ Scheduled(Page)'
  BY Fields, FieldsNext DEF SwitchFails, OneCalm, Scheduled
<1>3. PageOwn(Page)'
  BY Fields, FieldsNext DEF SwitchFails, PageOwn
<1>4. EngineOwn'
  BY DEF SwitchFails, EngineOwn
<1> QED BY <1>1, <1>2, <1>3, <1>4 DEF IInv

-----------------------------------------------------------------------------
(* The theorems *)

LEMMA StepIInv == IInv /\ [Next]_vars => IInv'
<1> SUFFICES ASSUME IInv, [Next]_vars PROVE IInv'
  OBVIOUS
<1>1. CASE PageNext
  BY <1>1, EditKeeps, SaveTimerKeeps, FlushKeeps, HiddenKeeps, CloseKeeps,
     KillKeeps, PutAnsweredKeeps, CalmFailsKeeps, NowFailsKeeps DEF PageNext
<1>2. CASE BootNext
  BY <1>2, BootHealsKeeps, BootFromRowKeeps, BootOfflineKeeps,
     BootMigratesKeeps, RestoreKeeps DEF BootNext
<1>3. CASE SwitchNext
  BY <1>3, CreateKeeps, SwitchStartKeeps, SwitchLandsKeeps, SwitchFailsKeeps
     DEF SwitchNext
<1>4. CASE PutLands \/ ServeGet \/ Evict
  BY <1>4, PutLandsKeeps, ServeGetKeeps, EvictKeeps
<1>5. CASE UNCHANGED vars
  BY <1>5 DEF vars, IInv, Typed, Page, OneCalm, Scheduled, PageOwn, EngineOwn
<1> QED BY <1>1, <1>2, <1>3, <1>4, <1>5 DEF Next

LEMMA AlwaysIInv == Spec => []IInv
BY InitIInv, StepIInv, PTL DEF Spec

\* The types hold, and `syncing` admits one calm PUT at a time.
THEOREM TypeCorrect == Spec => []TypeOK
<1>1. IInv => TypeOK
  BY Known, Fields DEF TypeOK, TabType, PutType, RowType, GetType, OneCalm
<1> QED BY <1>1, AlwaysIInv, PTL

\* "the payload belongs to ITS world": whatever fails, crashes, switches or is
\* reordered, a row carries its own world's content, unless a boot showed the
\* scratch of one world as another.
THEOREM RowsKeepTheirWorld == Spec => []OwnWorldUnlessCrossed
<1>1. IInv => OwnWorldUnlessCrossed
  <2> SUFFICES ASSUME IInv, "stranger" \notin wounds,
                      NEW w \in World, row[w] # None
      PROVE  OfWorld(row[w].doc, w) = row[w].doc
    BY DEF OwnWorldUnlessCrossed, OwnWorld
  <2>1. Own(row[w].doc, w)
    BY DEF IInv, EngineOwn
  <2> QED BY <2>1 DEF Own, OfWorld
<1> QED BY <1>1, AlwaysIInv, PTL

\* A payload that waits has a timer, or a calm PUT whose end will set one: no
\* save is left behind without a next flush.
THEOREM PayloadsAreScheduled == Spec => []PayloadIsScheduled
<1>1. IInv => PayloadIsScheduled
  BY Fields DEF IInv, Scheduled, PayloadIsScheduled, Syncing
<1> QED BY <1>1, AlwaysIInv, PTL

-----------------------------------------------------------------------------
(* What was saved is kept *)

\* The state a row is, with its world.
RowState(r, w) == [id |-> w, doc |-> r[w].doc, at |-> r[w].at]

\* The states that the rows r have, a PUT of page m carries, or the dirty slot
\* will send: what is left if the scratch goes to another world.
Held(m, r) ==
    {RowState(r, w) : w \in {v \in World : r[v] # None}}
        \cup {p.state : p \in m.puts} \cup ({m.tab.dirty} \ {None})

\* ... and with the scratch.
Copies(m, r) == Held(m, r) \cup ({m.scratch} \ {None})

\* No state of the world of st in S is younger.
Newest(S, st) == \A y \in S : y.id = st.id => y.at <= st.at

\* For each state of S there is one in T of its world, no older.
Covers(T, S) == \A y \in S : \E z \in T : z.id = y.id /\ y.at <= z.at

\* The newest state of a world has everything that was saved in it.
Tells(S, kept) == \A st \in S : Newest(S, st) => kept[st.id] \subseteq st.doc

\* The scratch of w may be all there is: the page died before its payload left,
\* or has come back from it and not saved yet.
Alone(m, w) ==
    /\ m.scratch # None /\ m.scratch.id = w
    /\ \/ m.tab.phase = "down"
       \/ m.tab.phase = "live" /\ m.tab.active = w /\ m.tab.memo = None

Has(H, S, w) == \E st \in H : st.id = w /\ Newest(S, st)

\* Otherwise the newest state of w is held without it.
Rests(m, r) ==
    \A w \in World : m.saved[w] # {} /\ ~Alone(m, w) => Has(Held(m, r), Copies(m, r), w)

Backed(m, r) ==
    /\ Tells(Copies(m, r), m.saved)
    /\ Rests(m, r)
    /\ \A st \in Copies(m, r) : st.at <= m.saves

\* The scratch is the last save, the dirty slot younger than a calm PUT, a row
\* no older than a PUT that landed.
Dated(m, r) ==
    /\ m.scratch # None =>
         m.scratch.at = m.saves /\ m.saved[m.scratch.id] \subseteq m.scratch.doc
    /\ \A p \in m.puts : p.calm /\ m.tab.dirty # None => m.tab.dirty.at > p.state.at
    /\ \A p \in m.puts : p.landed => r[p.state.id] # None /\ p.state.at <= r[p.state.id].at

\* A page shows all that was saved in its world, which has a row; without a
\* page nothing is dirty and nobody waits for a PUT; what was dirty was saved.
Rooted(m, r) ==
    /\ \A w \in World \ {Home} : r[w] = None => m.saved[w] = {}
    /\ m.tab.phase = "live" =>
         /\ m.saved[m.tab.active] \subseteq m.tab.doc
         /\ m.tab.active # Home => r[m.tab.active] # None
    /\ m.tab.phase # "live" =>
         m.tab.dirty = None /\ ~m.tab.due /\ \A p \in m.puts : ~p.calm
    /\ m.tab.dirty # None \/ (\E p \in m.puts : p.calm) => m.scratch # None

PageKept(m, r) == Backed(m, r) /\ Dated(m, r) /\ Rooted(m, r)

\* A row that was read has all that was saved in its world; a switch goes to
\* another world, from a page that was saved.
GetKept(m, g, r) ==
    /\ g # None => r[g.id] # None /\ (g.doc # Unread => m.saved[g.id] \subseteq g.doc)
    /\ m.tab.phase = "restoring" => g # None /\ g.id = m.tab.active
    /\ m.tab.phase = "live" /\ g # None => g.id # m.tab.active /\ m.tab.memo # None
    /\ m.tab.phase = "down" => g = None

KeptInv == wounds = {} => PageKept(Page, row) /\ GetKept(Page, get, row)

LEMMA HeldTyped ==
    ASSUME NEW m \in PageType, NEW r \in RowType
    PROVE  /\ Held(m, r) \subseteq State
           /\ Copies(m, r) \subseteq State
           /\ Held(m, r) \subseteq Copies(m, r)
<1>1. ASSUME NEW w \in World, r[w] # None PROVE RowState(r, w) \in State
  BY <1>1 DEF RowType, RowState, State
<1>2. \A p \in m.puts : p.state \in State
  BY DEF PageType, PutType
<1>3. /\ m.tab.dirty # None => m.tab.dirty \in State
      /\ m.scratch # None => m.scratch \in State
  BY DEF PageType, TabType
<1> QED BY <1>1, <1>2, <1>3 DEF Held, Copies

\* The newest state stays the newest while states go that others cover.
LEMMA ThinTells ==
    ASSUME NEW S \in SUBSET State, NEW T \in SUBSET S, Covers(T, S),
           NEW kept, Tells(S, kept)
    PROVE  Tells(T, kept)
<1> SUFFICES ASSUME NEW st \in T, Newest(T, st) PROVE kept[st.id] \subseteq st.doc
  BY DEF Tells
<1>1. ASSUME NEW y \in S, y.id = st.id PROVE y.at <= st.at
  <2>1. PICK z \in T : z.id = y.id /\ y.at <= z.at
    BY DEF Covers
  <2>2. z.at <= st.at
    BY <1>1, <2>1 DEF Newest
  <2>3. y.at \in Nat /\ z.at \in Nat /\ st.at \in Nat
    BY DEF State
  <2> QED BY <2>1, <2>2, <2>3
<1> QED BY <1>1 DEF Tells, Newest

LEMMA ThinHas ==
    ASSUME NEW S \in SUBSET State, NEW T \in SUBSET S,
           NEW H \in SUBSET S, NEW G \in SUBSET State, Covers(G, H),
           NEW w, Has(H, S, w)
    PROVE  Has(G, T, w)
<1>1. PICK st \in H : st.id = w /\ Newest(S, st)
  BY DEF Has
<1>2. PICK z \in G : z.id = w /\ st.at <= z.at
  BY <1>1 DEF Covers
<1>3. ASSUME NEW y \in T, y.id = w PROVE y.at <= z.at
  <2>1. y.at <= st.at
    BY <1>1, <1>3 DEF Newest
  <2>2. y.at \in Nat /\ z.at \in Nat /\ st.at \in Nat
    BY DEF State
  <2> QED BY <1>2, <2>1, <2>2
<1> QED BY <1>2, <1>3 DEF Has, Newest

\* A set covers its subsets.
LEMMA CoversSelf ==
    ASSUME NEW T \in SUBSET State, NEW S \in SUBSET T PROVE Covers(T, S)
BY DEF Covers, State

\* States may go that others cover, while the scratch stays.
LEMMA Thins ==
    ASSUME NEW m \in PageType, NEW n \in PageType, NEW r \in RowType, NEW s \in RowType,
           Held(n, s) \subseteq Held(m, r), Covers(Held(n, s), Held(m, r)),
           n.scratch = m.scratch, n.saved = m.saved, n.saves = m.saves,
           \A w \in World : Alone(m, w) => Alone(n, w),
           Backed(m, r)
    PROVE  Backed(n, s)
<1>1. /\ Held(m, r) \subseteq State /\ Copies(m, r) \subseteq State
      /\ Held(n, s) \subseteq State /\ Copies(n, s) \subseteq Copies(m, r)
      /\ Held(m, r) \subseteq Copies(m, r)
  BY HeldTyped DEF Copies
<1>2. Covers(Copies(n, s), Copies(m, r))
  <2> SUFFICES ASSUME NEW y \in Copies(m, r)
               PROVE  \E z \in Copies(n, s) : z.id = y.id /\ y.at <= z.at
    BY DEF Covers
  <2>1. CASE y \in Held(m, r)
    BY <2>1 DEF Covers, Copies
  <2>2. CASE y \notin Held(m, r)
    <3>1. y \in Copies(n, s) /\ y.at \in Nat
      BY <1>1, <2>2 DEF Copies, State
    <3> QED BY <3>1
  <2> QED BY <2>1, <2>2
<1>3. Tells(Copies(n, s), n.saved)
  BY <1>1, <1>2, ThinTells DEF Backed
<1>4. Rests(n, s)
  BY <1>1, ThinHas DEF Backed, Rests
<1>5. \A st \in Copies(n, s) : st.at <= n.saves
  BY <1>1 DEF Backed
<1> QED BY <1>3, <1>4, <1>5 DEF Backed

\* A world in which nothing was saved may get a state.
LEMMA Grows ==
    ASSUME NEW m \in PageType, NEW n \in PageType, NEW r \in RowType, NEW s \in RowType,
           NEW st \in State, m.saved[st.id] = {}, st.at <= m.saves,
           Held(n, s) = Held(m, r) \cup {st},
           n.scratch = m.scratch, n.saved = m.saved, n.saves = m.saves,
           \A w \in World : Alone(m, w) => Alone(n, w),
           Backed(m, r)
    PROVE  Backed(n, s)
<1>1. /\ Held(m, r) \subseteq State /\ Copies(m, r) \subseteq State
      /\ Copies(n, s) = Copies(m, r) \cup {st}
  BY HeldTyped DEF Copies
<1>2. ASSUME NEW y \in Copies(m, r), m.saved[y.id] # {}
      PROVE  Newest(Copies(n, s), y) <=> Newest(Copies(m, r), y)
  BY <1>1, <1>2 DEF Newest
<1>3. Tells(Copies(n, s), n.saved)
  <2> SUFFICES ASSUME NEW y \in Copies(n, s), Newest(Copies(n, s), y), m.saved[y.id] # {}
               PROVE  m.saved[y.id] \subseteq y.doc
    BY DEF Tells
  <2>1. y \in Copies(m, r)
    BY <1>1
  <2> QED BY <1>2, <2>1 DEF Backed, Tells
<1>4. Rests(n, s)
  <2> SUFFICES ASSUME NEW w \in World, m.saved[w] # {}, ~Alone(m, w)
               PROVE  Has(Held(n, s), Copies(n, s), w)
    BY DEF Rests
  <2>1. PICK y \in Held(m, r) : y.id = w /\ Newest(Copies(m, r), y)
    BY DEF Backed, Rests, Has
  <2>2. y \in Copies(m, r)
    BY DEF Copies
  <2> QED BY <1>2, <2>1, <2>2 DEF Has
<1>5. \A y \in Copies(n, s) : y.at <= n.saves
  BY <1>1 DEF Backed
<1> QED BY <1>3, <1>4, <1>5 DEF Backed

\* What saveNow writes, when it writes.
LEMMA SaveNowWrites ==
    ASSUME NEW m \in PageType
    PROVE  LET a == m.tab.active
               st == [id |-> a, doc |-> m.tab.doc, at |-> m.saves + 1]
               n == SaveNow(m)
           IN  \/ n = m /\ m.tab.memo # None
               \/ /\ st \in State
                  /\ n.tab.phase = m.tab.phase /\ n.tab.active = a
                  /\ n.tab.doc = m.tab.doc /\ n.tab.due = m.tab.due
                  /\ n.tab.memo # None /\ n.tab.dirty = st
                  /\ n.scratch = st /\ n.puts = m.puts /\ n.saves = m.saves + 1
                  /\ n.saved = [m.saved EXCEPT ![a] = @ \cup OfWorld(m.tab.doc, a)]
                  /\ m.wounds \subseteq n.wounds
                  /\ "overwritten" \in n.wounds
                       \/ m.tab.dirty = None \/ m.tab.dirty.id = a
<1> DEFINE a == m.tab.active
           body == [id |-> a, doc |-> m.tab.doc]
           st == [id |-> a, doc |-> m.tab.doc, at |-> m.saves + 1]
           written == [m EXCEPT !.tab.memo = body, !.scratch = st, !.saves = @ + 1]
           t == [m.tab EXCEPT !.memo = body]
           u == [t EXCEPT !.dirty = st, !.timer = TRUE]
           hurt == m.wounds \cup IF m.tab.dirty # None /\ m.tab.dirty.id # a
                                 THEN {"overwritten"} ELSE {}
           n == WorldsSave(written, st)
<1>1. body \in Body /\ st \in State /\ body # None
  BY NoneAssumption DEF PageType, TabType, State, Body
<1>2. CASE m.tab.memo = body
  BY <1>1, <1>2 DEF SaveNow
<1>3. CASE m.tab.memo # body
  <2>1. SaveNow(m) = n
    BY <1>3 DEF SaveNow
  <2>2. /\ written.tab = t /\ written.scratch = st /\ written.saves = m.saves + 1
        /\ written.puts = m.puts /\ written.saved = m.saved /\ written.wounds = m.wounds
        /\ DOMAIN written = {"tab", "scratch", "puts", "saves", "saved", "wounds"}
    BY DEF PageType
  <2>3. /\ t.dirty = m.tab.dirty /\ t.phase = m.tab.phase /\ t.active = a
        /\ t.doc = m.tab.doc /\ t.memo = body /\ t.due = m.tab.due
        /\ DOMAIN t = {"phase", "active", "doc", "memo", "due", "dirty", "timer"}
    BY DEF PageType, TabType
  <2>4. st.id = a /\ st.doc = m.tab.doc
    OBVIOUS
  <2> HIDE DEF written, t, st, body, a
  <2>5. /\ n.tab = u
        /\ n.scratch = st /\ n.puts = m.puts /\ n.saves = m.saves + 1
    BY <2>2, <2>3 DEF WorldsSave
  <2>6. n.saved = [m.saved EXCEPT ![a] = @ \cup OfWorld(m.tab.doc, a)]
    BY <2>2, <2>4 DEF WorldsSave
  <2>7. n.wounds = hurt
    BY <2>2, <2>3, <2>4 DEF WorldsSave
  <2>8. /\ u.dirty = st /\ u.phase = m.tab.phase /\ u.active = a
        /\ u.doc = m.tab.doc /\ u.memo = body /\ u.due = m.tab.due
    BY <2>3
  <2>9. /\ m.wounds \subseteq hurt
        /\ "overwritten" \in hurt \/ m.tab.dirty = None \/ m.tab.dirty.id = a
    OBVIOUS
  <2> HIDE DEF n, u, hurt
  <2> QED BY <1>1, <2>1, <2>5, <2>6, <2>7, <2>8, <2>9 DEF a, st
<1> QED BY <1>2, <1>3

\* A save is the newest state of its world, and those of the others stay held.
LEMMA SaveNowKept ==
    ASSUME NEW m \in PageType, NEW r \in RowType, m.tab.phase = "live",
           PageKept(m, r), SaveNow(m).wounds = {}
    PROVE  LET n == SaveNow(m) IN
           /\ n \in PageType /\ PageKept(n, r) /\ m.wounds = {}
           /\ n.tab.phase = "live" /\ n.tab.active = m.tab.active
           /\ n.tab.memo # None
           /\ \A w \in World \ {m.tab.active} : n.saved[w] = m.saved[w]
<1> DEFINE a == m.tab.active
           st == [id |-> a, doc |-> m.tab.doc, at |-> m.saves + 1]
           n == SaveNow(m)
<1>1. n \in PageType
  BY SaveNowKeeps
<1>2. CASE n = m /\ m.tab.memo # None
  BY <1>1, <1>2
<1>3. CASE ~(n = m /\ m.tab.memo # None)
  <2>1. /\ st \in State
        /\ n.tab.phase = "live" /\ n.tab.active = a /\ n.tab.doc = m.tab.doc
        /\ n.tab.memo # None /\ n.tab.dirty = st
        /\ n.scratch = st /\ n.puts = m.puts /\ n.saves = m.saves + 1
        /\ n.saved = [m.saved EXCEPT ![a] = @ \cup OfWorld(m.tab.doc, a)]
        /\ m.wounds = {}
        /\ m.tab.dirty = None \/ m.tab.dirty.id = a
    BY <1>3, SaveNowWrites
  <2>2. st.id = a /\ st.doc = m.tab.doc /\ st.at = m.saves + 1 /\ st # None
    BY <2>1, NoneAssumption
  <2>3. /\ a \in World /\ m.saves \in Nat /\ m.saved \in [World -> Doc]
        /\ n.saved[a] = m.saved[a] \cup OfWorld(m.tab.doc, a)
        /\ \A w \in World \ {a} : n.saved[w] = m.saved[w]
    BY <2>1 DEF PageType, TabType
  <2> HIDE DEF n, st, a
  <2>4. /\ Held(m, r) \subseteq State /\ Copies(m, r) \subseteq State
        /\ Held(m, r) \subseteq Copies(m, r)
        /\ \A y \in Copies(m, r) : y.at \in Nat /\ y.id \in World /\ y.at <= m.saves
    BY HeldTyped DEF PageKept, Backed, State
  <2>5. st \in Held(n, r) /\ Held(n, r) \subseteq Held(m, r) \cup {st}
    BY <2>1, <2>2 DEF Held
  <2>6. \A y \in Held(m, r) : y.id # a => y \in Held(n, r)
    BY <2>1 DEF Held, a
  <2>7. Held(n, r) \subseteq Copies(n, r) /\ Copies(n, r) \subseteq Copies(m, r) \cup {st}
    BY <2>1, <2>5 DEF Copies
  <2>8. Newest(Copies(n, r), st)
    BY <2>2, <2>3, <2>4, <2>7 DEF Newest
  \* The held state that kept another world keeps it still.
  <2>9. ASSUME NEW w \in World \ {a}, m.saved[w] # {}
        PROVE  \E y \in Held(n, r) : /\ y.id = w
                                     /\ Newest(Copies(n, r), y) /\ Newest(Copies(m, r), y)
    <3>1. ~Alone(m, w)
      BY <2>3 DEF Alone, a
    <3>2. PICK y \in Held(m, r) : y.id = w /\ Newest(Copies(m, r), y)
      BY <2>9, <3>1 DEF PageKept, Backed, Rests, Has
    <3>3. y \in Held(n, r) /\ Newest(Copies(n, r), y)
      BY <2>2, <2>6, <2>7, <3>2 DEF Newest
    <3> QED BY <3>2, <3>3
  <2>10. Tells(Copies(n, r), n.saved)
    <3> SUFFICES ASSUME NEW z \in Copies(n, r), Newest(Copies(n, r), z)
                 PROVE  n.saved[z.id] \subseteq z.doc
      BY DEF Tells
    <3>1. CASE z.id = a
      <4>1. z = st
        <5>1. z.at >= st.at
          BY <2>2, <2>5, <2>7, <3>1 DEF Newest
        <5> QED BY <2>2, <2>3, <2>4, <2>7, <5>1
      <4>2. m.saved[a] \subseteq m.tab.doc
        BY DEF PageKept, Rooted, a
      <4> QED BY <2>2, <2>3, <4>1, <4>2 DEF OfWorld
    <3>2. CASE z.id # a
      <4>1. z \in Copies(m, r) /\ z.id \in World
        BY <2>2, <2>4, <2>7, <3>2
      <4>2. CASE m.saved[z.id] = {}
        BY <2>3, <3>2, <4>1, <4>2
      <4>3. CASE m.saved[z.id] # {}
        <5>1. PICK y \in Held(n, r) : /\ y.id = z.id
                                      /\ Newest(Copies(n, r), y) /\ Newest(Copies(m, r), y)
          BY <2>9, <3>2, <4>1, <4>3
        <5>2. y.at <= z.at /\ y \in Copies(m, r)
          BY <2>2, <2>7, <3>2, <5>1 DEF Newest
        <5>3. Newest(Copies(m, r), z)
          <6> SUFFICES ASSUME NEW x \in Copies(m, r), x.id = z.id PROVE x.at <= z.at
            BY DEF Newest
          <6>1. x.at <= y.at
            BY <5>1 DEF Newest
          <6>2. x.at \in Nat /\ y.at \in Nat /\ z.at \in Nat
            BY <2>4, <4>1, <5>2
          <6> QED BY <5>2, <6>1, <6>2
        <5> QED BY <2>3, <3>2, <4>1, <5>3 DEF PageKept, Backed, Tells
      <4> QED BY <4>2, <4>3
    <3> QED BY <3>1, <3>2
  <2>11. Rests(n, r)
    <3> SUFFICES ASSUME NEW w \in World, n.saved[w] # {}
                 PROVE  Has(Held(n, r), Copies(n, r), w)
      BY DEF Rests
    <3>1. CASE w = a
      BY <2>2, <2>5, <2>8, <3>1 DEF Has
    <3>2. CASE w # a
      BY <2>3, <2>9, <3>2 DEF Has
    <3> QED BY <3>1, <3>2
  <2>12. \A z \in Copies(n, r) : z.at <= n.saves
    BY <2>1, <2>2, <2>3, <2>4, <2>7
  <2>13. Dated(n, r)
    <3>1. n.scratch.at = n.saves
      BY <2>1, <2>2
    <3>2. n.saved[n.scratch.id] \subseteq n.scratch.doc
      BY <2>1, <2>2, <2>3 DEF PageKept, Rooted, OfWorld, a
    <3>3. ASSUME NEW p \in n.puts PROVE n.tab.dirty.at > p.state.at
      <4>1. p.state \in Copies(m, r)
        BY <2>1, <2>4 DEF Held
      <4> QED BY <2>1, <2>2, <2>3, <2>4, <4>1
    <3>4. \A p \in n.puts : p.landed => r[p.state.id] # None /\ p.state.at <= r[p.state.id].at
      BY <2>1 DEF PageKept, Dated
    <3> QED BY <3>1, <3>2, <3>3, <3>4 DEF Dated
  <2>14. Rooted(n, r)
    <3>1. \A w \in World \ {Home} : r[w] = None => n.saved[w] = {}
      BY <2>3 DEF PageKept, Rooted, a
    <3>2. n.saved[n.tab.active] \subseteq n.tab.doc
      BY <2>1, <2>3 DEF PageKept, Rooted, OfWorld, a
    <3>3. n.tab.active # Home => r[n.tab.active] # None
      BY <2>1 DEF PageKept, Rooted, a
    <3> QED BY <2>1, <2>2, <3>1, <3>2, <3>3 DEF Rooted
  <2> QED BY <1>1, <2>1, <2>3, <2>10, <2>11, <2>12, <2>13, <2>14 DEF PageKept, Backed, n, a
<1> QED BY <1>2, <1>3

\* flushNow moves the dirty slot into a PUT: the same states are held.
LEMMA FlushNowKept ==
    ASSUME NEW m \in PageType, NEW r \in RowType, PageKept(m, r)
    PROVE  LET n == FlushNow(m) IN
           /\ n \in PageType /\ PageKept(n, r)
           /\ n.tab.phase = m.tab.phase /\ n.tab.active = m.tab.active
           /\ n.tab.memo = m.tab.memo
           /\ n.saved = m.saved /\ n.wounds = m.wounds /\ n.tab.dirty = None
<1> DEFINE n == FlushNow(m)
           put == Put(m.tab.dirty, FALSE)
<1>1. n \in PageType /\ n.tab.dirty = None /\ n.wounds = m.wounds
  BY FlushNowKeeps
<1>2. /\ n.scratch = m.scratch /\ n.saves = m.saves /\ n.saved = m.saved
      /\ n.puts = IF m.tab.dirty = None THEN m.puts ELSE m.puts \cup {put}
  BY DEF FlushNow, PageType
<1>3. /\ n.tab.phase = m.tab.phase /\ n.tab.active = m.tab.active
      /\ n.tab.memo = m.tab.memo /\ n.tab.doc = m.tab.doc /\ n.tab.due = m.tab.due
  BY DEF FlushNow, PageType, TabType
<1>4. /\ m.tab.dirty # None => m.tab.dirty \in State
      /\ put.state = m.tab.dirty /\ put.calm = FALSE /\ put.landed = FALSE
  BY DEF PageType, TabType, Put
<1> HIDE DEF n, put
<1>5. Held(n, r) = Held(m, r)
  <2>1. {p.state : p \in n.puts} = {p.state : p \in m.puts} \cup ({m.tab.dirty} \ {None})
    BY <1>2, <1>4
  <2> QED BY <1>1, <2>1 DEF Held
<1>6. Backed(n, r)
  <2>1. Covers(Held(n, r), Held(m, r))
    BY <1>5, HeldTyped, CoversSelf
  <2>2. \A w \in World : Alone(m, w) => Alone(n, w)
    BY <1>2, <1>3 DEF Alone
  <2> QED BY <1>1, <1>2, <1>5, <2>1, <2>2, Thins DEF PageKept
<1>7. Dated(n, r)
  BY <1>1, <1>2, <1>4 DEF PageKept, Dated
<1>8. Rooted(n, r)
  BY <1>1, <1>2, <1>3, <1>4 DEF PageKept, Rooted
<1> QED BY <1>1, <1>2, <1>3, <1>6, <1>7, <1>8 DEF PageKept, n

\* What the actions below have in common: the page before and after.
LEMMA Both ==
    ASSUME IInv, IInv'
    PROVE  /\ Page \in PageType /\ Page' \in PageType
           /\ row \in RowType /\ row' \in RowType
           /\ get \in GetType /\ get' \in GetType
           /\ Held(Page, row) \subseteq State /\ Held(Page', row') \subseteq State
           /\ tab \in TabType /\ tab' \in TabType
           /\ scratch \in State \cup {None} /\ puts \in SUBSET PutType
           /\ saves \in Nat /\ saved \in [World -> Doc]
<1>1. /\ Page \in PageType /\ Page' \in PageType
      /\ row \in RowType /\ row' \in RowType
      /\ get \in GetType /\ get' \in GetType
  BY DEF IInv, Typed
<1>2. Held(Page, row) \subseteq State /\ Held(Page', row') \subseteq State
  BY <1>1, HeldTyped
<1>3. /\ tab \in TabType /\ tab' \in TabType
      /\ scratch \in State \cup {None} /\ puts \in SUBSET PutType
      /\ saves \in Nat /\ saved \in [World -> Doc]
  BY <1>1, Fields, FieldsNext DEF PageType
<1> QED BY <1>1, <1>2, <1>3

LEMMA EditKept ==
    ASSUME IInv, IInv', PageKept(Page, row), GetKept(Page, get, row), Edit
    PROVE  PageKept(Page', row') /\ GetKept(Page', get', row')
<1> USE Both, Fields, FieldsNext
<1>1. /\ tab'.phase = tab.phase /\ tab'.active = tab.active /\ tab'.memo = tab.memo
      /\ tab'.dirty = tab.dirty /\ tab.doc \subseteq tab'.doc /\ tab.phase = "live"
  BY DEF Edit, TabType
<1>2. UNCHANGED <<row, scratch, get, puts, saves, saved>>
  BY DEF Edit
<1>3. Held(Page', row') = Held(Page, row)
  BY <1>1, <1>2 DEF Held
<1>4. Covers(Held(Page', row'), Held(Page, row))
  BY <1>3, CoversSelf
<1>5. \A w \in World : Alone(Page, w) => Alone(Page', w)
  BY <1>1, <1>2 DEF Alone
<1>6. Backed(Page', row')
  BY <1>2, <1>3, <1>4, <1>5, Thins DEF PageKept
<1>7. Dated(Page', row') /\ Rooted(Page', row')
  BY <1>1, <1>2 DEF PageKept, Dated, Rooted
<1>8. GetKept(Page', get', row')
  BY <1>1, <1>2 DEF GetKept
<1> QED BY <1>6, <1>7, <1>8 DEF PageKept

LEMMA SaveTimerKept ==
    ASSUME IInv, IInv', PageKept(Page, row), GetKept(Page, get, row), SaveTimer, wounds' = {}
    PROVE  PageKept(Page', row') /\ GetKept(Page', get', row')
<1> DEFINE m == [Page EXCEPT !.tab.due = FALSE]
           n == SaveNow(m)
<1> USE Both, Fields, FieldsNext
<1>1. /\ m.tab = [tab EXCEPT !.due = FALSE]
      /\ m.scratch = scratch /\ m.puts = puts /\ m.saves = saves /\ m.saved = saved
      /\ m.wounds = wounds
  BY DEF PageType
<1>2. m \in PageType
  <2>1. m = [Page EXCEPT !.tab = [tab EXCEPT !.due = FALSE]]
    BY Fields, Zenon
  <2>2. [tab EXCEPT !.due = FALSE] \in TabType
    BY DEF TabType
  <2> QED BY <2>1, <2>2 DEF PageType
<1>3. tab.phase = "live"
  BY DEF SaveTimer, PageKept, Rooted
<1>4. /\ m.tab.phase = "live" /\ m.tab.dirty = tab.dirty /\ m.tab.memo = tab.memo
      /\ m.tab.active = tab.active /\ m.tab.doc = tab.doc
  BY <1>1, <1>3 DEF TabType
<1>5. Becomes(n) /\ UNCHANGED <<row, get>>
  BY DEF SaveTimer
<1> HIDE DEF m, n
<1>6. PageKept(m, row)
  <2>1. Held(m, row) = Held(Page, row)
    BY <1>1, <1>4 DEF Held
  <2>2. Covers(Held(m, row), Held(Page, row))
    BY <2>1, CoversSelf
  <2>3. \A w \in World : Alone(Page, w) => Alone(m, w)
    BY <1>1, <1>3, <1>4 DEF Alone
  <2>4. Backed(m, row)
    BY <1>1, <1>2, <2>1, <2>2, <2>3, Thins DEF PageKept
  <2>5. Dated(m, row) /\ Rooted(m, row)
    BY <1>1, <1>3, <1>4 DEF PageKept, Dated, Rooted
  <2> QED BY <2>4, <2>5 DEF PageKept
<1>7. n \in PageType /\ n.wounds = {}
  <2>1. n \in PageType
    BY <1>2, SaveNowKeeps DEF n
  <2> QED BY <1>5, <2>1, PageBecomes
<1>8. /\ PageKept(n, row) /\ n.tab.phase = "live" /\ n.tab.active = tab.active
      /\ n.tab.memo # None
      /\ \A w \in World \ {tab.active} : n.saved[w] = saved[w]
  <2>1. SaveNow(m).wounds = {} /\ m.tab.phase = "live"
    BY <1>4, <1>7 DEF n
  <2>2. /\ PageKept(n, row) /\ n.tab.phase = "live" /\ n.tab.active = m.tab.active
        /\ n.tab.memo # None
        /\ \A w \in World \ {m.tab.active} : n.saved[w] = m.saved[w]
    BY <1>2, <1>6, <2>1, SaveNowKept DEF n
  <2> QED BY <1>1, <1>4, <2>2
<1>9. GetKept(n, get, row)
  BY <1>3, <1>8 DEF GetKept, GetType
<1> QED BY <1>5, <1>7, <1>8, <1>9, PageBecomes

\* A teardown saves what the page has shown before, and sends it.
LEMMA TeardownKept ==
    ASSUME NEW m \in PageType, NEW r \in RowType, NEW g \in GetType,
           PageKept(m, r), GetKept(m, g, r), m.tab.phase = "live",
           Teardown(m).wounds = {}
    PROVE  LET n == Teardown(m) IN
           n \in PageType /\ PageKept(n, r) /\ GetKept(n, g, r) /\ n.tab.phase = "live"
<1> DEFINE k == IF m.tab.memo # None THEN SaveNow(m) ELSE m
           n == FlushNow(k)
<1>1. k \in PageType
  BY SaveNowKeeps
<1>2. Teardown(m) = n
  BY DEF Teardown
<1>3. k.wounds = {}
  <2> HIDE DEF k
  <2> QED BY <1>1, <1>2, FlushNowKeeps
<1>4. /\ PageKept(k, r) /\ k.tab.phase = "live" /\ k.tab.active = m.tab.active
      /\ m.tab.memo # None => k.tab.memo # None
      /\ \A w \in World \ {m.tab.active} : k.saved[w] = m.saved[w]
  BY <1>3, SaveNowKept
<1> HIDE DEF k
<1>5. /\ n \in PageType /\ PageKept(n, r) /\ n.tab.phase = "live"
      /\ n.tab.active = m.tab.active /\ n.tab.memo = k.tab.memo /\ n.saved = k.saved
  BY <1>1, <1>4, FlushNowKept
<1> HIDE DEF n
<1>6. GetKept(n, g, r)
  BY <1>4, <1>5 DEF GetKept, GetType
<1> QED BY <1>2, <1>5, <1>6

LEMMA HiddenKept ==
    ASSUME IInv, IInv', PageKept(Page, row), GetKept(Page, get, row), Hidden, wounds' = {}
    PROVE  PageKept(Page', row') /\ GetKept(Page', get', row')
<1> DEFINE n == Teardown(Page)
<1> USE Both, Fields, FieldsNext
<1>1. n \in PageType
  BY TeardownKeeps
<1>2. Becomes(n) /\ UNCHANGED <<row, get>> /\ tab.phase = "live"
  BY DEF Hidden
<1> HIDE DEF n
<1>3. Page' = n
  BY <1>1, <1>2, PageBecomes
<1> QED BY <1>2, <1>3, TeardownKept DEF n

LEMMA FlushKept ==
    ASSUME IInv, IInv', PageKept(Page, row), GetKept(Page, get, row), Flush
    PROVE  PageKept(Page', row') /\ GetKept(Page', get', row')
<1> USE Both, Fields, FieldsNext
<1>1. UNCHANGED <<row, scratch, get, saves, saved>>
  BY DEF Flush
<1>2. /\ tab'.phase = tab.phase /\ tab'.active = tab.active /\ tab'.memo = tab.memo
      /\ tab'.doc = tab.doc /\ tab'.due = tab.due
  BY DEF Flush, TabType
<1>3. /\ Held(Page', row') = Held(Page, row)
      /\ \/ tab'.dirty = tab.dirty /\ puts' = puts
         \/ /\ tab'.dirty = None /\ tab.dirty # None
            /\ \A p \in puts' : p \in puts \/ ~p.landed
  <2>1. CASE tab.dirty = None \/ Syncing
    <3>1. tab'.dirty = tab.dirty /\ puts' = puts
      BY <2>1 DEF Flush, TabType
    <3> QED BY <1>1, <3>1 DEF Held
  <2>2. CASE tab.dirty # None /\ ~Syncing
    <3> DEFINE put == Put(tab.dirty, TRUE)
    <3>1. tab'.dirty = None /\ puts' = puts \cup {put}
      BY <2>2 DEF Flush, TabType
    <3>2. put.state = tab.dirty /\ ~put.landed
      BY DEF Put
    <3> HIDE DEF put
    <3>3. {p.state : p \in puts'} = {p.state : p \in puts} \cup ({tab.dirty} \ {None})
      BY <2>2, <3>1, <3>2
    <3>4. Held(Page', row') = Held(Page, row)
      BY <1>1, <3>1, <3>3 DEF Held
    <3> QED BY <2>2, <3>1, <3>2, <3>4
  <2> QED BY <2>1, <2>2
<1>4. Covers(Held(Page', row'), Held(Page, row))
  BY <1>3, CoversSelf
<1>5. \A w \in World : Alone(Page, w) => Alone(Page', w)
  BY <1>1, <1>2 DEF Alone
<1>6. Backed(Page', row')
  BY <1>1, <1>3, <1>4, <1>5, Thins DEF PageKept
<1>7. Dated(Page', row')
  BY <1>1, <1>3 DEF PageKept, Dated
<1>8. Rooted(Page', row')
  BY <1>1, <1>2, <1>3 DEF PageKept, Rooted
<1>9. GetKept(Page', get', row')
  BY <1>1, <1>2 DEF GetKept
<1> QED BY <1>6, <1>7, <1>8, <1>9 DEF PageKept

\* A PUT that lands moves its state into a row it does not make older.
LEMMA PutLandsKept ==
    ASSUME IInv, IInv', PageKept(Page, row), GetKept(Page, get, row), PutLands, wounds' = {}
    PROVE  PageKept(Page', row') /\ GetKept(Page', get', row')
<1> USE Both, Fields, FieldsNext
<1> PICK p \in puts :
       /\ row' = [row EXCEPT ![p.state.id] = [doc |-> p.state.doc, at |-> p.state.at]]
       /\ puts' = IF p.calm THEN (puts \ {p}) \cup {[p EXCEPT !.landed = TRUE]}
                             ELSE puts \ {p}
       /\ wounds' = wounds \cup
            IF row[p.state.id] # None /\ row[p.state.id].at > p.state.at
            THEN {"late"} ELSE {}
       /\ UNCHANGED <<scratch, pointer, tab, get, counters, saves, saved>>
  BY DEF PutLands
<1> DEFINE q == [p EXCEPT !.landed = TRUE]
           st == p.state
<1>1. /\ st \in State /\ st.id \in World /\ st.at \in Nat
      /\ q.state = st /\ q.calm = p.calm
  BY DEF PutType, State
<1>2. row[st.id] # None => row[st.id].at <= st.at /\ row[st.id].at \in Nat
  BY <1>1 DEF RowType
<1>3. /\ row'[st.id] = [doc |-> st.doc, at |-> st.at]
      /\ row'[st.id] # None
      /\ \A w \in World \ {st.id} : row'[w] = row[w]
  BY <1>1, NoneAssumption DEF RowType, State
<1>4. RowState(row', st.id) = st
  BY <1>1, <1>3 DEF RowState, State
<1>5. \A w \in World \ {st.id} : RowState(row', w) = RowState(row, w)
  BY <1>3 DEF RowState
<1>6. /\ \A x \in puts' : x \in puts \/ x = q
      /\ \A x \in puts : x \in puts' \/ x = p
  OBVIOUS
<1>7. st \in Held(Page, row) /\ st \in Held(Page', row')
  BY <1>1, <1>3, <1>4 DEF Held
<1> HIDE DEF q, st
<1>8. Held(Page', row') \subseteq Held(Page, row)
  <2> SUFFICES ASSUME NEW y \in Held(Page', row') PROVE y \in Held(Page, row)
    OBVIOUS
  <2>1. ASSUME NEW w \in World, row'[w] # None, y = RowState(row', w)
        PROVE  y \in Held(Page, row)
    BY <1>3, <1>4, <1>5, <1>7, <2>1 DEF Held
  <2>2. ASSUME NEW x \in puts', y = x.state PROVE y \in Held(Page, row)
    BY <1>1, <1>6, <1>7, <2>2 DEF Held
  <2>3. ASSUME y \in {tab.dirty} \ {None} PROVE y \in Held(Page, row)
    BY <2>3 DEF Held
  <2> QED BY <2>1, <2>2, <2>3 DEF Held
<1>9. Covers(Held(Page', row'), Held(Page, row))
  <2> SUFFICES ASSUME NEW y \in Held(Page, row)
               PROVE  \E z \in Held(Page', row') : z.id = y.id /\ y.at <= z.at
    BY DEF Covers
  <2>0. y.at \in Nat
    BY DEF State
  <2>1. ASSUME NEW w \in World, row[w] # None, y = RowState(row, w)
        PROVE  \E z \in Held(Page', row') : z.id = y.id /\ y.at <= z.at
    <3>1. CASE w = st.id
      <4>1. y.id = st.id /\ y.at = row[st.id].at
        BY <2>1, <3>1 DEF RowState
      <4> QED BY <1>2, <1>7, <2>1, <3>1, <4>1
    <3>2. CASE w # st.id
      <4>1. y \in Held(Page', row')
        BY <1>3, <1>5, <2>1, <3>2 DEF Held
      <4> QED BY <2>0, <4>1
    <3> QED BY <3>1, <3>2
  <2>2. ASSUME NEW x \in puts, y = x.state
        PROVE  \E z \in Held(Page', row') : z.id = y.id /\ y.at <= z.at
    <3>1. y \in Held(Page', row')
      BY <1>6, <1>7, <2>2 DEF Held, st
    <3> QED BY <2>0, <3>1
  <2>3. ASSUME y \in {tab.dirty} \ {None}
        PROVE  \E z \in Held(Page', row') : z.id = y.id /\ y.at <= z.at
    <3>1. y \in Held(Page', row')
      BY <2>3 DEF Held
    <3> QED BY <2>0, <3>1
  <2> QED BY <2>1, <2>2, <2>3 DEF Held
<1>10. Backed(Page', row')
  BY <1>8, <1>9, Thins DEF PageKept, Alone
<1>11. \A w \in World : row[w] # None => row'[w] # None /\ row[w].at <= row'[w].at
  BY <1>1, <1>2, <1>3 DEF RowType
<1>12. Dated(Page', row')
  <2>1. \A x \in puts' : x.calm /\ tab.dirty # None => tab.dirty.at > x.state.at
    BY <1>1, <1>6 DEF PageKept, Dated, st
  <2>2. ASSUME NEW x \in puts', x.landed
        PROVE  row'[x.state.id] # None /\ x.state.at <= row'[x.state.id].at
    <3>1. CASE x = q
      BY <1>1, <1>3, <3>1
    <3>2. CASE x # q
      <4>1. x \in puts /\ row[x.state.id] # None /\ x.state.at <= row[x.state.id].at
        BY <1>6, <2>2, <3>2 DEF PageKept, Dated
      <4>2. x.state.id \in World /\ x.state.at \in Nat
        BY <4>1 DEF PutType, State
      <4>3. row[x.state.id].at \in Nat /\ row'[x.state.id].at \in Nat
        BY <1>11, <4>1, <4>2 DEF RowType
      <4> QED BY <1>11, <4>1, <4>2, <4>3
    <3> QED BY <3>1, <3>2
  <2> QED BY <2>1, <2>2 DEF PageKept, Dated
<1>13. Rooted(Page', row')
  <2>1. tab.phase = "live" => tab.active \in World
    BY DEF TabType
  <2>2. \A x \in puts' : x.calm => \E y \in puts : y.calm
    BY <1>1, <1>6
  <2> QED BY <1>11, <2>1, <2>2 DEF PageKept, Rooted
<1>14. GetKept(Page', get', row')
  BY <1>11 DEF GetKept, GetType
<1> QED BY <1>10, <1>12, <1>13, <1>14 DEF PageKept

\* A landed PUT that goes leaves its state to the row.
LEMMA RowCovers ==
    ASSUME NEW m \in PageType, NEW r \in RowType, Dated(m, r), NEW p \in m.puts, p.landed
    PROVE  /\ RowState(r, p.state.id) \in Held(m, r)
           /\ RowState(r, p.state.id).id = p.state.id
           /\ p.state.at <= RowState(r, p.state.id).at
<1>1. p.state.id \in World
  BY DEF PageType, PutType, State
<1> QED BY <1>1 DEF Dated, Held, RowState

LEMMA PutAnsweredKept ==
    ASSUME IInv, IInv', PageKept(Page, row), GetKept(Page, get, row), PutAnswered
    PROVE  PageKept(Page', row') /\ GetKept(Page', get', row')
<1> USE Both, Fields, FieldsNext
<1> PICK p \in puts : /\ p.calm /\ p.landed
                      /\ puts' = puts \ {p}
                      /\ tab' = Rearmed(tab)
                      /\ UNCHANGED <<row, scratch, pointer, get, counters, saves, saved, wounds>>
  BY DEF PutAnswered
<1>1. /\ tab'.phase = tab.phase /\ tab'.active = tab.active /\ tab'.memo = tab.memo
      /\ tab'.doc = tab.doc /\ tab'.due = tab.due /\ tab'.dirty = tab.dirty
  BY DEF Rearmed, TabType
<1>2. Held(Page', row') \subseteq Held(Page, row)
  BY <1>1 DEF Held
<1>3. Covers(Held(Page', row'), Held(Page, row))
  <2> SUFFICES ASSUME NEW y \in Held(Page, row)
               PROVE  \E z \in Held(Page', row') : z.id = y.id /\ y.at <= z.at
    BY DEF Covers
  <2>1. CASE y = p.state
    <3>1. RowState(row, y.id) \in Held(Page', row')
      BY <2>1, RowCovers DEF PageKept, Dated, Held, PutType, State
    <3> QED BY <2>1, <3>1, RowCovers DEF PageKept
  <2>2. CASE y # p.state
    <3>1. y \in Held(Page', row') /\ y.at \in Nat
      BY <1>1, <2>2 DEF Held, State
    <3> QED BY <3>1
  <2> QED BY <2>1, <2>2
<1>4. Backed(Page', row')
  BY <1>1, <1>2, <1>3, Thins DEF PageKept, Alone
<1>5. Dated(Page', row') /\ Rooted(Page', row')
  BY <1>1 DEF PageKept, Dated, Rooted
<1>6. GetKept(Page', get', row')
  BY <1>1 DEF GetKept
<1> QED BY <1>4, <1>5, <1>6 DEF PageKept

\* A calm PUT that fails is dirty again, or a younger state of its world is, or
\* it had landed.
LEMMA CalmFailsKept ==
    ASSUME IInv, IInv', PageKept(Page, row), GetKept(Page, get, row), CalmFails, wounds' = {}
    PROVE  PageKept(Page', row') /\ GetKept(Page', get', row')
<1> USE Both, Fields, FieldsNext
<1> PICK p \in puts :
       /\ p.calm
       /\ puts' = puts \ {p}
       /\ tab' = Rearmed(Restored(tab, p.state))
       /\ wounds' = wounds \cup
            IF ~p.landed /\ tab.dirty # None /\ tab.dirty.id # p.state.id
            THEN {"overwritten"} ELSE {}
  BY DEF CalmFails
<1> DEFINE st == p.state
<1>1. UNCHANGED <<row, scratch, get, saves, saved>>
  BY DEF CalmFails
<1>2. st \in State /\ st.at \in Nat /\ st.id \in World /\ st # None
  BY NoneAssumption DEF PutType, State
<1>3. tab.dirty # None => tab.dirty \in State /\ tab.dirty.at \in Nat /\ tab.dirty.at > st.at
  BY DEF TabType, State, PageKept, Dated
<1>4. /\ tab'.phase = tab.phase /\ tab'.active = tab.active /\ tab'.memo = tab.memo
      /\ tab'.doc = tab.doc /\ tab'.due = tab.due
      /\ tab'.dirty = IF tab.dirty = None THEN st ELSE tab.dirty
  <2> DEFINE t == Restored(tab, st)
  <2>1. /\ t \in TabType /\ t.phase = tab.phase /\ t.active = tab.active /\ t.memo = tab.memo
        /\ t.doc = tab.doc /\ t.due = tab.due
        /\ t.dirty = IF tab.dirty = None THEN st ELSE tab.dirty
    BY <1>2, <1>3 DEF Restored, TabType
  <2>2. tab' = Rearmed(t)
    OBVIOUS
  <2> HIDE DEF t
  <2> QED BY <2>1, <2>2 DEF Rearmed, TabType
<1> HIDE DEF st
<1>5. Held(Page', row') \subseteq Held(Page, row)
  BY <1>1, <1>4 DEF Held, st
<1>6. Covers(Held(Page', row'), Held(Page, row))
  <2> SUFFICES ASSUME NEW y \in Held(Page, row)
               PROVE  \E z \in Held(Page', row') : z.id = y.id /\ y.at <= z.at
    BY DEF Covers
  <2>1. CASE y = st /\ tab.dirty = None
    <3>1. y \in Held(Page', row')
      BY <1>2, <1>4, <2>1 DEF Held
    <3> QED BY <1>2, <2>1, <3>1
  <2>2. CASE y = st /\ tab.dirty # None /\ ~p.landed
    <3>1. tab.dirty \in Held(Page', row') /\ tab.dirty.id = y.id
      BY <1>4, <2>2 DEF Held, st
    <3> QED BY <1>2, <1>3, <2>2, <3>1
  <2>3. CASE y = st /\ p.landed
    <3>1. RowState(row, y.id) \in Held(Page', row')
      BY <1>1, <1>2, <2>3 DEF PageKept, Dated, Held, st
    <3> QED BY <2>3, <3>1, RowCovers DEF PageKept, st
  <2>4. CASE y # st
    <3>1. y \in Held(Page', row') /\ y.at \in Nat
      BY <1>1, <1>4, <2>4 DEF Held, State, st
    <3> QED BY <3>1
  <2> QED BY <2>1, <2>2, <2>3, <2>4
<1>7. Backed(Page', row')
  BY <1>1, <1>4, <1>5, <1>6, Thins DEF PageKept, Alone
<1>8. \A q \in puts' : ~q.calm
  BY DEF IInv, OneCalm
<1>9. Dated(Page', row')
  BY <1>1, <1>8 DEF PageKept, Dated
<1>10. Rooted(Page', row')
  BY <1>1, <1>4, <1>8 DEF PageKept, Rooted
<1>11. GetKept(Page', get', row')
  BY <1>1, <1>4 DEF GetKept
<1> QED BY <1>7, <1>9, <1>10, <1>11 DEF PageKept

\* The page that dies leaves its dirty payload to the scratch.
LEMMA DiesKept ==
    ASSUME IInv, IInv', NEW m \in PageType, PageKept(m, row), Dies(m), wounds' = {}
    PROVE  PageKept(Page', row') /\ GetKept(Page', get', row')
<1> USE Both, Fields, FieldsNext
<1> DEFINE left == {[p EXCEPT !.calm = FALSE] : p \in {q \in m.puts : ~q.landed}}
<1>1. /\ tab' = Gone /\ scratch' = m.scratch /\ puts' = left
      /\ saves' = m.saves /\ saved' = m.saved
      /\ get' = None /\ row' = row
      /\ wounds' = m.wounds \cup IF m.tab.dirty # None /\ m.tab.dirty.id # m.scratch.id
                                 THEN {"died"} ELSE {}
  BY DEF Dies, Becomes, PageType
<1>2. /\ tab'.phase = "down" /\ tab'.dirty = None /\ ~tab'.due
  BY <1>1 DEF Gone
<1>3. m.tab.dirty # None => m.scratch # None /\ m.tab.dirty.id = m.scratch.id
  BY <1>1 DEF PageKept, Rooted
<1>4. /\ \A x \in left : ~x.calm /\ ~x.landed /\ \E p \in m.puts : x.state = p.state
      /\ \A p \in m.puts : ~p.landed => \E x \in left : x.state = p.state
  <2>1. \A p \in m.puts : LET x == [p EXCEPT !.calm = FALSE] IN
                          x.state = p.state /\ ~x.calm /\ x.landed = p.landed
    BY DEF PageType, PutType
  <2> QED BY <2>1
<1> HIDE DEF left
<1>5. Held(Page', row') \subseteq Held(m, row)
  BY <1>1, <1>2, <1>4 DEF Held
<1>6. \A y \in Held(m, row) : y = m.tab.dirty \/ \E z \in Held(Page', row') : z.id = y.id /\ y.at <= z.at
  <2> SUFFICES ASSUME NEW y \in Held(m, row), y # m.tab.dirty
               PROVE  \E z \in Held(Page', row') : z.id = y.id /\ y.at <= z.at
    OBVIOUS
  <2>0. y.at \in Nat
    BY HeldTyped DEF State
  <2>1. ASSUME NEW w \in World, row[w] # None, y = RowState(row, w)
        PROVE  \E z \in Held(Page', row') : z.id = y.id /\ y.at <= z.at
    <3>1. y \in Held(Page', row')
      BY <1>1, <2>1 DEF Held, RowState
    <3> QED BY <2>0, <3>1
  <2>2. ASSUME NEW p \in m.puts, y = p.state, ~p.landed
        PROVE  \E z \in Held(Page', row') : z.id = y.id /\ y.at <= z.at
    <3>1. y \in Held(Page', row')
      BY <1>1, <1>4, <2>2 DEF Held
    <3> QED BY <2>0, <3>1
  <2>3. ASSUME NEW p \in m.puts, y = p.state, p.landed
        PROVE  \E z \in Held(Page', row') : z.id = y.id /\ y.at <= z.at
    <3>1. RowState(row, y.id) \in Held(Page', row')
      BY <1>1, <2>3 DEF PageKept, Dated, Held, RowState, PageType, PutType, State
    <3> QED BY <2>3, <3>1, RowCovers DEF PageKept
  <2> QED BY <2>1, <2>2, <2>3 DEF Held
<1>7. \A w \in World : Alone(Page', w) <=> m.scratch # None /\ m.scratch.id = w
  BY <1>1, <1>2 DEF Alone
<1>8. /\ Held(m, row) \subseteq State /\ Copies(m, row) \subseteq State
      /\ Held(m, row) \subseteq Copies(m, row)
      /\ Copies(Page', row') \subseteq Copies(m, row)
  BY <1>1, <1>5, HeldTyped DEF Copies
<1>9. Covers(Copies(Page', row'), Copies(m, row))
  <2> SUFFICES ASSUME NEW y \in Copies(m, row)
               PROVE  \E z \in Copies(Page', row') : z.id = y.id /\ y.at <= z.at
    BY DEF Covers
  <2>0. y.at \in Nat
    BY <1>8 DEF State
  <2>1. CASE y = m.scratch
    <3>1. y \in Copies(Page', row')
      BY <1>1, <1>8, <2>1, NoneAssumption DEF Copies
    <3> QED BY <2>0, <3>1
  <2>2. CASE y = m.tab.dirty /\ y # m.scratch
    <3>1. y \in Held(m, row)
      BY <2>2 DEF Copies
    <3>2. m.tab.dirty # None
      BY <1>8, <2>2, NoneAssumption
    <3>3. m.scratch \in Copies(Page', row') /\ m.scratch.id = y.id /\ m.scratch.at = m.saves
      BY <1>1, <1>3, <2>2, <3>2 DEF Copies, PageKept, Dated
    <3> QED BY <3>3 DEF PageKept, Backed
  <2>3. CASE y # m.tab.dirty /\ y # m.scratch
    BY <1>6, <2>3 DEF Copies
  <2> QED BY <2>1, <2>2, <2>3
<1>10. Tells(Copies(Page', row'), m.saved)
  BY <1>8, <1>9, ThinTells DEF PageKept, Backed
<1>11. Rests(Page', row')
  <2> SUFFICES ASSUME NEW w \in World, m.saved[w] # {}, m.scratch = None \/ m.scratch.id # w
               PROVE  Has(Held(Page', row'), Copies(Page', row'), w)
    BY <1>1, <1>7 DEF Rests
  <2>1. ~Alone(m, w)
    BY DEF Alone
  <2>2. PICK y \in Held(m, row) : y.id = w /\ Newest(Copies(m, row), y)
    BY <2>1 DEF PageKept, Backed, Rests, Has
  <2>3. y # m.tab.dirty
    BY <1>3, <1>8, <2>2, NoneAssumption
  <2>4. PICK z \in Held(Page', row') : z.id = w /\ y.at <= z.at
    BY <1>6, <2>2, <2>3
  <2>5. ASSUME NEW x \in Copies(Page', row'), x.id = w PROVE x.at <= z.at
    <3>1. x.at <= y.at
      BY <1>8, <2>2, <2>5 DEF Newest
    <3>2. x.at \in Nat /\ y.at \in Nat /\ z.at \in Nat
      BY <1>8 DEF State
    <3> QED BY <2>4, <3>1, <3>2
  <2> QED BY <2>4, <2>5 DEF Has, Newest
<1>12. Backed(Page', row')
  BY <1>1, <1>8, <1>10, <1>11 DEF PageKept, Backed
<1>13. Dated(Page', row')
  BY <1>1, <1>2, <1>4 DEF PageKept, Dated
<1>14. Rooted(Page', row')
  BY <1>1, <1>2, <1>4 DEF PageKept, Rooted
<1>15. GetKept(Page', get', row')
  BY <1>1, <1>2 DEF GetKept
<1> QED BY <1>12, <1>13, <1>14, <1>15 DEF PageKept

LEMMA CloseKept ==
    ASSUME IInv, IInv', PageKept(Page, row), GetKept(Page, get, row), Close, wounds' = {}
    PROVE  PageKept(Page', row') /\ GetKept(Page', get', row')
<1> DEFINE m == Teardown(Page)
<1> USE Both, Fields, FieldsNext
<1>1. m \in PageType
  BY TeardownKeeps
<1>2. Dies(m) /\ tab.phase = "live"
  BY DEF Close
<1>3. m.wounds = {}
  <2> HIDE DEF m
  <2> QED BY <1>1, <1>2 DEF Dies, Becomes, PageType
<1>4. PageKept(m, row)
  BY <1>2, <1>3, TeardownKept
<1> HIDE DEF m
<1> QED BY <1>1, <1>2, <1>4, DiesKept

\* A scratch whose row has caught up is not alone.
LEMMA Synced ==
    ASSUME IInv, PageKept(Page, row), ~Unsynced
    PROVE  /\ scratch # None => /\ RowState(row, scratch.id) \in Held(Page, row)
                                /\ RowState(row, scratch.id).id = scratch.id
                                /\ scratch.at <= RowState(row, scratch.id).at
           /\ \A w \in World : saved[w] # {} => Has(Held(Page, row), Copies(Page, row), w)
<1> USE Known, Fields
<1>1. ASSUME scratch # None
      PROVE  /\ RowState(row, scratch.id) \in Held(Page, row)
             /\ RowState(row, scratch.id).id = scratch.id
             /\ scratch.at <= RowState(row, scratch.id).at
             /\ Newest(Copies(Page, row), RowState(row, scratch.id))
  <2>1. scratch.id \in World /\ scratch.at \in Nat /\ scratch.at = saves
    BY <1>1 DEF State, PageKept, Dated
  <2>2. row[scratch.id] # None /\ row[scratch.id].at \in Nat /\ scratch.at <= row[scratch.id].at
    BY <1>1, <2>1 DEF Unsynced, RowType
  <2>3. ASSUME NEW y \in Copies(Page, row) PROVE y.at <= row[scratch.id].at
    <3>1. y.at <= saves /\ y.at \in Nat
      BY HeldTyped DEF PageKept, Backed, State
    <3> QED BY <2>1, <2>2, <3>1
  <2> QED BY <2>1, <2>2, <2>3 DEF RowState, Held, Newest
<1>2. ASSUME NEW w \in World, saved[w] # {} PROVE Has(Held(Page, row), Copies(Page, row), w)
  <2>1. CASE Alone(Page, w)
    BY <1>1, <2>1 DEF Alone, Has
  <2>2. CASE ~Alone(Page, w)
    BY <1>2, <2>2 DEF PageKept, Backed, Rests
  <2> QED BY <2>1, <2>2
<1> QED BY <1>1, <1>2

LEMMA EvictKept ==
    ASSUME IInv, IInv', PageKept(Page, row), GetKept(Page, get, row), Evict, wounds' = {}
    PROVE  PageKept(Page', row') /\ GetKept(Page', get', row')
<1> USE Both, Fields, FieldsNext
<1>1. /\ tab.phase = "down" /\ scratch # None /\ scratch' = None /\ ~Unsynced
      /\ UNCHANGED <<row, tab, get, puts, saves, saved>>
  BY DEF Evict
<1>2. /\ Held(Page', row') = Held(Page, row)
      /\ Copies(Page', row') = Held(Page, row)
      /\ Copies(Page, row) \subseteq State /\ Held(Page, row) \subseteq Copies(Page, row)
  BY <1>1, HeldTyped DEF Held, Copies
<1>3. Covers(Held(Page, row), Copies(Page, row))
  <2> SUFFICES ASSUME NEW y \in Copies(Page, row)
               PROVE  \E z \in Held(Page, row) : z.id = y.id /\ y.at <= z.at
    BY DEF Covers
  <2>1. CASE y = scratch
    BY <1>1, <2>1, Synced
  <2>2. CASE y # scratch
    <3>1. y \in Held(Page, row) /\ y.at \in Nat
      BY <2>2 DEF Copies, State
    <3> QED BY <3>1
  <2> QED BY <2>1, <2>2
<1>4. Tells(Copies(Page', row'), saved')
  BY <1>1, <1>2, <1>3, ThinTells DEF PageKept, Backed
<1>5. Rests(Page', row')
  <2>1. Covers(Held(Page, row), Held(Page, row))
    BY CoversSelf
  <2> QED BY <1>1, <1>2, <2>1, Synced, ThinHas DEF Rests
<1>6. Backed(Page', row')
  BY <1>1, <1>2, <1>4, <1>5 DEF PageKept, Backed
<1>7. Dated(Page', row') /\ Rooted(Page', row')
  BY <1>1 DEF PageKept, Dated, Rooted
<1>8. GetKept(Page', get', row')
  BY <1>1 DEF GetKept
<1> QED BY <1>6, <1>7, <1>8 DEF PageKept

\* A page that comes to show what its world has.
LEMMA ComesKept ==
    ASSUME IInv, IInv', PageKept(Page, row), tab.dirty = None, \A p \in puts : ~p.calm,
           UNCHANGED <<row, scratch, puts, saves, saved>>,
           tab'.phase \in {"live", "restoring"}, tab'.dirty = None, ~tab'.due,
           tab'.phase = "live" => /\ saved[tab'.active] \subseteq tab'.doc
                                  /\ tab'.active # Home => row[tab'.active] # None,
           \A w \in World : Alone(Page, w) => Alone(Page', w)
    PROVE  PageKept(Page', row')
<1> USE Both, Fields, FieldsNext
<1>1. Held(Page', row') = Held(Page, row)
  BY DEF Held
<1>2. Covers(Held(Page', row'), Held(Page, row))
  BY <1>1, CoversSelf
<1>3. Backed(Page', row')
  BY <1>1, <1>2, Thins DEF PageKept
<1>4. Dated(Page', row') /\ Rooted(Page', row')
  BY DEF PageKept, Dated, Rooted
<1> QED BY <1>3, <1>4 DEF PageKept

LEMMA ShownIs ==
    ASSUME NEW w, NEW doc
    PROVE  LET t == Shown(w, doc) IN
           /\ t.phase = "live" /\ t.active = w /\ t.doc = doc
           /\ t.memo = None /\ t.dirty = None /\ ~t.due
BY DEF Shown, Gone

LEMMA BootHealsKept ==
    ASSUME IInv, IInv', PageKept(Page, row), GetKept(Page, get, row), BootHeals
    PROVE  PageKept(Page', row') /\ GetKept(Page', get', row')
<1> USE Both, Fields, FieldsNext
<1>1. PICK w \in World : row[w] # None /\ Fresher(w) /\ tab' = Shown(w, scratch.doc)
  BY DEF BootHeals, Current
<1>2. scratch # None /\ scratch.id = w
  BY <1>1 DEF Fresher, Unsynced
<1>3. /\ tab'.phase = "live" /\ tab'.active = w /\ tab'.doc = scratch.doc
      /\ tab'.memo = None /\ tab'.dirty = None /\ ~tab'.due
  BY <1>1, ShownIs
<1>4. /\ tab.phase = "down" /\ UNCHANGED <<row, scratch, get, puts, saves, saved>>
  BY DEF BootHeals, Comes
<1>5. tab.dirty = None /\ (\A p \in puts : ~p.calm) /\ get = None
  BY <1>4 DEF PageKept, Rooted, GetKept
<1>6. saved[w] \subseteq scratch.doc
  BY <1>2 DEF PageKept, Dated
<1>7. \A v \in World : Alone(Page, v) => Alone(Page', v)
  BY <1>2, <1>3, <1>4 DEF Alone
<1>8. PageKept(Page', row')
  BY <1>1, <1>3, <1>4, <1>5, <1>6, <1>7, ComesKept
<1>9. GetKept(Page', get', row')
  BY <1>3, <1>4, <1>5 DEF GetKept
<1> QED BY <1>8, <1>9

LEMMA BootFromRowKept ==
    ASSUME IInv, IInv', PageKept(Page, row), GetKept(Page, get, row), BootFromRow, wounds' = {}
    PROVE  PageKept(Page', row') /\ GetKept(Page', get', row')
<1> USE Both, Fields, FieldsNext
<1>1. PICK w \in World : /\ row[w] # None
                        /\ tab' = [Gone EXCEPT !.phase = "restoring", !.active = w]
                        /\ get' = [id |-> w, doc |-> Unread]
                        /\ wounds' = wounds \cup IF Fresher(w) THEN {"skew"}
                                      ELSE IF Unsynced THEN {"left"} ELSE {}
  BY DEF BootFromRow, Current
<1>2. ~Unsynced
  BY <1>1 DEF Fresher
<1>3. /\ tab'.phase = "restoring" /\ tab'.active = w
      /\ tab'.dirty = None /\ ~tab'.due
  BY <1>1 DEF Gone
<1>4. /\ tab.phase = "down" /\ UNCHANGED <<row, scratch, puts, saves, saved>>
  BY DEF BootFromRow, Comes
<1>5. tab.dirty = None /\ (\A p \in puts : ~p.calm)
  BY <1>4 DEF PageKept, Rooted
<1>6. /\ Held(Page', row') = Held(Page, row)
      /\ Copies(Page', row') = Copies(Page, row)
  BY <1>3, <1>4, <1>5 DEF Held, Copies
<1>7. Rests(Page', row')
  BY <1>2, <1>4, <1>6, Synced DEF Rests
<1>8. Backed(Page', row')
  BY <1>4, <1>6, <1>7 DEF PageKept, Backed
<1>9. Dated(Page', row') /\ Rooted(Page', row')
  BY <1>3, <1>4, <1>5 DEF PageKept, Dated, Rooted
<1>10. GetKept(Page', get', row')
  <2>1. get'.id = w /\ get'.doc = Unread
    BY <1>1
  <2>2. get' # None
    <3>1. [id |-> w, doc |-> Unread] \in [id : World, doc : Doc \cup {Unread}]
      OBVIOUS
    <3> QED BY <1>1, <3>1, NoneAssumption
  <2> QED BY <1>1, <1>3, <1>4, <2>1, <2>2 DEF GetKept
<1> QED BY <1>8, <1>9, <1>10 DEF PageKept

\* A page restored from the scratch shows all its world has.
LEMMA Reread ==
    ASSUME IInv, PageKept(Page, row), NEW w \in World, Misread(w) = {},
           tab.dirty = None
    PROVE  /\ saved[w] \subseteq Scratch
           /\ scratch # None => scratch.id = w
           /\ scratch = None => saved[w] = {} /\ row[w] = None
<1> USE Known, Fields
<1>1. CASE scratch # None
  <2>1. scratch.id = w
    BY <1>1 DEF Misread
  <2> QED BY <1>1, <2>1 DEF Scratch, PageKept, Dated
<1>2. CASE scratch = None
  <2>1. row[w] = None /\ \A p \in puts : p.state.id # w
    BY <1>2 DEF Misread
  <2>2. \A st \in Held(Page, row) : st.id # w
    BY <2>1 DEF Held, RowState
  <2>3. ~Alone(Page, w)
    BY <1>2 DEF Alone
  <2>4. saved[w] = {}
    BY <2>2, <2>3 DEF PageKept, Backed, Rests, Has
  <2> QED BY <1>2, <2>1, <2>4
<1> QED BY <1>1, <1>2

LEMMA BootOfflineKept ==
    ASSUME IInv, IInv', PageKept(Page, row), GetKept(Page, get, row), BootOffline, wounds' = {}
    PROVE  PageKept(Page', row') /\ GetKept(Page', get', row')
<1> USE Both, Fields, FieldsNext
<1>1. /\ tab.phase = "down" /\ tab' = Shown(Home, Scratch)
      /\ UNCHANGED <<row, scratch, get, puts, saves, saved>>
      /\ Misread(Home) = {} /\ Home \in World
  BY WorldsAssumption DEF BootOffline, Comes
<1>2. /\ tab'.phase = "live" /\ tab'.active = Home /\ tab'.doc = Scratch
      /\ tab'.memo = None /\ tab'.dirty = None /\ ~tab'.due
  BY <1>1, ShownIs
<1>3. tab.dirty = None /\ (\A p \in puts : ~p.calm) /\ get = None
  BY <1>1 DEF PageKept, Rooted, GetKept
<1>4. \A v \in World : Alone(Page, v) => Alone(Page', v)
  BY <1>1, <1>2, <1>3, Reread DEF Alone
<1>5. PageKept(Page', row')
  BY <1>1, <1>2, <1>3, <1>4, Reread, ComesKept
<1>6. GetKept(Page', get', row')
  BY <1>1, <1>2, <1>3 DEF GetKept
<1> QED BY <1>5, <1>6

LEMMA BootMigratesKept ==
    ASSUME IInv, IInv', PageKept(Page, row), GetKept(Page, get, row), BootMigrates, wounds' = {}
    PROVE  PageKept(Page', row') /\ GetKept(Page', get', row')
<1> USE Both, Fields, FieldsNext
<1> DEFINE st == [id |-> Home, doc |-> Scratch, at |-> ScratchAt]
<1>1. /\ tab.phase = "down" /\ tab' = Shown(Home, Scratch)
      /\ UNCHANGED <<scratch, get, puts, saves, saved>>
      /\ Misread(Home) = {} /\ Home \in World
      /\ \A w \in World : row[w] = None
      /\ row' = row \/ row' = [row EXCEPT ![Home] = [doc |-> Scratch, at |-> ScratchAt]]
  BY WorldsAssumption DEF BootMigrates, Comes
<1>2. /\ tab'.phase = "live" /\ tab'.active = Home /\ tab'.doc = Scratch
      /\ tab'.memo = None /\ tab'.dirty = None /\ ~tab'.due
  BY <1>1, ShownIs
<1>3. tab.dirty = None /\ (\A p \in puts : ~p.calm) /\ get = None
  BY <1>1 DEF PageKept, Rooted, GetKept
<1>4. /\ saved[Home] \subseteq Scratch
      /\ scratch # None => scratch.id = Home
      /\ scratch = None => saved[Home] = {}
  BY <1>1, <1>3, Reread
<1>5. \A v \in World : Alone(Page, v) => Alone(Page', v)
  BY <1>1, <1>2, <1>4 DEF Alone
<1>6. GetKept(Page', get', row')
  BY <1>1, <1>2, <1>3 DEF GetKept
<1>7. CASE row' = row
  <2>1. PageKept(Page', row')
    BY <1>1, <1>2, <1>3, <1>4, <1>5, <1>7, ComesKept
  <2> QED BY <1>6, <2>1
<1>8. CASE row' = [row EXCEPT ![Home] = [doc |-> Scratch, at |-> ScratchAt]]
  <2>1. /\ Scratch \in Doc /\ ScratchAt \in Nat /\ st \in State
        /\ scratch # None => st = scratch
        /\ scratch = None => st.at = 0
    <3>1. scratch = None => Scratch = {} /\ ScratchAt = 0
      BY DEF Scratch, ScratchAt
    <3>2. scratch # None => /\ scratch \in State
                            /\ Scratch = scratch.doc /\ ScratchAt = scratch.at
      BY DEF Scratch, ScratchAt
    <3>3. Scratch \in Doc /\ ScratchAt \in Nat
      BY <3>1, <3>2 DEF State, Doc
    <3>4. st \in State
      BY <1>1, <3>3 DEF State
    <3>5. scratch # None => st = scratch
      BY <1>4, <3>2 DEF State
    <3> QED BY <3>1, <3>3, <3>4, <3>5
  <2>2. /\ row'[Home] # None /\ RowState(row', Home) = st
        /\ \A w \in World \ {Home} : row'[w] = None
    <3>1. row'[Home] = [doc |-> Scratch, at |-> ScratchAt]
      BY <1>1, <1>8 DEF RowType
    <3>2. row'[Home] \in [doc : Doc, at : Nat]
      BY <2>1, <3>1
    <3> QED BY <1>1, <1>8, <3>1, <3>2, NoneAssumption DEF RowType, RowState
  <2> HIDE DEF st
  <2>3. Held(Page', row') = Held(Page, row) \cup {st}
    BY <1>1, <1>2, <1>3, <2>2 DEF Held
  <2>4. Backed(Page', row')
    <3>1. CASE scratch = None
      <4>1. st.id = Home /\ st.at <= saves
        BY <2>1, <3>1 DEF st
      <4> QED BY <1>1, <1>4, <1>5, <2>1, <2>3, <3>1, <4>1, Grows DEF PageKept
    <3>2. CASE scratch # None
      <4>1. Copies(Page', row') = Copies(Page, row)
        BY <1>1, <2>1, <2>3, <3>2 DEF Copies
      <4>2. Rests(Page', row')
        BY <1>1, <1>5, <2>3, <4>1 DEF PageKept, Backed, Rests, Has
      <4> QED BY <1>1, <4>1, <4>2 DEF PageKept, Backed
    <3> QED BY <3>1, <3>2
  <2>5. Dated(Page', row')
    <3>1. \A p \in puts : ~p.landed
      BY <1>1 DEF PageKept, Dated, PutType, State
    <3> QED BY <1>1, <1>3, <3>1 DEF PageKept, Dated
  <2>6. Rooted(Page', row')
    BY <1>1, <1>2, <1>3, <1>4, <2>2 DEF PageKept, Rooted
  <2> QED BY <1>6, <2>4, <2>5, <2>6 DEF PageKept
<1> QED BY <1>1, <1>7, <1>8

LEMMA RestoreKept ==
    ASSUME IInv, IInv', PageKept(Page, row), GetKept(Page, get, row), Restore, wounds' = {}
    PROVE  PageKept(Page', row') /\ GetKept(Page', get', row')
<1> USE Both, Fields, FieldsNext
<1>1. /\ tab.phase = "restoring" /\ get # None /\ get' = None
      /\ UNCHANGED <<row, scratch, puts, saves, saved>>
      /\ \/ get.doc # Unread /\ tab' = Shown(get.id, get.doc)
         \/ tab' = Shown(get.id, Scratch) /\ Misread(get.id) = {}
  BY DEF Restore
<1>2. get.id \in World /\ row[get.id] # None
  BY <1>1 DEF GetType, GetKept
<1>3. tab.dirty = None /\ (\A p \in puts : ~p.calm)
  BY <1>1 DEF PageKept, Rooted
<1>4. /\ tab'.phase = "live" /\ tab'.active = get.id
      /\ tab'.memo = None /\ tab'.dirty = None /\ ~tab'.due
  BY <1>1, ShownIs
<1>5. saved[get.id] \subseteq tab'.doc
  <2>1. CASE get.doc # Unread /\ tab' = Shown(get.id, get.doc)
    BY <1>1, <2>1, ShownIs DEF GetKept
  <2>2. CASE tab' = Shown(get.id, Scratch) /\ Misread(get.id) = {}
    BY <1>2, <1>3, <2>2, ShownIs, Reread
  <2> QED BY <1>1, <2>1, <2>2
<1>6. \A v \in World : Alone(Page, v) => Alone(Page', v)
  BY <1>1 DEF Alone
<1>7. PageKept(Page', row')
  BY <1>1, <1>2, <1>3, <1>4, <1>5, <1>6, ComesKept
<1>8. GetKept(Page', get', row')
  BY <1>1, <1>4 DEF GetKept
<1> QED BY <1>7, <1>8

\* A row that is read when nothing of its world is under way has it all.
LEMMA ServeGetKept ==
    ASSUME IInv, IInv', PageKept(Page, row), GetKept(Page, get, row), ServeGet, wounds' = {}
    PROVE  PageKept(Page', row') /\ GetKept(Page', get', row')
<1> USE Both, Fields, FieldsNext
<1> DEFINE w == get.id
           st == RowState(row, w)
<1>1. /\ get # None /\ row[w] # None
      /\ get' = [get EXCEPT !.doc = row[w].doc]
      /\ \A p \in puts : p.state.id = w => p.landed
      /\ tab.dirty # None => tab.dirty.id # w
      /\ UNCHANGED <<row, scratch, tab, puts, saves, saved>>
  BY DEF ServeGet
<1>2. w \in World /\ get'.id = w /\ get'.doc = row[w].doc
  BY <1>1 DEF GetType
<1>3. st.id = w /\ st.doc = row[w].doc /\ st.at \in Nat /\ st \in Held(Page, row)
  BY <1>1, <1>2 DEF RowState, RowType, Held
<1>4. ~Alone(Page, w)
  BY <1>1, <1>2 DEF Alone, GetKept
<1>5. saved[w] \subseteq row[w].doc
  <2>1. CASE saved[w] = {}
    BY <2>1
  <2>2. CASE saved[w] # {}
    <3>1. PICK y \in Held(Page, row) : y.id = w /\ Newest(Copies(Page, row), y)
      BY <1>2, <1>4, <2>2 DEF PageKept, Backed, Rests, Has
    <3>2. y.at \in Nat
      BY DEF State
    <3>3. y.at <= st.at
      <4>1. ASSUME NEW v \in World, y = RowState(row, v) PROVE y.at <= st.at
        <5>1. y = st
          BY <3>1, <4>1 DEF RowState
        <5> QED BY <1>3, <5>1
      <4>2. ASSUME NEW p \in puts, y = p.state PROVE y.at <= st.at
        <5>1. p.landed /\ p.state.id = w
          BY <1>1, <3>1, <4>2
        <5> QED BY <4>2, <5>1, RowCovers DEF PageKept
      <4>3. y # tab.dirty
        BY <1>1, <3>1, NoneAssumption
      <4> QED BY <4>1, <4>2, <4>3 DEF Held
    <3>4. Newest(Copies(Page, row), st)
      <4> SUFFICES ASSUME NEW x \in Copies(Page, row), x.id = w PROVE x.at <= st.at
        BY <1>3 DEF Newest
      <4>1. x.at <= y.at
        BY <3>1 DEF Newest
      <4>2. x.at \in Nat
        BY HeldTyped DEF State
      <4> QED BY <1>3, <3>2, <3>3, <4>1, <4>2
    <3>5. st \in Copies(Page, row)
      BY <1>3 DEF Copies
    <3> QED BY <1>3, <3>4, <3>5 DEF PageKept, Backed, Tells
  <2> QED BY <2>1, <2>2
<1> HIDE DEF w, st
<1>6. PageKept(Page', row')
  <2>1. Held(Page', row') = Held(Page, row) /\ Copies(Page', row') = Copies(Page, row)
    BY <1>1 DEF Held, Copies
  <2> QED BY <1>1, <2>1 DEF PageKept, Backed, Rests, Alone, Dated, Rooted
<1>7. GetKept(Page', get', row')
  <2>1. get' # None
    <3>1. get' \in [id : World, doc : Doc \cup {Unread}]
      BY <1>1, <1>2 DEF GetType, RowType, w
    <3> QED BY <3>1, NoneAssumption
  <2>2. saved[get'.id] \subseteq get'.doc /\ row[get'.id] # None
    BY <1>1, <1>2, <1>5
  <2>3. get'.id = get.id
    BY <1>2 DEF w
  <2> QED BY <1>1, <2>1, <2>2, <2>3 DEF GetKept
<1> QED BY <1>6, <1>7

LEMMA CreateKept ==
    ASSUME IInv, IInv', PageKept(Page, row), GetKept(Page, get, row), Create
    PROVE  PageKept(Page', row') /\ GetKept(Page', get', row')
<1> USE Both, Fields, FieldsNext
<1>1. PICK w \in World \ {Home} :
         row[w] = None /\ row' = [row EXCEPT ![w] = [doc |-> {<<w, 0>>}, at |-> saves]]
  BY DEF Create
<1>2. UNCHANGED <<tab, get, puts, scratch, saves, saved>>
  BY DEF Create, page
<1> DEFINE st == RowState(row', w)
<1>3. row'[w] = [doc |-> {<<w, 0>>}, at |-> saves] /\ \A v \in World \ {w} : row'[v] = row[v]
  BY <1>1 DEF RowType
<1>4. row'[w] # None /\ st \in State /\ st.id = w /\ st.at = saves
  <2>1. {<<w, 0>>} \in Doc
    BY WorldsAssumption DEF Doc
  <2>2. row'[w] \in [doc : Doc, at : Nat]
    BY <1>3, <2>1, Known
  <2>3. st = [id |-> w, doc |-> {<<w, 0>>}, at |-> saves]
    BY <1>3 DEF RowState
  <2>4. st \in State /\ st.id = w /\ st.at = saves
    BY <2>1, <2>3, Known DEF State
  <2> QED BY <2>2, <2>4, NoneAssumption
<1>5. \A v \in World \ {w} : RowState(row', v) = RowState(row, v)
  BY <1>3 DEF RowState
<1> HIDE DEF st
<1>6. Held(Page', row') = Held(Page, row) \cup {st}
  <2>1. {RowState(row', v) : v \in {u \in World : row'[u] # None}}
          = {RowState(row, v) : v \in {u \in World : row[u] # None}} \cup {st}
    <3>1. {u \in World : row'[u] # None} = {u \in World : row[u] # None} \cup {w}
      BY <1>1, <1>3, <1>4
    <3> DEFINE old == {u \in World : row[u] # None}
    <3>2. {RowState(row', v) : v \in {u \in World : row'[u] # None}}
            = {RowState(row', v) : v \in old \cup {w}}
      BY <3>1
    <3>3. \A v \in old : v \in World \ {w} /\ RowState(row', v) = RowState(row, v)
      BY <1>1, <1>5
    <3> HIDE DEF old
    <3>4. {RowState(row', v) : v \in old \cup {w}} = {RowState(row, v) : v \in old} \cup {st}
      BY <3>3 DEF st
    <3> QED BY <3>2, <3>4 DEF old
  <2> QED BY <1>2, <2>1 DEF Held
<1>7. saved[w] = {}
  BY <1>1 DEF PageKept, Rooted
<1>8. Backed(Page', row')
  BY <1>2, <1>4, <1>6, <1>7, Grows DEF PageKept, Alone
<1>9. \A v \in World : row[v] # None => row'[v] = row[v]
  BY <1>1, <1>3
<1>10. Dated(Page', row')
  BY <1>2, <1>9 DEF PageKept, Dated, PutType, State
<1>11. Rooted(Page', row')
  BY <1>2, <1>3, <1>4, <1>9 DEF PageKept, Rooted, TabType
<1>12. GetKept(Page', get', row')
  BY <1>2, <1>9 DEF GetKept, GetType
<1> QED BY <1>8, <1>10, <1>11, <1>12 DEF PageKept

LEMMA SwitchStartKept ==
    ASSUME IInv, IInv', PageKept(Page, row), GetKept(Page, get, row), SwitchStart, wounds' = {}
    PROVE  PageKept(Page', row') /\ GetKept(Page', get', row')
<1> USE Both, Fields, FieldsNext
<1> DEFINE k == SaveNow(Page)
           n == FlushNow(k)
<1>1. k \in PageType
  BY SaveNowKeeps
<1>2. /\ tab.phase = "live" /\ Becomes(n) /\ UNCHANGED row
      /\ \E w \in World \ {tab.active} : row[w] # None /\ get' = [id |-> w, doc |-> Unread]
  BY DEF SwitchStart
<1> HIDE DEF k
<1>3. n \in PageType /\ n.wounds = k.wounds
  BY <1>1, FlushNowKeeps
<1>4. Page' = n
  BY <1>2, <1>3, PageBecomes
<1>5. /\ PageKept(k, row) /\ k.tab.phase = "live" /\ k.tab.active = tab.active
      /\ k.tab.memo # None
  BY <1>2, <1>3, <1>4, SaveNowKept DEF k
<1>6. /\ PageKept(n, row) /\ n.tab.phase = "live" /\ n.tab.active = tab.active
      /\ n.tab.memo # None
  BY <1>1, <1>5, FlushNowKept
<1> HIDE DEF n
<1>7. GetKept(n, get', row)
  BY <1>2, <1>6 DEF GetKept
<1> QED BY <1>2, <1>4, <1>6, <1>7

LEMMA SwitchLandsKept ==
    ASSUME IInv, IInv', PageKept(Page, row), GetKept(Page, get, row), SwitchLands, wounds' = {}
    PROVE  PageKept(Page', row') /\ GetKept(Page', get', row')
<1> USE Both, Fields, FieldsNext
<1> DEFINE other == [tab EXCEPT !.active = get.id, !.doc = get.doc, !.memo = None]
           m == [Page EXCEPT !.tab = other]
           k == SaveNow(m)
           n == FlushNow(k)
<1>1. /\ tab.phase = "live" /\ get # None /\ get.doc # Unread /\ get' = None
      /\ Becomes(n) /\ UNCHANGED row
  BY DEF SwitchLands
<1>2. get.id \in World /\ get.doc \in Doc
  BY <1>1 DEF GetType, Unread
<1>3. /\ other \in TabType /\ other.active = get.id /\ other.doc = get.doc
      /\ other.dirty = tab.dirty /\ other.phase = "live"
  BY <1>1, <1>2 DEF TabType
<1> HIDE DEF other
<1>4. /\ m \in PageType /\ m.tab = other /\ m.scratch = scratch /\ m.puts = puts
      /\ m.saves = saves /\ m.saved = saved
  BY <1>3 DEF PageType
<1> HIDE DEF m
<1>5. PageKept(m, row)
  <2>1. Held(m, row) = Held(Page, row)
    BY <1>3, <1>4 DEF Held
  <2>2. Covers(Held(m, row), Held(Page, row))
    BY <2>1, CoversSelf
  <2>3. \A w \in World : ~Alone(Page, w)
    BY <1>1 DEF Alone, GetKept
  <2>4. Backed(m, row)
    BY <1>4, <2>1, <2>2, <2>3, Thins DEF PageKept
  <2>5. Dated(m, row) /\ Rooted(m, row)
    BY <1>1, <1>3, <1>4 DEF PageKept, Dated, Rooted, GetKept
  <2> QED BY <2>4, <2>5 DEF PageKept
<1>6. k \in PageType
  BY <1>4, SaveNowKeeps
<1> HIDE DEF k
<1>7. n \in PageType /\ n.wounds = k.wounds
  BY <1>6, FlushNowKeeps
<1>8. Page' = n
  BY <1>1, <1>7, PageBecomes
<1>9. PageKept(k, row) /\ k.tab.phase = "live"
  BY <1>3, <1>4, <1>5, <1>7, <1>8, SaveNowKept DEF k
<1>10. PageKept(n, row) /\ n.tab.phase = "live"
  BY <1>6, <1>9, FlushNowKept
<1> HIDE DEF n
<1>11. GetKept(n, get', row)
  BY <1>1, <1>10 DEF GetKept
<1> QED BY <1>1, <1>8, <1>10, <1>11

LEMMA SwitchFailsKept ==
    ASSUME IInv, IInv', PageKept(Page, row), GetKept(Page, get, row), SwitchFails
    PROVE  PageKept(Page', row') /\ GetKept(Page', get', row')
<1> USE Both, Fields, FieldsNext
<1>1. Page' = Page /\ row' = row /\ get' = None /\ tab.phase = "live"
  BY DEF SwitchFails, Page
<1> QED BY <1>1 DEF GetKept

-----------------------------------------------------------------------------

\* No handler takes a wound back.
LEMMA PageHurts ==
    ASSUME NEW m \in PageType
    PROVE  /\ m.wounds \subseteq SaveNow(m).wounds
           /\ FlushNow(m).wounds = m.wounds
           /\ m.wounds \subseteq Teardown(m).wounds
<1>1. ASSUME NEW k \in PageType PROVE k.wounds \subseteq SaveNow(k).wounds
  BY SaveNowWrites
<1>2. ASSUME NEW k \in PageType PROVE FlushNow(k).wounds = k.wounds
  BY FlushNowKeeps
<1>3. SaveNow(m) \in PageType
  BY SaveNowKeeps
<1>4. m.wounds \subseteq Teardown(m).wounds
  <2>1. CASE m.tab.memo # None
    <3>1. Teardown(m) = FlushNow(SaveNow(m))
      BY <2>1 DEF Teardown
    <3> QED BY <1>1, <1>2, <1>3, <3>1
  <2>2. CASE m.tab.memo = None
    <3>1. Teardown(m) = FlushNow(m)
      BY <2>2 DEF Teardown
    <3> QED BY <1>2, <3>1
  <2> QED BY <2>1, <2>2
<1> QED BY <1>1, <1>2, <1>4

LEMMA WoundsStay == ASSUME IInv, Next PROVE wounds \subseteq wounds'
<1> USE Known, Fields
<1>1. CASE PageNext
  <2>1. CASE SaveTimer
    <3> DEFINE m == [Page EXCEPT !.tab.due = FALSE]
    <3>1. m \in PageType /\ m.wounds = wounds
      BY DEF PageType, TabType
    <3>2. wounds' = SaveNow(m).wounds
      BY <2>1 DEF SaveTimer, Becomes
    <3> HIDE DEF m
    <3> QED BY <3>1, <3>2, PageHurts
  <2>2. CASE Hidden
    BY <2>2, PageHurts DEF Hidden, Becomes
  <2>3. ASSUME NEW m \in PageType, Dies(m) PROVE m.wounds \subseteq wounds'
    BY <2>3 DEF Dies, Becomes, PageType
  <2>4. CASE Close
    <3>1. Teardown(Page) \in PageType
      BY TeardownKeeps
    <3> QED BY <2>3, <2>4, <3>1, PageHurts DEF Close
  <2>5. CASE Kill
    BY <2>3, <2>5 DEF Kill
  <2>6. CASE Edit \/ Flush \/ PutAnswered
    BY <2>6 DEF Edit, Flush, PutAnswered
  <2>7. CASE CalmFails \/ NowFails
    BY <2>7 DEF CalmFails, NowFails
  <2> QED BY <1>1, <2>1, <2>2, <2>4, <2>5, <2>6, <2>7 DEF PageNext
<1>2. CASE BootNext
  BY <1>2 DEF BootNext, BootHeals, BootFromRow, BootOffline, BootMigrates, Restore
<1>3. CASE SwitchNext
  <2>1. CASE SwitchStart
    <3>1. SaveNow(Page) \in PageType
      BY SaveNowKeeps
    <3>2. wounds' = FlushNow(SaveNow(Page)).wounds
      BY <2>1 DEF SwitchStart, Becomes
    <3> QED BY <3>1, <3>2, PageHurts
  <2>2. CASE SwitchLands
    <3> DEFINE other == [tab EXCEPT !.active = get.id, !.doc = get.doc, !.memo = None]
               m == [Page EXCEPT !.tab = other]
    <3>1. get \in GetType /\ get # None /\ get.doc # Unread
      BY <2>2 DEF SwitchLands
    <3>2. other \in TabType
      BY <3>1 DEF TabType, GetType, Unread
    <3>3. m \in PageType /\ m.wounds = wounds
      BY <3>2 DEF PageType
    <3>4. wounds' = FlushNow(SaveNow(m)).wounds
      BY <2>2 DEF SwitchLands, Becomes
    <3> HIDE DEF m
    <3>5. SaveNow(m) \in PageType
      BY <3>3, SaveNowKeeps
    <3> QED BY <3>3, <3>4, <3>5, PageHurts
  <2>3. CASE Create \/ SwitchFails
    BY <2>3 DEF Create, SwitchFails, page
  <2> QED BY <1>3, <2>1, <2>2, <2>3 DEF SwitchNext
<1>4. CASE PutLands \/ ServeGet \/ Evict
  BY <1>4 DEF PutLands, ServeGet, Evict
<1> QED BY <1>1, <1>2, <1>3, <1>4 DEF Next

LEMMA InitKept == Init => KeptInv
<1> SUFFICES ASSUME Init PROVE PageKept(Page, row) /\ GetKept(Page, get, row)
  BY DEF KeptInv
<1> USE Fields, WorldsAssumption
<1>1. /\ scratch = None /\ tab = Gone /\ get = None /\ puts = {} /\ saves = 0
      /\ saved = [w \in World |-> {}]
      /\ row = [w \in World |-> [doc |-> {<<w, 0>>}, at |-> 0]]
           \/ row = [w \in World |-> None]
  BY DEF Init
<1>2. tab.phase = "down" /\ tab.dirty = None /\ ~tab.due
  BY <1>1 DEF Gone
<1>3. \A w \in World : saved[w] = {}
  BY <1>1
<1>4. \A st \in Copies(Page, row) : st.id \in World /\ st.at = 0
  <2>1. \A w \in World : row[w] # None => row[w].at = 0
    BY <1>1
  <2> QED BY <1>1, <1>2, <2>1 DEF Copies, Held, RowState
<1>5. Backed(Page, row)
  BY <1>1, <1>3, <1>4 DEF Backed, Tells, Rests
<1>6. Dated(Page, row) /\ Rooted(Page, row)
  BY <1>1, <1>2, <1>3 DEF Dated, Rooted
<1>7. GetKept(Page, get, row)
  BY <1>1, <1>2 DEF GetKept
<1> QED BY <1>5, <1>6, <1>7 DEF PageKept

LEMMA StepKept == IInv /\ IInv' /\ KeptInv /\ [Next]_vars => KeptInv'
<1> SUFFICES ASSUME IInv, IInv', KeptInv, [Next]_vars, wounds' = {}
             PROVE  PageKept(Page', row') /\ GetKept(Page', get', row')
  BY DEF KeptInv
<1>1. CASE UNCHANGED vars
  <2>1. Page' = Page /\ row' = row /\ get' = get /\ wounds = {}
    BY <1>1 DEF vars, page, counters, Page
  <2> QED BY <2>1 DEF KeptInv
<1>2. CASE Next
  <2>1. wounds = {}
    BY <1>2, WoundsStay
  <2>2. PageKept(Page, row) /\ GetKept(Page, get, row)
    BY <2>1 DEF KeptInv
  <2>3. CASE PageNext
    <3>1. CASE Kill
      BY <2>2, <3>1, Known, DiesKept DEF Kill
    <3>2. ~NowFails
      BY DEF NowFails
    <3> QED BY <2>2, <2>3, <3>1, <3>2, EditKept, SaveTimerKept, FlushKept, HiddenKept,
               CloseKept, PutAnsweredKept, CalmFailsKept DEF PageNext
  <2>4. CASE BootNext
    BY <2>2, <2>4, BootHealsKept, BootFromRowKept, BootOfflineKept, BootMigratesKept,
       RestoreKept DEF BootNext
  <2>5. CASE SwitchNext
    BY <2>2, <2>5, CreateKept, SwitchStartKept, SwitchLandsKept, SwitchFailsKept
       DEF SwitchNext
  <2>6. CASE PutLands \/ ServeGet \/ Evict
    BY <2>2, <2>6, PutLandsKept, ServeGetKept, EvictKept
  <2> QED BY <1>2, <2>3, <2>4, <2>5, <2>6 DEF Next
<1> QED BY <1>1, <1>2

\* "a crash loses at most the unsynced tail, and the next boot heals it": as long
\* as none of the ten wounds was taken, every edit that was saved in a world is in
\* its row, or in a state of that world which the scratch, the dirty slot or a PUT
\* still holds.
THEOREM SavedAlwaysKept == Spec => []SavedIsKept
<1>1. IInv /\ KeptInv => SavedIsKept
  <2> SUFFICES ASSUME IInv, KeptInv, wounds = {}, NEW w \in World, NEW e \in saved[w]
               PROVE  \/ row[w] # None /\ e \in row[w].doc
                      \/ \E st \in {scratch, tab.dirty} \ {None} : st.id = w /\ e \in st.doc
                      \/ \E p \in puts : p.state.id = w /\ e \in p.state.doc
    BY DEF SavedIsKept
  <2> USE Known, Fields
  <2>1. PageKept(Page, row)
    BY DEF KeptInv
  <2>2. CASE Alone(Page, w)
    BY <2>1, <2>2 DEF PageKept, Dated, Alone
  <2>3. CASE ~Alone(Page, w)
    <3>1. PICK st \in Held(Page, row) : st.id = w /\ Newest(Copies(Page, row), st)
      BY <2>1, <2>3 DEF PageKept, Backed, Rests, Has
    <3>2. st \in Copies(Page, row)
      BY <3>1 DEF Copies
    <3>3. e \in st.doc
      BY <2>1, <3>1, <3>2 DEF PageKept, Backed, Tells
    <3> QED BY <3>1, <3>3 DEF Held, RowState
  <2> QED BY <2>2, <2>3
<1>2. IInv /\ KeptInv /\ [Next]_vars => KeptInv'
  BY StepIInv, StepKept
<1> QED BY <1>1, <1>2, InitKept, AlwaysIInv, PTL DEF Spec
=============================================================================
