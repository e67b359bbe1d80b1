------------------------------- MODULE Worlds -------------------------------
(***************************************************************************)
(* The ledger of worlds: web/worlds.js (boot, save, flush, flushNow) with  *)
(* the callers of web/app.js that drive it: saveNow and its debounce, the  *)
(* teardown handlers, init and switchTo.                                   *)
(*                                                                         *)
(* One page at a time shows one world.  A world's content is the set of    *)
(* the marks it carries, <<world, n>> for the n-th edit made in it and     *)
(* <<world, 0>> for what its row was born with, so that a content tells    *)
(* which edits it has and whose they are; edits only add.  Date.now() is   *)
(* the count of saves, and whether two saves lie within HEAL_SKEW_MS is a  *)
(* choice.  The page is not a guest: a guest never PUTs (CanvasClient), so *)
(* no PUT carries a cursor and the 409 of flush, which needs one, does not *)
(* happen.  Thumbnails, names, looks and the deletion of a world are left  *)
(* out.                                                                    *)
(***************************************************************************)
EXTENDS Integers, FiniteSets

CONSTANTS
    World,         \* ids of canvases
    Home,          \* DEFAULT_ID
    None,
    MaxEdits,      \* bound: edits of the user
    MaxSwitches,   \* bound: switches of world
    MaxBoots,      \* bound: times the page comes up
    MaxFaults      \* bound: requests that fail, evictions of the scratch

ASSUME WorldsAssumption ==
    /\ Home \in World /\ None \notin World
    /\ {MaxEdits, MaxSwitches, MaxBoots, MaxFaults} \subseteq Nat

VARIABLES
    row,       \* the engine's rows
    scratch,   \* localStorage doomalay.state.v2: the last save
    pointer,   \* localStorage doomalay.canvas.current
    tab,       \* the page
    get,       \* the GET of a row in flight, of a boot or of a switch
    puts,      \* PUTs of a row in flight
    edits, switches, boots, faults,   \* counted against the bounds
    saves,     \* counts the saves: their clock
    saved,     \* history: the marks saved, for each world
    wounds     \* history: what went wrong so far (see Wound)

counters == <<edits, switches, boots, faults>>
page == <<tab, scratch, puts, saves, saved, wounds>>
vars == <<row, scratch, pointer, tab, get, puts, edits, switches, boots,
          faults, saves, saved, wounds>>

-----------------------------------------------------------------------------
(* Values *)

Doc == SUBSET (World \X (0..MaxEdits))

\* A whole state, tagged with its canvas and with when it was saved.
State == [id : World, doc : Doc, at : Nat]

Body == [id : World, doc : Doc]

Wound == {"failed",       \* a PUT nobody would send again was lost
          "died",         \* the page died with a payload not in the scratch
          "overwritten",  \* the one dirty slot dropped another world's payload
          "late",         \* a PUT landed after a younger one of its world
          "early",        \* a row was read before a PUT of it had landed
          "skew",         \* a boot preferred the row to a barely fresher scratch
          "left",         \* a boot left an unsynced scratch for another world
          "evicted",      \* localStorage went with a save the row had not
          "blank",        \* a boot without engine and scratch began afresh, beside
                          \* what its world has, or has on its way
          "stranger"}     \* a boot showed the scratch of one world as another

\* The page that is not there.
Gone == [phase |-> "down", active |-> Home, doc |-> {}, memo |-> None,
         due |-> FALSE, dirty |-> None, timer |-> FALSE]

Unread == None

\* None is none of the values it stands beside.
ASSUME NoneAssumption ==
    None \notin State \cup Body \cup [doc : Doc, at : Nat]
                     \cup [id : World, doc : Doc \cup {Unread}]

TypeOK ==
    /\ row \in [World -> [doc : Doc, at : Nat] \cup {None}]
    /\ scratch \in State \cup {None}
    /\ pointer \in World \cup {None}
    /\ tab \in [phase : {"down", "restoring", "live"}, active : World, doc : Doc,
                memo : Body \cup {None}, due : BOOLEAN, dirty : State \cup {None},
                timer : BOOLEAN]
    /\ get \in [id : World, doc : Doc \cup {Unread}] \cup {None}
    /\ puts \in SUBSET [state : State, calm : BOOLEAN, landed : BOOLEAN]
    /\ edits \in 0..MaxEdits /\ saves \in Nat
    /\ saved \in [World -> Doc] /\ wounds \subseteq Wound
    /\ \A p, q \in puts : p.calm /\ q.calm => p = q     \* the law of `syncing`

-----------------------------------------------------------------------------
(* What the handlers are made of: functions of what the page can reach *)

Page == [tab |-> tab, scratch |-> scratch, puts |-> puts, saves |-> saves,
         saved |-> saved, wounds |-> wounds]

Becomes(m) ==
    /\ tab' = m.tab /\ scratch' = m.scratch /\ puts' = m.puts
    /\ saves' = m.saves /\ saved' = m.saved /\ wounds' = m.wounds

OfWorld(doc, w) == {e \in doc : e[1] = w}

\* Worlds.save: the latest unsent state, tagged with its world.
WorldsSave(m, st) ==
    [m EXCEPT !.tab.dirty = st,
              !.tab.timer = TRUE,
              !.saved[st.id] = @ \cup OfWorld(st.doc, st.id),
              !.wounds = @ \cup IF m.tab.dirty # None /\ m.tab.dirty.id # st.id
                                THEN {"overwritten"} ELSE {}]

\* saveNow: nothing if the body is the last one written; else the scratch, then
\* the engine.
SaveNow(m) ==
    LET body == [id |-> m.tab.active, doc |-> m.tab.doc]
        st == [id |-> m.tab.active, doc |-> m.tab.doc, at |-> m.saves + 1]
        written == [m EXCEPT !.tab.memo = body, !.scratch = st, !.saves = @ + 1]
    IN  IF m.tab.memo = body THEN m ELSE WorldsSave(written, st)

Put(st, calm) == [state |-> st, calm |-> calm, landed |-> FALSE]

\* Mutant: the payload goes to whatever world is active.
FlushNowActive(m) ==
    IF m.tab.dirty = None THEN [m EXCEPT !.tab.timer = FALSE]
    ELSE LET st == [m.tab.dirty EXCEPT !.id = m.tab.active] IN
         [m EXCEPT !.tab.timer = FALSE, !.tab.dirty = None,
                   !.puts = @ \cup {Put(st, FALSE)}]

\* flushNow: past the calm cadence, and past `syncing`.
FlushNow(m) ==
    IF m.tab.dirty = None THEN [m EXCEPT !.tab.timer = FALSE]
    ELSE [m EXCEPT !.tab.timer = FALSE, !.tab.dirty = None,
                   !.puts = @ \cup {Put(m.tab.dirty, FALSE)}]

\* The teardown handlers: a page that never saved does not write.
Teardown(m) == FlushNow(IF m.tab.memo # None THEN SaveNow(m) ELSE m)

\* `syncing`: a calm PUT is in flight.
Syncing == \E p \in puts : p.calm

-----------------------------------------------------------------------------
(* The user, the debounce of 200 ms, the calm flush *)

Edit ==
    /\ tab.phase = "live" /\ edits < MaxEdits
    /\ edits' = edits + 1
    /\ tab' = [tab EXCEPT !.doc = @ \cup {<<tab.active, edits'>>}, !.due = TRUE]
    /\ UNCHANGED <<row, scratch, pointer, get, puts, switches, boots,
                   faults, saves, saved, wounds>>

SaveTimer ==
    /\ tab.due
    /\ Becomes(SaveNow([Page EXCEPT !.tab.due = FALSE]))
    /\ UNCHANGED <<row, pointer, get, counters>>

\* flush; that it may first wait for its cadence is the timer's business.
Flush ==
    /\ tab.timer
    /\ IF tab.dirty = None \/ Syncing
       THEN tab' = [tab EXCEPT !.timer = FALSE] /\ UNCHANGED puts
       ELSE /\ tab' = [tab EXCEPT !.timer = FALSE, !.dirty = None]
            /\ puts' = puts \cup {Put(tab.dirty, TRUE)}
    /\ UNCHANGED <<row, scratch, pointer, get, counters, saves, saved, wounds>>

\* visibilitychange to hidden.
Hidden ==
    /\ tab.phase = "live"
    /\ Becomes(Teardown(Page))
    /\ UNCHANGED <<row, pointer, get, counters>>

-----------------------------------------------------------------------------
(* PUTs: any order of landing *)

\* handleCanvasUpdate without a cursor: the row takes the state.
PutLands ==
    \E p \in puts :
        LET st == p.state IN
        /\ ~p.landed
        /\ row' = [row EXCEPT ![st.id] = [doc |-> st.doc, at |-> st.at]]
        /\ puts' = IF p.calm THEN (puts \ {p}) \cup {[p EXCEPT !.landed = TRUE]}
                              ELSE puts \ {p}
        /\ wounds' = wounds \cup
             IF row[st.id] # None /\ row[st.id].at > st.at THEN {"late"} ELSE {}
        /\ UNCHANGED <<scratch, pointer, tab, get, counters, saves, saved>>

\* Mutant: the last then only clears the flag.
RearmedNever(t) == t

\* flush's last then: what came meanwhile goes in 250 ms.
Rearmed(t) == IF t.dirty = None THEN t ELSE [t EXCEPT !.timer = TRUE]

PutAnswered ==
    \E p \in puts :
        /\ p.calm /\ p.landed
        /\ puts' = puts \ {p}
        /\ tab' = Rearmed(tab)
        /\ UNCHANGED <<row, scratch, pointer, get, counters, saves, saved,
                       wounds>>

\* Mutant: the payload of a PUT that failed is not kept.
RestoredNever(t, st) == t

\* flush's catch: the payload is the next flush's, unless a younger one waits.
Restored(t, st) ==
    IF t.dirty = None \/ st.at >= t.dirty.at THEN [t EXCEPT !.dirty = st] ELSE t

\* A calm PUT fails, before or after it landed.
CalmFails ==
    /\ faults < MaxFaults
    /\ faults' = faults + 1
    /\ \E p \in puts :
         /\ p.calm
         /\ puts' = puts \ {p}
         /\ tab' = Rearmed(Restored(tab, p.state))
         /\ wounds' = wounds \cup
              IF ~p.landed /\ tab.dirty # None /\ tab.dirty.id # p.state.id
              THEN {"overwritten"} ELSE {}
    /\ UNCHANGED <<row, scratch, pointer, get, edits, switches, boots,
                   saves, saved>>

\* A keepalive PUT fails: nobody hears of it.
NowFails ==
    /\ faults < MaxFaults
    /\ faults' = faults + 1
    /\ \E p \in puts : ~p.calm /\ puts' = puts \ {p}
    /\ wounds' = wounds \cup {"failed"}
    /\ UNCHANGED <<row, scratch, pointer, tab, get, edits, switches,
                   boots, saves, saved>>

-----------------------------------------------------------------------------
(* The page goes, the page comes *)

\* The page dies; a calm PUT lives on as a request nobody waits for.
Dies(m) ==
    LET onTheWay == {p \in m.puts : ~p.landed} IN
    /\ Becomes([m EXCEPT !.tab = Gone,
                         !.puts = {[p EXCEPT !.calm = FALSE] : p \in onTheWay},
                         !.wounds = @ \cup IF /\ m.tab.dirty # None
                                              /\ m.tab.dirty.id # m.scratch.id
                                           THEN {"died"} ELSE {}])
    /\ get' = None
    /\ UNCHANGED <<row, pointer, counters>>

\* pagehide runs first, if the page is killed politely.
Close == tab.phase = "live" /\ Dies(Teardown(Page))

Kill == tab.phase # "down" /\ Dies(Page)

\* The scratch holds a save its row has not.
Unsynced ==
    scratch # None /\ (row[scratch.id] # None => row[scratch.id].at < scratch.at)

\* The WebView's storage is wiped.
Evict ==
    /\ tab.phase = "down" /\ scratch # None
    /\ faults < MaxFaults
    /\ faults' = faults + 1
    /\ scratch' = None /\ pointer' = None
    /\ wounds' = wounds \cup IF Unsynced THEN {"evicted"} ELSE {}
    /\ UNCHANGED <<row, tab, get, puts, edits, switches, boots, saves, saved>>

Comes ==
    /\ tab.phase = "down" /\ boots < MaxBoots
    /\ boots' = boots + 1
    /\ UNCHANGED <<puts, edits, switches, saves, saved>>

\* loadState: the scratch, whoever it belongs to.
Scratch == IF scratch = None THEN {} ELSE scratch.doc

ScratchAt == IF scratch = None THEN 0 ELSE scratch.at

Shown(w, doc) == [Gone EXCEPT !.phase = "live", !.active = w, !.doc = doc]

\* What goes wrong when world w is restored from the scratch.
Misread(w) ==
    IF scratch # None THEN (IF scratch.id # w THEN {"stranger"} ELSE {})
    ELSE IF row[w] # None \/ \E p \in puts : p.state.id = w THEN {"blank"} ELSE {}

\* decideBoot over rows: the pointer's row, or the first one.
Current ==
    LET rows == {w \in World : row[w] # None}
    IN  IF pointer \in rows THEN {pointer} ELSE rows

Fresher(w) == Unsynced /\ scratch.id = w

\* The crash-window heal: a scratch of this row that is a second fresher wins.
BootHeals ==
    /\ Comes
    /\ \E w \in Current :
         /\ Fresher(w)
         /\ tab' = Shown(w, scratch.doc)
         /\ pointer' = w
    /\ UNCHANGED <<row, scratch, get, faults, wounds>>

\* The row is the source: its doc has to be fetched.
BootFromRow ==
    /\ Comes
    /\ \E w \in Current :
         /\ tab' = [Gone EXCEPT !.phase = "restoring", !.active = w]
         /\ get' = [id |-> w, doc |-> Unread]
         /\ pointer' = w
         /\ wounds' = wounds \cup IF Fresher(w) THEN {"skew"}
                                 ELSE IF Unsynced THEN {"left"} ELSE {}
    /\ UNCHANGED <<row, scratch, faults>>

\* The engine does not answer: the scratch or nothing, under the default id.
BootOffline ==
    /\ Comes
    /\ faults < MaxFaults
    /\ faults' = faults + 1
    /\ tab' = Shown(Home, Scratch)
    /\ pointer' = Home
    /\ wounds' = wounds \cup Misread(Home)
    /\ UNCHANGED <<row, scratch, get>>

\* No rows: the scratch, or a fresh shell, becomes the default canvas; if the
\* engine flakes, the page opens without.
BootMigrates ==
    /\ Comes
    /\ \A w \in World : row[w] = None
    /\ tab' = Shown(Home, Scratch)
    /\ pointer' = Home
    /\ \/ /\ row' = [row EXCEPT ![Home] = [doc |-> Scratch, at |-> ScratchAt]]
          /\ UNCHANGED faults
       \/ faults < MaxFaults /\ faults' = faults + 1 /\ UNCHANGED row
    /\ wounds' = wounds \cup Misread(Home)
    /\ UNCHANGED <<scratch, get>>

\* handleCanvasGet.
ServeGet ==
    /\ get # None /\ get.doc = Unread
    /\ row[get.id] # None
    /\ get' = [get EXCEPT !.doc = row[get.id].doc]
    /\ wounds' = wounds \cup
         IF \/ \E p \in puts : ~p.landed /\ p.state.id = get.id
            \/ tab.dirty # None /\ tab.dirty.id = get.id
         THEN {"early"} ELSE {}
    /\ UNCHANGED <<row, scratch, pointer, tab, puts, counters, saves, saved>>

\* init: the row, or the scratch when the row would not come.
Restore ==
    /\ tab.phase = "restoring" /\ get # None
    /\ \/ /\ get.doc # Unread
          /\ tab' = Shown(get.id, get.doc)
          /\ UNCHANGED <<faults, wounds>>
       \/ /\ faults < MaxFaults
          /\ faults' = faults + 1
          /\ tab' = Shown(get.id, Scratch)
          /\ wounds' = wounds \cup Misread(get.id)
    /\ get' = None
    /\ UNCHANGED <<row, scratch, pointer, puts, edits, switches, boots,
                   saves, saved>>

-----------------------------------------------------------------------------
(* switchTo *)

\* doCreate: a new canvas, born empty, to be switched to.
Create ==
    /\ tab.phase = "live"
    /\ \E w \in World \ {Home} :
         /\ row[w] = None
         /\ row' = [row EXCEPT ![w] = [doc |-> {<<w, 0>>}, at |-> saves]]
    /\ UNCHANGED <<page, pointer, get, counters>>

\* Freeze the outgoing world, ask for the target.
SwitchStart ==
    /\ tab.phase = "live" /\ get = None
    /\ switches < MaxSwitches
    /\ switches' = switches + 1
    /\ \E w \in World \ {tab.active} :
         /\ row[w] # None
         /\ get' = [id |-> w, doc |-> Unread]
    /\ Becomes(FlushNow(SaveNow(Page)))
    /\ UNCHANGED <<row, pointer, edits, boots, faults>>

\* Tear down, apply the target, and save it as the new baseline.
SwitchLands ==
    /\ tab.phase = "live" /\ get # None /\ get.doc # Unread
    /\ get' = None
    /\ pointer' = get.id
    /\ LET other == [tab EXCEPT !.active = get.id, !.doc = get.doc, !.memo = None]
       IN  Becomes(FlushNow(SaveNow([Page EXCEPT !.tab = other])))
    /\ UNCHANGED <<row, counters>>

\* "the current world SURVIVES untouched".
SwitchFails ==
    /\ tab.phase = "live" /\ get # None
    /\ faults < MaxFaults
    /\ faults' = faults + 1
    /\ get' = None
    /\ UNCHANGED <<row, scratch, pointer, tab, puts, edits, switches,
                   boots, saves, saved, wounds>>

-----------------------------------------------------------------------------

\* An engine with a row for every world, or one that has never run.
Init ==
    /\ \/ row = [w \in World |-> [doc |-> {<<w, 0>>}, at |-> 0]]
       \/ row = [w \in World |-> None]
    /\ scratch = None /\ pointer = None
    /\ tab = Gone
    /\ get = None /\ puts = {}
    /\ edits = 0 /\ switches = 0 /\ boots = 0 /\ faults = 0
    /\ saves = 0
    /\ saved = [w \in World |-> {}]
    /\ wounds = {}

PageNext ==
    Edit \/ SaveTimer \/ Flush \/ Hidden \/ Close \/ Kill
        \/ PutAnswered \/ CalmFails \/ NowFails

BootNext == BootHeals \/ BootFromRow \/ BootOffline \/ BootMigrates \/ Restore

SwitchNext == Create \/ SwitchStart \/ SwitchLands \/ SwitchFails

Next ==
    PageNext \/ BootNext \/ SwitchNext \/ PutLands \/ ServeGet \/ Evict

Spec == Init /\ [][Next]_vars

-----------------------------------------------------------------------------
(* Properties *)

\* "the payload belongs to ITS world": a row holds its own world's content
\* and no other's.
OwnWorld == \A w \in World : row[w] # None => OfWorld(row[w].doc, w) = row[w].doc

\* It does, across switches, crashes, failed and reordered PUTs, unless a boot
\* took another world's scratch.
OwnWorldUnlessCrossed == "stranger" \notin wounds => OwnWorld

\* "a crash loses at most the unsynced tail, and the next boot heals it":
\* unless one of the ten known wounds was taken, every edit saved in a world
\* is in its row, or in a state of that world still on its way there.
SavedIsKept ==
    wounds = {} =>
        \A w \in World : \A e \in saved[w] :
            \/ row[w] # None /\ e \in row[w].doc
            \/ \E st \in {scratch, tab.dirty} \ {None} : st.id = w /\ e \in st.doc
            \/ \E p \in puts : p.state.id = w /\ e \in p.state.doc

\* A payload that waits has a timer, or a PUT whose end will set one.
PayloadIsScheduled == tab.dirty # None => tab.timer \/ Syncing

=============================================================================
