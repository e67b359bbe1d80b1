--------------------------- MODULE ChatWire_proofs ---------------------------
(***************************************************************************)
(* What holds of the live feed for every window, log and number of         *)
(* connections and pipes: the types; no row shown twice or out of order;   *)
(* until a frame overtakes or a pipe is reaped from under its holders, no  *)
(* hole in the transcript and a stop button that tells the truth once all  *)
(* is settled.                                                             *)
(***************************************************************************)
EXTENDS ChatWire, SequenceTheorems, WellFoundedInduction, TLAPS

EmitterType == [state : {"no", "asked", "runs", "ends"}, pipe : 0..MaxPipes, row : 0..MaxLog]

Phase == {"none", "upgraded", "gone"} \cup Holding \cup Reaping

HandlerType == [phase : Phase, pipe : 0..MaxPipes, next : 0..MaxLog + 1, last : 0..MaxLog]

PanelType == [shown : Seq(Row), lastEventI : 0..MaxLog, isStreaming : BOOLEAN,
              terminalSeen : {"undefined", "no", "yes"}]

ClientType == [conn : 0..MaxConns, used : 0..MaxConns, lastSeq : 0..MaxLog,
               replaying : BOOLEAN, arrived : BOOLEAN]

\* Append, element by element.
LEMMA AppendFacts ==
    ASSUME NEW S, NEW s \in Seq(S), NEW x \in S
    PROVE  /\ Append(s, x) \in Seq(S)
           /\ Len(Append(s, x)) = Len(s) + 1
           /\ \A k \in 1..Len(s) : Append(s, x)[k] = s[k]
           /\ Append(s, x)[Len(s) + 1] = x
  OBVIOUS

\* Tail, element by element.
LEMMA TailFacts ==
    ASSUME NEW S, NEW s \in Seq(S), s # <<>>
    PROVE  /\ Tail(s) \in Seq(S) /\ Head(s) \in S /\ Head(s) = s[1]
           /\ Len(s) \in Nat \ {0} /\ Len(Tail(s)) = Len(s) - 1
           /\ \A k \in 1..Len(Tail(s)) : Tail(s)[k] = s[k + 1]
  OBVIOUS

-----------------------------------------------------------------------------
(* The panel's handlers keep the panel's type.                             *)

LEMMA FoldedType ==
    ASSUME TypeOK, NEW p \in PanelType, NEW n \in Row, NEW tagged \in BOOLEAN
    PROVE  Folded(p, n, tagged) \in PanelType
  <1>1. CASE ~IsNew(p, n)
    BY <1>1 DEF Folded
  <1>2. CASE IsNew(p, n)
    <2> DEFINE streaming == CASE log[n] = "idle" -> FALSE
                              [] log[n] = "delta" /\ ~tagged -> TRUE
                              [] OTHER -> p.isStreaming
               seen == CASE log[n] = "idle" -> "yes"
                         [] log[n] = "user" -> "no"
                         [] OTHER -> p.terminalSeen
    <2>1. streaming \in BOOLEAN
      BY Zenon DEF PanelType
    <2>2. seen \in {"undefined", "no", "yes"}
      BY DEF PanelType
    <2>3. Append(p.shown, n) \in Seq(Row) /\ n \in 0..MaxLog
      BY AppendFacts DEF PanelType, Row
    <2> HIDE DEF streaming, seen
    <2>4. Folded(p, n, tagged) =
            [shown |-> Append(p.shown, n), lastEventI |-> n, isStreaming |-> streaming,
             terminalSeen |-> seen]
      BY <1>2 DEF Folded, streaming, seen
    <2> QED
      BY <2>1, <2>2, <2>3, <2>4 DEF PanelType
  <1> QED
    BY <1>1, <1>2

LEMMA AtReplayDoneType ==
    ASSUME NEW p \in PanelType
    PROVE  AtReplayDone(p) \in PanelType
  <1> DEFINE streaming == \/ p.isStreaming
                          \/ p.terminalSeen = "no" /\ MidTurn(p.shown)
  <1>1. streaming \in BOOLEAN
    OBVIOUS
  <1> HIDE DEF streaming
  <1>2. AtReplayDone(p) = [p EXCEPT !.isStreaming = streaming]
    BY DEF AtReplayDone, streaming
  <1> QED
    BY <1>1, <1>2 DEF PanelType

LEMMA BootstrappedType ==
    ASSUME TypeOK, WireAssumption, NEW first \in Nat \ {0}, first <= Len(log) + 1
    PROVE  /\ Bootstrapped(first) \in PanelType
           /\ Len(Bootstrapped(first).shown) = Len(log) - first + 1
           /\ \A j \in 1..Len(log) - first + 1 : Bootstrapped(first).shown[j] = first + j - 1
           /\ Bootstrapped(first).lastEventI = Len(log)
  <1> DEFINE rows == [j \in 1..Len(log) - first + 1 |-> first + j - 1]
             marks == {n \in first..Len(log) : log[n] \in {"idle", "user"}}
             seen == CASE marks = {} -> "undefined"
                       [] marks # {} /\ log[Max(marks)] = "idle" -> "yes"
                       [] OTHER -> "no"
  <1>1. Len(log) \in 0..MaxLog
    BY LenProperties DEF TypeOK, WireAssumption
  <1>2. rows \in Seq(Row) /\ Len(rows) = Len(log) - first + 1
    <2>1. \A j \in 1..Len(log) - first + 1 : first + j - 1 \in Row
      BY <1>1 DEF Row, WireAssumption
    <2>2. Len(log) - first + 1 \in Nat
      BY <1>1
    <2> QED
      BY <2>1, <2>2
  <1>3. seen \in {"undefined", "no", "yes"}
    OBVIOUS
  <1> HIDE DEF rows, seen
  <1>4. Bootstrapped(first) =
          [shown |-> rows, lastEventI |-> Len(log), isStreaming |-> FALSE, terminalSeen |-> seen]
    BY DEF Bootstrapped, rows, seen
  <1>5. \A j \in 1..Len(log) - first + 1 : rows[j] = first + j - 1
    BY DEF rows
  <1> QED
    BY <1>1, <1>2, <1>3, <1>4, <1>5 DEF PanelType

-----------------------------------------------------------------------------
(* Types, action by action.                                                *)(* Types, action by action.                                                *)

\* TypeOK by names that the proofs cite.
LEMMA Types ==
    ASSUME TypeOK
    PROVE  /\ log \in Seq(Kind) /\ Len(log) \in 0..MaxLog
           /\ emitter \in [Emitter -> EmitterType]
           /\ current \in 0..MaxPipes /\ owner \in [Pipe -> 0..MaxConns]
           /\ handler \in [Conn -> HandlerType]
           /\ wire \in [Conn -> Seq(0..MaxLog)]
           /\ client \in ClientType /\ panel \in PanelType
           /\ raced \in BOOLEAN /\ orphaned \in BOOLEAN
  BY LenProperties DEF TypeOK, EmitterType, HandlerType, Phase, ClientType, PanelType

\* What the client's steps make of its record.
LEMMA ClientSteps ==
    ASSUME NEW k \in ClientType, NEW conn \in 0..MaxConns, NEW seq \in 0..MaxLog,
           NEW tag \in BOOLEAN, NEW arrived \in BOOLEAN
    PROVE  /\ [k EXCEPT !.conn = conn, !.used = conn, !.replaying = tag, !.arrived = arrived]
                \in ClientType
           /\ [k EXCEPT !.conn = conn, !.replaying = tag, !.arrived = arrived] \in ClientType
           /\ [k EXCEPT !.conn = conn, !.lastSeq = seq, !.replaying = tag, !.arrived = arrived]
                \in ClientType
           /\ [k EXCEPT !.lastSeq = seq, !.replaying = tag, !.arrived = arrived] \in ClientType
           /\ [k EXCEPT !.replaying = tag, !.arrived = arrived] \in ClientType
  BY DEF ClientType

\* The same of the next state.
LEMMA TypesAfter ==
    ASSUME log' \in Seq(Kind), Len(log') <= MaxLog, emitter' \in [Emitter -> EmitterType],
           current' \in 0..MaxPipes, owner' \in [Pipe -> 0..MaxConns],
           handler' \in [Conn -> HandlerType], wire' \in [Conn -> Seq(0..MaxLog)],
           client' \in ClientType, panel' \in PanelType, raced' \in BOOLEAN, orphaned' \in BOOLEAN
    PROVE  TypeOK'
  BY DEF TypeOK, EmitterType, HandlerType, Phase, ClientType, PanelType

\* pipeFor returns a pipe of the session, and that is the map's entry.
LEMMA Obtained ==
    ASSUME WireAssumption, TypeOK, ObtainPipe
    PROVE  /\ PipeFor \in Pipe /\ PipeFor # 0 /\ PipeFor \in 0..MaxPipes /\ current' = PipeFor
           /\ current # 0 => PipeFor = current
           /\ current = 0 => PipeFor \in Spare
  <1>1. CASE current # 0
    BY <1>1, Types DEF ObtainPipe, PipeFor, Pipe, WireAssumption
  <1>2. CASE current = 0
    <2>1. PipeFor \in Spare
      BY <1>2 DEF ObtainPipe, PipeFor
    <2> QED
      BY <1>2, <2>1 DEF ObtainPipe, Spare, Pipe, WireAssumption
  <1> QED
    BY <1>1, <1>2

LEMMA WrittenType ==
    ASSUME WireAssumption, TypeOK, NEW p \in Pipe, NEW frame \in 0..MaxLog, Written(p, frame)
    PROVE  wire' \in [Conn -> Seq(0..MaxLog)]
  <1> PICK c \in 0..MaxConns : c = owner[p]
    BY Types
  <1>1. CASE c # 0 /\ ~Dead(c)
    <2>1. c \in Conn
      BY <1>1 DEF Conn, WireAssumption
    <2>2. Append(wire[c], frame) \in Seq(0..MaxLog)
      BY <2>1, Types, AppendFacts
    <2>3. wire' = [wire EXCEPT ![c] = Append(wire[c], frame)]
      BY <1>1 DEF Written
    <2> QED
      BY <2>1, <2>2, <2>3, Types
  <1>2. CASE ~(c # 0 /\ ~Dead(c))
    <2>1. wire' = wire
      BY <1>2 DEF Written
    <2> QED
      BY <2>1, Types
  <1> QED
    BY <1>1, <1>2

\* What an append makes of its emitter.
LEMMA AppendRowFacts ==
    ASSUME WireAssumption, TypeOK, NEW e \in Emitter, NEW kind \in Kind,
           NEW state \in {"runs", "ends"}, AppendRow(e, kind, state)
    PROVE  /\ log' \in Seq(Kind) /\ Len(log') <= MaxLog /\ log' = Append(log, kind)
           /\ emitter' \in [Emitter -> EmitterType]
           /\ emitter'[e].state = state /\ emitter'[e].pipe = emitter[e].pipe
           /\ emitter[e].row = 0 /\ emitter'[e].row = Len(log) + 1
           /\ \A o \in Emitter : o # e => emitter'[o] = emitter[o]
           /\ UNCHANGED <<current, owner, handler, wire, client, panel, raced, orphaned>>
  <1>1. /\ log' \in Seq(Kind) /\ Len(log') <= MaxLog /\ Len(log) + 1 \in 0..MaxLog
        /\ log' = Append(log, kind) /\ emitter[e].row = 0
    BY Types, AppendFacts DEF AppendRow, WireAssumption
  <1> DEFINE r == [emitter[e] EXCEPT !.state = state, !.row = Len(log) + 1]
  <1>2. r \in EmitterType /\ r.state = state /\ r.pipe = emitter[e].pipe /\ r.row = Len(log) + 1
    BY <1>1, Types DEF EmitterType
  <1> HIDE DEF r
  <1>3. emitter' = [emitter EXCEPT ![e] = r]
    BY DEF AppendRow, r
  <1> QED
    BY <1>1, <1>2, <1>3, Types DEF AppendRow

\* Every emitter that appends is one of a few.
LEMMA RowSteps ==
    ASSUME \/ TurnBegins \/ SideAppends
           \/ \E e \in Turn : TurnRow(e, "delta") \/ TurnRow(e, "assistant") \/ EndTurn(e)
    PROVE  \E e \in Emitter, kind \in Kind, state \in {"runs", "ends"} :
               /\ AppendRow(e, kind, state)
               /\ emitter[e].state = "runs" \/ (emitter[e].state = "asked" /\ e # "auto")
               /\ e \in Turn => (state = "runs" \/ kind = "idle")
               /\ e = "side" => kind = "job" /\ state = "ends"
  <1> DEFINE Row3(e, kind, state) ==
               /\ AppendRow(e, kind, state)
               /\ emitter[e].state = "runs" \/ (emitter[e].state = "asked" /\ e # "auto")
               /\ e \in Turn => (state = "runs" \/ kind = "idle")
               /\ e = "side" => kind = "job" /\ state = "ends"
  <1>1. Emitter = {"turn", "auto", "side"} /\ Turn = {"turn", "auto"}
    BY DEF Emitter, Turn
  <1>2. TurnBegins => Row3("turn", "user", "runs")
    BY <1>1 DEF TurnBegins
  <1>3. SideAppends => Row3("side", "job", "ends")
    BY <1>1 DEF SideAppends
  <1>4. ASSUME NEW e \in Turn
        PROVE  /\ TurnRow(e, "delta") => Row3(e, "delta", "runs")
               /\ TurnRow(e, "assistant") => Row3(e, "assistant", "runs")
               /\ EndTurn(e) => Row3(e, "idle", "ends")
    BY <1>1 DEF TurnRow, EndTurn
  <1> HIDE DEF Row3
  <1>5. {"user", "delta", "assistant", "idle", "job"} \subseteq Kind /\ Turn \subseteq Emitter
    BY DEF Kind, Emitter
  <1>6. \E e \in Emitter, kind \in Kind, state \in {"runs", "ends"} : Row3(e, kind, state)
    BY <1>1, <1>2, <1>3, <1>4, <1>5
  <1> QED
    BY <1>6 DEF Row3

LEMMA Phases ==
    /\ Holding \cup Reaping \subseteq Phase /\ {"none", "upgraded", "gone"} \subseteq Phase
    /\ "bound" \in Holding /\ "owner" \in Holding /\ "replaying" \in Holding /\ "live" \in Holding
    /\ "reap" \in Reaping /\ "idle" \in Reaping /\ "dead" \in Reaping
    /\ "gone" \notin Holding \cup Reaping /\ "none" \notin Holding \cup Reaping
    /\ "upgraded" \notin Holding \cup Reaping
    /\ "reap" \notin Holding /\ "idle" \notin Holding /\ "dead" \notin Holding
  BY DEF Phase, Holding, Reaping

\* Who writes into a pipe, or waits at one, has it.
Equipped ==
    /\ \A e \in Emitter :
           \/ emitter[e].row # 0 \/ emitter[e].state = "runs"
           \/ emitter[e].state = "asked" /\ e # "auto"
           => emitter[e].pipe # 0
    /\ \A c \in Conn : handler[c].phase \in Holding \cup Reaping => handler[c].pipe # 0

LEMMA Equipment ==
    ASSUME WireAssumption, TypeOK, Equipped
    PROVE  /\ \A e \in Emitter : emitter[e].row # 0 => emitter[e].pipe \in Pipe
           /\ \A c \in Conn : handler[c].phase \in Holding \cup Reaping => handler[c].pipe \in Pipe
  BY Types DEF Equipped, EmitterType, HandlerType, Pipe, WireAssumption

\* One emitter, or one handler, has changed.
LEMMA EmitterEquipped ==
    ASSUME TypeOK, Equipped, handler' = handler, NEW e \in Emitter,
           \A o \in Emitter : o # e => emitter'[o] = emitter[o],
           \/ emitter'[e].pipe # 0
           \/ emitter'[e].row = 0 /\ emitter'[e].state \notin {"runs", "asked"}
           \/ emitter'[e].row = 0 /\ emitter'[e].state = "asked" /\ e = "auto"
    PROVE  Equipped'
  BY DEF Equipped

LEMMA HandlerEquipped ==
    ASSUME TypeOK, Equipped, emitter' = emitter, NEW c \in Conn,
           \A d \in Conn : d # c => handler'[d] = handler[d],
           handler'[c].pipe # 0 \/ handler'[c].phase \notin Holding \cup Reaping
    PROVE  Equipped'
  BY DEF Equipped

\* What EmitSend makes of its emitter.
LEMMA EmitSendFacts ==
    ASSUME WireAssumption, TypeOK, NEW e \in Emitter, EmitSend(e)
    PROVE  /\ emitter' \in [Emitter -> EmitterType]
           /\ emitter'[e].row = 0 /\ emitter[e].row # 0
           /\ emitter'[e] = Nobody \/ emitter'[e].pipe = emitter[e].pipe
           /\ emitter'[e].state = IF emitter[e].state = "ends" THEN "no" ELSE emitter[e].state
           /\ \A o \in Emitter : o # e => emitter'[o] = emitter[o]
  <1>1. emitter[e] \in EmitterType
    BY Types
  <1> DEFINE r == IF emitter[e].state = "ends" THEN Nobody ELSE [emitter[e] EXCEPT !.row = 0]
  <1>2. /\ r \in EmitterType /\ r.row = 0 /\ (r = Nobody \/ r.pipe = emitter[e].pipe)
        /\ r.state = IF emitter[e].state = "ends" THEN "no" ELSE emitter[e].state
    <2>1. Nobody \in EmitterType /\ Nobody.row = 0 /\ Nobody.state = "no"
      BY DEF Nobody, EmitterType, WireAssumption
    <2>2. LET q == [emitter[e] EXCEPT !.row = 0] IN
            q \in EmitterType /\ q.row = 0 /\ q.pipe = emitter[e].pipe /\ q.state = emitter[e].state
      BY <1>1 DEF EmitterType, WireAssumption
    <2> QED
      BY <2>1, <2>2
  <1> HIDE DEF r
  <1>3. emitter' = [emitter EXCEPT ![e] = r] /\ emitter[e].row # 0
    BY DEF EmitSend, r
  <1>4. emitter' \in [Emitter -> EmitterType] /\ emitter'[e] = r
        /\ \A o \in Emitter : o # e => emitter'[o] = emitter[o]
    BY <1>2, <1>3, Types
  <1> QED
    BY <1>2, <1>3, <1>4

\* The steps that only begin something: emitter e changes, and has no row.
BeginStep(e) ==
    /\ emitter' \in [Emitter -> EmitterType]
    /\ \A o \in Emitter : o # e => emitter'[o] = emitter[o]
    /\ emitter'[e].row = emitter[e].row
    /\ emitter[e].state \in {"no", "asked"} /\ emitter'[e].state \in {"asked", "runs"}
    /\ emitter'[e].pipe # 0 \/ (e = "auto" /\ emitter[e] = Nobody /\ emitter'[e].state = "asked")
    /\ UNCHANGED <<log, owner, handler, wire, client, raced, orphaned>>

LEMMA BeginFacts ==
    ASSUME WireAssumption, TypeOK, Equipped
    PROVE  /\ SendHere =>
                /\ BeginStep("turn") /\ "turn" \in Emitter
                /\ client.conn \in Conn /\ handler[client.conn].phase = "live"
                /\ emitter'["turn"].pipe = handler[client.conn].pipe
                /\ emitter'["turn"].state = "asked" /\ current' = current
           /\ AutoLooks =>
                /\ BeginStep("auto") /\ "auto" \in Emitter
                /\ emitter'["auto"].pipe = 0 /\ current' = current
                /\ emitter'["auto"].state = "asked"
           /\ AutoBinds =>
                /\ BeginStep("auto") /\ "auto" \in Emitter
                /\ emitter'["auto"].pipe = PipeFor /\ ObtainPipe
                /\ emitter'["auto"].state = "runs" /\ emitter["auto"].state = "asked"
           /\ SideBinds =>
                /\ BeginStep("side") /\ "side" \in Emitter
                /\ emitter'["side"].pipe = PipeFor /\ ObtainPipe
  <1>1. /\ "turn" \in Emitter /\ "auto" \in Emitter /\ "side" \in Emitter
        /\ Nobody \in EmitterType /\ Nobody.row = 0 /\ Nobody.state = "no" /\ Nobody.pipe = 0
        /\ 0 \in 0..MaxPipes
    BY DEF Nobody, Emitter, Turn, EmitterType, WireAssumption
  <1>2. ASSUME NEW e \in Emitter, NEW r \in EmitterType, emitter' = [emitter EXCEPT ![e] = r]
        PROVE  /\ emitter' \in [Emitter -> EmitterType] /\ emitter'[e] = r
               /\ \A o \in Emitter : o # e => emitter'[o] = emitter[o]
    BY <1>2, Types
  <1>3. ASSUME SendHere
        PROVE  /\ BeginStep("turn")
               /\ client.conn \in Conn /\ handler[client.conn].phase = "live"
               /\ emitter'["turn"].pipe = handler[client.conn].pipe
               /\ emitter'["turn"].state = "asked" /\ current' = current
    <2>1. client.conn \in Conn /\ handler[client.conn].phase = "live" /\ emitter["turn"] = Nobody
      BY <1>3, Types DEF SendHere, ClientType, Conn
    <2>2. handler[client.conn].pipe # 0 /\ handler[client.conn].pipe \in 0..MaxPipes
      BY <2>1, Types, Phases DEF Equipped, HandlerType
    <2> DEFINE r == [Nobody EXCEPT !.state = "asked", !.pipe = handler[client.conn].pipe]
    <2>3. /\ r \in EmitterType /\ r.state = "asked" /\ r.pipe = handler[client.conn].pipe
          /\ r.row = 0
      BY <1>1, <2>2 DEF EmitterType
    <2>4. emitter' = [emitter EXCEPT !["turn"] = r]
      BY <1>3 DEF SendHere
    <2> HIDE DEF r
    <2>5. /\ emitter' \in [Emitter -> EmitterType] /\ emitter'["turn"] = r
          /\ \A o \in Emitter : o # "turn" => emitter'[o] = emitter[o]
      BY <1>1, <1>2, <2>3, <2>4
    <2>6. UNCHANGED <<log, owner, handler, wire, client, raced, orphaned>> /\ current' = current
      BY <1>3 DEF SendHere
    <2> QED
      BY <1>1, <2>1, <2>2, <2>3, <2>5, <2>6 DEF BeginStep
  <1>4. ASSUME AutoLooks
        PROVE  /\ BeginStep("auto") /\ emitter'["auto"].pipe = 0 /\ current' = current
               /\ emitter'["auto"].state = "asked"
    <2> DEFINE r == [Nobody EXCEPT !.state = "asked"]
    <2>1. r \in EmitterType /\ r.state = "asked" /\ r.pipe = 0 /\ r.row = 0
      BY <1>1 DEF EmitterType
    <2>2. emitter["auto"] = Nobody /\ emitter' = [emitter EXCEPT !["auto"].state = "asked"]
          /\ UNCHANGED <<log, owner, handler, wire, client, raced, orphaned>> /\ current' = current
      BY <1>4 DEF AutoLooks
    <2>3. emitter' = [emitter EXCEPT !["auto"] = r]
      BY <1>1, <2>2, Types
    <2> HIDE DEF r
    <2>4. /\ emitter' \in [Emitter -> EmitterType] /\ emitter'["auto"] = r
          /\ \A o \in Emitter : o # "auto" => emitter'[o] = emitter[o]
      BY <1>1, <1>2, <2>1, <2>3
    <2> QED
      BY <1>1, <2>1, <2>2, <2>4 DEF BeginStep
  <1>5. ASSUME AutoBinds
        PROVE  /\ BeginStep("auto") /\ emitter'["auto"].pipe = PipeFor /\ ObtainPipe
               /\ emitter'["auto"].state = "runs" /\ emitter["auto"].state = "asked"
    <2> DEFINE r == [emitter["auto"] EXCEPT !.state = "runs", !.pipe = PipeFor]
    <2>1. ObtainPipe /\ emitter["auto"].state = "asked" /\ emitter' = [emitter EXCEPT !["auto"] = r]
          /\ UNCHANGED <<log, owner, handler, wire, client, raced, orphaned>>
      BY <1>5 DEF AutoBinds
    <2>2. PipeFor \in 0..MaxPipes /\ PipeFor # 0
      BY <2>1, Obtained
    <2>3. /\ r \in EmitterType /\ r.state = "runs" /\ r.pipe = PipeFor
          /\ r.row = emitter["auto"].row
      BY <1>1, <2>2, Types DEF EmitterType
    <2> HIDE DEF r
    <2>4. /\ emitter' \in [Emitter -> EmitterType] /\ emitter'["auto"] = r
          /\ \A o \in Emitter : o # "auto" => emitter'[o] = emitter[o]
      BY <1>1, <1>2, <2>1, <2>3
    <2> QED
      BY <2>1, <2>2, <2>3, <2>4 DEF BeginStep
  <1>6. ASSUME SideBinds
        PROVE  BeginStep("side") /\ emitter'["side"].pipe = PipeFor /\ ObtainPipe
    <2> DEFINE r == [Nobody EXCEPT !.state = "asked", !.pipe = PipeFor]
    <2>1. ObtainPipe /\ emitter["side"] = Nobody
          /\ UNCHANGED <<log, owner, handler, wire, client, raced, orphaned>>
      BY <1>6 DEF SideBinds
    <2>2. PipeFor \in 0..MaxPipes /\ PipeFor # 0
      BY <2>1, Obtained
    <2>3. r \in EmitterType /\ r.state = "asked" /\ r.pipe = PipeFor /\ r.row = 0
      BY <1>1, <2>2 DEF EmitterType
    <2>4. emitter' = [emitter EXCEPT !["side"] = r]
      BY <1>6, <2>1 DEF SideBinds
    <2> HIDE DEF r
    <2>5. /\ emitter' \in [Emitter -> EmitterType] /\ emitter'["side"] = r
          /\ \A o \in Emitter : o # "side" => emitter'[o] = emitter[o]
      BY <1>1, <1>2, <2>3, <2>4
    <2> QED
      BY <1>1, <2>1, <2>2, <2>3, <2>5 DEF BeginStep
  <1> QED
    BY <1>1, <1>3, <1>4, <1>5, <1>6

Begins == SendHere \/ AutoLooks \/ AutoBinds \/ SideBinds

\* SendHere alone touches the panel, and only its button.
LEMMA BeginsFacts ==
    ASSUME WireAssumption, TypeOK, Equipped, Begins
    PROVE  /\ \E e \in Emitter : BeginStep(e)
           /\ current' \in 0..MaxPipes
           /\ panel' = panel \/ (SendHere /\ panel' = [panel EXCEPT !.isStreaming = TRUE])
  <1>1. \E e \in Emitter : BeginStep(e)
    BY BeginFacts DEF Begins
  <1>2. current' \in 0..MaxPipes
    BY BeginFacts, Types, Obtained DEF Begins
  <1>3. panel' = panel \/ (SendHere /\ panel' = [panel EXCEPT !.isStreaming = TRUE])
    BY DEF Begins, SendHere, AutoLooks, AutoBinds, SideBinds
  <1> QED
    BY <1>1, <1>2, <1>3

LEMMA BeginsKeepTypes ==
    ASSUME WireAssumption, TypeOK, Equipped, Begins
    PROVE  TypeOK' /\ Equipped'
  <1>1. PICK e \in Emitter : BeginStep(e)
    BY BeginsFacts
  <1>2. Equipped'
    <2>1. /\ handler' = handler /\ \A o \in Emitter : o # e => emitter'[o] = emitter[o]
          /\ \/ emitter'[e].pipe # 0
             \/ emitter'[e].row = 0 /\ emitter'[e].state = "asked" /\ e = "auto"
      BY <1>1 DEF BeginStep, Nobody
    <2> QED
      BY <2>1, EmitterEquipped
  <1>3. panel' \in PanelType
    BY BeginsFacts, Types DEF PanelType
  <1> QED
    BY <1>1, <1>2, <1>3, BeginsFacts, Types, TypesAfter DEF BeginStep

LEMMA RowsKeepTypes ==
    ASSUME WireAssumption, TypeOK, Equipped,
           \/ TurnBegins \/ SideAppends
           \/ \E e \in Turn : TurnRow(e, "delta") \/ TurnRow(e, "assistant") \/ EndTurn(e)
    PROVE  TypeOK' /\ Equipped'
  <1>1. PICK e \in Emitter, kind \in Kind, state \in {"runs", "ends"} :
             /\ AppendRow(e, kind, state)
             /\ emitter[e].state = "runs" \/ (emitter[e].state = "asked" /\ e # "auto")
    BY RowSteps
  <1>2. /\ log' \in Seq(Kind) /\ Len(log') <= MaxLog /\ emitter' \in [Emitter -> EmitterType]
        /\ emitter'[e].pipe = emitter[e].pipe
        /\ \A o \in Emitter : o # e => emitter'[o] = emitter[o]
        /\ UNCHANGED <<current, owner, handler, wire, client, panel, raced, orphaned>>
    BY <1>1, AppendRowFacts
  <1>3. emitter'[e].pipe # 0
    BY <1>1, <1>2 DEF Equipped
  <1>4. Equipped'
    BY <1>2, <1>3, EmitterEquipped
  <1> QED
    BY <1>2, <1>4, Types, TypesAfter

\* What each step of a handler makes of its record, and of the pipes.
HandlerStep(c) ==
    /\ handler' \in [Conn -> HandlerType]
    /\ \A d \in Conn : d # c => handler'[d] = handler[d]
    /\ current' \in 0..MaxPipes /\ owner' \in [Pipe -> 0..MaxConns]
    /\ raced' \in BOOLEAN /\ orphaned' \in BOOLEAN
    /\ handler'[c].pipe # 0 \/ handler'[c].phase \notin Holding \cup Reaping
    /\ log' = log /\ emitter' = emitter /\ client' = client /\ panel' = panel

LEMMA HandlerStepTypes ==
    ASSUME TypeOK, Equipped, NEW c \in Conn, HandlerStep(c), wire' \in [Conn -> Seq(0..MaxLog)]
    PROVE  TypeOK' /\ Equipped'
  <1>1. Equipped'
    BY HandlerEquipped DEF HandlerStep
  <1>2. TypeOK'
    BY Types, TypesAfter DEF HandlerStep
  <1> QED
    BY <1>1, <1>2

\* The record a handler's step leaves is of its type.
LEMMA HandlerRecords ==
    ASSUME WireAssumption, NEW h \in HandlerType
    PROVE  /\ \A phase \in Phase : /\ [h EXCEPT !.phase = phase] \in HandlerType
                                   /\ [h EXCEPT !.phase = phase].phase = phase
                                   /\ [h EXCEPT !.phase = phase].pipe = h.pipe
                                   /\ [h EXCEPT !.phase = phase].next = h.next
                                   /\ [h EXCEPT !.phase = phase].last = h.last
           /\ \A phase \in Phase, p \in 0..MaxPipes :
                   /\ Handling(phase, p) \in HandlerType
                   /\ Handling(phase, p).phase = phase /\ Handling(phase, p).pipe = p
                   /\ Handling(phase, p).last = 0
           /\ Gone \in HandlerType /\ Gone.phase = "gone" /\ Gone.last = 0 /\ Gone.pipe = 0
           /\ h.phase \in Phase /\ h.pipe \in 0..MaxPipes
  <1>1. 0 \in 0..MaxLog /\ 0 \in 0..MaxLog + 1 /\ 0 \in 0..MaxPipes
    BY DEF WireAssumption
  <1>2. \A phase \in Phase, p \in 0..MaxPipes :
            /\ Handling(phase, p) \in HandlerType
            /\ Handling(phase, p).phase = phase /\ Handling(phase, p).pipe = p
            /\ Handling(phase, p).last = 0
    BY <1>1 DEF Handling, HandlerType
  <1>3. Gone = Handling("gone", 0) /\ "gone" \in Phase
    BY DEF Gone, Phase
  <1>4. Gone \in HandlerType /\ Gone.phase = "gone" /\ Gone.last = 0 /\ Gone.pipe = 0
    BY <1>1, <1>2, <1>3
  <1>5. ASSUME NEW phase \in Phase
        PROVE  /\ [h EXCEPT !.phase = phase] \in HandlerType
               /\ [h EXCEPT !.phase = phase].phase = phase
               /\ [h EXCEPT !.phase = phase].pipe = h.pipe
               /\ [h EXCEPT !.phase = phase].next = h.next
               /\ [h EXCEPT !.phase = phase].last = h.last
    BY DEF HandlerType
  <1>6. h.phase \in Phase /\ h.pipe \in 0..MaxPipes
    BY DEF HandlerType
  <1> QED
    BY <1>2, <1>4, <1>5, <1>6

LEMMA BindPipeFacts ==
    ASSUME WireAssumption, TypeOK, Equipped, NEW c \in Conn, BindPipe(c)
    PROVE  /\ HandlerStep(c) /\ owner' = owner /\ wire' = wire
           /\ handler[c].phase = "upgraded" /\ ObtainPipe
           /\ handler'[c].phase = "bound" /\ handler'[c].pipe = PipeFor
           /\ handler'[c].next = handler[c].next /\ handler'[c].last = handler[c].last
           /\ raced' = raced /\ orphaned' = orphaned
  <1>1. /\ ObtainPipe /\ handler[c].phase = "upgraded"
        /\ handler' = [handler EXCEPT ![c] = [@ EXCEPT !.phase = "bound", !.pipe = PipeFor]]
        /\ UNCHANGED <<log, emitter, owner, wire, client, panel, raced, orphaned>>
    BY DEF BindPipe
  <1>2. PipeFor # 0 /\ PipeFor \in 0..MaxPipes /\ current' = PipeFor
    BY <1>1, Obtained
  <1> DEFINE h == [handler[c] EXCEPT !.phase = "bound", !.pipe = PipeFor]
  <1>3. /\ h \in HandlerType /\ h.phase = "bound" /\ h.pipe = PipeFor
        /\ h.next = handler[c].next /\ h.last = handler[c].last
    BY <1>2, Types, Phases DEF HandlerType
  <1> HIDE DEF h
  <1>4. handler' = [handler EXCEPT ![c] = h]
    BY <1>1 DEF h
  <1>5. handler' \in [Conn -> HandlerType] /\ handler'[c] = h /\ \A d \in Conn : d # c => handler'[d] = handler[d]
    BY <1>3, <1>4, Types
  <1> QED
    BY <1>1, <1>2, <1>3, <1>5, Types DEF HandlerStep

LEMMA SwapFacts ==
    ASSUME WireAssumption, TypeOK, Equipped, NEW c \in Conn, Swap(c)
    PROVE  /\ HandlerStep(c) /\ wire' = wire /\ current' = current
           /\ handler[c].phase = "bound" /\ handler[c].pipe \in Pipe
           /\ owner' = [owner EXCEPT ![handler[c].pipe] = c]
           /\ handler'[c].phase = "owner" /\ handler'[c].pipe = handler[c].pipe
           /\ handler'[c].next = handler[c].next /\ handler'[c].last = handler[c].last
           /\ raced' = raced /\ orphaned' = orphaned
  <1>1. /\ handler[c].phase = "bound" /\ owner' = [owner EXCEPT ![handler[c].pipe] = c]
        /\ handler' = [handler EXCEPT ![c] = [handler[c] EXCEPT !.phase = "owner"]]
        /\ UNCHANGED <<log, emitter, current, wire, client, panel, raced, orphaned>>
    BY DEF Swap, engine
  <1>2. handler[c].pipe \in Pipe
    BY <1>1, Equipment, Phases
  <1> DEFINE h == [handler[c] EXCEPT !.phase = "owner"]
  <1>3. /\ h \in HandlerType /\ h.phase = "owner" /\ h.pipe = handler[c].pipe
        /\ h.next = handler[c].next /\ h.last = handler[c].last
    BY Types, Phases, HandlerRecords
  <1> HIDE DEF h
  <1>4. handler' \in [Conn -> HandlerType] /\ handler'[c] = h
        /\ \A d \in Conn : d # c => handler'[d] = handler[d]
    <2>1. handler' = [handler EXCEPT ![c] = h]
      BY <1>1 DEF h
    <2> QED
      BY <1>3, <2>1, Types
  <1>5. owner' \in [Pipe -> 0..MaxConns]
    <2>1. c \in 0..MaxConns
      BY DEF Conn, WireAssumption
    <2> QED
      BY <1>1, <2>1, Types
  <1>6. handler[c].pipe # 0
    BY <1>2 DEF Pipe
  <1> QED
    BY <1>1, <1>2, <1>3, <1>4, <1>5, <1>6, Types DEF HandlerStep

LEMMA ListRowsFacts ==
    ASSUME WireAssumption, TypeOK, Equipped, NEW c \in Conn, ListRows(c)
    PROVE  /\ HandlerStep(c) /\ wire' = wire /\ current' = current /\ owner' = owner
           /\ handler[c].phase = "owner" /\ handler'[c].pipe = handler[c].pipe
           /\ handler'[c].phase = "replaying"
           /\ handler'[c].next = handler[c].next /\ handler'[c].last = Len(log)
           /\ raced' = raced /\ orphaned' = orphaned
  <1>1. /\ handler[c].phase = "owner"
        /\ handler' = [handler EXCEPT ![c].phase = "replaying", ![c].last = Len(log)]
        /\ UNCHANGED <<log, emitter, current, owner, wire, client, panel, raced, orphaned>>
    BY DEF ListRows, engine
  <1>2. handler[c].pipe # 0
    BY <1>1, Phases DEF Equipped
  <1> DEFINE h == [handler[c] EXCEPT !.phase = "replaying", !.last = Len(log)]
  <1>3. /\ h \in HandlerType /\ h.phase = "replaying" /\ h.pipe = handler[c].pipe
        /\ h.next = handler[c].next /\ h.last = Len(log)
    BY Types, Phases DEF HandlerType
  <1>4. handler' = [handler EXCEPT ![c] = h]
    BY <1>1, Types DEF HandlerType
  <1> HIDE DEF h
  <1>5. handler' \in [Conn -> HandlerType] /\ handler'[c] = h
        /\ \A d \in Conn : d # c => handler'[d] = handler[d]
    BY <1>3, <1>4, Types
  <1> QED
    BY <1>1, <1>2, <1>3, <1>5, Types DEF HandlerStep

LEMMA ReplayFacts ==
    ASSUME WireAssumption, TypeOK, Equipped, NEW c \in Conn, Replay(c)
    PROVE  /\ HandlerStep(c) /\ current' = current /\ owner' = owner /\ orphaned' = orphaned
           /\ handler[c].phase = "replaying" /\ handler[c].pipe \in Pipe
           /\ owner[handler[c].pipe] # 0
           /\ raced' = (raced \/ owner[handler[c].pipe] # c)
           /\ handler'[c].pipe = handler[c].pipe
           /\ \/ /\ handler[c].next <= handler[c].last /\ handler[c].next \in 0..MaxLog
                 /\ Written(handler[c].pipe, handler[c].next)
                 /\ handler'[c].phase = "replaying" /\ handler'[c].next = handler[c].next + 1
                 /\ handler'[c].last = handler[c].last
              \/ /\ ~(handler[c].next <= handler[c].last) /\ Written(handler[c].pipe, 0)
                 /\ handler'[c].phase = "live" /\ handler'[c].last = 0
  <1>1. /\ handler[c].phase = "replaying" /\ owner[handler[c].pipe] # 0
        /\ raced' = (raced \/ owner[handler[c].pipe] # c)
        /\ UNCHANGED <<log, emitter, current, owner, client, panel, orphaned>>
    BY DEF Replay, engine
  <1>2. handler[c].pipe \in Pipe /\ handler[c].pipe # 0 /\ handler[c].pipe \in 0..MaxPipes
    <2>1. handler[c].pipe \in Pipe
      BY <1>1, Equipment, Phases
    <2> QED
      BY <2>1 DEF Pipe, WireAssumption
  <1>3. /\ handler[c] \in HandlerType /\ handler[c].next \in 0..MaxLog + 1
        /\ handler[c].last \in 0..MaxLog
    BY Types DEF HandlerType
  <1>4. ASSUME NEW h \in HandlerType, handler' = [handler EXCEPT ![c] = h]
        PROVE  /\ handler' \in [Conn -> HandlerType] /\ handler'[c] = h
               /\ \A d \in Conn : d # c => handler'[d] = handler[d]
    BY <1>4, Types
  <1>5. raced' \in BOOLEAN
    BY <1>1, Types
  <1>6. CASE handler[c].next <= handler[c].last
    <2> DEFINE h == [handler[c] EXCEPT !.next = @ + 1]
    <2>1. /\ h \in HandlerType /\ h.phase = "replaying" /\ h.pipe = handler[c].pipe
          /\ h.next = handler[c].next + 1 /\ h.last = handler[c].last
      BY <1>1, <1>3, <1>6 DEF HandlerType, WireAssumption
    <2>2. handler' = [handler EXCEPT ![c].next = @ + 1] /\ Written(handler[c].pipe, handler[c].next)
      BY <1>6 DEF Replay
    <2>3. handler' = [handler EXCEPT ![c] = h]
      BY <2>2
    <2> HIDE DEF h
    <2>4. /\ handler' \in [Conn -> HandlerType] /\ handler'[c] = h
          /\ \A d \in Conn : d # c => handler'[d] = handler[d]
      BY <1>4, <2>1, <2>3
    <2>5. handler[c].next \in 0..MaxLog
      BY <1>3, <1>6 DEF WireAssumption
    <2> QED
      BY <1>1, <1>2, <1>5, <1>6, <2>1, <2>2, <2>4, <2>5, Types DEF HandlerStep
  <1>7. CASE ~(handler[c].next <= handler[c].last)
    <2> DEFINE h == Handling("live", handler[c].pipe)
    <2>1. /\ h \in HandlerType /\ h.phase = "live" /\ h.pipe = handler[c].pipe /\ h.last = 0
      BY <1>2, <1>3, HandlerRecords, Phases
    <2>2. handler' = [handler EXCEPT ![c] = h] /\ Written(handler[c].pipe, 0)
      BY <1>7 DEF Replay, Done
    <2> HIDE DEF h
    <2>3. /\ handler' \in [Conn -> HandlerType] /\ handler'[c] = h
          /\ \A d \in Conn : d # c => handler'[d] = handler[d]
      BY <1>4, <2>1, <2>2
    <2> QED
      BY <1>1, <1>2, <1>5, <1>7, <2>1, <2>2, <2>3, Types DEF HandlerStep
  <1> QED
    BY <1>6, <1>7

LEMMA HandlerGoneFacts ==
    ASSUME WireAssumption, TypeOK, Equipped, NEW c \in Conn, HandlerGone(c)
    PROVE  /\ HandlerStep(c) /\ wire' = wire /\ current' = current
           /\ raced' = raced /\ orphaned' = orphaned
           /\ handler[c].phase \in {"replaying", "live"} /\ handler[c].pipe \in Pipe
           /\ owner' = [owner EXCEPT ![handler[c].pipe] = Cleared(c)]
           /\ handler'[c].phase \in Reaping \cup {"gone"} /\ handler'[c].last = 0
  <1>1. /\ handler[c].phase \in {"replaying", "live"}
        /\ \/ handler' = [handler EXCEPT ![c] = Gone]
           \/ handler' = [handler EXCEPT ![c] = Handling("reap", handler[c].pipe)]
        /\ owner' = [owner EXCEPT ![handler[c].pipe] = Cleared(c)]
        /\ UNCHANGED <<log, emitter, current, wire, client, panel, raced, orphaned>>
    BY DEF HandlerGone, engine
  <1>2. handler[c].pipe \in Pipe /\ handler[c].pipe # 0 /\ handler[c].pipe \in 0..MaxPipes
    <2>1. handler[c].pipe \in Pipe
      BY <1>1, Equipment, Phases
    <2> QED
      BY <2>1 DEF Pipe, WireAssumption
  <1>3. owner' \in [Pipe -> 0..MaxConns]
    <2>1. Cleared(c) \in 0..MaxConns
      BY <1>2, Types DEF Cleared, WireAssumption
    <2> QED
      BY <1>1, <2>1, Types
  <1>4. PICK h \in {Gone, Handling("reap", handler[c].pipe)} : handler' = [handler EXCEPT ![c] = h]
    BY <1>1
  <1>5. /\ h \in HandlerType /\ h.phase \in Reaping \cup {"gone"} /\ h.last = 0
        /\ h.pipe # 0 \/ h.phase \notin Holding \cup Reaping
    <2>1. CASE h = Gone
      <3>1. h \in HandlerType /\ h.phase = "gone" /\ h.last = 0
        BY <2>1, Types, HandlerRecords
      <3> QED
        BY <3>1, Phases
    <2>2. CASE h = Handling("reap", handler[c].pipe)
      <3>1. h \in HandlerType /\ h.phase = "reap" /\ h.last = 0 /\ h.pipe = handler[c].pipe
        BY <1>2, <2>2, Types, HandlerRecords, Phases
      <3> QED
        BY <1>2, <3>1, Phases
    <2> QED
      BY <2>1, <2>2
  <1>6. /\ handler' \in [Conn -> HandlerType] /\ handler'[c] = h
        /\ \A d \in Conn : d # c => handler'[d] = handler[d]
    BY <1>4, <1>5, Types
  <1> QED
    BY <1>1, <1>2, <1>3, <1>5, <1>6, Types DEF HandlerStep

LEMMA ReapFacts ==
    ASSUME WireAssumption, TypeOK, Equipped, NEW c \in Conn,
           ReapLooks(c) \/ ReapSees(c) \/ ReapDeletes(c)
    PROVE  /\ HandlerStep(c) /\ wire' = wire /\ owner' = owner /\ raced' = raced
           /\ handler[c].phase \in Reaping /\ handler'[c].phase \in Reaping \cup {"gone"}
           /\ handler'[c].last \in {0, handler[c].last}
           /\ \/ current' = current /\ orphaned' = orphaned
              \/ current' = 0 /\ orphaned' = (orphaned \/ HeldPipe(current))
  <1> DEFINE idle == [handler[c] EXCEPT !.phase = "idle"]
             dead == [handler[c] EXCEPT !.phase = "dead"]
             p == handler[c].pipe
  <1>1. /\ handler[c].phase \in Reaping
        /\ \E h \in {Gone, idle, dead} : handler' = [handler EXCEPT ![c] = h]
        /\ UNCHANGED <<log, emitter, owner, wire, client, panel, raced>>
    <2>1. ReapLooks(c) => handler' = [handler EXCEPT ![c] = Gone] \/ handler' = [handler EXCEPT ![c] = idle]
      BY DEF ReapLooks
    <2>2. ReapSees(c) => handler' = [handler EXCEPT ![c] = Gone] \/ handler' = [handler EXCEPT ![c] = dead]
      BY DEF ReapSees
    <2>3. ReapDeletes(c) => handler' = [handler EXCEPT ![c] = Gone]
      BY DEF ReapDeletes
    <2>4. handler[c].phase \in Reaping /\ UNCHANGED <<log, emitter, owner, wire, client, panel, raced>>
      BY DEF ReapLooks, ReapSees, ReapDeletes, Reaping, engine
    <2> HIDE DEF idle, dead
    <2> QED
      BY <2>1, <2>2, <2>3, <2>4
  <1>2. p # 0
    BY <1>1 DEF Equipped
  <1>3. /\ Gone \in HandlerType /\ Gone.phase = "gone" /\ Gone.last = 0
        /\ idle \in HandlerType /\ idle.phase = "idle" /\ idle.last = handler[c].last /\ idle.pipe = p
        /\ dead \in HandlerType /\ dead.phase = "dead" /\ dead.last = handler[c].last /\ dead.pipe = p
    BY Types, HandlerRecords, Phases
  <1> HIDE DEF idle, dead, p
  <1>4. PICK h \in {Gone, idle, dead} : handler' = [handler EXCEPT ![c] = h]
    BY <1>1
  <1>5. /\ h \in HandlerType /\ h.phase \in Reaping \cup {"gone"} /\ h.last \in {0, handler[c].last}
        /\ h.pipe # 0 \/ h.phase \notin Holding \cup Reaping
    BY <1>2, <1>3, Phases
  <1>6. /\ handler' \in [Conn -> HandlerType] /\ handler'[c] = h
        /\ \A d \in Conn : d # c => handler'[d] = handler[d]
    BY <1>4, <1>5, Types
  <1>7. \/ current' = current /\ orphaned' = orphaned
        \/ current' = 0 /\ orphaned' = (orphaned \/ HeldPipe(current))
    <2>1. CASE ReapLooks(c) \/ ReapSees(c)
      BY <2>1 DEF ReapLooks, ReapSees, engine
    <2>2. CASE ReapDeletes(c)
      <3>1. CASE current = handler[c].pipe
        BY <2>2, <3>1 DEF ReapDeletes
      <3>2. CASE current # handler[c].pipe
        BY <2>2, <3>2, Types DEF ReapDeletes
      <3> QED
        BY <3>1, <3>2
    <2> QED
      BY <2>1, <2>2
  <1>8. current' \in 0..MaxPipes /\ orphaned' \in BOOLEAN
    <2>1. HeldPipe(current) \in BOOLEAN /\ 0 \in 0..MaxPipes
      BY DEF HeldPipe, WireAssumption
    <2>2. orphaned' \in BOOLEAN
      BY <1>7, <2>1, Types, Zenon
    <2> QED
      BY <1>7, <2>1, <2>2, Types
  <1> QED
    BY <1>1, <1>5, <1>6, <1>7, <1>8, Types DEF HandlerStep

-----------------------------------------------------------------------------
LEMMA HandlersKeepTypes ==
    ASSUME WireAssumption, TypeOK, Equipped, NEW c \in Conn, Handle(c)
    PROVE  TypeOK' /\ Equipped'
  <1>1. HandlerStep(c) /\ wire' \in [Conn -> Seq(0..MaxLog)]
    <2>1. CASE BindPipe(c)
      BY <2>1, BindPipeFacts, Types
    <2>2. CASE Swap(c)
      BY <2>2, SwapFacts, Types
    <2>3. CASE ListRows(c)
      BY <2>3, ListRowsFacts, Types
    <2>4. CASE Replay(c)
      <3>1. /\ HandlerStep(c) /\ handler[c].pipe \in Pipe
            /\ \E n \in 0..MaxLog : Written(handler[c].pipe, n)
        <4>1. 0 \in 0..MaxLog
          BY DEF WireAssumption
        <4> QED
          BY <2>4, <4>1, ReplayFacts
      <3> QED
        BY <3>1, WrittenType
    <2>5. CASE HandlerGone(c)
      BY <2>5, HandlerGoneFacts, Types
    <2>6. CASE ReapLooks(c) \/ ReapSees(c) \/ ReapDeletes(c)
      BY <2>6, ReapFacts, Types
    <2> QED
      BY <2>1, <2>2, <2>3, <2>4, <2>5, <2>6 DEF Handle
  <1> QED
    BY <1>1, HandlerStepTypes

LEMMA EmitSendKeepsTypes ==
    ASSUME WireAssumption, TypeOK, Equipped, NEW e \in Emitter, EmitSend(e)
    PROVE  TypeOK' /\ Equipped'
  <1>1. /\ Written(emitter[e].pipe, emitter[e].row) /\ emitter[e].row # 0
        /\ UNCHANGED <<log, current, owner, handler, client, panel, orphaned>>
    BY DEF EmitSend
  <1>2. emitter[e].pipe \in Pipe /\ emitter[e].row \in 0..MaxLog
    <2>1. emitter[e].row \in 0..MaxLog
      BY Types DEF EmitterType
    <2> QED
      BY <1>1, <2>1, Equipment
  <1>3. wire' \in [Conn -> Seq(0..MaxLog)]
    BY <1>1, <1>2, WrittenType
  <1>4. raced' \in BOOLEAN
    BY Types DEF EmitSend
  <1>5. Equipped'
    <2>1. \/ emitter'[e].pipe # 0
          \/ emitter'[e].row = 0 /\ emitter'[e].state \notin {"runs", "asked"}
      <3>1. Nobody.state = "no" /\ Nobody.row = 0
        BY DEF Nobody
      <3>2. emitter[e].pipe # 0
        BY <1>2 DEF Pipe
      <3> QED
        BY <3>1, <3>2, EmitSendFacts
    <2> QED
      BY <1>1, <2>1, EmitSendFacts, EmitterEquipped
  <1> QED
    BY <1>1, <1>3, <1>4, <1>5, EmitSendFacts, Types, TypesAfter

LEMMA EngineKeepsTypes ==
    ASSUME WireAssumption, TypeOK, Equipped, EngineNext
    PROVE  TypeOK' /\ Equipped'
  <1>1. CASE SendHere \/ AutoLooks \/ AutoBinds \/ SideBinds
    BY <1>1, BeginsKeepTypes DEF Begins
  <1>2. CASE \/ TurnBegins \/ SideAppends
             \/ \E e \in Turn : TurnRow(e, "delta") \/ TurnRow(e, "assistant") \/ EndTurn(e)
    BY <1>2, RowsKeepTypes
  <1>3. CASE \E e \in Emitter : EmitSend(e)
    BY <1>3, EmitSendKeepsTypes
  <1>4. CASE \E c \in Conn : Handle(c)
    BY <1>4, HandlersKeepTypes
  <1> QED
    BY <1>1, <1>2, <1>3, <1>4 DEF EngineNext

\* What Connect makes of its handler.
LEMMA ConnectFacts ==
    ASSUME WireAssumption, TypeOK, Connect
    PROVE  LET c == client.used + 1 IN
           /\ c \in Conn /\ client.conn = 0
           /\ client'.conn = c /\ client'.used = c /\ client'.lastSeq = client.lastSeq
           /\ handler' \in [Conn -> HandlerType]
           /\ handler'[c].phase = "upgraded" /\ handler'[c].pipe = handler[c].pipe
           /\ handler'[c].next = client.lastSeq + 1 /\ handler'[c].last = handler[c].last
           /\ \A d \in Conn : d # c => handler'[d] = handler[d]
           /\ UNCHANGED <<log, emitter, current, owner, wire, panel, raced, orphaned>>
  <1> PICK c : c = client.used + 1
    OBVIOUS
  <1>1. /\ c \in Conn /\ client.conn = 0
        /\ handler' = [handler EXCEPT ![c] = [@ EXCEPT !.phase = "upgraded", !.next = Since]]
        /\ UNCHANGED <<log, emitter, current, owner, wire, panel, raced, orphaned>>
    BY DEF Connect, engine
  <1>2. client'.conn = c /\ client'.used = c /\ client'.lastSeq = client.lastSeq
    BY Types DEF Connect, ClientType
  <1> DEFINE h == [handler[c] EXCEPT !.phase = "upgraded", !.next = client.lastSeq + 1]
  <1>3. client.lastSeq + 1 \in 0..MaxLog + 1
    BY Types DEF ClientType, WireAssumption
  <1>4. /\ h \in HandlerType /\ h.phase = "upgraded" /\ h.pipe = handler[c].pipe
        /\ h.next = client.lastSeq + 1 /\ h.last = handler[c].last
    BY <1>1, <1>3, Types, Phases DEF HandlerType
  <1>5. handler' = [handler EXCEPT ![c] = h]
    BY <1>1 DEF Since
  <1> HIDE DEF h
  <1>6. handler' \in [Conn -> HandlerType] /\ handler'[c] = h
        /\ \A d \in Conn : d # c => handler'[d] = handler[d]
    BY <1>1, <1>4, <1>5, Types
  <1> QED
    BY <1>1, <1>2, <1>4, <1>6

LEMMA ConnectKeepsTypes ==
    ASSUME WireAssumption, TypeOK, Equipped, Connect
    PROVE  TypeOK' /\ Equipped'
  <1> PICK c : c = client.used + 1
    OBVIOUS
  <1>1. client' \in ClientType
    <2>1. c \in 0..MaxConns
      BY ConnectFacts DEF Conn, WireAssumption
    <2> QED
      BY <2>1, Types, ClientSteps, Zenon DEF Connect
  <1>2. Equipped'
    <2>1. /\ c \in Conn /\ handler'[c].phase = "upgraded" /\ emitter' = emitter
          /\ \A d \in Conn : d # c => handler'[d] = handler[d]
      BY ConnectFacts
    <2> QED
      BY <2>1, Phases, HandlerEquipped
  <1> QED
    BY <1>1, <1>2, ConnectFacts, Types, TypesAfter

LEMMA ClientKeepsTypes ==
    ASSUME WireAssumption, TypeOK, Equipped, ClientNext
    PROVE  TypeOK' /\ Equipped'
  <1>1. CASE Connect
    BY <1>1, ConnectKeepsTypes
  <1>2. ASSUME Drop PROVE TypeOK'
    <2>1. client' \in ClientType
      <3>1. 0 \in 0..MaxConns
        BY DEF WireAssumption
      <3> QED
        BY <1>2, <3>1, Types, ClientSteps, Zenon DEF Drop
    <2>2. wire' \in [Conn -> Seq(0..MaxLog)]
      BY <1>2, Types, EmptySeq DEF Drop
    <2> QED
      BY <1>2, <2>1, <2>2, Types, TypesAfter DEF Drop, engine
  <1>3. ASSUME NEW quiet \in BOOLEAN, Receive(quiet) PROVE TypeOK'
    <2> DEFINE w == wire[client.conn]
    <2>1. client.conn \in Conn /\ w \in Seq(0..MaxLog) /\ w # <<>>
      BY <1>3, Types DEF Receive, ClientType, Conn
    <2>2. Tail(w) \in Seq(0..MaxLog) /\ Head(w) \in Row /\ Head(w) \in 0..MaxLog
      <3>1. Tail(w) \in Seq(0..MaxLog) /\ Head(w) \in 0..MaxLog
        BY <2>1, TailFacts
      <3>2. Head(w) # 0
        BY <1>3 DEF Receive, Done
      <3> QED
        BY <3>1, <3>2 DEF Row, WireAssumption
    <2>3. Tagged(quiet) \in BOOLEAN
      BY Types DEF Tagged, ClientType
    <2>4. panel' \in PanelType
      BY <1>3, <2>2, <2>3, Types, FoldedType DEF Receive
    <2>5. client' \in ClientType
      BY <1>3, <2>2, <2>3, Types DEF Receive, ClientType
    <2>6. wire' \in [Conn -> Seq(0..MaxLog)]
      BY <1>3, <2>2, Types DEF Receive
    <2> QED
      BY <1>3, <2>4, <2>5, <2>6, Types, TypesAfter DEF Receive, engine
  <1>4. ASSUME ReceiveDone PROVE TypeOK'
    <2>1. client.conn \in Conn /\ wire[client.conn] \in Seq(0..MaxLog)
      BY <1>4, Types DEF ReceiveDone, ClientType, Conn
    <2>2. wire' \in [Conn -> Seq(0..MaxLog)]
      BY <1>4, <2>1, TailFacts, Types DEF ReceiveDone
    <2>3. client' \in ClientType
      BY <1>4, Types DEF ReceiveDone, ClientType
    <2>4. panel' \in PanelType
      BY <1>4, Types, AtReplayDoneType DEF ReceiveDone
    <2> QED
      BY <1>4, <2>2, <2>3, <2>4, Types, TypesAfter DEF ReceiveDone, engine
  <1>5. ASSUME Reload PROVE TypeOK'
    <2> DEFINE first == IF Len(log) > Window THEN Len(log) - Window + 1 ELSE 1
    <2>1. first \in Nat \ {0} /\ first <= Len(log) + 1
      BY Types DEF WireAssumption
    <2>2. panel' \in PanelType
      BY <1>5, <2>1, BootstrappedType DEF Reload
    <2>3. client' \in ClientType
      <3>1. 0 \in 0..MaxConns
        BY DEF WireAssumption
      <3> QED
        BY <1>5, <3>1, Types, ClientSteps, Zenon DEF Reload
    <2>4. wire' \in [Conn -> Seq(0..MaxLog)]
      BY <1>5, EmptySeq DEF Reload
    <2> QED
      BY <1>5, <2>2, <2>3, <2>4, Types, TypesAfter DEF Reload, engine
  <1>6. CASE Drop \/ ReceiveDone \/ Reload \/ \E quiet \in BOOLEAN : Receive(quiet)
    <2>1. handler' = handler /\ emitter' = emitter
      BY <1>6 DEF Drop, ReceiveDone, Reload, Receive, engine
    <2>2. Equipped'
      BY <2>1 DEF Equipped
    <2> QED
      BY <1>2, <1>3, <1>4, <1>5, <1>6, <2>2
  <1> QED
    BY <1>1, <1>6 DEF ClientNext, Arrive

\* Everything that writes into a pipe, or waits at one, has it; and every
\* variable of the log, the pipes, the handlers, the client and the panel
\* keeps its type (chat.go, chatclient.js, chatpanel.js).
LEMMA TypesHold == Spec => [](TypeOK /\ Equipped)
  <1>1. Init => TypeOK /\ Equipped
    <2> SUFFICES ASSUME Init PROVE TypeOK /\ Equipped
      OBVIOUS
    <2>0. 0 \in 0..MaxPipes /\ 0 \in 0..MaxLog /\ 0 \in 0..MaxLog + 1 /\ 0 \in 0..MaxConns
      BY WireAssumption DEF WireAssumption
    <2>1. Absent \in HandlerType /\ Absent.phase = "none" /\ FreshPanel \in PanelType
      BY <2>0, EmptySeq DEF Absent, Handling, HandlerType, Phase, FreshPanel, PanelType
    <2>2. client \in ClientType
      BY <2>0 DEF Init, ClientType
    <2>3. log \in Seq(Kind) /\ Len(log) <= MaxLog /\ wire \in [Conn -> Seq(0..MaxLog)]
      BY <2>0, EmptySeq DEF Init
    <2>4. Nobody \in EmitterType /\ Nobody.state = "no" /\ Nobody.row = 0
      BY <2>0 DEF Nobody, EmitterType
    <2>5. emitter \in [Emitter -> EmitterType] /\ current \in 0..MaxPipes
          /\ owner \in [Pipe -> 0..MaxConns] /\ handler \in [Conn -> HandlerType]
      BY <2>0, <2>1, <2>4 DEF Init
    <2>6. TypeOK
      BY <2>1, <2>2, <2>3, <2>5
         DEF Init, TypeOK, EmitterType, HandlerType, Phase, ClientType, PanelType
    <2>7. Equipped
      BY <2>1, <2>4, Phases DEF Init, Equipped
    <2> QED
      BY <2>6, <2>7
  <1>2. TypeOK /\ Equipped /\ [Next]_vars => TypeOK' /\ Equipped'
    <2> SUFFICES ASSUME TypeOK, Equipped, [Next]_vars PROVE TypeOK' /\ Equipped'
      OBVIOUS
    <2>1. CASE UNCHANGED vars
      BY <2>1 DEF TypeOK, Equipped, vars
    <2>2. CASE Next
      BY <2>2, WireAssumption, EngineKeepsTypes, ClientKeepsTypes DEF Next
    <2> QED
      BY <2>1, <2>2
  <1> QED
    BY <1>1, <1>2, PTL DEF Spec

\* Every variable of the log, the pipes, the handlers, the client and the
\* panel (chat.go, chatclient.js, chatpanel.js) keeps its type.
THEOREM TypeCorrect == Spec => []TypeOK
  BY TypesHold, PTL

-----------------------------------------------------------------------------
(* Order.                                                                  *)

\* What the dedupe rests on: the rows shown ascend and end below the cursor.
Ascending(p) ==
    /\ \A j, k \in 1..Len(p.shown) : j < k => p.shown[j] < p.shown[k]
    /\ \A j \in 1..Len(p.shown) : p.shown[j] <= p.lastEventI

LEMMA FoldedAscends ==
    ASSUME NEW p \in PanelType, NEW n \in Row, NEW tagged \in BOOLEAN, Ascending(p)
    PROVE  Ascending(Folded(p, n, tagged))
  <1>1. CASE ~IsNew(p, n)
    BY <1>1 DEF Folded
  <1>2. CASE IsNew(p, n)
    <2> DEFINE q == Folded(p, n, tagged)
    <2>1. q.shown = Append(p.shown, n) /\ q.lastEventI = n
      BY <1>2 DEF Folded
    <2>2. p.shown \in Seq(Row) /\ Len(p.shown) \in Nat /\ p.lastEventI \in Nat /\ n \in Nat
      BY LenProperties DEF PanelType, Row
    <2>3. n > p.lastEventI
      BY <1>2 DEF IsNew
    <2>4. ASSUME NEW j \in 1..Len(p.shown) PROVE p.shown[j] \in Nat
      <3>1. p.shown[j] \in Row
        BY <2>2, ElementOfSeq
      <3> QED
        BY <3>1 DEF Row
    <2>5. /\ Len(q.shown) = Len(p.shown) + 1 /\ q.shown[Len(p.shown) + 1] = n
          /\ \A j \in 1..Len(p.shown) : q.shown[j] = p.shown[j]
      BY <2>1, <2>2, AppendFacts
    <2> HIDE DEF q
    <2>6. \A j \in 1..Len(q.shown) : j \in 1..Len(p.shown) \/ j = Len(p.shown) + 1
      BY <2>2, <2>5
    <2> QED
      <3>1. \A j \in 1..Len(q.shown) : q.shown[j] <= n
        BY <2>2, <2>3, <2>4, <2>5, <2>6 DEF Ascending
      <3>2. ASSUME NEW j \in 1..Len(q.shown), NEW k \in 1..Len(q.shown), j < k
            PROVE  q.shown[j] < q.shown[k]
        <4>1. j \in 1..Len(p.shown)
          BY <2>2, <2>5, <3>2
        <4>2. CASE k \in 1..Len(p.shown)
          BY <2>5, <3>2, <4>1, <4>2 DEF Ascending
        <4>3. CASE k = Len(p.shown) + 1
          <5>1. p.shown[j] <= p.lastEventI /\ p.shown[j] \in Nat
            BY <2>4, <4>1 DEF Ascending
          <5> QED
            BY <2>2, <2>3, <2>5, <4>1, <4>3, <5>1
        <4> QED
          BY <2>6, <4>2, <4>3
      <3> QED
        BY <2>1, <3>1, <3>2 DEF Ascending, q
  <1> QED
    BY <1>1, <1>2

\* Every step leaves the panel's rows and cursor alone but the arrival of a
\* row and the reload.
LEMMA PanelSteps ==
    ASSUME TypeOK, [Next]_vars
    PROVE  \/ panel'.shown = panel.shown /\ panel'.lastEventI = panel.lastEventI
           \/ \E quiet \in BOOLEAN : Receive(quiet)
           \/ Reload
  <1>1. CASE UNCHANGED vars
    BY <1>1 DEF vars
  <1>2. CASE EngineNext
    <2>1. CASE SendHere
      BY <2>1, Types DEF SendHere, PanelType
    <2>2. CASE ~SendHere
      BY <1>2, <2>2 DEF EngineNext, TurnBegins, AutoLooks, AutoBinds, SideBinds, SideAppends,
                        TurnRow, EndTurn, AppendRow, EmitSend, Handle, BindPipe, Swap, ListRows,
                        Replay, HandlerGone, ReapLooks, ReapSees, ReapDeletes
    <2> QED
      BY <2>1, <2>2
  <1>3. CASE ClientNext
    <2>1. CASE ReceiveDone
      BY <2>1, Types DEF ReceiveDone, AtReplayDone, PanelType
    <2> QED
      BY <1>3, <2>1 DEF ClientNext, Arrive, Connect, Drop
  <1> QED
    BY <1>1, <1>2, <1>3 DEF Next

\* A row that arrives is a row of the log.
LEMMA ArrivingRow ==
    ASSUME WireAssumption, TypeOK, NEW quiet \in BOOLEAN, Receive(quiet)
    PROVE  /\ client.conn \in Conn /\ wire[client.conn] \in Seq(0..MaxLog)
           /\ wire[client.conn] # <<>> /\ Head(wire[client.conn]) \in Row
           /\ Tagged(quiet) \in BOOLEAN
  <1>1. client.conn \in Conn /\ wire[client.conn] \in Seq(0..MaxLog) /\ wire[client.conn] # <<>>
    BY Types DEF Receive, ClientType, Conn
  <1>2. Head(wire[client.conn]) \in 0..MaxLog /\ Head(wire[client.conn]) # 0
    BY <1>1, TailFacts DEF Receive, Done
  <1>3. Tagged(quiet) \in BOOLEAN
    BY Types DEF Tagged, ClientType
  <1> QED
    BY <1>1, <1>2, <1>3 DEF Row, WireAssumption

\* The dedupe of handleEvent (chatpanel.js) and the bootstrap keep the rows
\* ascending.
LEMMA StaysAscending == Spec => []Ascending(panel)
  <1>1. Init => Ascending(panel)
    BY DEF Init, FreshPanel, Ascending
  <1>2. TypeOK /\ Ascending(panel) /\ [Next]_vars => Ascending(panel)'
    <2> SUFFICES ASSUME TypeOK, Ascending(panel), [Next]_vars PROVE Ascending(panel)'
      OBVIOUS
    <2>1. CASE panel'.shown = panel.shown /\ panel'.lastEventI = panel.lastEventI
      BY <2>1 DEF Ascending
    <2>2. ASSUME NEW quiet \in BOOLEAN, Receive(quiet) PROVE Ascending(panel)'
      <3>1. Head(wire[client.conn]) \in Row /\ Tagged(quiet) \in BOOLEAN
        BY <2>2, WireAssumption, ArrivingRow
      <3>2. panel' = Folded(panel, Head(wire[client.conn]), Tagged(quiet))
        BY <2>2 DEF Receive
      <3>3. Ascending(Folded(panel, Head(wire[client.conn]), Tagged(quiet)))
        BY <3>1, Types, FoldedAscends
      <3> QED
        BY <3>2, <3>3 DEF Ascending
    <2>3. CASE Reload
      <3> DEFINE first == IF Len(log) > Window THEN Len(log) - Window + 1 ELSE 1
      <3>1. first \in Nat \ {0} /\ first <= Len(log) + 1 /\ Len(log) \in Nat
        BY Types, WireAssumption DEF WireAssumption
      <3>2. panel' = Bootstrapped(first)
        BY <2>3 DEF Reload
      <3> HIDE DEF first
      <3>3. /\ Len(panel'.shown) = Len(log) - first + 1
            /\ \A j \in 1..Len(log) - first + 1 : panel'.shown[j] = first + j - 1
            /\ panel'.lastEventI = Len(log)
        BY <3>1, <3>2, WireAssumption, BootstrappedType
      <3> QED
        BY <3>1, <3>3 DEF Ascending
    <2> QED
      BY <2>1, <2>2, <2>3, PanelSteps
  <1> QED
    BY <1>1, <1>2, TypeCorrect, PTL DEF Spec

\* No row is shown twice or out of order (InOrderOnce), for every window,
\* log and number of connections: the dedupe of handleEvent (chatpanel.js)
\* and the bootstrap keep the rows ascending.
THEOREM ShownInOrder == Spec => []InOrderOnce
  <1>1. TypeOK /\ Ascending(panel) => InOrderOnce
    <2> SUFFICES ASSUME TypeOK, Ascending(panel) PROVE InOrderOnce
      OBVIOUS
    <2>1. panel.shown \in Seq(Row)
      BY Types DEF PanelType
    <2> QED
      BY <2>1 DEF Ascending, InOrderOnce
  <1> QED
    BY <1>1, StaysAscending, TypeCorrect, PTL

-----------------------------------------------------------------------------
(* The pipes: what one pipe would promise, as long as none is orphaned.    *)

\* A pipe belongs to a handler that holds it and still runs.
Owned ==
    \A p \in Pipe : owner[p] # 0 =>
        /\ handler[owner[p]].pipe = p
        /\ handler[owner[p]].phase \in {"owner", "replaying", "live"}

\* Who holds a pipe holds the map's entry.
OnePipe ==
    ~orphaned => /\ \A e \in Emitter : emitter[e].pipe # 0 => emitter[e].pipe = current
                 /\ \A c \in Conn : handler[c].phase \in Holding => handler[c].pipe = current

\* No handler runs before its connection is made.
Unmade == \A c \in Conn : c > client.used => handler[c].phase = "none"

Bound == Equipped /\ Owned /\ OnePipe /\ Unmade

\* The connection of the map's entry: it is served the live feed.
feed == IF current = 0 THEN 0 ELSE owner[current]

\* The row in each emitter's hands.
unsent == [e \in Emitter |-> emitter[e].row]

\* Nothing has gone wrong that the engine does not mend.
Calm == ~raced /\ ~orphaned

\* The owner of a pipe holds it, and no other.
LEMMA Owners ==
    ASSUME WireAssumption, TypeOK, Bound
    PROVE  /\ \A p \in Pipe : owner[p] = 0 \/ owner[p] \in Conn
           /\ feed = 0 \/ (feed \in Conn /\ handler[feed].phase \in {"owner", "replaying", "live"})
           /\ \A p \in Pipe, c \in Conn : handler[c].phase \in {"none", "upgraded", "bound", "gone"} \cup Reaping
                => owner[p] # c
           /\ \A p \in Pipe, c \in Conn : owner[p] = c => handler[c].pipe = p
  <1>1. \A p \in Pipe : owner[p] = 0 \/ owner[p] \in Conn
    BY Types DEF Conn, WireAssumption
  <1>2. current = 0 \/ current \in Pipe
    BY Types DEF Pipe, WireAssumption
  <1>3. 0 \notin Conn
    BY DEF Conn
  <1> QED
    BY <1>1, <1>2, <1>3 DEF Bound, Owned, feed, Reaping

\* A pipe just obtained is the map's entry, or one that nobody has.
LEMMA ObtainedFeed ==
    ASSUME WireAssumption, TypeOK, Bound, ObtainPipe, owner' = owner
    PROVE  feed' = feed
  <1>1. CASE current # 0
    BY <1>1, Obtained DEF feed
  <1>2. CASE current = 0
    <2>1. PipeFor \in Pipe /\ PipeFor \in Spare /\ current' = PipeFor /\ PipeFor # 0
      BY <1>2, Obtained
    <2>2. owner[PipeFor] = 0
      BY <2>1, Owners DEF Spare
    <2> QED
      BY <1>2, <2>1, <2>2 DEF feed
  <1> QED
    BY <1>1, <1>2

\* When the map is empty nobody holds a pipe.
LEMMA NoneHeld ==
    ASSUME TypeOK, Bound, ~orphaned, current = 0
    PROVE  /\ \A e \in Emitter : emitter[e].pipe = 0
           /\ \A c \in Conn : handler[c].phase \notin Holding
  BY DEF Bound, OnePipe, Equipped

LEMMA BeginsKeepBound ==
    ASSUME WireAssumption, TypeOK, Bound, Begins
    PROVE  Bound' /\ feed' = feed /\ unsent' = unsent
  <1>1. Equipped'
    BY BeginsKeepTypes DEF Bound
  <1>2. PICK e \in Emitter : BeginStep(e)
    BY BeginsFacts DEF Bound
  <1>3. Owned' /\ Unmade'
    BY <1>2 DEF Bound, Owned, Unmade, BeginStep
  <1>4. unsent' = unsent
    BY <1>2 DEF unsent, BeginStep
  <1>5. owner' = owner /\ handler' = handler /\ (orphaned' = orphaned)
    BY <1>2 DEF BeginStep
  <1>6. CASE SendHere
    <2>1. feed' = feed /\ current' = current
      BY <1>5, <1>6, BeginFacts DEF Bound, feed
    <2>2. OnePipe'
      <3> SUFFICES ASSUME ~orphaned PROVE OnePipe'
        BY <1>5 DEF OnePipe
      <3>1. handler[client.conn].pipe = current
        BY <1>6, BeginFacts, Phases DEF Bound, OnePipe
      <3>2. \A o \in Emitter : o # "turn" => emitter'[o] = emitter[o]
        BY <1>6, BeginFacts DEF BeginStep, Bound
      <3>3. emitter'["turn"].pipe = current
        BY <1>6, <3>1, BeginFacts DEF Bound
      <3> QED
        BY <1>5, <2>1, <3>2, <3>3 DEF OnePipe, Bound
    <2> QED
      BY <1>1, <1>3, <1>4, <2>1, <2>2 DEF Bound
  <1>7. CASE AutoLooks
    <2>1. feed' = feed /\ current' = current
      BY <1>5, <1>7, BeginFacts DEF Bound, feed
    <2>2. \A o \in Emitter : o # "auto" => emitter'[o] = emitter[o]
      BY <1>7, BeginFacts DEF BeginStep, Bound
    <2>3. emitter'["auto"].pipe = 0
      BY <1>7, BeginFacts DEF Bound
    <2>4. OnePipe'
      BY <1>5, <2>1, <2>2, <2>3 DEF OnePipe, Bound
    <2> QED
      BY <1>1, <1>3, <1>4, <2>1, <2>4 DEF Bound
  <1>8. CASE AutoBinds \/ SideBinds
    <2>1. PICK o \in Emitter : BeginStep(o) /\ emitter'[o].pipe = PipeFor /\ ObtainPipe
      BY <1>8, BeginFacts DEF Bound
    <2>2. feed' = feed
      BY <1>5, <2>1, ObtainedFeed
    <2>3. OnePipe'
      <3> SUFFICES ASSUME ~orphaned PROVE OnePipe'
        BY <1>5 DEF OnePipe
      <3>1. current' = PipeFor /\ (current # 0 => PipeFor = current)
        BY <2>1, Obtained
      <3>2. \A d \in Emitter : d # o => emitter'[d] = emitter[d]
        BY <2>1 DEF BeginStep
      <3>3. CASE current # 0
        BY <1>5, <2>1, <3>1, <3>2, <3>3 DEF OnePipe, Bound
      <3>4. CASE current = 0
        <4>1. /\ \A d \in Emitter : emitter[d].pipe = 0
              /\ \A c \in Conn : handler[c].phase \notin Holding
          BY <3>4, NoneHeld
        <4> QED
          BY <1>5, <2>1, <3>1, <3>2, <4>1 DEF OnePipe
      <3> QED
        BY <3>3, <3>4
    <2> QED
      BY <1>1, <1>3, <1>4, <2>2, <2>3 DEF Bound
  <1> QED
    BY <1>6, <1>7, <1>8 DEF Begins

LEMMA RowsKeepBound ==
    ASSUME WireAssumption, TypeOK, Bound, NEW e \in Emitter, NEW kind \in Kind,
           NEW state \in {"runs", "ends"}, AppendRow(e, kind, state),
           emitter[e].state = "runs" \/ (emitter[e].state = "asked" /\ e # "auto")
    PROVE  Bound' /\ feed' = feed /\ unsent' = [unsent EXCEPT ![e] = Len(log) + 1] /\ unsent[e] = 0
  <1>1. /\ emitter'[e].pipe = emitter[e].pipe
        /\ emitter[e].row = 0 /\ emitter'[e].row = Len(log) + 1
        /\ \A o \in Emitter : o # e => emitter'[o] = emitter[o]
        /\ UNCHANGED <<current, owner, handler, client, orphaned>>
    BY AppendRowFacts
  <1>2. emitter'[e].pipe # 0
    BY <1>1 DEF Bound, Equipped
  <1>3. Equipped'
    BY <1>1, <1>2, EmitterEquipped DEF Bound
  <1>4. Owned' /\ Unmade' /\ feed' = feed
    BY <1>1 DEF Bound, Owned, Unmade, feed
  <1>5. OnePipe'
    BY <1>1 DEF Bound, OnePipe
  <1>6. unsent' = [unsent EXCEPT ![e] = Len(log) + 1] /\ unsent[e] = 0
    BY <1>1 DEF unsent
  <1> QED
    BY <1>3, <1>4, <1>5, <1>6 DEF Bound

LEMMA EmitSendKeepsBound ==
    ASSUME WireAssumption, TypeOK, Bound, NEW e \in Emitter, EmitSend(e)
    PROVE  /\ Bound' /\ feed' = feed /\ unsent' = [unsent EXCEPT ![e] = 0] /\ unsent[e] # 0
           /\ emitter[e].pipe \in Pipe /\ Written(emitter[e].pipe, unsent[e])
           /\ ~orphaned => current # 0 /\ owner[emitter[e].pipe] = feed
  <1>1. /\ Written(emitter[e].pipe, emitter[e].row) /\ emitter[e].row # 0
        /\ UNCHANGED <<log, current, owner, handler, client, panel, orphaned>>
    BY DEF EmitSend
  <1>2. emitter[e].pipe \in Pipe
    BY <1>1, Equipment DEF Bound
  <1>3. Equipped'
    BY EmitSendKeepsTypes DEF Bound
  <1>4. Owned' /\ Unmade' /\ feed' = feed
    BY <1>1 DEF Bound, Owned, Unmade, feed
  <1>5. OnePipe'
    <2>1. emitter'[e].pipe = 0 \/ emitter'[e].pipe = emitter[e].pipe
      BY EmitSendFacts DEF Nobody
    <2>2. \A o \in Emitter : o # e => emitter'[o] = emitter[o]
      BY EmitSendFacts
    <2> QED
      BY <1>1, <2>1, <2>2 DEF Bound, OnePipe
  <1>6. unsent' = [unsent EXCEPT ![e] = 0] /\ unsent[e] = emitter[e].row
    BY EmitSendFacts DEF unsent
  <1>7. ~orphaned => current # 0 /\ owner[emitter[e].pipe] = feed
    BY <1>2 DEF Bound, OnePipe, feed, Pipe
  <1> QED
    BY <1>1, <1>2, <1>3, <1>4, <1>5, <1>6, <1>7 DEF Bound

LEMMA HandlerUnmade ==
    ASSUME TypeOK, Bound, NEW c \in Conn, HandlerStep(c), handler[c].phase # "none"
    PROVE  Unmade'
  BY DEF Bound, Unmade, HandlerStep

LEMMA BindPipeKeepsBound ==
    ASSUME WireAssumption, TypeOK, Bound, NEW c \in Conn, BindPipe(c)
    PROVE  Bound' /\ feed' = feed
  <1>1. /\ HandlerStep(c) /\ owner' = owner /\ handler[c].phase = "upgraded" /\ ObtainPipe
        /\ handler'[c].phase = "bound" /\ handler'[c].pipe = PipeFor /\ orphaned' = orphaned
    BY BindPipeFacts DEF Bound
  <1>2. Equipped' /\ Unmade'
    BY <1>1, HandlersKeepTypes, HandlerUnmade DEF Handle, Bound
  <1>3. feed' = feed
    BY <1>1, ObtainedFeed
  <1>4. Owned'
    <2>1. \A p \in Pipe : owner[p] # c
      BY <1>1, Owners
    <2> QED
      BY <1>1, <2>1, Owners DEF Bound, Owned, HandlerStep
  <1>5. OnePipe'
    <2> SUFFICES ASSUME ~orphaned PROVE OnePipe'
      BY <1>1 DEF OnePipe
    <2>1. current' = PipeFor /\ (current # 0 => PipeFor = current)
      BY <1>1, Obtained
    <2>2. emitter' = emitter /\ \A d \in Conn : d # c => handler'[d] = handler[d]
      BY <1>1 DEF HandlerStep
    <2>3. CASE current # 0
      BY <1>1, <2>1, <2>2, <2>3 DEF OnePipe, Bound
    <2>4. CASE current = 0
      <3>1. /\ \A e \in Emitter : emitter[e].pipe = 0
            /\ \A d \in Conn : handler[d].phase \notin Holding
        BY <2>4, NoneHeld
      <3> QED
        BY <1>1, <2>1, <2>2, <3>1 DEF OnePipe
    <2> QED
      BY <2>3, <2>4
  <1> QED
    BY <1>2, <1>3, <1>4, <1>5 DEF Bound

LEMMA SwapKeepsBound ==
    ASSUME WireAssumption, TypeOK, Bound, NEW c \in Conn, Swap(c)
    PROVE  Bound' /\ (~orphaned => feed' = c)
  <1>1. /\ HandlerStep(c) /\ current' = current /\ handler[c].phase = "bound"
        /\ handler[c].pipe \in Pipe /\ owner' = [owner EXCEPT ![handler[c].pipe] = c]
        /\ handler'[c].phase = "owner" /\ handler'[c].pipe = handler[c].pipe
        /\ orphaned' = orphaned
    BY SwapFacts DEF Bound
  <1>2. Equipped' /\ Unmade'
    BY <1>1, HandlersKeepTypes, HandlerUnmade DEF Handle, Bound
  <1>3. ~orphaned => handler[c].pipe = current
    BY <1>1, Phases DEF Bound, OnePipe
  <1>4. ~orphaned => feed' = c
    BY <1>1, <1>3, Types DEF feed, Pipe
  <1>5. Owned'
    <2> SUFFICES ASSUME NEW p \in Pipe, owner'[p] # 0
                 PROVE  /\ handler'[owner'[p]].pipe = p
                        /\ handler'[owner'[p]].phase \in {"owner", "replaying", "live"}
      BY DEF Owned
    <2>1. CASE p = handler[c].pipe
      BY <1>1, <2>1, Types
    <2>2. CASE p # handler[c].pipe
      <3>1. owner'[p] = owner[p]
        BY <1>1, <2>2, Types
      <3>2. owner[p] # c /\ owner[p] \in Conn
        BY <1>1, <3>1, Owners
      <3>3. handler'[owner[p]] = handler[owner[p]]
        BY <1>1, <3>2 DEF HandlerStep
      <3> QED
        BY <3>1, <3>3 DEF Bound, Owned
    <2> QED
      BY <2>1, <2>2
  <1>6. OnePipe'
    BY <1>1, <1>3 DEF Bound, OnePipe, HandlerStep
  <1> QED
    BY <1>2, <1>4, <1>5, <1>6 DEF Bound

\* A step within the replay: the handler keeps its pipe and its place.
LEMMA StayKeepsBound ==
    ASSUME WireAssumption, TypeOK, Bound, NEW c \in Conn, HandlerStep(c),
           UNCHANGED <<current, owner, orphaned>>, Equipped',
           handler[c].phase \in {"owner", "replaying"},
           handler'[c].phase \in {"replaying", "live"}, handler'[c].pipe = handler[c].pipe
    PROVE  Bound' /\ feed' = feed
  <1>1. Unmade' /\ feed' = feed
    BY HandlerUnmade DEF feed
  <1>2. \A d \in Conn : d # c => handler'[d] = handler[d]
    BY DEF HandlerStep
  <1>3. Owned'
    <2> SUFFICES ASSUME NEW p \in Pipe, owner[p] # 0
                 PROVE  /\ handler'[owner[p]].pipe = p
                        /\ handler'[owner[p]].phase \in {"owner", "replaying", "live"}
      BY DEF Owned
    <2>1. /\ owner[p] \in Conn /\ handler[owner[p]].pipe = p
          /\ handler[owner[p]].phase \in {"owner", "replaying", "live"}
      BY Owners DEF Bound, Owned
    <2> QED
      BY <1>2, <2>1
  <1>4. OnePipe'
    BY <1>2, Phases DEF Bound, OnePipe, HandlerStep
  <1> QED
    BY <1>1, <1>3, <1>4 DEF Bound

LEMMA ListRowsKeepsBound ==
    ASSUME WireAssumption, TypeOK, Bound, NEW c \in Conn, ListRows(c)
    PROVE  Bound' /\ feed' = feed
  <1>1. Equipped'
    BY HandlersKeepTypes DEF Handle, Bound
  <1> QED
    BY <1>1, ListRowsFacts, StayKeepsBound DEF Bound

LEMMA ReplayKeepsBound ==
    ASSUME WireAssumption, TypeOK, Bound, NEW c \in Conn, Replay(c)
    PROVE  /\ Bound' /\ feed' = feed
           /\ ~orphaned => feed # 0 /\ owner[handler[c].pipe] = feed
  <1>1. Equipped'
    BY HandlersKeepTypes DEF Handle, Bound
  <1>2. /\ HandlerStep(c) /\ current' = current /\ owner' = owner /\ orphaned' = orphaned
        /\ handler[c].phase = "replaying" /\ handler[c].pipe \in Pipe
        /\ owner[handler[c].pipe] # 0
        /\ handler'[c].pipe = handler[c].pipe /\ handler'[c].phase \in {"replaying", "live"}
    BY ReplayFacts DEF Bound
  <1>3. ~orphaned => handler[c].pipe = current
    BY <1>2, Phases DEF Bound, OnePipe
  <1>4. ~orphaned => feed # 0 /\ owner[handler[c].pipe] = feed
    BY <1>2, <1>3 DEF feed, Pipe
  <1> QED
    BY <1>1, <1>2, <1>4, StayKeepsBound

LEMMA HandlerGoneKeepsBound ==
    ASSUME WireAssumption, TypeOK, Bound, NEW c \in Conn, HandlerGone(c)
    PROVE  /\ Bound'
           /\ ~orphaned => feed' = IF feed = c THEN 0 ELSE feed
  <1>1. /\ HandlerStep(c) /\ current' = current /\ orphaned' = orphaned
        /\ handler[c].phase \in {"replaying", "live"} /\ handler[c].pipe \in Pipe
        /\ owner' = [owner EXCEPT ![handler[c].pipe] = Cleared(c)]
        /\ handler'[c].phase \in Reaping \cup {"gone"}
    BY HandlerGoneFacts DEF Bound
  <1>2. Equipped' /\ Unmade'
    BY <1>1, HandlersKeepTypes, HandlerUnmade DEF Handle, Bound
  <1>3. ~orphaned => handler[c].pipe = current
    BY <1>1, Phases DEF Bound, OnePipe
  <1>4. ~orphaned => feed' = IF feed = c THEN 0 ELSE feed
    <2> SUFFICES ASSUME ~orphaned PROVE feed' = IF feed = c THEN 0 ELSE feed
      OBVIOUS
    <2>1. owner'[current] = Cleared(c) /\ current # 0 /\ current \in Pipe
      BY <1>1, <1>3, Types DEF Pipe
    <2> QED
      BY <1>1, <1>3, <2>1 DEF feed, Cleared
  <1>5. Owned'
    <2> SUFFICES ASSUME NEW p \in Pipe, owner'[p] # 0
                 PROVE  /\ handler'[owner'[p]].pipe = p
                        /\ handler'[owner'[p]].phase \in {"owner", "replaying", "live"}
      BY DEF Owned
    <2>1. owner'[p] = owner[p] /\ owner[p] # c
      <3>1. CASE p = handler[c].pipe
        <4>1. owner'[p] = IF owner[p] = c THEN 0 ELSE owner[p]
          BY <1>1, <3>1, Types DEF Cleared
        <4> QED
          BY <4>1
      <3>2. CASE p # handler[c].pipe
        BY <1>1, <3>2, Types, Owners
      <3> QED
        BY <3>1, <3>2
    <2>2. owner[p] \in Conn
      BY <2>1, Owners
    <2>3. handler'[owner[p]] = handler[owner[p]]
      BY <1>1, <2>1, <2>2 DEF HandlerStep
    <2> QED
      BY <2>1, <2>3 DEF Bound, Owned
  <1>6. OnePipe'
    <2>1. handler'[c].phase \notin Holding
      BY <1>1 DEF Reaping, Holding
    <2> QED
      BY <1>1, <2>1 DEF Bound, OnePipe, HandlerStep
  <1> QED
    BY <1>2, <1>4, <1>5, <1>6 DEF Bound

LEMMA ReapKeepsBound ==
    ASSUME WireAssumption, TypeOK, Bound, NEW c \in Conn,
           ReapLooks(c) \/ ReapSees(c) \/ ReapDeletes(c)
    PROVE  Bound' /\ (feed' = feed \/ feed' = 0) /\ (~orphaned' => ~orphaned)
  <1>1. /\ HandlerStep(c) /\ owner' = owner
        /\ handler[c].phase \in Reaping /\ handler'[c].phase \in Reaping \cup {"gone"}
        /\ \/ current' = current /\ orphaned' = orphaned
           \/ current' = 0 /\ orphaned' = (orphaned \/ HeldPipe(current))
    BY ReapFacts DEF Bound
  <1>2. Equipped' /\ Unmade'
    <2>1. handler[c].phase # "none"
      BY <1>1 DEF Reaping
    <2> QED
      BY <1>1, <2>1, HandlersKeepTypes, HandlerUnmade DEF Handle, Bound
  <1>3. feed' = feed \/ feed' = 0
    BY <1>1 DEF feed
  <1>4. Owned'
    <2>1. \A p \in Pipe : owner[p] # c
      BY <1>1, Owners
    <2> QED
      BY <1>1, <2>1, Owners DEF Bound, Owned, HandlerStep
  <1>5. OnePipe'
    <2> SUFFICES ASSUME ~orphaned' PROVE OnePipe'
      BY DEF OnePipe
    <2>1. ~orphaned
      BY <1>1
    <2>2. emitter' = emitter /\ \A d \in Conn : d # c => handler'[d] = handler[d]
      BY <1>1 DEF HandlerStep
    <2>3. handler'[c].phase \notin Holding
      BY <1>1 DEF Reaping, Holding
    <2>4. CASE current' = current
      BY <2>1, <2>2, <2>3, <2>4 DEF Bound, OnePipe
    <2>5. CASE ~HeldPipe(current)
      <3>1. /\ \A e \in Emitter : emitter[e].pipe = 0
            /\ \A d \in Conn : handler[d].phase \notin Holding
        BY <2>1, <2>5 DEF Bound, OnePipe, HeldPipe
      <3> QED
        BY <2>2, <2>3, <3>1 DEF OnePipe
    <2> QED
      BY <1>1, <2>4, <2>5
  <1>6. ~orphaned' => ~orphaned
    BY <1>1
  <1> QED
    BY <1>2, <1>3, <1>4, <1>5, <1>6 DEF Bound

LEMMA ClientKeepsBound ==
    ASSUME WireAssumption, TypeOK, Bound, ClientNext
    PROVE  Bound' /\ feed' = feed /\ unsent' = unsent
  <1>1. Equipped'
    BY ClientKeepsTypes DEF Bound
  <1>2. CASE Connect
    <2> PICK c : c = client.used + 1
      OBVIOUS
    <2>1. /\ c \in Conn /\ client'.used = c
          /\ handler'[c].phase = "upgraded" /\ handler'[c].pipe = handler[c].pipe
          /\ \A d \in Conn : d # c => handler'[d] = handler[d]
          /\ UNCHANGED <<emitter, current, owner, orphaned>>
      BY <1>2, ConnectFacts
    <2>2. handler[c].phase = "none" /\ client.used \in Nat
      BY <2>1, Types DEF Bound, Unmade, ClientType, Conn
    <2>3. \A p \in Pipe : owner[p] # c
      BY <2>1, <2>2, Owners
    <2>4. Owned'
      BY <2>1, <2>3, Owners DEF Bound, Owned
    <2>5. OnePipe'
      BY <2>1, Phases DEF Bound, OnePipe
    <2>6. Unmade'
      BY <2>1, <2>2 DEF Bound, Unmade, Conn
    <2> QED
      BY <1>1, <2>1, <2>4, <2>5, <2>6 DEF Bound, feed, unsent
  <1>3. CASE Drop \/ Arrive \/ Reload
    <2>1. UNCHANGED <<emitter, current, owner, handler, orphaned>> /\ client'.used = client.used
      BY <1>3, Types DEF Drop, Arrive, ReceiveDone, Reload, Receive, engine, ClientType
    <2> QED
      BY <1>1, <2>1 DEF Bound, Owned, OnePipe, Unmade, feed, unsent
  <1> QED
    BY <1>2, <1>3 DEF ClientNext

\* Who holds a pipe holds the map's entry, until a reaper deletes one that is
\* held (pipeFor and reapIdleChat, chat.go).
LEMMA BoundHolds == Spec => []Bound
  <1>1. Init => Bound
    <2> SUFFICES ASSUME Init PROVE Bound
      OBVIOUS
    <2>1. \A c \in Conn : handler[c] = Absent
      BY DEF Init
    <2>2. Absent.phase = "none" /\ Nobody.state = "no" /\ Nobody.row = 0 /\ Nobody.pipe = 0
      BY DEF Absent, Handling, Nobody
    <2>3. Equipped /\ OnePipe
      BY <2>1, <2>2, Phases DEF Init, Equipped, OnePipe
    <2>4. Owned /\ Unmade
      BY <2>1, <2>2 DEF Init, Owned, Unmade
    <2> QED
      BY <2>3, <2>4 DEF Bound
  <1>2. TypeOK /\ Bound /\ [Next]_vars => Bound'
    <2> SUFFICES ASSUME TypeOK, Bound, [Next]_vars PROVE Bound'
      OBVIOUS
    <2>1. CASE SendHere \/ AutoLooks \/ AutoBinds \/ SideBinds
      BY <2>1, WireAssumption, BeginsKeepBound DEF Begins
    <2>2. CASE \/ TurnBegins \/ SideAppends
               \/ \E e \in Turn : TurnRow(e, "delta") \/ TurnRow(e, "assistant") \/ EndTurn(e)
      BY <2>2, WireAssumption, RowSteps, RowsKeepBound
    <2>3. CASE \E e \in Emitter : EmitSend(e)
      BY <2>3, WireAssumption, EmitSendKeepsBound
    <2>4. ASSUME NEW c \in Conn, Handle(c) PROVE Bound'
      BY <2>4, WireAssumption, BindPipeKeepsBound, SwapKeepsBound, ListRowsKeepsBound,
         ReplayKeepsBound, HandlerGoneKeepsBound, ReapKeepsBound DEF Handle
    <2>5. CASE ClientNext
      BY <2>5, WireAssumption, ClientKeepsBound
    <2>6. CASE UNCHANGED vars
      BY <2>6 DEF vars, Bound, Equipped, Owned, OnePipe, Unmade
    <2> QED
      BY <2>1, <2>2, <2>3, <2>4, <2>5, <2>6 DEF Next, EngineNext
  <1> QED
    BY <1>1, <1>2, TypeCorrect, PTL DEF Spec

-----------------------------------------------------------------------------
(* Delivery: why the rows shown have no hole until a frame overtakes or a  *)
(* pipe is orphaned.                                                       *)

\* Row m is folded already, or on its way over the client's socket.
Got(m) ==
    \/ m <= panel.lastEventI
    \/ \E k \in 1..Len(wire[client.conn]) : wire[client.conn][k] = m

\* An emitter has appended row m and will write it.
Unsent(m) == \E e \in Emitter : unsent[e] = m

\* The client asks for what the panel has not folded.
Cursor == client.lastSeq = panel.lastEventI

\* Only the client's own socket has frames on their way.
OneSocket == \A c \in Conn : c # client.conn => wire[c] = <<>>

\* What an emitter holds is a row of the log.
Held == \A e \in Emitter : unsent[e] <= Len(log)

\* The rows shown are consecutive and end at the cursor.
Whole ==
    \A j \in 1..Len(panel.shown) :
        panel.shown[j] = panel.lastEventI - Len(panel.shown) + j

\* A frame's predecessor is folded, or ahead of it on the socket.
Stepwise ==
    \A k \in 1..Len(wire[client.conn]) :
        \/ wire[client.conn][k] <= panel.lastEventI + 1
        \/ \E j \in 1..k - 1 : wire[client.conn][j] = wire[client.conn][k] - 1

\* The client has every row before the next one of its handler's replay.
Behind(h) ==
    h.phase \in {"upgraded", "bound", "owner", "replaying"} => \A m \in 1..h.next - 1 : Got(m)

\* Rows the replay did not read are still in their emitters' hands.
Ahead(h) ==
    h.phase = "replaying" /\ feed = client.conn =>
        \A m \in h.last + 1..Len(log) : Unsent(m)

\* After the replay every row reached the client or is about to be written.
Caught(h) ==
    h.phase = "live" /\ feed = client.conn => \A m \in 1..Len(log) : Got(m) \/ Unsent(m)

Served == Behind(handler[client.conn]) /\ Ahead(handler[client.conn]) /\ Caught(handler[client.conn])

Delivery ==
    /\ Cursor /\ OneSocket /\ Held
    /\ Calm => Whole /\ (client.conn # 0 => Stepwise /\ Served)

\* The panel's rows and cursor, the wire and the client stay as they are.
Untouched ==
    /\ panel'.shown = panel.shown /\ panel'.lastEventI = panel.lastEventI
    /\ wire' = wire /\ client' = client

LEMMA UnsentType ==
    ASSUME TypeOK
    PROVE  unsent \in [Emitter -> 0..MaxLog]
  BY Types DEF unsent, EmitterType

LEMMA UntouchedFacts ==
    ASSUME Delivery, Untouched, Calm' => Calm
    PROVE  /\ Cursor' /\ OneSocket'
           /\ Calm' => Whole' /\ (client.conn # 0 => Stepwise')
           /\ log' = log /\ unsent' = unsent => Held'
           /\ \A m : Got(m)' <=> Got(m)
  BY DEF Delivery, Untouched, Cursor, OneSocket, Whole, Stepwise, Got, Held

\* A step that leaves the client's handler alone, too, and makes no claim of
\* it new.
LEMMA SameHandler ==
    ASSUME Delivery, Untouched, Calm' => Calm, log' = log, unsent' = unsent,
           client.conn # 0 => handler'[client.conn] = handler[client.conn],
           Calm' /\ client.conn # 0 /\ feed' = client.conn => feed = client.conn
    PROVE  Delivery'
  <1> SUFFICES ASSUME Calm', client.conn # 0 PROVE Served'
    BY UntouchedFacts DEF Delivery, Untouched
  <1>1. Served
    BY DEF Delivery
  <1>2. \A m : (Got(m)' <=> Got(m)) /\ (Unsent(m)' <=> Unsent(m))
    BY UntouchedFacts DEF Unsent
  <1> QED
    BY <1>1, <1>2 DEF Served, Behind, Ahead, Caught, Untouched

\* A step that changes another connection's handler, or makes the client's
\* one idle.
LEMMA IdleHandler ==
    ASSUME Delivery, Untouched, Calm' => Calm, log' = log, unsent' = unsent,
           client.conn # 0 => handler'[client.conn].phase \in Reaping \cup {"gone"}
    PROVE  Delivery'
  <1> SUFFICES ASSUME Calm', client.conn # 0 PROVE Served'
    BY UntouchedFacts DEF Delivery, Untouched
  <1>1. client' = client /\ handler'[client.conn].phase \in {"reap", "idle", "dead", "gone"}
    BY DEF Untouched, Reaping
  <1> QED
    BY <1>1 DEF Served, Behind, Ahead, Caught

LEMMA BeginsDeliver ==
    ASSUME WireAssumption, TypeOK, Bound, Delivery, Begins
    PROVE  Delivery'
  <1>1. feed' = feed /\ unsent' = unsent
    BY BeginsKeepBound
  <1>2. UNCHANGED <<log, owner, handler, wire, client, raced, orphaned>>
    BY BeginsFacts DEF BeginStep, Bound
  <1>3. panel'.shown = panel.shown /\ panel'.lastEventI = panel.lastEventI
    BY BeginsFacts, Types DEF PanelType, Bound
  <1>4. Untouched /\ (Calm' => Calm)
    BY <1>2, <1>3 DEF Untouched, Calm
  <1> QED
    BY <1>1, <1>2, <1>4, SameHandler

LEMMA AppendRowDelivers ==
    ASSUME WireAssumption, TypeOK, Bound, Delivery, NEW e \in Emitter, NEW kind \in Kind,
           NEW state \in {"runs", "ends"}, AppendRow(e, kind, state),
           emitter[e].state = "runs" \/ (emitter[e].state = "asked" /\ e # "auto")
    PROVE  Delivery'
  <1>0. /\ log' = Append(log, kind)
        /\ UNCHANGED <<current, owner, handler, wire, client, panel, raced, orphaned>>
    BY AppendRowFacts
  <1>1. Untouched /\ (Calm' <=> Calm) /\ handler' = handler /\ feed' = feed
    BY <1>0 DEF Untouched, Calm, feed
  <1>2. Len(log') = Len(log) + 1 /\ Len(log) \in Nat
    BY <1>0, Types, AppendFacts
  <1>a. /\ unsent \in [Emitter -> 0..MaxLog] /\ unsent[e] = 0
        /\ unsent' = [unsent EXCEPT ![e] = Len(log) + 1]
    BY RowsKeepBound, UnsentType
  <1>3. \A m \in 1..Len(log) : Unsent(m) => Unsent(m)'
    BY <1>a DEF Unsent
  <1>4. Unsent(Len(log))'
    <2>1. unsent'[e] = Len(log')
      BY <1>2, <1>a
    <2> QED
      BY <2>1 DEF Unsent
  <1>5. Held'
    BY <1>2, <1>a DEF Delivery, Held
  <1> SUFFICES ASSUME Calm', client.conn # 0 PROVE Served'
    BY <1>5, <1>1, UntouchedFacts DEF Delivery, Untouched
  <1>6. Served /\ client' = client
    BY <1>1 DEF Delivery, Untouched
  <1>7. \A m : Got(m)' <=> Got(m)
    BY <1>1, UntouchedFacts
  <1>8. \A m \in 1..Len(log') : m \in 1..Len(log) \/ m = Len(log) + 1
    BY <1>2
  <1>9. Behind(handler[client.conn])'
    BY <1>1, <1>6, <1>7 DEF Served, Behind
  <1>10. Ahead(handler[client.conn])'
    <2> SUFFICES ASSUME handler[client.conn].phase = "replaying", feed = client.conn,
                        NEW m \in handler[client.conn].last + 1..Len(log')
                 PROVE  Unsent(m)'
      BY <1>1, <1>6 DEF Ahead
    <2>1. handler[client.conn].last \in Nat
      BY Types DEF HandlerType, ClientType, Conn
    <2>2. m \in handler[client.conn].last + 1..Len(log) \/ m = Len(log) + 1
      BY <1>2, <2>1
    <2> QED
      BY <1>2, <1>3, <1>4, <1>6, <2>1, <2>2 DEF Served, Ahead
  <1>11. Caught(handler[client.conn])'
    BY <1>1, <1>3, <1>4, <1>6, <1>7, <1>8 DEF Served, Caught
  <1> QED
    BY <1>9, <1>10, <1>11 DEF Served

LEMMA BindPipeDelivers ==
    ASSUME WireAssumption, TypeOK, Bound, Delivery, NEW c \in Conn, BindPipe(c)
    PROVE  Delivery'
  <1>1. /\ HandlerStep(c) /\ wire' = wire /\ raced' = raced /\ orphaned' = orphaned
        /\ handler[c].phase = "upgraded" /\ handler'[c].phase = "bound"
        /\ handler'[c].next = handler[c].next
    BY BindPipeFacts DEF Bound
  <1>2. Untouched /\ (Calm' <=> Calm) /\ log' = log /\ unsent' = unsent
    BY <1>1 DEF HandlerStep, Untouched, Calm, unsent
  <1>3. feed' = feed
    BY BindPipeKeepsBound
  <1>4. CASE c # client.conn
    <2>1. client.conn # 0 => handler'[client.conn] = handler[client.conn]
      BY <1>1, <1>4, Types DEF HandlerStep, ClientType, Conn
    <2> QED
      BY <1>2, <1>3, <2>1, SameHandler
  <1>5. CASE c = client.conn
    <2> SUFFICES ASSUME Calm', client.conn # 0 PROVE Served'
      BY <1>2, UntouchedFacts DEF Delivery, Untouched
    <2>1. Served /\ client' = client /\ \A m : Got(m)' <=> Got(m)
      BY <1>2, UntouchedFacts DEF Delivery, Untouched
    <2> QED
      BY <1>1, <1>5, <2>1 DEF Served, Behind, Ahead, Caught
  <1> QED
    BY <1>4, <1>5

LEMMA SwapDelivers ==
    ASSUME WireAssumption, TypeOK, Bound, Delivery, NEW c \in Conn, Swap(c)
    PROVE  Delivery'
  <1>1. /\ HandlerStep(c) /\ wire' = wire /\ raced' = raced /\ orphaned' = orphaned
        /\ handler[c].phase = "bound" /\ handler'[c].phase = "owner"
        /\ handler'[c].next = handler[c].next
    BY SwapFacts DEF Bound
  <1>2. Untouched /\ (Calm' <=> Calm) /\ log' = log /\ unsent' = unsent
    BY <1>1 DEF HandlerStep, Untouched, Calm, unsent
  <1>3. Calm' => feed' = c
    BY <1>2, SwapKeepsBound DEF Calm
  <1>4. CASE c # client.conn
    <2>1. client.conn # 0 => handler'[client.conn] = handler[client.conn]
      BY <1>1, <1>4, Types DEF HandlerStep, ClientType, Conn
    <2> QED
      BY <1>2, <1>3, <1>4, <2>1, SameHandler
  <1>5. CASE c = client.conn
    <2> SUFFICES ASSUME Calm', client.conn # 0 PROVE Served'
      BY <1>2, UntouchedFacts DEF Delivery, Untouched
    <2>1. Served /\ client' = client /\ \A m : Got(m)' <=> Got(m)
      BY <1>2, UntouchedFacts DEF Delivery, Untouched
    <2> QED
      BY <1>1, <1>5, <2>1 DEF Served, Behind, Ahead, Caught
  <1> QED
    BY <1>4, <1>5

LEMMA ListRowsDelivers ==
    ASSUME WireAssumption, TypeOK, Bound, Delivery, NEW c \in Conn, ListRows(c)
    PROVE  Delivery'
  <1>1. /\ HandlerStep(c) /\ wire' = wire /\ raced' = raced /\ orphaned' = orphaned
        /\ handler[c].phase = "owner" /\ handler'[c].phase = "replaying"
        /\ handler'[c].next = handler[c].next /\ handler'[c].last = Len(log)
    BY ListRowsFacts DEF Bound
  <1>2. Untouched /\ (Calm' <=> Calm) /\ log' = log /\ unsent' = unsent
    BY <1>1 DEF HandlerStep, Untouched, Calm, unsent
  <1>3. feed' = feed
    BY ListRowsKeepsBound
  <1>4. CASE c # client.conn
    <2>1. client.conn # 0 => handler'[client.conn] = handler[client.conn]
      BY <1>1, <1>4, Types DEF HandlerStep, ClientType, Conn
    <2> QED
      BY <1>2, <1>3, <2>1, SameHandler
  <1>5. CASE c = client.conn
    <2> SUFFICES ASSUME Calm', client.conn # 0 PROVE Served'
      BY <1>2, UntouchedFacts DEF Delivery, Untouched
    <2>1. Served /\ client' = client /\ \A m : Got(m)' <=> Got(m)
      BY <1>2, UntouchedFacts DEF Delivery, Untouched
    <2>2. Len(log) \in Nat
      BY Types
    <2> QED
      BY <1>1, <1>2, <1>5, <2>1, <2>2 DEF Served, Behind, Ahead, Caught
  <1> QED
    BY <1>4, <1>5

LEMMA HandlerGoneDelivers ==
    ASSUME WireAssumption, TypeOK, Bound, Delivery, NEW c \in Conn, HandlerGone(c)
    PROVE  Delivery'
  <1>1. /\ HandlerStep(c) /\ wire' = wire /\ raced' = raced /\ orphaned' = orphaned
        /\ handler'[c].phase \in Reaping \cup {"gone"}
    BY HandlerGoneFacts DEF Bound
  <1>2. Untouched /\ (Calm' <=> Calm) /\ log' = log /\ unsent' = unsent
    BY <1>1 DEF HandlerStep, Untouched, Calm, unsent
  <1>3. Calm' => feed' = IF feed = c THEN 0 ELSE feed
    BY <1>2, HandlerGoneKeepsBound DEF Calm
  <1>4. CASE c # client.conn
    <2>1. client.conn # 0 => handler'[client.conn] = handler[client.conn]
      BY <1>1, <1>4, Types DEF HandlerStep, ClientType, Conn
    <2> QED
      BY <1>2, <1>3, <2>1, SameHandler
  <1>5. CASE c = client.conn
    BY <1>1, <1>2, <1>5, IdleHandler
  <1> QED
    BY <1>4, <1>5

LEMMA ReapDelivers ==
    ASSUME WireAssumption, TypeOK, Bound, Delivery, NEW c \in Conn,
           ReapLooks(c) \/ ReapSees(c) \/ ReapDeletes(c)
    PROVE  Delivery'
  <1>1. /\ HandlerStep(c) /\ wire' = wire /\ raced' = raced
        /\ handler'[c].phase \in Reaping \cup {"gone"}
    BY ReapFacts DEF Bound
  <1>2. (feed' = feed \/ feed' = 0) /\ (~orphaned' => ~orphaned)
    BY ReapKeepsBound
  <1>3. Untouched /\ (Calm' => Calm) /\ log' = log /\ unsent' = unsent
    BY <1>1, <1>2 DEF HandlerStep, Untouched, Calm, unsent
  <1>4. CASE c # client.conn
    <2>1. client.conn # 0 => handler'[client.conn] = handler[client.conn]
      BY <1>1, <1>4, Types DEF HandlerStep, ClientType, Conn
    <2> QED
      BY <1>2, <1>3, <2>1, SameHandler
  <1>5. CASE c = client.conn
    BY <1>1, <1>3, <1>5, IdleHandler
  <1> QED
    BY <1>4, <1>5

-----------------------------------------------------------------------------
(* A frame written to the client's socket, or to nobody.                   *)

\* pipe.send reaches the client only through the socket it reads.
LEMMA WrittenFacts ==
    ASSUME WireAssumption, TypeOK, Bound, NEW p \in Pipe, NEW n \in 0..MaxLog, Written(p, n)
    PROVE  \/ /\ owner[p] # 0 /\ owner[p] = client.conn /\ owner[p] \in Conn
              /\ wire' = [wire EXCEPT ![client.conn] = Append(wire[client.conn], n)]
           \/ wire' = wire /\ (owner[p] = 0 \/ owner[p] # client.conn)
  <1> PICK c \in 0..MaxConns : c = owner[p]
    BY Types
  <1>1. CASE c # 0 /\ ~Dead(c)
    <2>1. c = client.conn /\ c \in Conn
      BY <1>1, Owners DEF Dead
    <2> QED
      BY <1>1, <2>1 DEF Written
  <1>2. CASE ~(c # 0 /\ ~Dead(c))
    <2>1. c # 0 => ~Shut(c)
      <3>1. c # 0 => /\ handler[c].pipe = p
                     /\ handler[c].phase \in {"owner", "replaying", "live"}
        BY DEF Bound, Owned
      <3> QED
        BY <3>1 DEF Shut, Reaping
    <2> QED
      BY <1>2, <2>1 DEF Written, Dead
  <1> QED
    BY <1>1, <1>2

\* A frame whose predecessor the client has keeps the socket stepwise.
LEMMA Appended ==
    ASSUME WireAssumption, TypeOK, NEW n \in 0..MaxLog, client.conn \in Conn, Stepwise,
           wire' = [wire EXCEPT ![client.conn] = Append(wire[client.conn], n)],
           client' = client, panel' = panel,
           n = 0 \/ Got(n - 1)
    PROVE  Stepwise' /\ Got(n)' /\ \A m : Got(m) => Got(m)'
  <1> DEFINE w == wire[client.conn]
             v == wire'[client.conn]
  <1>1. w \in Seq(0..MaxLog) /\ Len(w) \in Nat /\ v = Append(w, n)
    BY Types
  <1>2. /\ Len(v) = Len(w) + 1 /\ v[Len(w) + 1] = n
        /\ \A k \in 1..Len(w) : v[k] = w[k]
    BY <1>1, AppendFacts
  <1>3. panel.lastEventI \in Nat
    BY Types DEF PanelType
  <1> HIDE DEF w, v
  <1>4. \A k \in 1..Len(v) : k \in 1..Len(w) \/ k = Len(w) + 1
    BY <1>1, <1>2
  <1>5. \A m : Got(m) => Got(m)'
    BY <1>1, <1>2 DEF Got, w, v
  <1>6. Got(n)'
    BY <1>1, <1>2 DEF Got, w, v
  <1>7. ASSUME NEW k \in 1..Len(v)
        PROVE  v[k] <= panel.lastEventI + 1 \/ \E j \in 1..k - 1 : v[j] = v[k] - 1
    <2>1. CASE k \in 1..Len(w)
      <3>1. w[k] <= panel.lastEventI + 1 \/ \E j \in 1..k - 1 : w[j] = w[k] - 1
        BY <2>1 DEF Stepwise, w
      <3>2. \A j \in 1..k - 1 : j \in 1..Len(w)
        BY <1>1, <2>1
      <3> QED
        BY <1>2, <2>1, <3>1, <3>2
    <2>2. CASE k = Len(w) + 1
      <3>1. CASE n = 0
        BY <1>2, <1>3, <2>2, <3>1
      <3>2. CASE n # 0 /\ n - 1 <= panel.lastEventI
        BY <1>2, <1>3, <2>2, <3>2
      <3>3. CASE \E j \in 1..Len(w) : w[j] = n - 1
        BY <1>1, <1>2, <2>2, <3>3
      <3> QED
        BY <3>1, <3>2, <3>3 DEF Got, w
    <2> QED
      BY <1>4, <2>1, <2>2
  <1> QED
    BY <1>5, <1>6, <1>7 DEF Stepwise, v

LEMMA EmitSendDelivers ==
    ASSUME WireAssumption, TypeOK, Bound, Delivery, NEW e \in Emitter, EmitSend(e)
    PROVE  Delivery'
  <1> DEFINE c == client.conn
             p == emitter[e].pipe
  <1>0. /\ feed' = feed /\ unsent' = [unsent EXCEPT ![e] = 0] /\ unsent[e] # 0
        /\ p \in Pipe /\ Written(p, unsent[e]) /\ (~orphaned => owner[p] = feed)
        /\ unsent \in [Emitter -> 0..MaxLog]
    BY EmitSendKeepsBound, UnsentType
  <1>1. unsent[e] \in 1..MaxLog /\ unsent[e] <= Len(log) /\ Len(log) \in Nat
    BY <1>0, Types DEF Delivery, Held, WireAssumption
  <1> PICK n \in 1..MaxLog : n = unsent[e]
    BY <1>1
  <1>2. n \in 0..MaxLog /\ Written(p, n) /\ n <= Len(log)
    BY <1>0, <1>1 DEF WireAssumption
  <1>3. /\ client' = client /\ panel' = panel /\ log' = log /\ handler' = handler
        /\ feed' = feed /\ unsent' = [unsent EXCEPT ![e] = 0]
    BY <1>0 DEF EmitSend
  <1>4. Held'
    BY <1>0, <1>1, <1>3 DEF Delivery, Held
  <1>5. Calm' => /\ Calm /\ owner[p] = feed
                 /\ feed # 0 => handler[feed].phase = "live"
                 /\ \A o \in Emitter : unsent[o] = 0 \/ ~(unsent[o] < n)
    <2> SUFFICES ASSUME Calm'
                 PROVE  /\ Calm /\ owner[p] = feed
                        /\ feed # 0 => handler[feed].phase = "live"
                        /\ \A o \in Emitter : unsent[o] = 0 \/ ~(unsent[o] < n)
      OBVIOUS
    <2>1. /\ ~raced /\ ~orphaned
          /\ ~(owner[p] # 0 /\ handler[owner[p]].phase # "live")
          /\ ~(\E o \in Emitter : emitter[o].row # 0 /\ emitter[o].row < emitter[e].row)
      BY DEF EmitSend, Calm
    <2>2. \A o \in Emitter : unsent[o] = emitter[o].row
      BY DEF unsent
    <2> QED
      BY <1>0, <2>1, <2>2 DEF Calm
  <1>6. \A m \in 1..Len(log) : Unsent(m) => m = n \/ Unsent(m)'
    <2> SUFFICES ASSUME NEW m \in 1..Len(log), NEW o \in Emitter, unsent[o] = m, m # n
                 PROVE  unsent'[o] = m
      BY DEF Unsent
    <2> QED
      BY <1>0
  <1>7. CASE owner[p] # 0 /\ owner[p] = c /\ owner[p] \in Conn /\ wire' = [wire EXCEPT ![c] = Append(wire[c], n)]
    <2>1. Cursor' /\ OneSocket'
      BY <1>3, <1>7, Types DEF Delivery, Cursor, OneSocket
    <2> SUFFICES ASSUME Calm' PROVE Whole' /\ Stepwise' /\ Served'
      BY <1>3, <1>4, <2>1 DEF Delivery
    <2>2. Whole /\ Stepwise /\ Served /\ handler[c].phase = "live"
      BY <1>5, <1>7 DEF Delivery
    <2>3. n = 1 \/ n - 1 \in 1..MaxLog
      BY <1>2 DEF WireAssumption
    <2>4. n = 1 => Got(n - 1)
      BY Types DEF Got, PanelType
    <2>5. n - 1 \in 1..Len(log) => Got(n - 1)
      <3>1. ~Unsent(n - 1) \/ n = 1
        BY <1>0, <1>2, <1>5, <2>3 DEF Unsent
      <3> QED
        BY <1>2, <1>5, <1>7, <2>2, <2>4, <3>1 DEF Served, Caught
    <2>6. n - 1 \in 1..Len(log) \/ n = 1
      BY <1>1, <1>2, WireAssumption DEF WireAssumption
    <2>7. Stepwise' /\ Got(n)' /\ \A m : Got(m) => Got(m)'
      BY <1>2, <1>3, <1>7, <2>2, <2>4, <2>5, <2>6, WireAssumption, Appended
    <2>8. Whole'
      BY <1>3, <2>2 DEF Whole
    <2>9. Served'
      BY <1>3, <1>6, <2>2, <2>7 DEF Served, Behind, Ahead, Caught
    <2> QED
      BY <2>7, <2>8, <2>9
  <1>8. CASE wire' = wire /\ (owner[p] = 0 \/ owner[p] # c)
    <2>1. Untouched
      BY <1>3, <1>8 DEF Untouched
    <2>2. Calm' => Calm
      BY <1>5
    <2> SUFFICES ASSUME Calm', c # 0 PROVE Served'
      BY <1>4, <2>1, <2>2, UntouchedFacts DEF Delivery, Untouched
    <2>3. Served /\ \A m : Got(m)' <=> Got(m)
      BY <1>5, <2>1, UntouchedFacts DEF Delivery
    <2>4. feed # c
      BY <1>5, <1>8
    <2> QED
      BY <1>3, <2>3, <2>4 DEF Served, Behind, Ahead, Caught
  <1> HIDE DEF p, c
  <1>9. \/ owner[p] # 0 /\ owner[p] = c /\ owner[p] \in Conn /\ wire' = [wire EXCEPT ![c] = Append(wire[c], n)]
        \/ wire' = wire /\ (owner[p] = 0 \/ owner[p] # c)
    BY <1>0, <1>2, WrittenFacts DEF c
  <1> QED
    BY <1>7, <1>8, <1>9

LEMMA ReplayDelivers ==
    ASSUME WireAssumption, TypeOK, Bound, Delivery, NEW c \in Conn, Replay(c)
    PROVE  Delivery'
  <1> DEFINE h == handler[c]
  <1>1. h \in HandlerType /\ h.next \in Nat /\ h.last \in 0..MaxLog /\ Len(log) \in Nat
    BY Types DEF HandlerType
  <1> PICK n \in 0..MaxLog : n = IF h.next <= h.last THEN h.next ELSE Done
    BY <1>1, WireAssumption DEF Done, WireAssumption
  <1>2. /\ client' = client /\ panel' = panel /\ log' = log /\ feed' = feed
        /\ unsent' = unsent /\ h.phase = "replaying"
        /\ h.pipe \in Pipe /\ handler' \in [Conn -> HandlerType]
        /\ \A d \in Conn : d # c => handler'[d] = handler[d]
    BY ReplayFacts, ReplayKeepsBound DEF HandlerStep, Bound, unsent
  <1>2a. /\ Calm' => Calm /\ feed = c /\ owner[h.pipe] = c
    BY ReplayFacts, ReplayKeepsBound DEF Calm, Bound
  <1>2b. /\ h.next <= h.last => /\ handler'[c].phase = "replaying"
                                /\ handler'[c].next = h.next + 1 /\ handler'[c].last = h.last
         /\ ~(h.next <= h.last) => handler'[c].phase = "live"
    BY ReplayFacts DEF Bound
  <1>3. Written(h.pipe, n)
    BY ReplayFacts DEF Bound, Done
  <1>4. Cursor' /\ OneSocket' /\ Held'
    <2>1. Cursor' /\ Held'
      BY <1>2 DEF Delivery, Cursor, Held
    <2>2. OneSocket'
      <3>1. OneSocket /\ wire \in [Conn -> Seq(0..MaxLog)]
        BY Types DEF Delivery
      <3>2. \/ wire' = [wire EXCEPT ![client.conn] = Append(wire[client.conn], n)]
            \/ wire' = wire
        BY <1>2, <1>3, WireAssumption, WrittenFacts
      <3> QED
        BY <1>2, <3>1, <3>2 DEF OneSocket
    <2> QED
      BY <2>1, <2>2
  <1> SUFFICES ASSUME Calm' PROVE Whole' /\ (client.conn # 0 => Stepwise' /\ Served')
    BY <1>2, <1>4 DEF Delivery
  <1>5. Calm /\ feed = c /\ owner[h.pipe] = c /\ Whole
    BY <1>2a DEF Delivery
  <1>6. Whole'
    BY <1>2, <1>5 DEF Whole
  <1>7. CASE client.conn # c /\ client.conn # 0
    <2>1. wire' = wire
      BY <1>2, <1>3, <1>5, <1>7, WireAssumption, WrittenFacts
    <2>2. Untouched
      BY <1>2, <2>1 DEF Untouched
    <2>3. handler'[client.conn] = handler[client.conn]
      <3>1. client.conn \in Conn
        BY <1>7, Types DEF ClientType, Conn
      <3> QED
        BY <1>2, <1>7, <3>1
    <2>4. Delivery'
      BY <1>2, <1>5, <2>2, <2>3, SameHandler
    <2> QED
      BY <1>2, <1>7, <2>4 DEF Delivery
  <1>8. CASE client.conn = c
    <2>1. Stepwise /\ Served
      BY <1>5, <1>8 DEF Delivery, Conn
    <2>2. wire' = [wire EXCEPT ![client.conn] = Append(wire[client.conn], n)]
      <3>1. owner[h.pipe] # 0
        BY <1>5 DEF Conn
      <3> QED
        BY <1>2, <1>3, <1>5, <1>8, <3>1, WireAssumption, WrittenFacts
    <2>3. n = 0 \/ Got(n - 1)
      <3>1. CASE n # 0 /\ n = 1
        BY <3>1, Types DEF Got, PanelType
      <3>2. CASE n # 0 /\ n # 1
        <4>1. n = h.next /\ n - 1 \in 1..h.next - 1
          BY <1>1, <3>2 DEF Done
        <4> QED
          BY <1>2, <1>8, <2>1, <4>1 DEF Served, Behind
      <3> QED
        BY <3>1, <3>2
    <2>4. Stepwise' /\ Got(n)' /\ \A m : Got(m) => Got(m)'
      BY <1>2, <1>8, <2>1, <2>2, <2>3, WireAssumption, Appended
    <2>5. \A m : Unsent(m)' <=> Unsent(m)
      BY <1>2 DEF Unsent
    <2>6. CASE h.next <= h.last
      <3>1. handler'[c].phase = "replaying" /\ handler'[c].next = h.next + 1 /\ handler'[c].last = h.last
        BY <1>2b, <2>6
      <3>2. \A m \in 1..h.next : m \in 1..h.next - 1 \/ m = n
        BY <1>1, <2>6
      <3>3. Behind(handler[client.conn])'
        BY <1>1, <1>2, <1>8, <2>1, <2>4, <3>1, <3>2 DEF Served, Behind
      <3>4. Ahead(handler[client.conn])'
        BY <1>2, <1>8, <2>1, <2>5, <3>1 DEF Served, Ahead
      <3>5. Caught(handler[client.conn])'
        BY <1>2, <1>8, <3>1 DEF Caught
      <3> QED
        BY <1>6, <2>4, <3>3, <3>4, <3>5 DEF Served
    <2>7. CASE ~(h.next <= h.last)
      <3>1. handler'[c].phase = "live"
        BY <1>2b, <2>7
      <3>2. ASSUME NEW m \in 1..Len(log) PROVE Got(m)' \/ Unsent(m)'
        <4>1. m \in 1..h.next - 1 \/ m \in h.last + 1..Len(log)
          BY <1>1, <2>7
        <4>2. m \in 1..h.next - 1 => Got(m)
          BY <1>2, <1>8, <2>1 DEF Served, Behind
        <4>3. m \in h.last + 1..Len(log) => Unsent(m)
          BY <1>2, <1>5, <1>8, <2>1 DEF Served, Ahead
        <4> QED
          BY <2>4, <2>5, <4>1, <4>2, <4>3
      <3> QED
        BY <1>2, <1>6, <1>8, <2>4, <3>1, <3>2 DEF Served, Behind, Ahead, Caught
    <2> QED
      BY <2>4, <2>6, <2>7
  <1> QED
    BY <1>2, <1>6, <1>7, <1>8

-----------------------------------------------------------------------------
(* The client.                                                             *)

LEMMA ConnectDelivers ==
    ASSUME WireAssumption, TypeOK, Bound, Delivery, Connect
    PROVE  Delivery'
  <1> DEFINE c == client.used + 1
  <1>1. /\ c \in Conn /\ client.conn = 0 /\ client'.conn = c
        /\ client'.lastSeq = client.lastSeq
        /\ wire' = wire /\ panel' = panel /\ (Calm' <=> Calm) /\ log' = log /\ unsent' = unsent
    BY ConnectFacts DEF Calm, unsent
  <1>2. \A d \in Conn : wire[d] = <<>>
    BY <1>1 DEF Delivery, OneSocket, Conn
  <1>3. handler'[c].phase = "upgraded" /\ handler'[c].next = client.lastSeq + 1
    BY ConnectFacts
  <1>4. client.lastSeq = panel.lastEventI /\ client.lastSeq \in Nat
    BY Types DEF Delivery, Cursor, ClientType
  <1> HIDE DEF c
  <1>5. Cursor' /\ OneSocket' /\ Held'
    BY <1>1, <1>2, <1>4 DEF Delivery, Cursor, OneSocket, Held
  <1>6. Calm' => Whole'
    BY <1>1 DEF Delivery, Whole
  <1>7. Stepwise'
    BY <1>1, <1>2 DEF Stepwise
  <1>8. Behind(handler[client.conn])'
    <2> SUFFICES ASSUME NEW m \in 1..client.lastSeq PROVE Got(m)'
      BY <1>1, <1>3, <1>4 DEF Behind
    <2> QED
      BY <1>1, <1>4 DEF Got
  <1>9. Ahead(handler[client.conn])' /\ Caught(handler[client.conn])'
    BY <1>1, <1>3 DEF Ahead, Caught
  <1> QED
    BY <1>5, <1>6, <1>7, <1>8, <1>9 DEF Delivery, Served

LEMMA DropDelivers ==
    ASSUME WireAssumption, TypeOK, Delivery, Drop
    PROVE  Delivery'
  <1>1. /\ client'.conn = 0 /\ client'.lastSeq = client.lastSeq
        /\ panel' = panel /\ (Calm' <=> Calm) /\ log' = log /\ unsent' = unsent
        /\ wire' = [wire EXCEPT ![client.conn] = <<>>]
    BY Types DEF Drop, ClientType, engine, Calm, unsent
  <1>2. Cursor' /\ Held'
    BY <1>1 DEF Delivery, Cursor, Held
  <1>3. OneSocket'
    BY <1>1, Types DEF Delivery, OneSocket
  <1>4. Calm' => Whole'
    BY <1>1 DEF Delivery, Whole
  <1> QED
    BY <1>1, <1>2, <1>3, <1>4 DEF Delivery

LEMMA ReloadDelivers ==
    ASSUME WireAssumption, TypeOK, Delivery, Reload
    PROVE  Delivery'
  <1> DEFINE first == IF Len(log) > Window THEN Len(log) - Window + 1 ELSE 1
  <1>1. first \in Nat \ {0} /\ first <= Len(log) + 1 /\ Len(log) \in Nat
    BY Types DEF WireAssumption
  <1>2. /\ client'.conn = 0 /\ client'.lastSeq = Len(log)
        /\ (Calm' <=> Calm) /\ log' = log /\ unsent' = unsent
        /\ wire' = [c \in Conn |-> <<>>]
    BY Types DEF Reload, ClientType, engine, Calm, unsent
  <1>3. panel' = Bootstrapped(first)
    BY DEF Reload
  <1> HIDE DEF first
  <1>4. /\ Len(panel'.shown) = Len(log) - first + 1
        /\ \A j \in 1..Len(log) - first + 1 : panel'.shown[j] = first + j - 1
        /\ panel'.lastEventI = Len(log)
    BY <1>1, <1>3, BootstrappedType
  <1>5. Cursor' /\ Held' /\ OneSocket'
    BY <1>2, <1>4 DEF Delivery, Cursor, Held, OneSocket
  <1>6. Whole'
    BY <1>1, <1>4 DEF Whole
  <1> QED
    BY <1>2, <1>5, <1>6 DEF Delivery

\* A frame leaves the head of the socket: what follows it is still stepwise,
\* and nothing the client had is lost, if the panel folds the frame.
LEMMA Taken ==
    ASSUME WireAssumption, TypeOK, Stepwise, client.conn \in Conn, wire[client.conn] # <<>>,
           NEW n \in 0..MaxLog, n = Head(wire[client.conn]),
           wire' = [wire EXCEPT ![client.conn] = Tail(wire[client.conn])],
           client'.conn = client.conn,
           panel'.lastEventI = IF n > panel.lastEventI THEN n ELSE panel.lastEventI
    PROVE  /\ Stepwise' /\ \A m \in Nat : Got(m) => Got(m)'
           /\ n > panel.lastEventI => n = panel.lastEventI + 1
  <1> DEFINE w == wire[client.conn]
             v == wire'[client.conn]
  <1>1. w \in Seq(0..MaxLog) /\ v = Tail(w) /\ w # <<>>
    BY Types
  <1>2. /\ n = w[1] /\ Len(w) \in Nat \ {0} /\ Len(v) = Len(w) - 1
        /\ \A k \in 1..Len(v) : v[k] = w[k + 1]
    BY <1>1, TailFacts
  <1>3. panel.lastEventI \in Nat /\ panel'.lastEventI \in Nat /\ n \in Nat
    BY Types DEF PanelType, WireAssumption
  <1>4. ASSUME NEW k \in 1..Len(w) PROVE w[k] \in Nat
    <2>1. w[k] \in 0..MaxLog
      BY <1>1, ElementOfSeq
    <2> QED
      BY <2>1 DEF WireAssumption
  <1>5. \A k \in 1..Len(w) :
            w[k] <= panel.lastEventI + 1 \/ \E j \in 1..k - 1 : w[j] = w[k] - 1
    BY DEF Stepwise
  <1> HIDE DEF w, v
  <1>6. n > panel.lastEventI => n = panel.lastEventI + 1
    BY <1>2, <1>3, <1>5
  <1>7. panel.lastEventI <= panel'.lastEventI /\ n <= panel'.lastEventI
    BY <1>3
  <1>8. ASSUME NEW m \in Nat, Got(m) PROVE Got(m)'
    <2>1. CASE m <= panel.lastEventI
      BY <1>3, <1>7, <2>1 DEF Got
    <2>2. ASSUME NEW k \in 1..Len(w), w[k] = m PROVE Got(m)'
      <3>1. CASE k = 1
        BY <1>2, <1>7, <2>2, <3>1 DEF Got
      <3>2. CASE k # 1
        <4>1. k - 1 \in 1..Len(v) /\ v[k - 1] = m
          BY <1>2, <2>2, <3>2
        <4> QED
          BY <4>1 DEF Got, v
      <3> QED
        BY <3>1, <3>2
    <2> QED
      BY <1>8, <2>1, <2>2 DEF Got, w
  <1>9. ASSUME NEW k \in 1..Len(v)
        PROVE  v[k] <= panel'.lastEventI + 1 \/ \E j \in 1..k - 1 : v[j] = v[k] - 1
    <2>1. k + 1 \in 1..Len(w) /\ v[k] = w[k + 1] /\ v[k] \in Nat
      BY <1>2, <1>4
    <2>2. CASE w[k + 1] <= panel.lastEventI + 1
      BY <1>3, <1>7, <2>1, <2>2
    <2>3. ASSUME NEW j \in 1..k, w[j] = w[k + 1] - 1
          PROVE  v[k] <= panel'.lastEventI + 1 \/ \E i \in 1..k - 1 : v[i] = v[k] - 1
      <3>1. CASE j = 1
        BY <1>2, <1>3, <1>7, <2>1, <2>3, <3>1
      <3>2. CASE j # 1
        <4>1. j - 1 \in 1..k - 1 /\ j - 1 \in 1..Len(v) /\ v[j - 1] = w[j]
          BY <1>2, <2>1, <3>2
        <4> QED
          BY <2>1, <2>3, <4>1
      <3> QED
        BY <3>1, <3>2
    <2>4. w[k + 1] <= panel.lastEventI + 1 \/ \E j \in 1..k : w[j] = w[k + 1] - 1
      BY <1>5, <2>1
    <2> QED
      BY <2>2, <2>3, <2>4
  <1> QED
    BY <1>6, <1>8, <1>9 DEF Stepwise, v

\* After a frame was taken and folded the claims about the handler hold on.
LEMMA TakenServed ==
    ASSUME TypeOK, Served, \A m \in Nat : Got(m) => Got(m)',
           client'.conn = client.conn, client.conn \in Conn,
           log' = log, unsent' = unsent, feed' = feed, handler' = handler
    PROVE  Served'
  <1>1. \A m : Unsent(m)' <=> Unsent(m)
    BY DEF Unsent
  <1>2. handler[client.conn].next \in Nat /\ Len(log) \in Nat
    BY Types DEF HandlerType
  <1>3. Behind(handler[client.conn])'
    BY <1>2 DEF Served, Behind
  <1>4. Ahead(handler[client.conn])'
    BY <1>1 DEF Served, Ahead
  <1>5. Caught(handler[client.conn])'
    BY <1>1, <1>2 DEF Served, Caught
  <1> QED
    BY <1>3, <1>4, <1>5 DEF Served

LEMMA ReceiveDelivers ==
    ASSUME WireAssumption, TypeOK, Delivery, NEW quiet \in BOOLEAN, Receive(quiet)
    PROVE  Delivery'
  <1>1. /\ client.conn \in Conn /\ client.conn # 0 /\ wire[client.conn] # <<>>
        /\ Head(wire[client.conn]) \in Row /\ Tagged(quiet) \in BOOLEAN
    BY ArrivingRow DEF Receive
  <1> PICK n \in Row : n = Head(wire[client.conn])
    BY <1>1
  <1>2. n \in 0..MaxLog /\ n \in Nat /\ panel.lastEventI \in Nat /\ panel.shown \in Seq(Row)
    BY Types DEF Row, PanelType, WireAssumption
  <1>3. /\ (Calm' <=> Calm) /\ log' = log /\ unsent' = unsent /\ feed' = feed /\ handler' = handler
        /\ wire' = [wire EXCEPT ![client.conn] = Tail(wire[client.conn])]
        /\ client'.conn = client.conn
        /\ client'.lastSeq = IF n > client.lastSeq THEN n ELSE client.lastSeq
    BY Types DEF Receive, engine, ClientType, Calm, unsent, feed
  <1>4. panel' = Folded(panel, n, Tagged(quiet))
    BY DEF Receive
  <1>5. /\ n > panel.lastEventI => panel'.shown = Append(panel.shown, n) /\ panel'.lastEventI = n
        /\ ~(n > panel.lastEventI) => panel' = panel
    BY <1>4 DEF Folded, IsNew
  <1>6. panel'.lastEventI = IF n > panel.lastEventI THEN n ELSE panel.lastEventI
    BY <1>5
  <1>7. Cursor' /\ Held' /\ OneSocket'
    <2>1. Cursor' /\ Held'
      BY <1>3, <1>6 DEF Delivery, Cursor, Held
    <2>2. OneSocket'
      BY <1>3, Types DEF Delivery, OneSocket
    <2> QED
      BY <2>1, <2>2
  <1> SUFFICES ASSUME Calm' PROVE Whole' /\ Stepwise' /\ Served'
    BY <1>7 DEF Delivery
  <1>8. Whole /\ Stepwise /\ Served
    BY <1>1, <1>3 DEF Delivery
  <1>9. /\ Stepwise' /\ \A m \in Nat : Got(m) => Got(m)'
        /\ n > panel.lastEventI => n = panel.lastEventI + 1
    BY <1>1, <1>2, <1>3, <1>6, <1>8, Taken
  <1>10. Served'
    BY <1>1, <1>3, <1>8, <1>9, TakenServed
  <1>11. Whole'
    <2>1. CASE ~(n > panel.lastEventI)
      BY <1>5, <1>8, <2>1 DEF Whole
    <2>2. CASE n > panel.lastEventI
      <3> DEFINE old == Len(panel.shown)
      <3>1. old \in Nat
        BY <1>2
      <3>2. /\ Len(panel'.shown) = old + 1 /\ panel'.shown[old + 1] = n
            /\ \A j \in 1..old : panel'.shown[j] = panel.shown[j]
        BY <1>2, <1>5, <2>2, AppendFacts
      <3>3. panel'.lastEventI = panel.lastEventI + 1 /\ n = panel.lastEventI + 1
        BY <1>5, <1>9, <2>2
      <3>4. \A j \in 1..old : panel.shown[j] = panel.lastEventI - old + j
        BY <1>8 DEF Whole
      <3> HIDE DEF old
      <3>5. \A j \in 1..Len(panel'.shown) : j \in 1..old \/ j = old + 1
        BY <3>1, <3>2
      <3> QED
        <4>1. ASSUME NEW j \in 1..Len(panel'.shown)
              PROVE  panel'.shown[j] = panel'.lastEventI - Len(panel'.shown) + j
          <5>1. CASE j \in 1..old
            <6>1. panel'.shown[j] = panel.lastEventI - old + j
              BY <3>2, <3>4, <5>1
            <6>2. Len(panel'.shown) = old + 1 /\ panel'.lastEventI = panel.lastEventI + 1
              BY <3>2, <3>3
            <6> QED
              BY <1>2, <3>1, <5>1, <6>1, <6>2
          <5>2. CASE j = old + 1
            BY <1>2, <3>1, <3>2, <3>3, <5>2
          <5> QED
            BY <3>5, <5>1, <5>2
        <4> QED
          BY <4>1 DEF Whole
    <2> QED
      BY <2>1, <2>2
  <1> QED
    BY <1>9, <1>10, <1>11

LEMMA ReceiveDoneDelivers ==
    ASSUME WireAssumption, TypeOK, Delivery, ReceiveDone
    PROVE  Delivery'
  <1>1. /\ client.conn \in Conn /\ client.conn # 0 /\ wire[client.conn] # <<>>
        /\ Head(wire[client.conn]) = 0 /\ 0 \in 0..MaxLog
    BY Types DEF ReceiveDone, Done, ClientType, Conn, WireAssumption
  <1>2. /\ (Calm' <=> Calm) /\ log' = log /\ unsent' = unsent /\ feed' = feed /\ handler' = handler
        /\ wire' = [wire EXCEPT ![client.conn] = Tail(wire[client.conn])]
        /\ client'.conn = client.conn /\ client'.lastSeq = client.lastSeq
        /\ panel'.shown = panel.shown /\ panel'.lastEventI = panel.lastEventI
    BY Types DEF ReceiveDone, engine, ClientType, AtReplayDone, PanelType, Calm, unsent, feed
  <1>3. panel'.lastEventI = IF 0 > panel.lastEventI THEN 0 ELSE panel.lastEventI
    BY <1>2, Types DEF PanelType
  <1>4. Cursor' /\ Held' /\ OneSocket'
    <2>1. Cursor' /\ Held'
      BY <1>2 DEF Delivery, Cursor, Held
    <2>2. OneSocket'
      BY <1>2, Types DEF Delivery, OneSocket
    <2> QED
      BY <2>1, <2>2
  <1> SUFFICES ASSUME Calm' PROVE Whole' /\ Stepwise' /\ Served'
    BY <1>4 DEF Delivery
  <1>5. Whole /\ Stepwise /\ Served
    BY <1>1, <1>2 DEF Delivery
  <1>6. Stepwise' /\ \A m \in Nat : Got(m) => Got(m)'
    BY <1>1, <1>2, <1>3, <1>5, Taken
  <1>7. Served'
    BY <1>1, <1>2, <1>5, <1>6, TakenServed
  <1>8. Whole'
    BY <1>2, <1>5 DEF Whole
  <1> QED
    BY <1>6, <1>7, <1>8

-----------------------------------------------------------------------------
\* Each step of the engine or the client keeps the delivery invariant.
LEMMA StepsDeliver ==
    ASSUME WireAssumption, TypeOK, Bound, Delivery, Next
    PROVE  Delivery'
  <1>1. CASE SendHere \/ AutoLooks \/ AutoBinds \/ SideBinds
    BY <1>1, BeginsDeliver DEF Begins
  <1>2. CASE \/ TurnBegins \/ SideAppends
             \/ \E e \in Turn : TurnRow(e, "delta") \/ TurnRow(e, "assistant") \/ EndTurn(e)
    BY <1>2, RowSteps, AppendRowDelivers
  <1>3. CASE \E e \in Emitter : EmitSend(e)
    BY <1>3, EmitSendDelivers
  <1>4. ASSUME NEW c \in Conn, Handle(c) PROVE Delivery'
    BY <1>4, BindPipeDelivers, SwapDelivers, ListRowsDelivers, ReplayDelivers, HandlerGoneDelivers,
       ReapDelivers DEF Handle
  <1>5. CASE Arrive
    BY <1>5, ReceiveDelivers, ReceiveDoneDelivers DEF Arrive
  <1>6. CASE Connect \/ Drop \/ Reload
    BY <1>6, ConnectDelivers, DropDelivers, ReloadDelivers
  <1> QED
    BY <1>1, <1>2, <1>3, <1>4, <1>5, <1>6 DEF Next, EngineNext, ClientNext

LEMMA StutterDelivers ==
    ASSUME Delivery, UNCHANGED vars
    PROVE  Delivery'
  <1>1. Untouched /\ (Calm' <=> Calm) /\ log' = log /\ unsent' = unsent
        /\ handler' = handler /\ feed' = feed
    BY DEF vars, Untouched, Calm, feed, unsent
  <1> QED
    BY <1>1, SameHandler

\* The invariant that makes every hole a race or an orphaned pipe: as long as
\* neither has happened, cursor, socket, replay and live feed add up to the
\* whole log, over fresh, reaped and taken-over pipes (chat.go's swap before
\* ListEvents, chatclient.js's since cursor, chatpanel.js's dedupe).
THEOREM DeliveryHolds == Spec => []Delivery
  <1>1. Init => Delivery
    <2> SUFFICES ASSUME Init PROVE Delivery
      OBVIOUS
    <2>1. Cursor /\ OneSocket /\ Held
      BY DEF Init, FreshPanel, Cursor, OneSocket, Held, unsent, Nobody
    <2>2. Whole /\ client.conn = 0
      BY DEF Init, FreshPanel, Whole
    <2> QED
      BY <2>1, <2>2 DEF Delivery
  <1>2. TypeOK /\ Bound /\ Delivery /\ [Next]_vars => Delivery'
    BY WireAssumption, StepsDeliver, StutterDelivers
  <1> QED
    BY <1>1, <1>2, TypeCorrect, BoundHolds, PTL DEF Spec

\* No dropped connection, reload, fresh pipe or since cursor makes a hole in
\* the transcript (NoHoleUnlessRaced), for every window, log, socket buffer
\* and number of connections and pipes: only a frame that overtakes rows does,
\* or a pipe that reapIdleChat takes from its holders (chat.go).
THEOREM NoHoleWithoutRace == Spec => []NoHoleUnlessRaced
  <1>1. TypeOK /\ Delivery => NoHoleUnlessRaced
    <2> SUFFICES ASSUME TypeOK, Whole, NEW j \in DOMAIN panel.shown
                 PROVE  panel.shown[j] = panel.shown[1] + j - 1
      BY DEF Delivery, NoHoleUnlessRaced, Calm
    <2>1. /\ panel.shown \in Seq(Row) /\ panel.lastEventI \in Nat
          /\ Len(panel.shown) \in Nat /\ DOMAIN panel.shown = 1..Len(panel.shown)
      BY Types DEF PanelType
    <2>2. /\ panel.shown[j] = panel.lastEventI - Len(panel.shown) + j
          /\ panel.shown[1] = panel.lastEventI - Len(panel.shown) + 1
      BY <2>1 DEF Whole
    <2> QED
      BY <2>1, <2>2
  <1> QED
    BY <1>1, TypeCorrect, DeliveryHolds, PTL
-----------------------------------------------------------------------------
(* What the transcript tells.                                              *)

\* A set of naturals has a least element.
LEMMA Least ==
    ASSUME NEW T, T \subseteq Nat, T # {}
    PROVE  \E m \in T : \A n \in T : m <= n
  <1> DEFINE R == {ss \in Nat \X Nat : ss[1] < ss[2]}
  <1>1. IsWellFoundedOn(R, Nat)
    BY NatLessThanWellFounded DEF OpToRel
  <1>2. \E x \in T : \A y \in T : ~(<<y, x>> \in R)
    <2> HIDE DEF R
    <2> QED
      BY <1>1, WFMin
  <1>3. \A x, y \in Nat : ~(<<y, x>> \in R) => x <= y
    OBVIOUS
  <1> QED
    BY <1>2, <1>3

\* ... and a greatest one, if it is bounded.
LEMMA Greatest ==
    ASSUME NEW T, NEW b \in Nat, T \subseteq 0..b, T # {}
    PROVE  Max(T) \in T /\ \A n \in T : n <= Max(T)
  <1> DEFINE U == {b - n : n \in T}
  <1>1. U \subseteq Nat /\ U # {}
    <2>1. \A n \in T : b - n \in Nat /\ b - n \in U
      OBVIOUS
    <2>2. \A u \in U : \E n \in T : u = b - n
      OBVIOUS
    <2> HIDE DEF U
    <2> QED
      BY <2>1, <2>2
  <1>2. PICK m \in U : \A n \in U : m <= n
    <2> HIDE DEF U
    <2> QED
      BY <1>1, Least
  <1>3. PICK x \in T : m = b - x
    OBVIOUS
  <1>4. \A n \in T : n <= x
    BY <1>2, <1>3
  <1> QED
    BY <1>4 DEF Max

Msg == [role : Kind, text : SUBSET Nat, complete : BOOLEAN]

\* A function of the places of a sequence is a sequence.
LEMMA SamePlaces ==
    ASSUME NEW ms \in Seq(Msg), NEW r \in [DOMAIN ms -> Msg]
    PROVE  r \in Seq(Msg)
  <1>1. DOMAIN ms = 1..Len(ms) /\ Len(ms) \in Nat
    BY LenProperties
  <1> QED
    BY <1>1

LEMMA MsgAt ==
    ASSUME NEW ms \in Seq(Msg), NEW j \in DOMAIN ms
    PROVE  ms[j] \in Msg /\ ms \in [DOMAIN ms -> Msg]
  <1>1. DOMAIN ms = 1..Len(ms) /\ Len(ms) \in Nat /\ ms \in [1..Len(ms) -> Msg]
    BY LenProperties
  <1> QED
    BY <1>1

LEMMA ToldType ==
    ASSUME TypeOK, WireAssumption, NEW ms \in Seq(Msg), NEW n \in 1..Len(log)
    PROVE  Told(ms, n) \in Seq(Msg)
  <1>1. n \in Nat /\ log[n] \in Kind /\ "assistant" \in Kind
    BY Types, ElementOfSeq DEF Kind
  <1>2. Segment(n) \subseteq Nat
    BY <1>1 DEF Segment
  <1>3. \A text \in SUBSET Nat, role \in Kind, complete \in BOOLEAN :
            Append(ms, Message(role, text, complete)) \in Seq(Msg)
    BY DEF Message, Msg
  <1>4. DeltaMessage(ms, n) \in Seq(Msg)
    <2>1. [ms EXCEPT ![Len(ms)].text = ms[Len(ms)].text \cup {n}] \in Seq(Msg)
      <3>1. CASE Len(ms) \in DOMAIN ms
        <4> PICK x \in Msg : x = ms[Len(ms)]
          BY <3>1, MsgAt
        <4> PICK y \in Msg : y = [x EXCEPT !.text = x.text \cup {n}]
          BY <1>1 DEF Msg
        <4>1. [ms EXCEPT ![Len(ms)].text = ms[Len(ms)].text \cup {n}] = [ms EXCEPT ![Len(ms)] = y]
          OBVIOUS
        <4>2. [ms EXCEPT ![Len(ms)] = y] \in [DOMAIN ms -> Msg]
          BY <3>1, MsgAt
        <4> QED
          BY <4>1, <4>2, SamePlaces
      <3>2. CASE Len(ms) \notin DOMAIN ms
        <4>1. ms = <<>>
          BY <3>2, LenProperties
        <4>2. [ms EXCEPT ![Len(ms)].text = ms[Len(ms)].text \cup {n}] = ms
          BY <3>2, <4>1
        <4> QED
          BY <4>2
      <3> QED
        BY <3>1, <3>2
    <2>2. Append(ms, Message("assistant", {n}, FALSE)) \in Seq(Msg)
      BY <1>1, <1>3
    <2> QED
      BY <2>1, <2>2 DEF DeltaMessage
  <1>5. RoundFlow(ms, n) \in Seq(Msg)
    <2>1. ASSUME NEW j, j \in DOMAIN ms
          PROVE  [ms EXCEPT ![j].complete = TRUE] \in Seq(Msg)
      <3> PICK x \in Msg : x = ms[j]
        BY <2>1, MsgAt
      <3> PICK y \in Msg : y = [x EXCEPT !.complete = TRUE]
        BY DEF Msg
      <3>1. [ms EXCEPT ![j].complete = TRUE] = [ms EXCEPT ![j] = y]
        OBVIOUS
      <3>2. [ms EXCEPT ![j] = y] \in [DOMAIN ms -> Msg]
        BY <2>1, MsgAt
      <3> QED
        BY <3>1, <3>2, SamePlaces
    <2>2. Append(ms, Message("assistant", Segment(n), TRUE)) \in Seq(Msg)
      BY <1>1, <1>2, <1>3
    <2>3. Replies(ms) # {} => Max(Replies(ms)) \in DOMAIN ms
      <3>1. Replies(ms) \subseteq 0..Len(ms) /\ Len(ms) \in Nat
        BY LenProperties DEF Replies
      <3> QED
        BY <3>1, Greatest DEF Replies
    <2> QED
      BY <2>1, <2>2, <2>3 DEF RoundFlow
  <1>6. [j \in DOMAIN ms |-> [ms[j] EXCEPT !.complete = TRUE]] \in Seq(Msg)
    <2>1. \A x \in Msg : [x EXCEPT !.complete = TRUE] \in Msg
      BY DEF Msg
    <2>2. \A j \in DOMAIN ms : [ms[j] EXCEPT !.complete = TRUE] \in Msg
      BY <2>1, MsgAt
    <2> QED
      BY <2>2, SamePlaces
  <1>7. Append(ms, Message(log[n], {n}, TRUE)) \in Seq(Msg)
    BY <1>1, <1>3
  <1> QED
    BY <1>4, <1>5, <1>6, <1>7 DEF Told

\* A delta leaves an open reply behind.
LEMMA DeltaStaysOpen ==
    ASSUME NEW ms \in Seq(Msg), NEW n \in Nat
    PROVE  DeltaMessage(ms, n) # <<>> /\ ~Last(DeltaMessage(ms, n)).complete
  <1>1. CASE Replies(ms) # {} /\ Len(ms) \in Replies(ms) /\ ~Last(ms).complete
    <2> DEFINE r == [ms EXCEPT ![Len(ms)].text = @ \cup {n}]
    <2>1. DeltaMessage(ms, n) = r
      BY <1>1 DEF DeltaMessage
    <2>2. Len(ms) \in DOMAIN ms /\ Len(r) = Len(ms) /\ Len(ms) \in 1..Len(ms)
      BY <1>1 DEF Replies
    <2>3. r[Len(ms)].complete = ms[Len(ms)].complete
      <3> PICK x \in Msg : x = ms[Len(ms)]
        BY <2>2, MsgAt
      <3>1. r[Len(ms)] = [x EXCEPT !.text = @ \cup {n}]
        BY <2>2
      <3> QED
        BY <3>1 DEF Msg
    <2> QED
      BY <1>1, <2>1, <2>2, <2>3 DEF Last
  <1>2. CASE ~(Replies(ms) # {} /\ Len(ms) \in Replies(ms) /\ ~Last(ms).complete)
    <2> DEFINE x == Message("assistant", {n}, FALSE)
    <2>1. DeltaMessage(ms, n) = Append(ms, x)
      BY <1>2 DEF DeltaMessage
    <2>2. Append(ms, x) # <<>> /\ Last(Append(ms, x)) = x
      <3> HIDE DEF x
      <3> QED
        BY DEF Last
    <2>3. x.complete = FALSE
      BY DEF Message
    <2> QED
      BY <2>1, <2>2, <2>3
  <1> QED
    BY <1>1, <1>2

\* The rows told one after the other, up to row n of s.
Telling(g, s, n) ==
    g = [k \in 0..n |-> IF k = 0 THEN <<>> ELSE Told(g[k - 1], s[k])]

LEMMA TellingExists ==
    ASSUME NEW s, NEW n \in Nat
    PROVE  \E g : Telling(g, s, n)
  <1> DEFINE T == {k \in Nat : ~ \E g : Telling(g, s, k)}
  <1>1. ASSUME T # {} PROVE FALSE
    <2>1. PICK m \in T : \A k \in T : m <= k
      <3>1. T \subseteq Nat
        OBVIOUS
      <3> HIDE DEF T
      <3> QED
        BY <1>1, <3>1, Least
    <2>2. m # 0
      <3>1. Telling([k \in 0..0 |-> <<>>], s, 0)
        BY DEF Telling
      <3> QED
        BY <2>1, <3>1
    <2>3. m \in Nat /\ m - 1 \in Nat /\ m - 1 \notin T
      BY <2>1, <2>2
    <2>4. PICK g : Telling(g, s, m - 1)
      BY <2>3
    <2> DEFINE h == [k \in 0..m |-> IF k < m THEN g[k] ELSE Told(g[m - 1], s[m])]
    <2>5. ASSUME NEW k \in 0..m
          PROVE  h[k] = IF k = 0 THEN <<>> ELSE Told(h[k - 1], s[k])
      <3>1. CASE k = 0
        BY <2>2, <2>3, <2>4, <3>1 DEF Telling
      <3>2. CASE k # 0 /\ k < m
        <4>1. h[k] = g[k] /\ h[k - 1] = g[k - 1] /\ k \in 0..m - 1
          BY <2>3, <3>2
        <4>2. g[k] = Told(g[k - 1], s[k])
          BY <2>4, <3>2, <4>1 DEF Telling
        <4> QED
          BY <3>2, <4>1, <4>2
      <3>3. CASE k = m
        <4>1. h[k] = Told(g[m - 1], s[m]) /\ h[k - 1] = g[m - 1]
          BY <2>2, <2>3, <3>3
        <4> QED
          BY <2>2, <3>3, <4>1
      <3> QED
        BY <2>3, <3>1, <3>2, <3>3
    <2>6. Telling(h, s, m)
      <3>1. h = [k \in 0..m |-> h[k]]
        OBVIOUS
      <3> HIDE DEF h
      <3> QED
        BY <2>5, <3>1 DEF Telling
    <2> QED
      BY <2>1, <2>6
  <1> QED
    BY <1>1

\* The messages of a transcript are those of its rows but the last, and what
\* the last one makes of them.
LEMMA MessagesUnfold ==
    ASSUME TypeOK, WireAssumption, NEW s \in Seq(1..Len(log)), s # <<>>
    PROVE  \E ms \in Seq(Msg) : Messages(s) = Told(ms, s[Len(s)])
  <1>1. Len(s) \in Nat \ {0}
    OBVIOUS
  <1> DEFINE told == CHOOSE g : Telling(g, s, Len(s))
  <1>2. Telling(told, s, Len(s))
    BY <1>1, TellingExists
  <1>3. Messages(s) = told[Len(s)]
    BY DEF Messages, Telling
  <1> HIDE DEF told
  <1>4. \A k \in 0..Len(s) : told[k] = IF k = 0 THEN <<>> ELSE Told(told[k - 1], s[k])
    BY <1>2 DEF Telling
  <1> DEFINE T == {k \in 0..Len(s) : told[k] \notin Seq(Msg)}
  <1>5. ASSUME T # {} PROVE FALSE
    <2>1. PICK m \in T : \A k \in T : m <= k
      <3>1. T \subseteq Nat
        BY <1>1
      <3> HIDE DEF T
      <3> QED
        BY <1>5, <3>1, Least
    <2>2. m \in 0..Len(s) /\ told[m] \notin Seq(Msg)
      BY <2>1
    <2>3. m # 0
      <3>1. told[0] = <<>>
        BY <1>1, <1>4
      <3> QED
        BY <2>2, <3>1, EmptySeq
    <2>4. m - 1 \in 0..Len(s) /\ told[m - 1] \in Seq(Msg) /\ s[m] \in 1..Len(log)
      BY <1>1, <2>1, <2>2, <2>3
    <2> QED
      BY <1>4, <2>2, <2>3, <2>4, ToldType
  <1>6. told[Len(s) - 1] \in Seq(Msg)
    BY <1>1, <1>5
  <1>7. told[Len(s)] = Told(told[Len(s) - 1], s[Len(s)])
    BY <1>1, <1>4
  <1> QED
    BY <1>3, <1>6, <1>7

\* A transcript that ends in a delta is in the middle of a turn.
LEMMA DeltaIsMidTurn ==
    ASSUME TypeOK, WireAssumption, NEW s \in Seq(1..Len(log)), s # <<>>,
           log[s[Len(s)]] = "delta"
    PROVE  MidTurn(s)
  <1>1. PICK ms \in Seq(Msg) : Messages(s) = Told(ms, s[Len(s)])
    BY MessagesUnfold
  <1>2. Told(ms, s[Len(s)]) = DeltaMessage(ms, s[Len(s)])
    BY DEF Told
  <1>3. s[Len(s)] \in Nat
    OBVIOUS
  <1> QED
    BY <1>1, <1>2, <1>3, DeltaStaysOpen DEF MidTurn
-----------------------------------------------------------------------------
(* The stop button.                                                        *)

\* The turn of row n is over: its terminal row follows.
Over(n) == \E m \in n + 1..Len(log) : log[m] = "idle"

\* What a turn writes is followed by its end, or a turn runs.
Ended == \A n \in 1..Len(log) : log[n] \in {"user", "delta"} => Turning \/ Over(n)

\* Cursor, replays and frames are about rows of the log.
OnlyRows ==
    /\ panel.lastEventI <= Len(log)
    /\ \A c \in Conn : /\ handler[c].last <= Len(log)
                       /\ \A k \in 1..Len(wire[c]) : wire[c][k] <= Len(log)

\* The panel has seen what it speaks of; only a connection tags, and it has
\* its handler.
Seen ==
    /\ panel.lastEventI # 0 => panel.shown # <<>>
    /\ panel.terminalSeen = "no" => panel.lastEventI # 0
    /\ client.replaying => client.conn # 0
    /\ client.conn # 0 => handler[client.conn].phase # "none"

\* A panel that reads Stop, or will at a marker, has the end still before it.
EndComes == panel.isStreaming \/ panel.terminalSeen = "no" => Turning \/ Over(panel.lastEventI)

\* An open reply was folded from a replay, and the button does not show it yet.
Mute ==
    /\ ~panel.isStreaming /\ panel.terminalSeen = "no"
    /\ log[panel.lastEventI] = "delta"

\* Connection c has the marker on its way, or before it, or is not served.
MarkerComes(c) ==
    \/ handler[c].phase # "live"
    \/ feed # c
    \/ \E k \in 1..Len(wire[c]) : wire[c][k] = Done

\* ... and then a marker is to come that makes it.
ArmComes == client.conn # 0 /\ (client.replaying \/ Mute) => MarkerComes(client.conn)

Button ==
    /\ Ended /\ OnlyRows /\ Seen
    /\ Calm => EndComes /\ ArmComes


\* A step of the engine that appends a row: a turn does while it runs and at
\* its end, or a job.
Appends(kind) ==
    /\ log' = Append(log, kind) /\ kind \in Kind
    /\ Turning' \/ kind = "idle" \/ (kind = "job" /\ (Turning' <=> Turning))
    /\ feed' = feed /\ handler' = handler /\ wire' = wire /\ client' = client
    /\ panel' = panel /\ (Calm' <=> Calm)

LEMMA AppendRowAppends ==
    ASSUME WireAssumption, TypeOK, Bound, NEW e \in Emitter, NEW kind \in Kind,
           NEW state \in {"runs", "ends"}, AppendRow(e, kind, state),
           emitter[e].state = "runs" \/ (emitter[e].state = "asked" /\ e # "auto"),
           e \in Turn => (state = "runs" \/ kind = "idle"),
           e = "side" => kind = "job"
    PROVE  Appends(kind)
  <1>1. /\ log' = Append(log, kind) /\ emitter'[e].state = state
        /\ \A o \in Emitter : o # e => emitter'[o] = emitter[o]
        /\ UNCHANGED <<current, owner, handler, wire, client, panel, raced, orphaned>>
    BY AppendRowFacts
  <1>2. feed' = feed
    BY RowsKeepBound
  <1>3. Calm' <=> Calm
    BY <1>1 DEF Calm
  <1>4. Turning' \/ kind = "idle" \/ (kind = "job" /\ (Turning' <=> Turning))
    <2>1. CASE e \in Turn
      BY <1>1, <2>1 DEF Turning
    <2>2. CASE e = "side"
      <3>1. \A o \in Turn : o \in Emitter /\ o # e
        BY <2>2 DEF Turn, Emitter
      <3>2. Turning' <=> Turning
        BY <1>1, <3>1 DEF Turning
      <3> QED
        BY <2>2, <3>2
    <2> QED
      BY <2>1, <2>2 DEF Emitter
  <1> QED
    BY <1>1, <1>2, <1>3, <1>4, Zenon DEF Appends

\* What a row appended leaves of the claims about the log.
LEMMA Appending ==
    ASSUME WireAssumption, TypeOK, NEW kind, Appends(kind)
    PROVE  /\ Len(log') = Len(log) + 1 /\ Len(log) \in Nat /\ log'[Len(log) + 1] = kind
           /\ \A n \in 1..Len(log) : log'[n] = log[n]
           /\ \A n \in Nat : Over(n) => Over(n)'
           /\ kind = "idle" => \A n \in 0..Len(log) : Over(n)'
  <1>1. kind \in Kind /\ log \in Seq(Kind) /\ Len(log) \in Nat
    BY Types DEF Appends
  <1>2. /\ Len(log') = Len(log) + 1 /\ log'[Len(log) + 1] = kind
        /\ \A n \in 1..Len(log) : log'[n] = log[n]
    BY <1>1, AppendFacts DEF Appends
  <1>3. \A n \in Nat : Over(n) => Over(n)'
    BY <1>1, <1>2 DEF Over
  <1>4. kind = "idle" => \A n \in 0..Len(log) : Over(n)'
    BY <1>1, <1>2 DEF Over
  <1> QED
    BY <1>1, <1>2, <1>3, <1>4

LEMMA AppendsKeepButton ==
    ASSUME WireAssumption, TypeOK, Button, NEW kind, Appends(kind)
    PROVE  Button'
  <1>1. /\ Len(log') = Len(log) + 1 /\ Len(log) \in Nat /\ log'[Len(log) + 1] = kind
        /\ \A n \in 1..Len(log) : log'[n] = log[n]
        /\ \A n \in Nat : Over(n) => Over(n)'
        /\ kind = "idle" => \A n \in 0..Len(log) : Over(n)'
    BY Appending
  <1>2. /\ feed' = feed /\ handler' = handler /\ wire' = wire /\ client' = client
        /\ panel' = panel /\ (Calm' <=> Calm)
        /\ Turning' \/ kind = "idle" \/ (kind = "job" /\ (Turning' <=> Turning))
    BY DEF Appends
  <1>3. panel \in PanelType /\ panel.lastEventI \in Nat /\ panel.lastEventI <= Len(log)
    BY Types DEF Button, OnlyRows, PanelType
  <1>4. ASSUME NEW n \in 0..Len(log), Turning \/ Over(n) PROVE Turning' \/ Over(n)'
    BY <1>1, <1>2, <1>4
  <1>5. Ended'
    <2> SUFFICES ASSUME NEW n \in 1..Len(log'), log'[n] \in {"user", "delta"}
                 PROVE  Turning' \/ Over(n)'
      BY DEF Ended
    <2>1. CASE n \in 1..Len(log)
      <3>1. Turning \/ Over(n)
        BY <1>1, <2>1 DEF Button, Ended
      <3> QED
        BY <1>1, <1>4, <2>1, <3>1
    <2>2. CASE n = Len(log) + 1
      BY <1>1, <1>2, <2>2
    <2> QED
      BY <1>1, <2>1, <2>2
  <1>6. OnlyRows'
    <2>1. ASSUME NEW c \in Conn
          PROVE  handler[c].last <= Len(log') /\ \A k \in 1..Len(wire[c]) : wire[c][k] <= Len(log')
      <3>1. handler[c].last \in Nat /\ wire[c] \in Seq(0..MaxLog)
        BY Types DEF HandlerType
      <3>2. \A k \in 1..Len(wire[c]) : wire[c][k] \in Nat
        BY <3>1, ElementOfSeq
      <3> QED
        BY <1>1, <3>1, <3>2 DEF Button, OnlyRows
    <2> QED
      BY <1>1, <1>2, <1>3, <2>1 DEF OnlyRows
  <1>7. Seen'
    BY <1>2 DEF Button, Seen
  <1>8. ASSUME Calm' PROVE EndComes' /\ ArmComes'
    <2>1. EndComes /\ ArmComes
      BY <1>2, <1>8 DEF Button
    <2>2. EndComes'
      <3> SUFFICES ASSUME panel.isStreaming \/ panel.terminalSeen = "no", ~Turning'
                   PROVE  Over(panel.lastEventI)'
        BY <1>2 DEF EndComes
      <3> PICK n \in 0..Len(log) : n = panel.lastEventI
        BY <1>1, <1>3
      <3>1. Turning \/ Over(n)
        BY <2>1 DEF EndComes
      <3>2. Over(n)'
        BY <1>4, <3>1
      <3> QED
        BY <1>2, <3>2 DEF Over
    <2>3. Mute' => Mute
      <3> SUFFICES ASSUME Mute' PROVE Mute
        OBVIOUS
      <3>1. panel.lastEventI \in 1..Len(log)
        BY <1>2, <1>3 DEF Mute, Button, Seen
      <3> QED
        BY <1>1, <1>2, <3>1 DEF Mute
    <2>4. \A c : MarkerComes(c) => MarkerComes(c)'
      BY <1>2 DEF MarkerComes
    <2> QED
      BY <1>2, <2>1, <2>2, <2>3, <2>4 DEF ArmComes
  <1> QED
    BY <1>5, <1>6, <1>7, <1>8 DEF Button

\* A goroutine begins to emit: log, feed and handlers stay, and only a send
\* arms the button, with its turn asked for.
LEMMA BeginsKeepButton ==
    ASSUME WireAssumption, TypeOK, Bound, Button, Begins
    PROVE  Button'
  <1>1. feed' = feed
    BY BeginsKeepBound
  <1> PICK e \in Emitter : BeginStep(e)
    BY BeginsFacts DEF Bound
  <1>2. /\ log' = log /\ handler' = handler /\ wire' = wire /\ client' = client
        /\ (Calm' <=> Calm)
    BY DEF BeginStep, Calm
  <1>3. Turning => Turning'
    <2> SUFFICES ASSUME NEW o \in Turn, emitter[o].state \in {"asked", "runs"} PROVE Turning'
      BY DEF Turning
    <2>1. o \in Emitter
      BY DEF Emitter
    <2>2. emitter'[o].state \in {"asked", "runs"}
      BY <2>1 DEF BeginStep
    <2> QED
      BY <2>2 DEF Turning
  <1>4. SendHere => Turning'
    <2>1. SendHere => emitter'["turn"].state = "asked"
      BY BeginFacts DEF Bound
    <2> QED
      BY <2>1 DEF Turning, Turn
  <1>5. panel' = panel \/ (panel' = [panel EXCEPT !.isStreaming = TRUE] /\ Turning')
    BY <1>4, BeginsFacts DEF Bound
  <1>6. /\ panel'.shown = panel.shown /\ panel'.lastEventI = panel.lastEventI
        /\ panel'.terminalSeen = panel.terminalSeen
        /\ panel.isStreaming => panel'.isStreaming
        /\ panel'.isStreaming => panel.isStreaming \/ Turning'
    BY <1>5, Types DEF PanelType
  <1>7. Ended' /\ OnlyRows' /\ Seen'
    BY <1>2, <1>3, <1>6 DEF Button, Ended, Over, OnlyRows, Seen
  <1>8. Calm' => EndComes'
    BY <1>2, <1>3, <1>6 DEF Button, EndComes, Over
  <1>9. Calm' => ArmComes'
    BY <1>1, <1>2, <1>6 DEF Button, ArmComes, Mute, MarkerComes
  <1> QED
    BY <1>7, <1>8, <1>9 DEF Button

\* A step of the feed and the handlers: no row is added or folded.
Engines ==
    /\ log' = log /\ (Turning' <=> Turning) /\ client' = client /\ panel' = panel
    /\ Calm' => Calm
    /\ \A c \in Conn : handler'[c].phase = "none" => handler[c].phase = "none"

LEMMA EnginesKeepButton ==
    ASSUME TypeOK, Button, Engines, OnlyRows',
           Calm' /\ client.conn # 0 /\ MarkerComes(client.conn) => MarkerComes(client.conn)'
    PROVE  Button'
  <1>1. client.conn # 0 => client.conn \in Conn
    BY Types DEF ClientType, Conn
  <1>2. Ended' /\ Seen'
    BY <1>1 DEF Button, Engines, Ended, Over, Seen
  <1>3. Calm' => EndComes'
    BY DEF Button, Engines, EndComes, Over
  <1>4. Calm' => ArmComes'
    BY DEF Button, Engines, ArmComes, Mute, MarkerComes
  <1> QED
    BY <1>2, <1>3, <1>4 DEF Button

\* A handler's step that writes nothing, and leaves no more to replay.
LEMMA HandlersKeepButton ==
    ASSUME WireAssumption, TypeOK, Button, NEW c \in Conn, HandlerStep(c), wire' = wire,
           handler'[c].phase # "none", handler'[c].last <= Len(log),
           Calm' => Calm,
           Calm' /\ client.conn = c => handler'[c].phase # "live",
           Calm' /\ client.conn \notin {0, c} => (feed' = feed \/ feed' # client.conn)
    PROVE  Button'
  <1>1. \A d \in Conn : d # c => handler'[d] = handler[d]
    BY DEF HandlerStep
  <1>2. Engines
    <2>1. log' = log /\ emitter' = emitter /\ client' = client /\ panel' = panel
      BY DEF HandlerStep
    <2>2. Turning' <=> Turning
      BY <2>1 DEF Turning
    <2> QED
      BY <1>1, <2>1, <2>2 DEF Engines
  <1>3. OnlyRows'
    BY <1>1, <1>2 DEF Button, OnlyRows, Engines
  <1>4. ASSUME Calm', client.conn # 0, MarkerComes(client.conn)
        PROVE  MarkerComes(client.conn)'
    <2>1. client.conn \in Conn /\ client' = client
      BY <1>2, <1>4, Types DEF ClientType, Conn, Engines
    <2>2. CASE client.conn = c
      BY <1>4, <2>1, <2>2 DEF MarkerComes
    <2>3. CASE client.conn # c
      BY <1>1, <1>4, <2>1, <2>3 DEF MarkerComes
    <2> QED
      BY <2>2, <2>3
  <1> QED
    BY <1>2, <1>3, <1>4, EnginesKeepButton

LEMMA BindPipeKeepsButton ==
    ASSUME WireAssumption, TypeOK, Bound, Button, NEW c \in Conn, BindPipe(c)
    PROVE  Button'
  <1>1. /\ HandlerStep(c) /\ wire' = wire /\ handler'[c].phase = "bound"
        /\ handler'[c].last = handler[c].last /\ raced' = raced /\ orphaned' = orphaned
    BY BindPipeFacts DEF Bound
  <1>2. feed' = feed
    BY BindPipeKeepsBound
  <1>3. handler[c].last <= Len(log)
    BY DEF Button, OnlyRows
  <1> QED
    BY <1>1, <1>2, <1>3, HandlersKeepButton DEF Calm

LEMMA SwapKeepsButton ==
    ASSUME WireAssumption, TypeOK, Bound, Button, NEW c \in Conn, Swap(c)
    PROVE  Button'
  <1>1. /\ HandlerStep(c) /\ wire' = wire /\ handler'[c].phase = "owner"
        /\ handler'[c].last = handler[c].last /\ raced' = raced /\ orphaned' = orphaned
    BY SwapFacts DEF Bound
  <1>2. Calm' => feed' = c
    BY <1>1, SwapKeepsBound DEF Calm
  <1>3. handler[c].last <= Len(log)
    BY DEF Button, OnlyRows
  <1> QED
    BY <1>1, <1>2, <1>3, HandlersKeepButton DEF Calm

LEMMA ListRowsKeepsButton ==
    ASSUME WireAssumption, TypeOK, Bound, Button, NEW c \in Conn, ListRows(c)
    PROVE  Button'
  <1>1. /\ HandlerStep(c) /\ wire' = wire /\ handler'[c].phase = "replaying"
        /\ handler'[c].last = Len(log) /\ raced' = raced /\ orphaned' = orphaned
    BY ListRowsFacts DEF Bound
  <1>2. feed' = feed
    BY ListRowsKeepsBound
  <1>3. Len(log) \in Nat
    BY Types
  <1> QED
    BY <1>1, <1>2, <1>3, HandlersKeepButton DEF Calm

LEMMA HandlerGoneKeepsButton ==
    ASSUME WireAssumption, TypeOK, Bound, Button, NEW c \in Conn, HandlerGone(c)
    PROVE  Button'
  <1>1. /\ HandlerStep(c) /\ wire' = wire /\ handler'[c].phase \in Reaping \cup {"gone"}
        /\ handler'[c].last = 0 /\ raced' = raced /\ orphaned' = orphaned
    BY HandlerGoneFacts DEF Bound
  <1>2. Calm' /\ client.conn \notin {0, c} => (feed' = feed \/ feed' # client.conn)
    <2>1. ~orphaned => feed' = IF feed = c THEN 0 ELSE feed
      BY HandlerGoneKeepsBound
    <2> SUFFICES ASSUME Calm', client.conn \notin {0, c}
                 PROVE  feed' = feed \/ feed' # client.conn
      OBVIOUS
    <2> QED
      BY <1>1, <2>1 DEF Calm
  <1>3. Len(log) \in Nat
    BY Types
  <1> QED
    BY <1>1, <1>2, <1>3, Phases, HandlersKeepButton DEF Calm, Reaping

LEMMA ReapKeepsButton ==
    ASSUME WireAssumption, TypeOK, Bound, Button, NEW c \in Conn,
           ReapLooks(c) \/ ReapSees(c) \/ ReapDeletes(c)
    PROVE  Button'
  <1>1. /\ HandlerStep(c) /\ wire' = wire /\ handler'[c].phase \in Reaping \cup {"gone"}
        /\ handler'[c].last \in {0, handler[c].last} /\ raced' = raced
    BY ReapFacts DEF Bound
  <1>2. (feed' = feed \/ feed' = 0) /\ (~orphaned' => ~orphaned)
    BY ReapKeepsBound
  <1>3. handler[c].last <= Len(log) /\ Len(log) \in Nat
    BY Types DEF Button, OnlyRows
  <1>4. handler'[c].last <= Len(log)
    BY <1>1, <1>3
  <1> QED
    BY <1>1, <1>2, <1>4, Phases, HandlersKeepButton DEF Calm, Reaping

\* A frame that is written keeps OnlyRows and every marker.
LEMMA WritingFacts ==
    ASSUME WireAssumption, TypeOK, Bound, Button, NEW p \in Pipe, NEW n \in 0..MaxLog,
           Written(p, n), n <= Len(log), log' = log
    PROVE  /\ \A c \in Conn : \A k \in 1..Len(wire'[c]) : wire'[c][k] <= Len(log')
           /\ \A c \in Conn : (\E k \in 1..Len(wire[c]) : wire[c][k] = Done)
                              => \E k \in 1..Len(wire'[c]) : wire'[c][k] = Done
  <1>1. \A c \in Conn : \A k \in 1..Len(wire[c]) : wire[c][k] <= Len(log)
    BY DEF Button, OnlyRows
  <1>2. CASE wire' = wire
    BY <1>1, <1>2
  <1>3. CASE client.conn \in Conn /\ wire' = [wire EXCEPT ![client.conn] = Append(wire[client.conn], n)]
    <2> SUFFICES ASSUME NEW c \in Conn
                 PROVE  /\ \A k \in 1..Len(wire'[c]) : wire'[c][k] <= Len(log')
                        /\ (\E k \in 1..Len(wire[c]) : wire[c][k] = Done)
                              => \E k \in 1..Len(wire'[c]) : wire'[c][k] = Done
      OBVIOUS
    <2>1. CASE c # client.conn
      BY <1>1, <1>3, <2>1, Types
    <2>2. CASE c = client.conn
      <3> PICK w \in Seq(0..MaxLog) : w = wire[c]
        BY Types
      <3> PICK v : v = Append(w, n)
        OBVIOUS
      <3>1. /\ Len(v) = Len(w) + 1 /\ v[Len(w) + 1] = n /\ Len(w) \in Nat
            /\ \A k \in 1..Len(w) : v[k] = w[k]
        BY AppendFacts, LenProperties
      <3>2. wire'[c] = v
        BY <1>3, <2>2, Types
      <3>3. \A k \in 1..Len(w) : w[k] <= Len(log)
        BY <1>1
      <3>4. \A k \in 1..Len(v) : k \in 1..Len(w) \/ k = Len(w) + 1
        BY <3>1
      <3>5. \A k \in 1..Len(v) : v[k] <= Len(log)
        BY <3>1, <3>3, <3>4
      <3>6. (\E k \in 1..Len(w) : w[k] = Done) => \E k \in 1..Len(v) : v[k] = Done
        BY <3>1
      <3> QED
        BY <3>2, <3>5, <3>6
    <2> QED
      BY <2>1, <2>2
  <1> QED
    BY <1>2, <1>3, WrittenFacts

LEMMA EmitSendKeepsButton ==
    ASSUME WireAssumption, TypeOK, Bound, Delivery, Button, NEW e \in Emitter, EmitSend(e)
    PROVE  Button'
  <1>1. /\ UNCHANGED <<log, current, owner, handler, client, panel, orphaned>>
        /\ Calm' => Calm
    BY DEF EmitSend, Calm
  <1>2. feed' = feed /\ emitter[e].pipe \in Pipe /\ Written(emitter[e].pipe, unsent[e])
    BY EmitSendKeepsBound
  <1>3. Turning' <=> Turning
    <2>1. \A o \in Turn : o \in Emitter
      BY DEF Emitter
    <2>2. /\ emitter'[e].state = IF emitter[e].state = "ends" THEN "no" ELSE emitter[e].state
          /\ \A o \in Emitter : o # e => emitter'[o] = emitter[o]
      BY EmitSendFacts DEF Bound
    <2>3. \A o \in Turn : emitter'[o].state \in {"asked", "runs"}
                          <=> emitter[o].state \in {"asked", "runs"}
      BY <2>1, <2>2
    <2> QED
      BY <2>3 DEF Turning
  <1>4. Engines
    BY <1>1, <1>3 DEF Engines
  <1> PICK n \in 0..MaxLog : n = unsent[e]
    BY UnsentType
  <1>5. n <= Len(log)
    BY DEF Delivery, Held
  <1>6. /\ \A c \in Conn : \A k \in 1..Len(wire'[c]) : wire'[c][k] <= Len(log')
        /\ \A c \in Conn : (\E k \in 1..Len(wire[c]) : wire[c][k] = Done)
                           => \E k \in 1..Len(wire'[c]) : wire'[c][k] = Done
    BY <1>1, <1>2, <1>5, WritingFacts
  <1>7. OnlyRows'
    BY <1>1, <1>6 DEF Button, OnlyRows
  <1>8. client.conn # 0 => client.conn \in Conn
    BY Types DEF ClientType, Conn
  <1> QED
    BY <1>1, <1>2, <1>4, <1>6, <1>7, <1>8, EnginesKeepButton DEF MarkerComes

\* The last step of a replay puts the marker on its own socket, while it owns
\* the feed.
LEMMA ReplayKeepsButton ==
    ASSUME WireAssumption, TypeOK, Bound, Button, NEW c \in Conn, Replay(c)
    PROVE  Button'
  <1> DEFINE h == handler[c]
             more == h.next <= h.last
  <1>1. h \in HandlerType /\ h.next \in Nat /\ h.last \in 0..MaxLog /\ Len(log) \in Nat
    BY Types DEF HandlerType
  <1>2. /\ HandlerStep(c) /\ h.phase = "replaying" /\ h.pipe \in Pipe /\ owner[h.pipe] # 0
        /\ raced' = (raced \/ owner[h.pipe] # c) /\ orphaned' = orphaned
        /\ \/ /\ more /\ h.next \in 0..MaxLog /\ Written(h.pipe, h.next)
              /\ handler'[c].phase = "replaying" /\ handler'[c].last = h.last
           \/ /\ ~more /\ Written(h.pipe, 0)
              /\ handler'[c].phase = "live" /\ handler'[c].last = 0
    BY ReplayFacts DEF Bound
  <1>3. /\ log' = log /\ emitter' = emitter /\ client' = client /\ panel' = panel
        /\ \A d \in Conn : d # c => handler'[d] = handler[d]
    BY <1>2 DEF HandlerStep
  <1>4. feed' = feed /\ (Calm' => Calm /\ owner[h.pipe] = c)
    BY <1>2, ReplayKeepsBound DEF Calm
  <1>5. Engines
    <2>1. Turning' <=> Turning
      BY <1>3 DEF Turning
    <2>2. handler'[c].phase # "none"
      BY <1>2
    <2> QED
      BY <1>3, <1>4, <2>1, <2>2 DEF Engines
  <1> HIDE DEF more
  <1> PICK n \in 0..MaxLog : n = IF more THEN h.next ELSE 0
    BY <1>2, WireAssumption DEF WireAssumption
  <1>6. Written(h.pipe, n) /\ n <= Len(log)
    <2>1. h.last <= Len(log)
      BY DEF Button, OnlyRows
    <2>2. Written(h.pipe, n)
      BY <1>2
    <2>3. n <= Len(log)
      BY <1>1, <2>1 DEF more
    <2> QED
      BY <2>2, <2>3
  <1>7. /\ \A d \in Conn : \A k \in 1..Len(wire'[d]) : wire'[d][k] <= Len(log')
        /\ \A d \in Conn : (\E k \in 1..Len(wire[d]) : wire[d][k] = Done)
                           => \E k \in 1..Len(wire'[d]) : wire'[d][k] = Done
    BY <1>2, <1>3, <1>6, WritingFacts
  <1>8. OnlyRows'
    <2>1. \A d \in Conn : handler'[d].last <= Len(log)
      BY <1>1, <1>2, <1>3 DEF Button, OnlyRows
    <2> QED
      BY <1>3, <1>7, <2>1 DEF Button, OnlyRows
  <1>9. ASSUME Calm', client.conn # 0, MarkerComes(client.conn)
        PROVE  MarkerComes(client.conn)'
    <2>1. client.conn \in Conn
      BY <1>9, Types DEF ClientType, Conn
    <2>2. CASE client.conn # c
      BY <1>3, <1>4, <1>7, <1>9, <2>1, <2>2 DEF MarkerComes
    <2>3. CASE client.conn = c /\ more
      BY <1>2, <1>3, <2>3 DEF MarkerComes
    <2>4. CASE client.conn = c /\ ~more
      <3>1. n = Done /\ owner[h.pipe] = client.conn
        BY <1>4, <1>9, <2>4 DEF Done
      <3>2. wire' = [wire EXCEPT ![client.conn] = Append(wire[client.conn], n)]
        BY <1>2, <1>6, <3>1, WrittenFacts
      <3> PICK w \in Seq(0..MaxLog) : w = wire[c]
        BY Types
      <3>3. wire'[c] = Append(w, n)
        BY <2>4, <3>2, Types
      <3>4. Len(Append(w, n)) = Len(w) + 1 /\ Append(w, n)[Len(w) + 1] = n /\ Len(w) \in Nat
        BY AppendFacts, LenProperties
      <3>5. Len(w) + 1 \in 1..Len(wire'[c]) /\ wire'[c][Len(w) + 1] = Done
        BY <3>1, <3>3, <3>4
      <3> QED
        BY <1>3, <2>4, <3>5 DEF MarkerComes
    <2> QED
      BY <2>2, <2>3, <2>4
  <1> QED
    BY <1>5, <1>8, <1>9, EnginesKeepButton

\* What the client takes from the head of its socket leaves the rest.
LEMMA TakingFacts ==
    ASSUME WireAssumption, TypeOK, Button, client.conn \in Conn, wire[client.conn] # <<>>,
           wire' = [wire EXCEPT ![client.conn] = Tail(wire[client.conn])]
    PROVE  /\ \A c \in Conn : \A k \in 1..Len(wire'[c]) : wire'[c][k] <= Len(log)
           /\ Head(wire[client.conn]) <= Len(log)
           /\ /\ Head(wire[client.conn]) # Done
              /\ \E k \in 1..Len(wire[client.conn]) : wire[client.conn][k] = Done
              => \E k \in 1..Len(wire'[client.conn]) : wire'[client.conn][k] = Done
  <1>1. \A c \in Conn : \A k \in 1..Len(wire[c]) : wire[c][k] <= Len(log)
    BY DEF Button, OnlyRows
  <1> PICK w \in Seq(0..MaxLog) : w = wire[client.conn]
    BY Types
  <1> PICK v : v = Tail(w)
    OBVIOUS
  <1>2. /\ Head(w) = w[1] /\ Len(w) \in Nat \ {0} /\ Len(v) = Len(w) - 1
        /\ \A k \in 1..Len(v) : v[k] = w[k + 1]
    BY TailFacts
  <1>3. wire'[client.conn] = v /\ \A c \in Conn : c # client.conn => wire'[c] = wire[c]
    BY Types
  <1>4. \A k \in 1..Len(w) : w[k] <= Len(log)
    BY <1>1
  <1>5. \A k \in 1..Len(v) : v[k] <= Len(log)
    BY <1>2, <1>4
  <1>6. ASSUME NEW k \in 1..Len(w), w[k] = Done, w[1] # Done
        PROVE  \E m \in 1..Len(v) : v[m] = Done
    <2>1. k - 1 \in 1..Len(v) /\ v[k - 1] = w[k]
      BY <1>2, <1>6
    <2> QED
      BY <1>6, <2>1
  <1>7. \A c \in Conn : \A k \in 1..Len(wire'[c]) : wire'[c][k] <= Len(log)
    BY <1>1, <1>3, <1>5
  <1>8. Head(w) <= Len(log)
    BY <1>2, <1>4
  <1>9. /\ w[1] # Done /\ \E k \in 1..Len(w) : w[k] = Done
        => \E k \in 1..Len(v) : v[k] = Done
    BY <1>6
  <1> QED
    BY <1>2, <1>3, <1>7, <1>8, <1>9

LEMMA ReceiveKeepsButton ==
    ASSUME WireAssumption, TypeOK, Delivery, Button, NEW quiet \in BOOLEAN, Receive(quiet)
    PROVE  Button'
  <1>1. /\ client.conn \in Conn /\ client.conn # 0 /\ wire[client.conn] # <<>>
        /\ Head(wire[client.conn]) \in Row /\ Tagged(quiet) \in BOOLEAN
    BY ArrivingRow DEF Receive
  <1> PICK n \in Row : n = Head(wire[client.conn])
    BY <1>1
  <1> PICK tagged \in BOOLEAN : tagged = Tagged(quiet)
    BY <1>1
  <1>2. /\ (Calm' <=> Calm) /\ log' = log /\ (Turning' <=> Turning) /\ feed' = feed /\ handler' = handler
        /\ wire' = [wire EXCEPT ![client.conn] = Tail(wire[client.conn])]
        /\ client'.conn = client.conn /\ client'.used = client.used
        /\ client'.replaying = tagged /\ panel' = Folded(panel, n, tagged)
    BY Types DEF Receive, engine, ClientType, Calm, Turning, feed
  <1>3. /\ \A c \in Conn : \A k \in 1..Len(wire'[c]) : wire'[c][k] <= Len(log)
        /\ n <= Len(log) /\ n \in 1..Len(log) /\ Len(log) \in Nat
        /\ (\E k \in 1..Len(wire[client.conn]) : wire[client.conn][k] = Done)
              => \E k \in 1..Len(wire'[client.conn]) : wire'[client.conn][k] = Done
    BY <1>1, <1>2, TakingFacts, Types DEF Row, Done
  <1>4. /\ panel \in PanelType /\ panel.lastEventI \in Nat
        /\ tagged => client.replaying
    <2>1. panel \in PanelType /\ panel.lastEventI \in Nat
      BY Types DEF PanelType
    <2>2. tagged => client.replaying
      BY Zenon DEF Tagged
    <2> QED
      BY <2>1, <2>2
  <1>5. Ended'
    BY <1>2 DEF Button, Ended, Over
  <1>6. MarkerComes(client.conn) => MarkerComes(client.conn)'
    BY <1>2, <1>3 DEF MarkerComes
  <1>7. CASE ~IsNew(panel, n)
    <2>1. panel' = panel
      BY <1>2, <1>7 DEF Folded
    <2>2. OnlyRows' /\ Seen'
      BY <1>1, <1>2, <1>3, <2>1 DEF Button, OnlyRows, Seen
    <2>3. ASSUME Calm' PROVE EndComes' /\ ArmComes'
      <3>1. EndComes /\ ArmComes
        BY <1>2, <2>3 DEF Button
      <3>2. EndComes'
        BY <1>2, <2>1, <3>1 DEF EndComes, Over
      <3>3. Mute' => Mute
        BY <1>2, <2>1, Zenon DEF Mute
      <3>4. client'.replaying => client.replaying
        BY <1>2, <1>4
      <3>5. ArmComes'
        BY <1>1, <1>2, <1>6, <3>1, <3>3, <3>4, Zenon DEF ArmComes
      <3> QED
        BY <3>2, <3>5
    <2> QED
      BY <1>5, <2>2, <2>3 DEF Button
  <1>8. CASE IsNew(panel, n)
    <2>1. /\ panel'.shown = Append(panel.shown, n) /\ panel'.lastEventI = n
          /\ n > panel.lastEventI
      BY <1>2, <1>8 DEF Folded, IsNew
    <2>2. /\ log[n] = "idle" => panel'.isStreaming = FALSE /\ panel'.terminalSeen = "yes"
          /\ log[n] = "user" => panel'.terminalSeen = "no"
          /\ log[n] = "delta" /\ ~tagged => panel'.isStreaming = TRUE
          /\ log[n] \notin {"idle", "user"} => panel'.terminalSeen = panel.terminalSeen
          /\ log[n] \notin {"idle", "delta"} => panel'.isStreaming = panel.isStreaming
      BY <1>2, <1>8 DEF Folded
    <2>3. OnlyRows' /\ Seen'
      <3>1. panel'.shown # <<>>
        <4>1. panel.shown \in Seq(Row) /\ Len(panel.shown) \in Nat
          BY <1>4, LenProperties DEF PanelType
        <4>2. Len(panel'.shown) = Len(panel.shown) + 1
          BY <2>1, <4>1, AppendFacts
        <4> QED
          BY <4>1, <4>2
      <3> QED
        BY <1>1, <1>2, <1>3, <2>1, <3>1 DEF Button, OnlyRows, Seen, Row
    <2>4. ASSUME Calm' PROVE EndComes'
      <3> SUFFICES ASSUME panel'.isStreaming \/ panel'.terminalSeen = "no", ~Turning
                   PROVE  Over(n)
        BY <1>2, <2>1 DEF EndComes, Over
      <3>1. log[n] # "idle"
        BY <2>2
      <3>2. CASE log[n] \in {"user", "delta"}
        BY <1>3, <3>2 DEF Button, Ended
      <3>3. CASE log[n] \notin {"user", "delta"}
        <4>1. Over(panel.lastEventI)
          BY <1>2, <2>2, <2>4, <3>1, <3>3 DEF Button, EndComes
        <4> PICK m \in panel.lastEventI + 1..Len(log) : log[m] = "idle"
          BY <4>1 DEF Over
        <4>2. n = panel.lastEventI + 1
          <5>1. Stepwise
            BY <1>1, <1>2, <2>4 DEF Delivery
          <5>2. n \in 0..MaxLog
            BY DEF Row, WireAssumption
          <5>3. panel'.lastEventI = IF n > panel.lastEventI THEN n ELSE panel.lastEventI
            BY <2>1
          <5> QED
            BY <1>1, <1>2, <2>1, <5>1, <5>2, <5>3, Taken
        <4> QED
          BY <1>3, <1>4, <3>1, <4>2 DEF Over
      <3> QED
        BY <3>2, <3>3
    <2>5. ASSUME Calm' PROVE ArmComes'
      <3>1. ArmComes
        BY <1>2, <2>5 DEF Button
      <3>2. Mute' => tagged
        BY <1>2, <2>1, <2>2 DEF Mute
      <3>3. client'.replaying \/ Mute' => client.replaying
        BY <1>2, <1>4, <3>2
      <3> QED
        BY <1>1, <1>2, <1>6, <3>1, <3>3, Zenon DEF ArmComes
    <2> QED
      BY <1>5, <2>3, <2>4, <2>5 DEF Button
  <1> QED
    BY <1>7, <1>8

\* The rows shown are rows of the log, the newest one last.
LEMMA ShownFacts ==
    ASSUME WireAssumption, TypeOK, Ascending(panel), Whole, OnlyRows, panel.shown # <<>>
    PROVE  /\ panel.shown \in Seq(1..Len(log))
           /\ panel.shown[Len(panel.shown)] = panel.lastEventI
  <1>1. /\ panel.shown \in Seq(Row) /\ Len(panel.shown) \in Nat \ {0}
        /\ panel.lastEventI \in Nat /\ Len(log) \in Nat
    BY Types DEF PanelType
  <1>2. ASSUME NEW j \in 1..Len(panel.shown) PROVE panel.shown[j] \in 1..Len(log)
    <2>1. panel.shown[j] \in Nat \ {0}
      <3>1. panel.shown[j] \in Row
        BY <1>1, ElementOfSeq
      <3> QED
        BY <3>1 DEF Row
    <2>2. panel.shown[j] <= panel.lastEventI
      BY DEF Ascending
    <2> QED
      BY <1>1, <2>1, <2>2 DEF OnlyRows
  <1>3. panel.shown[Len(panel.shown)] = panel.lastEventI
    BY <1>1 DEF Whole
  <1>4. panel.shown \in [1..Len(panel.shown) -> 1..Len(log)]
    BY <1>1, <1>2
  <1> QED
    BY <1>1, <1>3, <1>4

\* The truth arm: after the marker an open reply reads Stop.
LEMMA ReceiveDoneKeepsButton ==
    ASSUME WireAssumption, TypeOK, Delivery, Ascending(panel), Button, ReceiveDone
    PROVE  Button'
  <1>1. client.conn \in Conn /\ client.conn # 0 /\ wire[client.conn] # <<>>
    BY Types DEF ReceiveDone, ClientType, Conn
  <1>2. /\ (Calm' <=> Calm) /\ log' = log /\ (Turning' <=> Turning) /\ feed' = feed /\ handler' = handler
        /\ wire' = [wire EXCEPT ![client.conn] = Tail(wire[client.conn])]
        /\ client'.conn = client.conn /\ client'.used = client.used
        /\ client'.replaying = FALSE /\ panel' = AtReplayDone(panel)
    BY Types DEF ReceiveDone, engine, ClientType, Calm, Turning, feed
  <1>3. /\ panel'.shown = panel.shown /\ panel'.lastEventI = panel.lastEventI
        /\ panel'.terminalSeen = panel.terminalSeen
        /\ panel'.isStreaming <=> panel.isStreaming \/ (panel.terminalSeen = "no" /\ MidTurn(panel.shown))
    BY <1>2, Types DEF AtReplayDone, PanelType
  <1>4. Ended'
    BY <1>2 DEF Button, Ended, Over
  <1>5. OnlyRows' /\ Seen'
    BY <1>1, <1>2, <1>3, TakingFacts DEF Button, OnlyRows, Seen
  <1>6. ASSUME Calm' PROVE EndComes' /\ ~Mute'
    <2>1. EndComes'
      BY <1>2, <1>3, <1>6 DEF Button, EndComes, Over
    <2>2. ~Mute'
      <3> SUFFICES ASSUME Mute' PROVE FALSE
        OBVIOUS
      <3>1. panel.terminalSeen = "no" /\ log[panel.lastEventI] = "delta" /\ ~panel'.isStreaming
        BY <1>2, <1>3 DEF Mute
      <3>2. panel.shown # <<>>
        BY <3>1 DEF Button, Seen
      <3>3. panel.shown \in Seq(1..Len(log)) /\ panel.shown[Len(panel.shown)] = panel.lastEventI
        BY <1>2, <1>6, <3>2, ShownFacts DEF Button, Delivery
      <3>4. MidTurn(panel.shown)
        BY <3>1, <3>2, <3>3, DeltaIsMidTurn
      <3> QED
        BY <1>3, <3>1, <3>4
    <2> QED
      BY <2>1, <2>2
  <1> QED
    BY <1>2, <1>4, <1>5, <1>6 DEF Button, ArmComes

\* The page connects, loses its socket or is loaded anew.
LEMMA ConnectKeepsButton ==
    ASSUME WireAssumption, TypeOK, Bound, Button, Connect
    PROVE  Button'
  <1> PICK c : c = client.used + 1
    OBVIOUS
  <1>1. /\ c \in Conn /\ client'.conn = c /\ client'.used = c
        /\ handler'[c].phase = "upgraded" /\ handler'[c].last = handler[c].last
        /\ \A d \in Conn : d # c => handler'[d] = handler[d]
        /\ UNCHANGED <<log, emitter, current, owner, wire, panel, raced, orphaned>>
    BY ConnectFacts
  <1>2. (Calm' <=> Calm) /\ (Turning' <=> Turning) /\ c # 0
    BY <1>1 DEF Calm, Turning, Conn
  <1>3. Ended' /\ OnlyRows' /\ Seen'
    BY <1>1, <1>2 DEF Button, Ended, Over, OnlyRows, Seen
  <1>4. Calm' => EndComes' /\ ArmComes'
    BY <1>1, <1>2 DEF Button, EndComes, Over, ArmComes, MarkerComes
  <1> QED
    BY <1>3, <1>4 DEF Button

LEMMA DropKeepsButton ==
    ASSUME WireAssumption, TypeOK, Button, Drop
    PROVE  Button'
  <1>1. /\ (Calm' <=> Calm) /\ log' = log /\ (Turning' <=> Turning) /\ handler' = handler
        /\ panel' = panel /\ client'.conn = 0
        /\ client'.replaying = FALSE /\ client.conn \in Conn
        /\ wire' = [wire EXCEPT ![client.conn] = <<>>]
    BY Types DEF Drop, engine, ClientType, Conn, Calm, Turning
  <1>2. \A c \in Conn : wire'[c] = wire[c] \/ wire'[c] = <<>>
    BY <1>1, Types
  <1>3. Ended' /\ OnlyRows' /\ Seen'
    BY <1>1, <1>2 DEF Button, Ended, Over, OnlyRows, Seen
  <1>4. Calm' => EndComes' /\ ArmComes'
    BY <1>1 DEF Button, EndComes, Over, ArmComes
  <1> QED
    BY <1>3, <1>4 DEF Button

\* The bootstrap takes the newest of the turn's marks for the state of the
\* turn, and the newest row for the cursor.
LEMMA ReloadKeepsButton ==
    ASSUME WireAssumption, TypeOK, Button, Reload
    PROVE  Button'
  <1> DEFINE first == IF Len(log) > Window THEN Len(log) - Window + 1 ELSE 1
             marks == {n \in first..Len(log) : log[n] \in {"idle", "user"}}
  <1>1. /\ first \in Nat \ {0} /\ first <= Len(log) + 1 /\ Len(log) \in Nat
        /\ Len(log) # 0 => first <= Len(log)
    BY Types DEF WireAssumption
  <1>2. /\ (Calm' <=> Calm) /\ log' = log /\ (Turning' <=> Turning) /\ handler' = handler
        /\ client'.conn = 0
        /\ client'.replaying = FALSE /\ wire' = [c \in Conn |-> <<>>]
        /\ panel' = Bootstrapped(first)
    BY Types DEF Reload, engine, ClientType, Calm, Turning
  <1>3. /\ panel'.lastEventI = Len(log) /\ panel'.isStreaming = FALSE
        /\ panel'.terminalSeen = "no" => marks # {} /\ log[Max(marks)] # "idle"
    BY <1>2 DEF Bootstrapped
  <1>4. Len(panel'.shown) = Len(log) - first + 1
    BY <1>1, <1>2, BootstrappedType
  <1>5. ASSUME panel'.terminalSeen = "no" PROVE Len(log) # 0 /\ Turning
    <2>1. marks \subseteq 0..Len(log) /\ marks # {}
      BY <1>1, <1>3, <1>5
    <2> PICK x : x = Max(marks)
      OBVIOUS
    <2>2. x \in marks /\ \A n \in marks : n <= x
      <3> HIDE DEF marks
      <3> QED
        BY <1>1, <2>1, Greatest
    <2>3. x \in 1..Len(log) /\ first <= x /\ log[x] = "user"
      BY <1>1, <1>3, <1>5, <2>2
    <2>4. ~Over(x)
      <3> SUFFICES ASSUME NEW m \in x + 1..Len(log), log[m] = "idle" PROVE FALSE
        BY DEF Over
      <3>1. m \in marks /\ m > x
        BY <1>1, <2>3
      <3> QED
        BY <2>2, <2>3, <3>1
    <2> QED
      BY <1>1, <2>3, <2>4 DEF Button, Ended
  <1> HIDE DEF first, marks
  <1>6. Ended'
    BY <1>2 DEF Button, Ended, Over
  <1>7. OnlyRows'
    BY <1>1, <1>2, <1>3 DEF Button, OnlyRows
  <1>8. Seen'
    <2>1. Len(log) # 0 => panel'.shown # <<>>
      BY <1>1, <1>4
    <2> QED
      BY <1>2, <1>3, <1>5, <2>1 DEF Seen
  <1>9. Calm' => EndComes' /\ ArmComes'
    BY <1>2, <1>3, <1>5 DEF EndComes, ArmComes
  <1> QED
    BY <1>6, <1>7, <1>8, <1>9 DEF Button

LEMMA StepsKeepButton ==
    ASSUME WireAssumption, TypeOK, Bound, Delivery, Ascending(panel), Button, Next
    PROVE  Button'
  <1>1. CASE \/ TurnBegins \/ SideAppends
             \/ \E e \in Turn : TurnRow(e, "delta") \/ TurnRow(e, "assistant") \/ EndTurn(e)
    <2>1. PICK e \in Emitter, kind \in Kind, state \in {"runs", "ends"} :
             /\ AppendRow(e, kind, state)
             /\ emitter[e].state = "runs" \/ (emitter[e].state = "asked" /\ e # "auto")
             /\ e \in Turn => (state = "runs" \/ kind = "idle")
             /\ e = "side" => kind = "job" /\ state = "ends"
      BY <1>1, RowSteps
    <2>2. Appends(kind)
      BY <2>1, AppendRowAppends
    <2> QED
      BY <2>2, AppendsKeepButton
  <1>2. CASE Begins
    BY <1>2, BeginsKeepButton
  <1>3. CASE \E e \in Emitter : EmitSend(e)
    BY <1>3, EmitSendKeepsButton
  <1>4. ASSUME NEW c \in Conn, Handle(c) PROVE Button'
    BY <1>4, BindPipeKeepsButton, SwapKeepsButton, ListRowsKeepsButton, ReplayKeepsButton,
       HandlerGoneKeepsButton, ReapKeepsButton DEF Handle
  <1>5. CASE ClientNext
    BY <1>5, ConnectKeepsButton, DropKeepsButton, ReceiveKeepsButton, ReceiveDoneKeepsButton,
       ReloadKeepsButton DEF ClientNext, Arrive
  <1> QED
    BY <1>1, <1>2, <1>3, <1>4, <1>5 DEF Next, EngineNext, Begins

\* The button tells the truth when all is settled: the panel has the whole
\* log, so no end is still to come, and no marker is.
LEMMA SettledTells ==
    ASSUME WireAssumption, TypeOK, Bound, Delivery, Button
    PROVE  ButtonTellsTheTurn
  <1> SUFFICES ASSUME Settled, ~raced, ~orphaned
               PROVE  /\ panel.isStreaming => Turning
                      /\ panel.terminalSeen = "no" /\ Last(log) = "delta" => panel.isStreaming
    BY DEF ButtonTellsTheTurn
  <1>1. /\ client.conn # 0 /\ client.conn \in Conn /\ feed = client.conn
        /\ Len(wire[client.conn]) = 0 /\ handler[client.conn].phase = "live"
    <2>1. /\ client.conn # 0 /\ client.conn \in Conn /\ ~Shut(client.conn)
          /\ Len(wire[client.conn]) = 0
          /\ handler[client.conn].phase \in {"none", "live", "gone"} \cup Reaping
      BY Types DEF Settled, ClientType, Conn
    <2>2. handler[client.conn].phase = "live"
      BY <2>1 DEF Shut, Button, Seen
    <2>3. owner[handler[client.conn].pipe] = client.conn /\ handler[client.conn].pipe = current
      BY <2>1, <2>2, Phases DEF Shut, Bound, OnePipe
    <2>4. current # 0
      BY <2>1, <2>2, <2>3, Phases DEF Bound, Equipped
    <2> QED
      BY <2>1, <2>2, <2>3, <2>4 DEF feed
  <1>2. panel.lastEventI \in Nat /\ Len(log) \in Nat
    BY Types DEF PanelType
  <1>3. panel.lastEventI = Len(log)
    <2>1. CASE Len(log) = 0
      BY <1>2, <2>1 DEF Button, OnlyRows
    <2>2. CASE Len(log) # 0
      <3>1. Got(Len(log)) \/ Unsent(Len(log))
        BY <1>1, <1>2, <2>2 DEF Delivery, Served, Caught, Calm
      <3>2. ~Unsent(Len(log))
        BY <1>2, <2>2 DEF Settled, Unsent, unsent
      <3> QED
        BY <1>1, <1>2, <3>1, <3>2 DEF Got, Button, OnlyRows
    <2> QED
      BY <2>1, <2>2
  <1>4. panel.isStreaming => Turning
    BY <1>2, <1>3 DEF Button, EndComes, Over, Calm
  <1>5. ~MarkerComes(client.conn)
    BY <1>1 DEF MarkerComes
  <1>6. panel.terminalSeen = "no" /\ Last(log) = "delta" => panel.isStreaming
    BY <1>1, <1>3, <1>5 DEF Button, ArmComes, Mute, Last, Calm
  <1> QED
    BY <1>4, <1>6

\* When nothing is on its way, nothing raced and no pipe was reaped from under
\* its holders, the button reads Stop only while a turn runs or is asked for,
\* and does when the panel's turn ends in an open reply (ButtonTellsTheTurn),
\* for every window, log, socket buffer and number of connections and pipes:
\* handleEvent, the truth arm at replay_done and the bootstrap (chatpanel.js)
\* against turns, continuations, jobs, takeovers, reapers and reloads.
THEOREM ButtonAlwaysTells == Spec => []ButtonTellsTheTurn
  <1>1. Init => Button
    BY DEF Init, Button, Ended, OnlyRows, Seen, EndComes, ArmComes, FreshPanel, Absent, Handling
  <1>2. Init => Ascending(panel)
    BY DEF Init, FreshPanel, Ascending
  <1>3. TypeOK /\ Bound /\ Delivery /\ Ascending(panel) /\ Button /\ [Next]_vars => Button'
    <2>1. Button /\ UNCHANGED vars => Button'
      BY DEF vars, engine, Button, Ended, Over, OnlyRows, Seen, EndComes, ArmComes, Mute,
             MarkerComes, Calm, Turning, feed
    <2> QED
      BY <2>1, WireAssumption, StepsKeepButton
  <1>4. TypeOK /\ Bound /\ Delivery /\ Button => ButtonTellsTheTurn
    BY WireAssumption, SettledTells
  <1> QED
    BY <1>1, <1>3, <1>4, TypeCorrect, BoundHolds, DeliveryHolds, StaysAscending, PTL DEF Spec

=============================================================================
