----------------------------- MODULE RelayProofs -----------------------------
(* The relay of a stream, for any protocols, timeouts and length of the     *)
(* stream: no heartbeat falls inside an event, the verdict is what the      *)
(* upstream said and what the client was shown, the history knows what was  *)
(* shown, and the idle timeout means silence.                               *)
EXTENDS StreamRelay, TLAPS

\* Where the loop is in the text of the upstream, as wire.at says it of the upstream.
Place == IF relay.line # Nothing THEN "line" ELSE IF relay.boundary THEN "between" ELSE "event"

Events == Kinds \cup {Nothing}
Fragments ==
  [kind : {"data"}, more : {TRUE}, event : {Nothing}] \cup [kind : {"data"}, more : {FALSE}, event : Kinds]
  \cup [kind : {"comment", "blank"}, more : {FALSE}, event : {Nothing}]

Loops ==
  [pc : {"select", "ended"}, line : {Nothing, "data"}, boundary : BOOLEAN, event : Events,
   outcome : {"open", "billable", "failed"}, terminal : BOOLEAN, eof : BOOLEAN, error : BOOLEAN,
   finished : BOOLEAN, remembered : BOOLEAN, headers : BOOLEAN, connected : BOOLEAN, watching : BOOLEAN,
   cause : {Nothing, "upstream", "adapter", "drain", "idle", "deadline"},
   verdict : {Nothing, "settled", "failed", "unknown"}]
Timers == [drain : {"off", "running", "fired"}, idle : {"off", "running", "fired"},
           cancelled : BOOLEAN, activity : BOOLEAN, quiet : BOOLEAN, elapsed : BOOLEAN]
Clients == [gone : BOOLEAN, at : {"between", "line", "event"}, torn : BOOLEAN, shown : {Nothing, "more", "end", "fail"}]

Typed ==
  /\ stream \in Streams
  /\ wire \in [at : {"between", "line", "event"}, sent : SUBSET Kinds, lines : Nat]
  /\ reader \in [at : {"offering"}, item : Fragments \cup Finals] \cup [at : {"reading", "gone"}, item : {NoItem}]
  /\ relay \in Loops
  /\ timers \in Timers
  /\ client \in Clients

\* The loop is where the upstream is, but for the line on offer.
Positions ==
  /\ reader.at = "reading" => wire.at = Place
  /\ reader.at = "offering" =>
       CASE reader.item.kind = "data" -> /\ Place \in {"between", "line"}
                                         /\ wire.at = IF reader.item.more THEN "line" ELSE "event"
         [] reader.item.kind = "comment" -> Place = "between" /\ wire.at = "event"
         [] reader.item.kind = "blank" -> Place = "event" /\ wire.at = "between"
         [] OTHER -> wire.at = Place
  /\ relay.event # Nothing => Place = "event"

\* ... and a client that is sent fragments is where the loop is.
ClientFollows ==
  /\ Converted => client.at = "between"
  /\ ~Converted /\ ~client.gone => client.at = Place

InSelect == relay.pc = "select" => Positions /\ ClientFollows

\* What the loop knows of what the upstream has sent.
Knows ==
  /\ {relay.event, reader.item.event} \subseteq wire.sent \cup {Nothing}
  /\ relay.outcome = "failed" => "fail" \in wire.sent
  /\ relay.outcome = "billable" => "stop" \in wire.sent \/ relay.terminal
  /\ relay.terminal => relay.outcome # "open" /\ ("end" \in wire.sent \/ relay.outcome = "failed")
  /\ "fail" \in wire.sent => \/ relay.outcome = "failed" \/ "fail" \in {relay.event, reader.item.event}
                             \/ reader.at = "gone" /\ ~relay.eof
  /\ "fail" \in wire.sent /\ (relay.terminal \/ relay.eof) => relay.outcome = "failed"
  /\ relay.eof => relay.pc = "ended" /\ reader.at = "gone"

\* After the end of the protocol there is nothing to tell.
NothingFollows ==
  relay.terminal /\ relay.outcome = "billable" =>
    relay.event = Nothing /\ relay.line = Nothing /\ reader.item.event = Nothing /\ ~reader.item.more

\* What the client has been shown of it.
Shown ==
  /\ ~client.gone => relay.connected
  /\ client.shown # Nothing => relay.headers
  /\ client.shown = "fail" => relay.outcome = "failed"
  /\ client.shown = "end" => relay.outcome = "billable" /\ (relay.terminal \/ relay.eof)
  /\ client.shown = "end" /\ stream.target = "responses" => relay.remembered
  /\ ~client.gone /\ relay.outcome = "failed" => client.shown = "fail"
  /\ ~client.gone /\ relay.outcome = "billable" /\ (relay.terminal \/ relay.finished) => client.shown = "end"
  /\ relay.finished => Converted
  /\ relay.finished /\ relay.pc = "select" => relay.terminal \/ relay.outcome = "failed"

Concluded ==
  relay.verdict # Nothing => relay.pc = "ended" /\ ~Finalizes /\ relay.verdict = Verdict

RelayInv == Typed /\ InSelect /\ ~client.torn /\ Knows /\ NothingFollows /\ Shown /\ Concluded

IdleInv ==
  /\ timers.idle = "fired" => timers.elapsed
  /\ timers.idle = "running" /\ ~timers.activity => timers.quiet
  /\ relay.cause = "idle" => timers.idle = "fired" /\ relay.pc = "ended"

-----------------------------------------------------------------------------
(* Steps of the reader, the timers and the client.                          *)
USE DEF Nothing, Kinds, Events

LEMMA ReaderFields ==
  ASSUME Typed
  PROVE  /\ reader.at \in {"reading", "offering", "gone"}
         /\ reader.at = "offering" => reader.item \in Fragments \cup Finals
         /\ reader.at # "offering" => reader.item = NoItem
BY DEF Typed

LEMMA InitInv == RelayInit => RelayInv /\ IdleInv
<1> SUFFICES ASSUME RelayInit PROVE RelayInv /\ IdleInv
  OBVIOUS
<1>1. Typed
  BY StreamRelayAssumption DEF RelayInit, Typed, Loops, Timers, Clients, NoItem, Item, Fragments, Converted, Protocols
<1>2. InSelect /\ ~client.torn /\ NothingFollows /\ Concluded
  BY DEF RelayInit, InSelect, Positions, ClientFollows, Place, NothingFollows, Concluded, NoItem, Item
<1>3. Knows /\ Shown
  BY DEF RelayInit, Knows, Shown, NoItem, Item
<1>4. IdleInv
  BY DEF RelayInit, IdleInv
<1> QED BY <1>1, <1>2, <1>3, <1>4 DEF RelayInv

LEMMA FragmentFields ==
  \A item \in Fragments :
    /\ item.kind \in {"data", "comment", "blank"} /\ item.more \in BOOLEAN
    /\ item.event \in Events
    /\ item.more => item.kind = "data" /\ item.event = Nothing
    /\ item.kind # "data" => item.event = Nothing
BY DEF Fragments

LEMMA WireFields == Typed => wire.sent \in SUBSET Kinds /\ wire.lines \in Nat
BY DEF Typed

(* The invariant says nothing of the timers.                                *)
LEMMA OnlyTimers ==
  ASSUME RelayInv, timers' \in Timers, UNCHANGED <<stream, wire, reader, relay, client>>
  PROVE  RelayInv'
BY DEF RelayInv, Typed, InSelect, Positions, ClientFollows, Place, Converted, Knows, NothingFollows,
       Shown, Concluded, Finalizes, Verdict

LEMMA ReadsKeeps == ASSUME RelayInv, Reads PROVE RelayInv'
<1>1. PICK item \in Fragments, place \in {"between", "line", "event"} :
        /\ \/ wire.at = "between" /\ item.kind \in {"data", "comment"}
           \/ wire.at = "line" /\ item.kind = "data"
           \/ wire.at = "event" /\ item.kind = "blank"
        /\ item.kind = "data" => "end" \notin wire.sent
        /\ place = IF item.more THEN "line" ELSE IF item.kind = "blank" THEN "between" ELSE "event"
        /\ Line(place, item)
  BY DEF Reads, Ended, EventsOf, Item, Fragments
<1>2. /\ wire' \in [at : {"between", "line", "event"}, sent : SUBSET Kinds, lines : Nat]
      /\ wire'.at = place
      /\ wire'.sent = IF item.event = Nothing THEN wire.sent ELSE wire.sent \cup {item.event}
  BY <1>1, FragmentFields, WireFields DEF Line, RelayInv
<1>3. reader.at = "reading" /\ reader' = [at |-> "offering", item |-> item] /\ reader.item = NoItem
  BY <1>1, ReaderFields DEF Line, Offers, RelayInv
<1>4. timers' \in Timers
  BY <1>1, ZenonT(40) DEF Line, Heard, RelayInv, Typed, Timers
<1>5. UNCHANGED <<stream, relay, client>>
  BY DEF Reads
<1>6. Typed'
  BY <1>2, <1>3, <1>4, <1>5 DEF RelayInv, Typed
<1>7. InSelect'
  BY <1>1, <1>2, <1>3, <1>5 DEF RelayInv, InSelect, Positions, ClientFollows, Place, Converted, Fragments
<1>8. Knows'
  BY <1>1, <1>2, <1>3, <1>5, FragmentFields DEF RelayInv, Knows, NoItem, Item
<1>9. NothingFollows'
  BY <1>1, <1>2, <1>3, <1>5, FragmentFields DEF RelayInv, Knows, NothingFollows
<1>10. Shown' /\ Concluded' /\ ~client'.torn
  BY <1>5 DEF RelayInv, Shown, Concluded, Converted, Finalizes, Verdict
<1> QED BY <1>6, <1>7, <1>8, <1>9, <1>10 DEF RelayInv

LEMMA ReaderKeeps ==
  ASSUME RelayInv, BytesArrive \/ ReadEnds \/ ReaderLeaves
  PROVE  RelayInv'
<1>1. CASE BytesArrive
  BY <1>1, OnlyTimers DEF BytesArrive, Heard, RelayInv, Typed, Timers
<1>2. ASSUME NEW item \in Finals, Offers(item), UNCHANGED <<stream, wire, relay, timers, client>>
      PROVE  RelayInv'
  <2>1. reader.at = "reading" /\ reader' = [at |-> "offering", item |-> item] /\ reader.item = NoItem
    BY <1>2, ReaderFields DEF Offers, RelayInv
  <2>2. item.kind \in {"eof", "error"} /\ item.event = Nothing /\ item.more = FALSE
    BY <1>2 DEF Finals, Item
  <2>3. Typed'
    BY <1>2, <2>1 DEF RelayInv, Typed
  <2>4. InSelect'
    BY <1>2, <2>1, <2>2 DEF RelayInv, InSelect, Positions, ClientFollows, Place, Converted
  <2>5. Knows' /\ NothingFollows'
    BY <1>2, <2>1, <2>2 DEF RelayInv, Knows, NothingFollows, NoItem, Item
  <2>6. Shown' /\ Concluded' /\ ~client'.torn
    BY <1>2 DEF RelayInv, Shown, Concluded, Converted, Finalizes, Verdict
  <2> QED BY <2>3, <2>4, <2>5, <2>6 DEF RelayInv
<1>3. CASE ReaderLeaves
  <2>1. reader.at # "gone" /\ reader' = [at |-> "gone", item |-> NoItem] /\ UNCHANGED <<stream, wire, relay, timers, client>>
    BY <1>3 DEF ReaderLeaves
  <2>2. Typed'
    BY <2>1 DEF RelayInv, Typed
  <2>3. InSelect'
    BY <2>1 DEF RelayInv, InSelect, Positions, ClientFollows, Place, Converted
  <2>4. Knows' /\ NothingFollows'
    BY <2>1 DEF RelayInv, Knows, NothingFollows, NoItem, Item
  <2>5. Shown' /\ Concluded' /\ ~client'.torn
    BY <2>1 DEF RelayInv, Shown, Concluded, Converted, Finalizes, Verdict
  <2> QED BY <2>2, <2>3, <2>4, <2>5 DEF RelayInv
<1> QED BY <1>1, <1>2, <1>3 DEF ReadEnds

LEMMA TimeKeeps == ASSUME RelayInv, TimePasses PROVE RelayInv'
BY OnlyTimers DEF TimePasses, DrainFires, IdleFires, DeadlinePasses, RelayInv, Typed, Timers

LEMMA ClientKeeps == ASSUME RelayInv, ClientLeaves PROVE RelayInv'
<1>1. UNCHANGED <<stream, wire, reader, relay, timers>>
  BY DEF ClientLeaves
<1>2. /\ client'.gone /\ client'.at = client.at /\ client'.torn = client.torn
      /\ client'.shown = client.shown /\ client' \in Clients
  BY DEF ClientLeaves, RelayInv, Typed, Clients
<1>3. Typed' /\ InSelect'
  BY <1>1, <1>2 DEF RelayInv, Typed, InSelect, Positions, ClientFollows, Place, Converted
<1>4. Knows' /\ NothingFollows' /\ Shown' /\ Concluded'
  BY <1>1, <1>2 DEF RelayInv, Knows, NothingFollows, Shown, Concluded, Converted, Finalizes, Verdict
<1> QED BY <1>2, <1>3, <1>4 DEF RelayInv

-----------------------------------------------------------------------------
(* Steps of the loop.  Most of them change nothing of what the loop knows.  *)
SameKnowledge(s, t) ==
  /\ s.line = t.line /\ s.boundary = t.boundary /\ s.event = t.event
  /\ s.outcome = t.outcome /\ s.terminal = t.terminal /\ s.eof = t.eof
  /\ s.finished = t.finished /\ s.remembered = t.remembered /\ s.verdict = t.verdict

\* What the idle timer is about.
SameIdle(t, u) ==
  /\ t \in Timers
  /\ t.idle = u.idle /\ t.activity = u.activity /\ t.quiet = u.quiet /\ t.elapsed = u.elapsed

(* A write, as far as the invariant goes: it reaches the client or not.     *)
LEMMA SendsFields ==
  ASSUME NEW s \in Loops, NEW t \in Timers, NEW seen \in Clients, client \in Clients, Sends(s, t, seen)
  PROVE  /\ relay' \in Loops /\ SameKnowledge(relay', s) /\ relay'.headers
         /\ relay'.pc = s.pc /\ relay'.cause = s.cause /\ SameIdle(timers', t) /\ client' \in Clients
         /\ \/ ~client.gone /\ client' = seen /\ relay'.connected = s.connected
            \/ /\ client'.gone /\ client'.at = client.at /\ client'.torn = client.torn
               /\ client'.shown = client.shown
<1>1. PICK ok \in BOOLEAN :
        /\ client' = IF client.gone \/ ~ok THEN [client EXCEPT !.gone = TRUE] ELSE seen
        /\ relay' = IF ok THEN [s EXCEPT !.headers = TRUE] ELSE Disconnected([s EXCEPT !.headers = TRUE])
        /\ timers' = IF ok THEN t ELSE StartsDrain(t)
  BY DEF Sends
<1>2. /\ relay' \in Loops /\ SameKnowledge(relay', s) /\ relay'.headers
      /\ relay'.pc = s.pc /\ relay'.cause = s.cause
      /\ ok => relay'.connected = s.connected
  BY <1>1 DEF Disconnected, Loops, SameKnowledge
<1>3. SameIdle(timers', t)
  BY <1>1 DEF StartsDrain, Timers, SameIdle
<1>4. client.gone \/ ~ok => /\ client' \in Clients /\ client'.gone /\ client'.at = client.at
                            /\ client'.torn = client.torn /\ client'.shown = client.shown
  BY <1>1 DEF Clients
<1> QED BY <1>1, <1>2, <1>3, <1>4

LEMMA SameKnowledgeKeeps ==
  ASSUME RelayInv, relay' \in Loops, SameKnowledge(relay', relay), timers' \in Timers, UNCHANGED <<stream, wire, reader>>,
         client' \in Clients, client'.at = client.at, client'.shown = client.shown, ~client'.torn,
         client.gone => client'.gone, ~client'.gone => relay'.connected,
         client.shown # Nothing => relay'.headers,
         relay.pc = "ended" => relay'.pc = "ended", relay.verdict = Nothing
  PROVE  RelayInv'
<1>1. Typed'
  BY DEF RelayInv, Typed
<1>2. InSelect'
  BY DEF SameKnowledge, RelayInv, Typed, Loops, InSelect, Positions, ClientFollows, Place, Converted
<1>3. Knows' /\ NothingFollows'
  BY DEF SameKnowledge, RelayInv, Knows, NothingFollows
<1>4. Shown' /\ Concluded'
  BY DEF SameKnowledge, RelayInv, Typed, Loops, Shown, Concluded, Converted
<1> QED BY <1>1, <1>2, <1>3, <1>4 DEF RelayInv

LEMMA LoopKeeps ==
  ASSUME RelayInv, SeesDisconnect \/ Drains \/ Idles \/ RunsOut \/ NotesActivity \/ Beats
  PROVE  RelayInv'
<1>1. relay.pc = "select" /\ relay.verdict = Nothing /\ UNCHANGED <<stream, wire, reader>>
  BY DEF SeesDisconnect, Drains, Idles, RunsOut, Stops, NotesActivity, Beats, Selects, RelayInv, Concluded
<1>2. CASE SeesDisconnect
  <2>1. /\ relay' = [relay EXCEPT !.connected = FALSE, !.watching = FALSE] /\ client.gone
        /\ timers' = [timers EXCEPT !.drain = "running"] /\ client' = client
    BY <1>2 DEF SeesDisconnect, SendsNothing
  <2>2. relay' \in Loops /\ SameKnowledge(relay', relay) /\ relay'.headers = relay.headers /\ timers' \in Timers
    BY <2>1 DEF RelayInv, Typed, Loops, Timers, SameKnowledge
  <2> QED BY <1>1, <2>1, <2>2, SameKnowledgeKeeps DEF RelayInv, Typed, Shown
<1>3. ASSUME NEW cause \in {"drain", "idle", "deadline"}, Stops(cause) PROVE RelayInv'
  <2>1. /\ relay' = [relay EXCEPT !.pc = "ended", !.cause = cause, !.error = TRUE]
        /\ timers' = [timers EXCEPT !.cancelled = TRUE] /\ client' = client
    BY <1>3 DEF Stops, SendsNothing
  <2>2. /\ relay' \in Loops /\ SameKnowledge(relay', relay) /\ relay'.headers = relay.headers
        /\ relay'.connected = relay.connected /\ timers' \in Timers
    BY <2>1, ZenonT(40) DEF RelayInv, Typed, Loops, Timers, SameKnowledge
  <2> QED BY <1>1, <2>1, <2>2, SameKnowledgeKeeps DEF RelayInv, Typed, Shown
<1>4. CASE NotesActivity
  BY <1>1, <1>4, OnlyTimers DEF NotesActivity, SendsNothing, RelayInv, Typed, Timers
<1>5. CASE Beats
  <2>1. client.at = "between" \/ client.gone
    BY <1>1, <1>5 DEF Beats, MayBeat, RelayInv, InSelect, ClientFollows, Place
  <2>2. /\ SeesBeat(client) \in Clients /\ SeesBeat(client).at = client.at
        /\ SeesBeat(client).shown = client.shown /\ SeesBeat(client).gone = client.gone
        /\ client.gone \/ ~SeesBeat(client).torn
    BY <2>1 DEF SeesBeat, RelayInv, Typed, Clients
  <2>3. Sends(relay, timers, SeesBeat(client))
    BY <1>5 DEF Beats
  <2>4. /\ relay' \in Loops /\ SameKnowledge(relay', relay) /\ relay'.headers /\ relay'.pc = relay.pc
        /\ timers' \in Timers /\ client' \in Clients /\ client'.at = client.at
        /\ client'.shown = client.shown /\ ~client'.torn
        /\ \/ ~client.gone /\ ~client'.gone /\ relay'.connected = relay.connected
           \/ client'.gone
    BY <2>2, <2>3, SendsFields DEF RelayInv, Typed, SameIdle
  <2> QED BY <1>1, <2>4, SameKnowledgeKeeps DEF RelayInv, Shown
<1> QED BY <1>2, <1>3, <1>4, <1>5 DEF Drains, Idles, RunsOut

-----------------------------------------------------------------------------
(* After the loop.                                                          *)
LEMMA ConcludesKeeps == ASSUME RelayInv, Concludes PROVE RelayInv'
<1>1. /\ relay.pc = "ended" /\ ~Finalizes /\ relay' = [relay EXCEPT !.verdict = Verdict]
      /\ timers' = [timers EXCEPT !.cancelled = TRUE] /\ UNCHANGED <<stream, wire, reader, client>>
  BY DEF Concludes, SendsNothing
<1>2. /\ relay' \in Loops /\ relay'.verdict = Verdict /\ relay'.pc = "ended"
      /\ relay'.line = relay.line /\ relay'.boundary = relay.boundary /\ relay'.event = relay.event
      /\ relay'.outcome = relay.outcome /\ relay'.terminal = relay.terminal /\ relay'.eof = relay.eof
      /\ relay'.finished = relay.finished /\ relay'.remembered = relay.remembered
      /\ relay'.headers = relay.headers /\ relay'.error = relay.error /\ relay'.connected = relay.connected
  BY <1>1 DEF RelayInv, Typed, Loops, Verdict
<1>3. Typed' /\ InSelect'
  BY <1>1, <1>2 DEF RelayInv, Typed, Timers, InSelect
<1>4. Knows' /\ NothingFollows' /\ Shown'
  BY <1>1, <1>2 DEF RelayInv, Knows, NothingFollows, Shown, Converted
<1>5. Verdict' = Verdict /\ ~Finalizes'
  BY <1>1, <1>2 DEF Verdict, Finalizes, Converted
<1> QED BY <1>1, <1>2, <1>3, <1>4, <1>5 DEF RelayInv, Concluded

LEMMA FinalFrameKeeps == ASSUME RelayInv, FinalFrame PROVE RelayInv'
<1> DEFINE said == [relay EXCEPT !.finished = TRUE, !.remembered = @ \/ stream.target = "responses"]
<1>1. /\ relay.pc = "ended" /\ Converted /\ relay.eof /\ relay.outcome = "billable" /\ ~relay.finished
      /\ relay.verdict = Nothing /\ UNCHANGED <<stream, wire, reader>>
  BY DEF FinalFrame, Finalizes, RelayInv, Concluded
<1>2. IF relay.connected THEN Sends(said, timers, Shows(client, "end"))
      ELSE relay' = said /\ timers' = timers /\ client' = client
  BY DEF FinalFrame, SendsNothing
<1>3. client.shown # "fail"
  BY <1>1 DEF RelayInv, Shown
<1>4. /\ said \in Loops /\ said.finished /\ said.pc = "ended" /\ said.verdict = Nothing
      /\ stream.target = "responses" => said.remembered
      /\ said.line = relay.line /\ said.boundary = relay.boundary /\ said.event = relay.event
      /\ said.outcome = relay.outcome /\ said.terminal = relay.terminal /\ said.eof = relay.eof
      /\ said.headers = relay.headers /\ said.connected = relay.connected
  BY <1>1 DEF RelayInv, Typed, Loops
<1>5. Shows(client, "end") \in Clients /\ Shows(client, "end").shown = "end"
      /\ Shows(client, "end").torn = client.torn /\ Shows(client, "end").gone = client.gone
  BY <1>3 DEF RelayInv, Typed, Clients, Shows
<1> HIDE DEF said
<1>6. /\ relay' \in Loops /\ SameKnowledge(relay', said) /\ relay'.pc = said.pc
      /\ timers' \in Timers /\ client' \in Clients /\ ~client'.torn
      /\ client'.shown \in {client.shown, "end"}
      /\ ~client'.gone => ~client.gone /\ relay'.connected /\ client'.shown = "end"
      /\ client'.shown # client.shown => relay'.headers
      /\ relay.headers => relay'.headers
  <2>1. CASE ~relay.connected
    BY <2>1, <1>2, <1>4 DEF SameKnowledge, RelayInv, Typed, Shown
  <2>2. CASE Sends(said, timers, Shows(client, "end"))
    BY <2>2, <1>4, <1>5, SendsFields DEF RelayInv, Typed, Shown, SameIdle
  <2> QED BY <1>2, <2>1, <2>2
<1>7. Typed' /\ InSelect' /\ Concluded'
  BY <1>1, <1>4, <1>6 DEF RelayInv, Typed, InSelect, Concluded, SameKnowledge
<1>8. Knows' /\ NothingFollows'
  BY <1>1, <1>4, <1>6 DEF RelayInv, Knows, NothingFollows, SameKnowledge
<1>9. Shown'
  BY <1>1, <1>4, <1>6 DEF RelayInv, Shown, Converted, SameKnowledge
<1> QED BY <1>6, <1>7, <1>8, <1>9 DEF RelayInv

-----------------------------------------------------------------------------
(* A line in the loop: e is the event it completes, if any.                 *)
Final(item) == item.kind \in {"eof", "error"}

LEMMA ItemFields ==
  ASSUME NEW item \in Fragments \cup Finals
  PROVE  /\ item.kind \in {"data", "comment", "blank", "eof", "error"} /\ item.more \in BOOLEAN
         /\ item.event \in Events
         /\ item \in Finals <=> Final(item)
         /\ item.more => item.kind = "data"
         /\ item.kind # "data" \/ item.more => item.event = Nothing
<1>1. item \in Finals => Final(item) /\ item.more = FALSE /\ item.event = Nothing
  BY DEF Finals, Item, Final
<1>2. item \in Fragments => ~Final(item)
  BY FragmentFields DEF Final
<1>3. CASE item \in Fragments
  BY <1>1, <1>2, <1>3, FragmentFields
<1>4. CASE item \in Finals
  BY <1>1, <1>4 DEF Final
<1> QED BY <1>3, <1>4

\* What the loop makes of it, ...
Absorbs(item, e) ==
  /\ relay' \in Loops /\ relay'.verdict = Nothing
  /\ relay'.outcome = Classified(relay, e)
  /\ relay'.terminal <=> (relay.terminal \/ IsTerminal(e))
  /\ relay'.finished <=> (relay.finished \/ (Converted /\ e \in {"end", "fail"}))
  /\ relay'.remembered <=> (relay.remembered \/ (stream.target = "responses" /\ e = "end"))
  /\ relay'.eof => item.kind = "eof" /\ relay'.pc = "ended" /\ relay'.event = Nothing
  /\ relay'.cause \in {relay.cause, "upstream", "adapter"}
  /\ relay'.line \in {Nothing, relay.line} \/ item.more
  /\ relay'.event \in {Nothing, relay.event, item.event}
  /\ {relay.event, item.event} \subseteq {Nothing, e, relay'.event}
  /\ e \notin {Nothing, "cut"} => relay'.event = Nothing /\ relay'.line = Nothing
  /\ relay'.pc = "select" => /\ ~Final(item)
                             /\ relay'.line = IF item.more THEN "data" ELSE Nothing
                             /\ item.more \/ (relay'.boundary <=> item.kind = "blank")
                             /\ relay'.event # Nothing => ~item.more /\ item.kind # "blank"

\* ... what the client is shown of it, ...
Displayed(e) == IF e = Nothing \/ client.shown = "fail" THEN client.shown
                ELSE IF e \in {"end", "fail"} THEN e ELSE "more"

Conveys(item, e) ==
  /\ client' \in Clients /\ ~client'.torn
  /\ client.gone => client'.gone
  /\ ~client'.gone => relay'.connected
  /\ relay.headers => relay'.headers
  /\ \/ client'.shown = client.shown /\ \/ client'.gone \/ e = "cut"
                                        \/ Converted /\ (relay.finished \/ e \in {Nothing, "more", "stop"})
                                        \/ e = Nothing
     \/ ~client.gone /\ relay'.headers /\ client'.shown = Displayed(e)

\* ... and where that leaves a client that is sent fragments.
Placed(item) ==
  /\ Converted => client'.at = client.at
  /\ ~Converted /\ ~client'.gone /\ relay'.pc = "select" =>
       client'.at = IF item.more THEN "line" ELSE IF item.kind = "blank" THEN "between" ELSE "event"

\* s after the event e.
SaysOf(t, s, e) ==
  /\ t.terminal <=> (s.terminal \/ IsTerminal(e))
  /\ t.finished <=> (s.finished \/ (Converted /\ e \in {"end", "fail"}))
  /\ t.remembered <=> (s.remembered \/ (stream.target = "responses" /\ e = "end"))
  /\ t.pc = s.pc /\ t.cause = s.cause /\ t.eof = s.eof /\ t.verdict = s.verdict
  /\ t.line = s.line /\ t.boundary = s.boundary /\ t.event = s.event
  /\ t.connected = s.connected /\ t.headers = s.headers

LEMMA ToldFields ==
  ASSUME NEW s \in Loops, NEW e \in Events, Classified(s, e) \in {"open", "billable", "failed"}, IsTerminal(e) \in BOOLEAN
  PROVE  Told(s, e) \in Loops /\ SaysOf(Told(s, e), s, e) /\ Told(s, e).outcome = Classified(s, e)
<1> DEFINE noted == Noted(s, e)
<1> DEFINE error == IF Converted /\ e # Nothing THEN FALSE ELSE noted.error
<1> DEFINE finished == s.finished \/ (Converted /\ e \in {"end", "fail"})
<1> DEFINE remembered == noted.remembered \/ (stream.target = "responses" /\ e = "end")
<1>1. /\ noted \in Loops /\ noted.outcome = Classified(s, e)
      /\ noted.terminal <=> (s.terminal \/ IsTerminal(e))
      /\ noted.pc = s.pc /\ noted.cause = s.cause /\ noted.eof = s.eof /\ noted.verdict = s.verdict
      /\ noted.line = s.line /\ noted.boundary = s.boundary /\ noted.event = s.event
      /\ noted.connected = s.connected /\ noted.headers = s.headers /\ noted.remembered = s.remembered
  <2> DEFINE terminal == s.terminal \/ IsTerminal(e)
  <2>1. terminal \in BOOLEAN
    OBVIOUS
  <2>2. noted = [s EXCEPT !.outcome = Classified(s, e), !.terminal = terminal]
    BY DEF Noted
  <2> HIDE DEF terminal, noted
  <2>3. /\ noted \in Loops /\ noted.outcome = Classified(s, e) /\ noted.terminal = terminal
        /\ noted.pc = s.pc /\ noted.cause = s.cause /\ noted.eof = s.eof /\ noted.verdict = s.verdict
        /\ noted.line = s.line /\ noted.boundary = s.boundary /\ noted.event = s.event
        /\ noted.connected = s.connected /\ noted.headers = s.headers /\ noted.remembered = s.remembered
    BY <2>1, <2>2 DEF Loops
  <2> QED BY <2>3 DEF terminal
<1>2. Told(s, e) = [noted EXCEPT !.error = error, !.finished = finished, !.remembered = remembered]
  BY DEF Told
<1>3. error \in BOOLEAN /\ finished \in BOOLEAN /\ remembered \in BOOLEAN
  BY <1>1 DEF Loops
<1>4. remembered <=> (s.remembered \/ (stream.target = "responses" /\ e = "end"))
  BY <1>1
<1> HIDE DEF noted, error, remembered
<1>5. finished <=> (s.finished \/ (Converted /\ e \in {"end", "fail"}))
  OBVIOUS
<1> HIDE DEF finished
<1>6. noted \in Loops
  BY <1>1
<1>7. /\ Told(s, e) \in Loops /\ Told(s, e).outcome = noted.outcome
      /\ Told(s, e).finished <=> finished
      /\ Told(s, e).remembered <=> remembered
      /\ Told(s, e).terminal <=> noted.terminal
      /\ Told(s, e).pc = noted.pc /\ Told(s, e).cause = noted.cause /\ Told(s, e).eof = noted.eof /\ Told(s, e).verdict = noted.verdict
      /\ Told(s, e).line = noted.line /\ Told(s, e).boundary = noted.boundary /\ Told(s, e).event = noted.event
      /\ Told(s, e).connected = noted.connected /\ Told(s, e).headers = noted.headers
  <2>1. Told(s, e) \in Loops
    BY <1>2, <1>3, <1>6, ZenonT(40) DEF Loops
  <2>2. DOMAIN noted = DOMAIN Told(s, e) /\ {"finished", "remembered"} \subseteq DOMAIN noted
    BY <1>2, <1>6 DEF Loops
  <2> QED BY <1>2, <1>3, <1>6, <2>1, <2>2 DEF Loops
<1> QED BY <1>1, <1>4, <1>5, <1>7 DEF SaysOf

LEMMA ResetFields ==
  ASSUME NEW s \in Loops, NEW item, item.more \in BOOLEAN, item.event \in Events,
         LineOf(s, item) \in {Nothing, "data", "comment"}, item.more => LineOf(s, item) = "data"
  PROVE  LET t == Reset(s, item)
         IN  /\ t \in Loops /\ t.line = IF item.more THEN "data" ELSE Nothing
             /\ ~item.more => t.boundary = IsBoundary(s, item)
             /\ t.event = IF item.more THEN s.event ELSE IF EndsEvent(s, item) THEN Nothing ELSE EventOf(s, item)
             /\ t.outcome = s.outcome /\ t.terminal = s.terminal /\ t.finished = s.finished
             /\ t.remembered = s.remembered /\ t.pc = s.pc /\ t.cause = s.cause
             /\ t.eof = s.eof /\ t.verdict = s.verdict
             /\ t.connected = s.connected /\ t.headers = s.headers
<1> DEFINE boundary == IsBoundary(s, item)
<1> DEFINE event == IF EndsEvent(s, item) THEN Nothing ELSE EventOf(s, item)
<1>1. boundary \in BOOLEAN /\ event \in Events
  BY DEF IsBoundary, EventOf, EndsEvent, Loops
<1>2. Reset(s, item) = IF item.more THEN [s EXCEPT !.line = LineOf(s, item)]
                       ELSE [s EXCEPT !.line = Nothing, !.boundary = boundary, !.event = event]
  BY DEF Reset
<1> HIDE DEF boundary, event
<1>3. CASE item.more
  BY <1>2, <1>3 DEF Loops
<1>4. CASE ~item.more
  <2> DEFINE t == [s EXCEPT !.line = Nothing, !.boundary = boundary, !.event = event]
  <2>1. /\ t \in Loops /\ t.line = Nothing /\ t.boundary = boundary /\ t.event = event
        /\ t.outcome = s.outcome /\ t.terminal = s.terminal /\ t.finished = s.finished
        /\ t.remembered = s.remembered /\ t.pc = s.pc /\ t.cause = s.cause
        /\ t.eof = s.eof /\ t.verdict = s.verdict
        /\ t.connected = s.connected /\ t.headers = s.headers
    BY <1>1, ZenonT(40) DEF Loops
  <2> HIDE DEF t
  <2>2. Reset(s, item) = t
    BY <1>2, <1>4 DEF t
  <2> QED BY <1>4, <2>1, <2>2 DEF boundary, event
<1> QED BY <1>3, <1>4

LEMMA EndsFields ==
  ASSUME NEW s \in Loops, NEW item, item \in Finals <=> Final(item)
  PROVE  LET t == Ends(s, item)
         IN  /\ t \in Loops /\ t.line = s.line /\ t.boundary = s.boundary /\ t.event = s.event
             /\ t.outcome = s.outcome /\ t.terminal = s.terminal /\ t.finished = s.finished
             /\ t.remembered = s.remembered /\ t.verdict = s.verdict
             /\ t.pc = (IF Final(item) THEN "ended" ELSE s.pc) /\ t.cause \in {s.cause, "upstream"}
             /\ t.eof => item.kind = "eof" \/ s.eof
             /\ t.connected = s.connected /\ t.headers = s.headers
<1> DEFINE eof == item.kind = "eof"
<1> DEFINE error == s.error \/ item.kind = "error"
<1>1. eof \in BOOLEAN /\ error \in BOOLEAN
  BY DEF Loops
<1>2. Ends(s, item) = IF item \notin Finals THEN s
                      ELSE [s EXCEPT !.pc = "ended", !.cause = "upstream", !.eof = eof, !.error = error]
  BY DEF Ends
<1> HIDE DEF error
<1>3. eof => item.kind = "eof"
  OBVIOUS
<1> HIDE DEF eof
<1> DEFINE t == [s EXCEPT !.pc = "ended", !.cause = "upstream", !.eof = eof, !.error = error]
<1>4. t \in Loops
  BY <1>1, ZenonT(40) DEF Loops
<1>5. /\ t.line = s.line /\ t.boundary = s.boundary /\ t.event = s.event
      /\ t.outcome = s.outcome /\ t.terminal = s.terminal /\ t.finished = s.finished
      /\ t.remembered = s.remembered /\ t.verdict = s.verdict /\ t.pc = "ended" /\ t.cause = "upstream"
      /\ t.connected = s.connected /\ t.headers = s.headers
  BY DEF Loops
<1>6. t.eof => eof
  BY <1>1 DEF Loops
<1> HIDE DEF t
<1> QED
  <2>1. CASE item \in Finals
    <3>1. Ends(s, item) = t
      BY <1>2, <2>1 DEF t
    <3> QED BY <1>3, <1>4, <1>5, <1>6, <2>1, <3>1
  <2>2. CASE item \notin Finals
    BY <1>2, <2>2
  <2> QED BY <2>1, <2>2

LEMMA ShowsFields ==
  ASSUME NEW c \in Clients, NEW e \in Events
  PROVE  /\ Shows(c, e) \in Clients /\ Shows(c, e).gone = c.gone /\ Shows(c, e).at = c.at
         /\ Shows(c, e).torn = c.torn
         /\ Shows(c, e).shown = IF e = Nothing \/ c.shown = "fail" THEN c.shown
                               ELSE IF e \in {"end", "fail"} THEN e ELSE "more"
BY DEF Shows, Clients

LEMMA SeesFields ==
  ASSUME client \in Clients, NEW item, NEW e \in Events
  PROVE  LET seen == SeesLine(client, item, e)
             inside == item.kind \in {"data", "comment"} \/ (item \in Finals /\ client.at = "line")
         IN  /\ seen \in Clients /\ seen.gone = client.gone /\ seen.torn = client.torn
             /\ seen.at = IF item.more THEN "line" ELSE IF inside THEN "event" ELSE "between"
             /\ seen.shown = IF item.more \/ inside THEN client.shown ELSE Displayed(e)
<1> DEFINE place == IF item.more THEN "line" ELSE "event"
<1> DEFINE within == [client EXCEPT !.at = place]
<1> DEFINE after == [client EXCEPT !.at = "between"]
<1>1. place \in {"line", "event"} /\ within \in Clients /\ after \in Clients
  BY DEF Clients
<1>2. /\ within.gone = client.gone /\ within.torn = client.torn /\ within.shown = client.shown /\ within.at = place
      /\ after.gone = client.gone /\ after.torn = client.torn /\ after.shown = client.shown /\ after.at = "between"
  BY DEF Clients
<1> HIDE DEF after
<1>3. SeesLine(client, item, e) =
        IF item.more \/ item.kind \in {"data", "comment"} \/ (item \in Finals /\ client.at = "line")
        THEN within ELSE Shows(after, e)
  BY DEF SeesLine, after
<1> HIDE DEF within
<1> QED BY <1>1, <1>2, <1>3, ShowsFields DEF Displayed

LEMMA TakesFields ==
  ASSUME RelayInv, Takes
  PROVE  \E item \in Fragments \cup Finals, e \in Events :
           /\ relay.pc = "select" /\ reader.at = "offering" /\ item = reader.item
           /\ reader' = [at |-> IF Final(item) THEN "gone" ELSE "reading", item |-> NoItem]
           /\ e \in {Nothing, "cut", relay.event}
           /\ relay.line = Nothing /\ relay.event = Nothing => e = Nothing
           /\ e # Nothing => Final(item) \/ item.kind = "blank"
           /\ Absorbs(item, e) /\ Conveys(item, e) /\ Placed(item)
           /\ SameIdle(timers', timers) /\ UNCHANGED <<stream, wire>>
<1> DEFINE item == reader.item
<1> DEFINE e == Complete(relay, item)
<1> DEFINE told == Told(relay, e)
<1> DEFINE rest == Reset(told, item)
<1> DEFINE next == Ends(rest, item)
<1>1. /\ relay.pc = "select" /\ reader.at = "offering" /\ item \in Fragments \cup Finals
      /\ reader' = [at |-> IF item \in Finals THEN "gone" ELSE "reading", item |-> NoItem]
      /\ UNCHANGED <<stream, wire>>
  BY ReaderFields DEF Takes, Selects, RelayInv
<1>2. /\ item.kind \in {"data", "comment", "blank", "eof", "error"} /\ item.more \in BOOLEAN
      /\ item.event \in Events
      /\ item \in Finals <=> Final(item)
      /\ item.more => item.kind = "data"
      /\ item.kind # "data" \/ item.more => item.event = Nothing
  BY <1>1, ItemFields
<1>3. /\ relay \in Loops /\ client \in Clients /\ timers \in Timers /\ ~client.torn
      /\ relay.verdict = Nothing /\ relay.eof = FALSE
      /\ ~client.gone => relay.connected
  BY <1>1 DEF RelayInv, Typed, Loops, Concluded, Knows, Shown
<1>4. /\ relay.event # Nothing => Place = "event"
      /\ item.kind = "data" => Place # "event"
      /\ item.kind = "blank" => Place = "event"
      /\ item.kind = "comment" => Place = "between"
  BY <1>1 DEF RelayInv, InSelect, Positions
<1> HIDE DEF item
<1>51. relay.event # Nothing \/ item.kind \in {"blank", "comment"} => relay.line = Nothing
  BY <1>4 DEF Place
<1>52. item.kind \in {"data", "comment"} => relay.event = Nothing
  BY <1>4
<1>5. relay.line \in {Nothing, "data"} /\ relay.event \in Events
  BY <1>3 DEF Loops
<1>6. LineOf(relay, item) = IF Final(item) THEN relay.line ELSE IF item.kind = "blank" THEN Nothing ELSE item.kind
  BY <1>2, <1>5, <1>51 DEF LineOf, Final
<1>7. e = IF item.kind = "blank" THEN relay.event
          ELSE IF ~Final(item) THEN Nothing
          ELSE IF relay.line = "data" THEN "cut" ELSE relay.event
  BY <1>2, <1>5, <1>51, <1>6 DEF Complete, EndsEvent, IsBoundary, EventOf, Final
<1> HIDE DEF e
<1>8. /\ e \in Events /\ e \in {Nothing, "cut", relay.event}
      /\ e # Nothing => Final(item) \/ item.kind = "blank"
      /\ relay.line = Nothing /\ relay.event = Nothing => e = Nothing
  BY <1>5, <1>7
<1>9. Classified(relay, e) \in {"open", "billable", "failed"} /\ IsTerminal(e) \in BOOLEAN
  BY <1>3 DEF Classified, IsTerminal, Loops
<1>10. told \in Loops /\ SaysOf(told, relay, e) /\ told.outcome = Classified(relay, e)
  BY <1>3, <1>8, <1>9, ToldFields
<1>11. /\ LineOf(told, item) = LineOf(relay, item)
       /\ EventOf(told, item) = EventOf(relay, item)
  BY <1>10 DEF SaysOf, LineOf, EventOf
<1> HIDE DEF told
<1>12. /\ rest \in Loops /\ rest.line = IF item.more THEN "data" ELSE Nothing
       /\ ~item.more => rest.boundary = IsBoundary(told, item)
       /\ rest.event = IF item.more THEN relay.event ELSE IF EndsEvent(told, item) THEN Nothing ELSE EventOf(told, item)
       /\ rest.outcome = told.outcome /\ rest.terminal = told.terminal /\ rest.finished = told.finished
       /\ rest.remembered = told.remembered /\ rest.pc = told.pc /\ rest.cause = told.cause /\ rest.eof = told.eof /\ rest.verdict = told.verdict
       /\ rest.connected = told.connected /\ rest.headers = told.headers
  <2>1. LineOf(told, item) \in {Nothing, "data", "comment"} /\ (item.more => LineOf(told, item) = "data")
    BY <1>2, <1>5, <1>6, <1>11 DEF Final
  <2>2. told.event = relay.event
    BY <1>10 DEF SaysOf
  <2> QED BY <1>2, <1>10, <2>1, <2>2, ResetFields
<1> HIDE DEF rest
<1>13. /\ next \in Loops /\ next.line = rest.line /\ next.boundary = rest.boundary /\ next.event = rest.event
       /\ next.outcome = rest.outcome /\ next.terminal = rest.terminal /\ next.finished = rest.finished
       /\ next.remembered = rest.remembered /\ next.verdict = rest.verdict
       /\ next.pc = (IF Final(item) THEN "ended" ELSE rest.pc) /\ next.cause \in {rest.cause, "upstream"}
       /\ next.eof => item.kind = "eof" \/ rest.eof
       /\ next.connected = rest.connected /\ next.headers = rest.headers
  BY <1>2, <1>12, EndsFields
<1> HIDE DEF next
\* The relay after a line that is noted, whatever is written for it.
<1>14. ASSUME relay' \in Loops, SameKnowledge(relay', next), relay'.pc = next.pc, relay'.cause = next.cause PROVE Absorbs(item, e)
  <2>1. /\ relay'.verdict = Nothing /\ relay'.outcome = Classified(relay, e)
        /\ SaysOf(told, relay, e)
        /\ relay'.terminal = told.terminal /\ relay'.finished = told.finished
        /\ relay'.remembered = told.remembered /\ relay'.cause \in {relay.cause, "upstream"}
    BY <1>3, <1>10, <1>12, <1>13, <1>14 DEF SameKnowledge, SaysOf
  <2>2. relay'.eof => item.kind = "eof" /\ relay'.pc = "ended"
    BY <1>3, <1>10, <1>12, <1>13, <1>14 DEF SameKnowledge, SaysOf, Final
  <2>3. /\ relay'.line = IF item.more THEN "data" ELSE Nothing
        /\ relay'.event = IF item.more THEN relay.event
                          ELSE IF EndsEvent(told, item) THEN Nothing ELSE EventOf(told, item)
        /\ relay'.boundary = rest.boundary /\ relay'.pc = (IF Final(item) THEN "ended" ELSE "select")
    BY <1>1, <1>10, <1>12, <1>13, <1>14 DEF SameKnowledge, SaysOf
  <2>4. /\ EndsEvent(told, item) = EndsEvent(relay, item)
        /\ EndsEvent(relay, item) <=> item.kind = "blank" \/ Final(item)
        /\ ~item.more => (IsBoundary(told, item) <=> LineOf(relay, item) = Nothing)
    BY <1>2, <1>6, <1>11 DEF EndsEvent, IsBoundary, Final
  <2>5. ~item.more => relay'.event = IF item.kind = "data" THEN item.event ELSE Nothing
    BY <1>2, <1>5, <1>52, <1>6, <1>11, <2>3, <2>4 DEF EventOf, Final
  <2>6. ~item.more /\ ~Final(item) => (relay'.boundary <=> item.kind = "blank")
    BY <1>2, <1>6, <1>12, <2>3, <2>4 DEF Final
  <2>7. {relay.event, item.event} \subseteq {Nothing, e, relay'.event}
    BY <1>2, <1>5, <1>51, <1>52, <1>7, <2>3, <2>5 DEF Final
  <2>8. e \notin {Nothing, "cut"} => relay'.event = Nothing /\ relay'.line = Nothing
    BY <1>2, <1>8, <2>3, <2>5 DEF Final
  <2>9. relay'.event \in {Nothing, relay.event, item.event} /\ (relay'.line \in {Nothing, relay.line} \/ item.more)
    BY <2>3, <2>5
  <2>10. /\ relay'.terminal <=> (relay.terminal \/ IsTerminal(e))
         /\ relay'.finished <=> (relay.finished \/ (Converted /\ e \in {"end", "fail"}))
         /\ relay'.remembered <=> (relay.remembered \/ (stream.target = "responses" /\ e = "end"))
    BY <2>1 DEF SaysOf
  <2>11. relay'.pc = "select" => /\ ~Final(item)
                                 /\ relay'.event # Nothing => ~item.more /\ item.kind # "blank"
    BY <1>52, <2>3, <2>5, <1>2
  <2>12. relay'.eof => relay'.event = Nothing
    BY <1>2, <2>2, <2>5 DEF Final
  <2> QED BY <1>14, <2>1, <2>2, <2>3, <2>6, <2>12, <2>7, <2>8, <2>9, <2>10, <2>11 DEF Absorbs
<1>15. next.connected = relay.connected /\ next.headers = relay.headers /\ next.pc = (IF Final(item) THEN "ended" ELSE "select")
  BY <1>1, <1>10, <1>12, <1>13 DEF SaysOf

\* The four ways to go on.
<1>16. \/ /\ Final(item) /\ relay.line = Nothing /\ relay.event = Nothing
          /\ relay' = Ends(relay, item) /\ timers' = timers /\ client' = client
       \/ /\ Refused(relay, e) /\ timers' = timers /\ client' = client
          /\ relay' = [Noted(relay, e) EXCEPT !.pc = "ended", !.cause = "adapter", !.error = TRUE]
       \/ relay.connected /\ \E seen \in Output(relay, item, e) : Sends(next, timers, seen)
       \/ (~relay.connected \/ MayBeSilent(relay, e)) /\ relay' = next /\ timers' = timers /\ client' = client
  BY <1>1, <1>2, <1>6 DEF Takes, SendsNothing, Final, item, e, told, rest, next
<1>17. e = Nothing \/ e = "cut" => /\ Classified(relay, e) = relay.outcome /\ ~IsTerminal(e)
  BY <1>3 DEF Classified, IsTerminal, Loops
<1>18. ASSUME NEW seen \in Output(relay, item, e), relay.connected, ~client.gone
       PROVE  /\ seen \in Clients /\ seen.gone = client.gone /\ ~seen.torn
              /\ seen.shown = Displayed(e) \/ (e = "cut" /\ seen.shown = client.shown)
              /\ Converted => seen.at = client.at
              /\ ~Converted /\ ~Final(item) =>
                   seen.at = IF item.more THEN "line" ELSE IF item.kind = "blank" THEN "between" ELSE "event"
  <2>1. CASE Converted
    <3>1. seen = Shows(client, e)
      BY <1>18, <2>1 DEF Output
    <3> QED BY <1>3, <1>8, <2>1, <3>1, ShowsFields DEF Displayed
  <2>2. CASE ~Converted
    <3>1. seen = SeesLine(client, item, e)
      BY <1>18, <2>2 DEF Output
    <3>2. client.at = "line" => relay.line # Nothing
      BY <1>1, <1>18, <2>2 DEF RelayInv, InSelect, ClientFollows, Place
    <3>3. item \in Finals /\ client.at = "line" => e = "cut"
      BY <1>2, <1>5, <1>7, <3>2 DEF Final
    <3>4. item.more \/ item.kind \in {"data", "comment"} => e = Nothing
      BY <1>2, <1>7 DEF Final
    <3> DEFINE inside == item.kind \in {"data", "comment"} \/ (item \in Finals /\ client.at = "line")
    <3>5. /\ seen \in Clients /\ seen.gone = client.gone /\ seen.torn = client.torn
          /\ seen.at = IF item.more THEN "line" ELSE IF inside THEN "event" ELSE "between"
          /\ seen.shown = IF item.more \/ inside THEN client.shown ELSE Displayed(e)
      BY <1>3, <1>8, <3>1, SeesFields
    <3>6. seen.shown = Displayed(e) \/ (e = "cut" /\ seen.shown = client.shown)
      BY <3>3, <3>4, <3>5 DEF Displayed
    <3>7. ~Final(item) => seen.at = IF item.more THEN "line" ELSE IF item.kind = "blank" THEN "between" ELSE "event"
      BY <1>2, <3>5 DEF Final
    <3> QED BY <1>3, <2>2, <3>5, <3>6, <3>7
  <2> QED BY <2>1, <2>2
<1> DEFINE Followed == Absorbs(item, e) /\ Conveys(item, e) /\ Placed(item) /\ SameIdle(timers', timers)
<1>19. ASSUME Final(item), relay.line = Nothing, relay.event = Nothing,
              relay' = Ends(relay, item), timers' = timers, client' = client
       PROVE  Followed
  <2>1. e = Nothing /\ item.event = Nothing
    BY <1>2, <1>7, <1>19 DEF Final
  <2>2. Absorbs(item, e)
    BY <1>2, <1>3, <1>17, <1>19, <2>1, EndsFields DEF Absorbs
  <2>3. relay'.pc = "ended" /\ relay'.connected = relay.connected /\ relay'.headers = relay.headers
    BY <1>2, <1>3, <1>19, EndsFields
  <2>4. Conveys(item, e) /\ Placed(item)
    BY <1>3, <1>19, <2>1, <2>3 DEF Conveys, Placed
  <2> QED BY <1>3, <1>19, <2>2, <2>4 DEF SameIdle
<1>20. ASSUME Refused(relay, e), timers' = timers, client' = client,
              relay' = [Noted(relay, e) EXCEPT !.pc = "ended", !.cause = "adapter", !.error = TRUE]
       PROVE  Followed
  <2>1. e = "cut" /\ ~relay.finished /\ ~IsTerminal(e) /\ Classified(relay, e) = relay.outcome
    BY <1>17, <1>20 DEF Refused
  <2>2. relay' = [relay EXCEPT !.pc = "ended", !.cause = "adapter", !.error = TRUE]
    BY <1>3, <1>20, <2>1, ZenonT(40) DEF Noted, Loops
  <2>3. relay' \in Loops
    BY <1>3, <2>2 DEF Loops
  <2>4. SameKnowledge(relay', relay) /\ relay'.pc = "ended" /\ relay'.cause = "adapter" /\ relay'.headers = relay.headers /\ relay'.connected = relay.connected
    BY <1>3, <2>2 DEF Loops, SameKnowledge
  <2> HIDE <1>20
  <2>5. Absorbs(item, e)
    BY <1>2, <1>3, <1>5, <1>8, <2>1, <2>3, <2>4 DEF Absorbs, SameKnowledge, Final
  <2>6. Conveys(item, e) /\ Placed(item)
    BY <1>3, <1>20, <2>1, <2>4 DEF Conveys, Placed
  <2> QED BY <1>3, <1>20, <2>5, <2>6 DEF SameIdle
<1>21. ASSUME relay.connected, NEW seen \in Output(relay, item, e), Sends(next, timers, seen)
       PROVE  Followed
  <2>1. CASE client.gone
    <3>1. Sends(next, timers, client)
      BY <1>21, <2>1 DEF Sends
    <3>2. /\ relay' \in Loops /\ SameKnowledge(relay', next) /\ relay'.headers
          /\ relay'.pc = next.pc /\ relay'.cause = next.cause /\ SameIdle(timers', timers) /\ client' \in Clients /\ client'.gone /\ client'.at = client.at
          /\ client'.torn = client.torn /\ client'.shown = client.shown
      BY <1>3, <1>13, <2>1, <3>1, SendsFields
    <3> QED BY <1>3, <1>14, <3>2 DEF Conveys, Placed
  <2>2. CASE ~client.gone
    <3>1. seen \in Clients /\ seen.gone = client.gone /\ ~seen.torn
      BY <1>18, <1>21, <2>2
    <3>2. /\ relay' \in Loops /\ SameKnowledge(relay', next) /\ relay'.headers
          /\ relay'.pc = next.pc /\ relay'.cause = next.cause /\ SameIdle(timers', timers) /\ client' \in Clients
          /\ \/ client' = seen /\ relay'.connected = next.connected
             \/ /\ client'.gone /\ client'.at = client.at /\ client'.torn = client.torn
                /\ client'.shown = client.shown
      BY <1>3, <1>13, <1>21, <3>1, SendsFields
    <3>3. Conveys(item, e)
      BY <1>3, <1>15, <1>18, <1>21, <2>2, <3>1, <3>2 DEF Conveys
    <3>4. Placed(item)
      BY <1>15, <1>18, <1>21, <2>2, <3>1, <3>2 DEF Placed
    <3> QED BY <1>14, <3>2, <3>3, <3>4
  <2> QED BY <2>1, <2>2
<1>22. ASSUME ~relay.connected \/ MayBeSilent(relay, e), relay' = next, timers' = timers, client' = client
       PROVE  Followed
  <2>1. Absorbs(item, e)
    BY <1>13, <1>14, <1>22 DEF SameKnowledge
  <2>2. Conveys(item, e)
    BY <1>3, <1>13, <1>15, <1>22 DEF Conveys, MayBeSilent
  <2>3. Placed(item)
    BY <1>3, <1>22 DEF Placed, MayBeSilent
  <2> QED BY <1>3, <1>22, <2>1, <2>2, <2>3 DEF SameIdle
<1>23. Followed
  BY <1>16, <1>19, <1>20, <1>21, <1>22
<1> HIDE DEF Followed
<1>24. reader' = [at |-> IF Final(item) THEN "gone" ELSE "reading", item |-> NoItem]
  BY <1>1, <1>2
<1> QED BY <1>1, <1>8, <1>23, <1>24 DEF Followed, item

LEMMA TakesKeeps == ASSUME RelayInv, Takes PROVE RelayInv'
<1>1. PICK item \in Fragments \cup Finals, e \in Events :
        /\ relay.pc = "select" /\ reader.at = "offering" /\ item = reader.item
        /\ reader' = [at |-> IF Final(item) THEN "gone" ELSE "reading", item |-> NoItem]
        /\ e \in {Nothing, "cut", relay.event}
        /\ relay.line = Nothing /\ relay.event = Nothing => e = Nothing
        /\ e # Nothing => Final(item) \/ item.kind = "blank"
        /\ Absorbs(item, e) /\ Conveys(item, e) /\ Placed(item)
        /\ SameIdle(timers', timers) /\ UNCHANGED <<stream, wire>>
  BY TakesFields
<1>2. /\ item.kind \in {"data", "comment", "blank", "eof", "error"} /\ item.more \in BOOLEAN
      /\ item.more => item.kind = "data"
      /\ item.kind # "data" \/ item.more => item.event = Nothing
  BY ItemFields
<1>3. reader'.item = NoItem /\ reader'.at = IF Final(item) THEN "gone" ELSE "reading"
  BY <1>1
<1>4. /\ relay.eof = FALSE /\ relay.outcome \in {"open", "billable", "failed"}
      /\ relay.terminal \in BOOLEAN /\ relay.finished \in BOOLEAN
  BY <1>1 DEF RelayInv, Typed, Loops, Knows
<1>5. NoItem.event = Nothing /\ ~NoItem.more
  BY DEF NoItem, Item
<1>6. e # Nothing => item.event = Nothing
  BY <1>1, <1>2 DEF Final
<1>7. Final(item) => item.event = Nothing
  BY <1>2 DEF Final
<1>8. Typed'
  BY <1>1 DEF RelayInv, Typed, Absorbs, Conveys, SameIdle
\* What has been decided stays decided, and a failure comes before the end.
<1>9. /\ relay'.outcome \in {"open", "billable", "failed"}
      /\ relay.outcome = "failed" => relay'.outcome = "failed"
      /\ relay.outcome = "billable" => relay'.outcome = IF e = "fail" THEN "failed" ELSE "billable"
      /\ e = "fail" => relay'.outcome = "failed"
      /\ e \in {"stop", "end"} => relay'.outcome # "open"
      /\ relay'.outcome = "billable" => relay.outcome = "billable" \/ e \in {"stop", "end"}
      /\ relay'.outcome = "failed" => relay.outcome = "failed" \/ e = "fail"
  BY <1>1, <1>4 DEF Absorbs, Classified
<1>10. /\ IsTerminal(e) => e \in {"end", "fail"}
       /\ e = "end" => IsTerminal(e)
  BY DEF IsTerminal
<1>11. e \notin {Nothing, "cut"} => e \in wire.sent
  BY <1>1 DEF RelayInv, Knows
<1>12. "fail" \in wire.sent /\ relay.terminal => relay.outcome = "failed"
  BY DEF RelayInv, Knows
<1>13. relay.terminal => relay.outcome # "open"
  BY DEF RelayInv, Knows
<1>14. relay.terminal /\ relay.outcome = "billable" =>
         e = Nothing /\ relay.event = Nothing /\ relay.line = Nothing /\ item.event = Nothing /\ ~item.more
  BY <1>1 DEF RelayInv, NothingFollows
<1>15. Knows'
  <2>1. {relay'.event, reader'.item.event} \subseteq wire'.sent \cup {Nothing}
    BY <1>1, <1>3, <1>5 DEF RelayInv, Knows, Absorbs
  <2>2. relay'.outcome = "failed" => "fail" \in wire'.sent
    BY <1>1, <1>9, <1>11 DEF RelayInv, Knows
  <2>3. relay'.outcome = "billable" => "stop" \in wire'.sent \/ relay'.terminal
    BY <1>1, <1>9, <1>10, <1>11 DEF RelayInv, Knows, Absorbs
  <2>4. relay'.terminal => relay'.outcome # "open" /\ ("end" \in wire'.sent \/ relay'.outcome = "failed")
    BY <1>1, <1>4, <1>9, <1>10, <1>11, <1>13 DEF RelayInv, Knows, Absorbs
  <2>5. "fail" \in wire.sent => relay.outcome = "failed" \/ "fail" \in {relay.event, item.event}
    BY <1>1 DEF RelayInv, Knows
  <2>6. "fail" \in wire'.sent => relay'.outcome = "failed" \/ relay'.event = "fail"
    BY <1>1, <1>9, <2>5 DEF Absorbs
  <2>7. "fail" \in wire'.sent /\ (relay'.terminal \/ relay'.eof) => relay'.outcome = "failed"
    BY <1>1, <1>6, <1>7, <1>9, <1>10, <1>12, <2>5, <2>6 DEF Absorbs, Final
  <2>8. relay'.eof => relay'.pc = "ended" /\ reader'.at = "gone"
    BY <1>1, <1>3 DEF Absorbs, Final
  <2> QED BY <2>1, <2>2, <2>3, <2>4, <2>6, <2>7, <2>8 DEF Knows
<1>16. NothingFollows'
  BY <1>1, <1>3, <1>4, <1>5, <1>9, <1>10, <1>13, <1>14 DEF NothingFollows, Absorbs
<1>17. Shown'
  <2>1. ~client.gone \/ client'.gone
    BY <1>1 DEF Conveys
  <2>2. /\ ~client'.gone => relay'.connected
        /\ client'.shown # Nothing => relay'.headers
    BY <1>1 DEF Conveys, RelayInv, Shown
  <2>3. /\ ~client.gone /\ relay.outcome = "failed" => client.shown = "fail"
        /\ client.shown = "fail" => relay.outcome = "failed"
        /\ client.shown = "end" => relay.outcome = "billable" /\ relay.terminal
        /\ ~client.gone /\ relay.outcome = "billable" /\ (relay.terminal \/ relay.finished) => client.shown = "end"
        /\ relay.finished => Converted /\ (relay.terminal \/ relay.outcome = "failed")
        /\ client.shown = "end" /\ stream.target = "responses" => relay.remembered
    BY <1>1, <1>4 DEF RelayInv, Shown
  <2>4. relay.terminal /\ e = "fail" => relay.outcome = "failed"
    BY <1>11, <1>12
  <2>5. client'.shown = "fail" => relay'.outcome = "failed"
    BY <1>1, <1>9, <2>3 DEF Conveys, Displayed
  <2>6. client'.shown = "end" => relay'.outcome = "billable" /\ relay'.terminal
    BY <1>1, <1>4, <1>9, <1>10, <2>3, <2>4 DEF Conveys, Displayed, Absorbs
  <2>7. client'.shown = "end" /\ stream.target = "responses" => relay'.remembered
    BY <1>1, <2>3 DEF Conveys, Displayed, Absorbs
  <2>8. ~client'.gone /\ relay'.outcome = "failed" => client'.shown = "fail"
    BY <1>1, <1>9, <2>1, <2>3, <2>4 DEF Conveys, Displayed
  <2>9. ~client'.gone /\ relay'.outcome = "billable" /\ (relay'.terminal \/ relay'.finished) => client'.shown = "end"
    <3>1. CASE relay.terminal \/ relay.finished
      BY <1>1, <1>4, <1>9, <1>13, <1>14, <2>1, <2>3, <3>1 DEF Conveys, Displayed
    <3>2. CASE ~relay.terminal /\ ~relay.finished
      BY <1>1, <1>9, <1>10, <2>1, <2>3, <3>2 DEF Conveys, Displayed, Absorbs
    <3> QED BY <3>1, <3>2
  <2>10. relay'.finished => Converted /\ (relay'.terminal \/ relay'.outcome = "failed")
    BY <1>1, <1>9, <1>10, <2>3 DEF Absorbs
  <2> QED BY <1>1, <2>2, <2>5, <2>6, <2>7, <2>8, <2>9, <2>10 DEF Shown, Converted
<1>18. InSelect'
  BY <1>1, <1>2, <1>3 DEF RelayInv, InSelect, Positions, ClientFollows, Place, Absorbs, Placed, Converted, Final
<1>19. ~client'.torn /\ Concluded'
  BY <1>1 DEF Conveys, Concluded, Absorbs
<1> QED BY <1>8, <1>15, <1>16, <1>17, <1>18, <1>19 DEF RelayInv

-----------------------------------------------------------------------------
LEMMA StepKeeps == RelayInv /\ [RelayNext]_relayVars => RelayInv'
<1> SUFFICES ASSUME RelayInv, [RelayNext]_relayVars PROVE RelayInv'
  OBVIOUS
<1>1. CASE UNCHANGED relayVars
  BY <1>1, OnlyTimers DEF relayVars, RelayInv, Typed
<1>2. CASE ReaderStep
  BY <1>2, ReadsKeeps, ReaderKeeps DEF ReaderStep
<1>3. CASE RelayStep
  BY <1>3, TakesKeeps, LoopKeeps, FinalFrameKeeps, ConcludesKeeps DEF RelayStep
<1>4. CASE TimePasses \/ ClientLeaves
  BY <1>4, TimeKeeps, ClientKeeps
<1> QED BY <1>1, <1>2, <1>3, <1>4 DEF RelayNext

(* The inductive invariant of the relay: where reader, loop and client are  *)
(* in the text of the upstream, and what each knows of its end.             *)
THEOREM RelayInvariant == RelaySpec => []RelayInv
<1>1. RelayInit => RelayInv
  BY InitInv
<1> QED BY <1>1, StepKeeps, PTL DEF RelaySpec

(* A heartbeat is only written when the loop is between two events, and     *)
(* then the client is (handler.go:1345).                                    *)
THEOREM BeatTheorem == RelaySpec => []NoBeatInsideEvent
<1>1. RelayInv => NoBeatInsideEvent
  BY DEF RelayInv, NoBeatInsideEvent
<1> QED BY <1>1, RelayInvariant, PTL

(* The history has every answer a client was shown the end of.              *)
THEOREM RememberedTheorem == RelaySpec => []ShownIsRemembered
<1>1. RelayInv => ShownIsRemembered
  BY DEF RelayInv, Shown, ShownIsRemembered
<1> QED BY <1>1, RelayInvariant, PTL

(* The verdict is what the upstream said and what the client was shown, for *)
(* any protocols and any order of lines, timers, failures and departures.   *)
THEOREM VerdictTheorem == RelaySpec => []VerdictIsJust
<1>1. ASSUME RelayInv, relay.verdict # Nothing PROVE AgreesWithWire /\ AgreesWithClient
  <2>1. /\ relay.verdict = Verdict /\ ~Finalizes
        /\ relay.outcome \in {"open", "billable", "failed"} /\ relay.eof \in BOOLEAN
    BY <1>1 DEF RelayInv, Concluded, Typed, Loops
  <2>2. relay.verdict = "failed" <=> relay.outcome = "failed"
    BY <2>1 DEF Verdict
  <2>3. relay.verdict = "settled" => relay.outcome = "billable" /\ (relay.eof \/ relay.terminal)
    BY <2>1 DEF Verdict
  <2>4. relay.verdict = "unknown" /\ relay.terminal => Converted /\ ~relay.headers /\ relay.error
    BY <1>1, <2>1 DEF Verdict, RelayInv, Knows
  <2>5. client.shown = "end" => relay.verdict = "settled"
    BY <1>1, <2>1 DEF Verdict, RelayInv, Shown
  <2>6. AgreesWithWire
    BY <1>1, <2>2, <2>3, <2>4 DEF AgreesWithWire, RelayInv, Knows
  <2>7. relay.verdict = "settled" /\ ~client.gone => client.shown = "end" \/ (~Converted /\ "stop" \in wire.sent)
    BY <1>1, <2>1, <2>3 DEF Finalizes, RelayInv, Knows, Shown
  <2>8. client.shown = "fail" => relay.verdict = "failed"
    BY <1>1, <2>2 DEF RelayInv, Shown
  <2> QED BY <2>5, <2>6, <2>7, <2>8 DEF AgreesWithClient
<1>2. RelayInv => VerdictIsJust
  BY <1>1 DEF VerdictIsJust
<1> QED BY <1>2, RelayInvariant, PTL

-----------------------------------------------------------------------------
(* The idle timer.                                                          *)
LEMMA IdleStep ==
  ASSUME ~SlowClients, RelayInv, IdleInv, [RelayNext]_relayVars
  PROVE  IdleInv'
<1>1. CASE UNCHANGED relayVars
  BY <1>1 DEF relayVars, IdleInv
<1>2. CASE ReaderStep
  <2>1. timers' = timers \/ (stream.idle /\ timers' = Heard)
    BY <1>2 DEF ReaderStep, Reads, Line, BytesArrive, ReadEnds, ReaderLeaves, Heard
  <2>2. timers \in Timers /\ relay' = relay
    BY <1>2 DEF ReaderStep, Reads, BytesArrive, ReadEnds, ReaderLeaves, RelayInv, Typed
  <2>3. stream.idle => /\ Heard.idle = timers.idle /\ Heard.activity
                       /\ timers.elapsed /\ timers.idle = "fired" => Heard.elapsed
    BY <2>2 DEF Heard, Timers
  <2> QED BY <2>1, <2>2, <2>3 DEF IdleInv
<1>3. CASE TimePasses
  <2>1. timers \in Timers /\ relay' = relay
    BY <1>3 DEF TimePasses, RelayInv, Typed
  <2> QED BY <1>3, <2>1 DEF TimePasses, DrainFires, IdleFires, DeadlinePasses, IdleInv, Timers
<1>4. CASE ClientLeaves
  BY <1>4 DEF ClientLeaves, IdleInv
<1>5. CASE RelayStep
  <2>1. relay \in Loops /\ timers \in Timers /\ client \in Clients
    BY DEF RelayInv, Typed
  <2>2. CASE Takes
    <3>1. PICK item \in Fragments \cup Finals, e \in Events :
            relay.pc = "select" /\ Absorbs(item, e) /\ SameIdle(timers', timers)
      BY <2>2, TakesFields
    <3>2. relay'.cause # "idle"
      BY <3>1 DEF Absorbs, IdleInv
    <3> QED BY <3>1, <3>2 DEF IdleInv, SameIdle
  <2>3. CASE SeesDisconnect \/ NotesActivity
    BY <2>1, <2>3, ZenonT(40) DEF SeesDisconnect, NotesActivity, Selects, SendsNothing, IdleInv, Loops, Timers
  <2>4. CASE Drains \/ RunsOut \/ Idles
    BY <2>1, <2>4, ZenonT(40) DEF Drains, RunsOut, Idles, Stops, SendsNothing, Selects, IdleInv, Loops, Timers
  <2>5. CASE Beats
    <3>1. SeesBeat(client) \in Clients
      BY <2>1 DEF SeesBeat, Clients
    <3>2. relay'.cause = relay.cause /\ relay'.pc = relay.pc /\ SameIdle(timers', timers)
      BY <2>1, <2>5, <3>1, SendsFields DEF Beats
    <3> QED BY <3>2 DEF IdleInv, SameIdle
  <2>6. CASE FinalFrame
    <3> DEFINE said == [relay EXCEPT !.finished = TRUE, !.remembered = @ \/ stream.target = "responses"]
    <3>1. said \in Loops /\ said.cause = relay.cause /\ said.pc = relay.pc
      BY <2>1 DEF Loops
    <3>2. Shows(client, "end") \in Clients
      BY <2>1, ShowsFields
    <3>3. \/ Sends(said, timers, Shows(client, "end"))
          \/ relay' = said /\ timers' = timers
      BY <2>6 DEF FinalFrame, SendsNothing
    <3> HIDE DEF said
    <3>4. relay'.cause = relay.cause /\ relay'.pc = relay.pc /\ SameIdle(timers', timers)
      BY <2>1, <3>1, <3>2, <3>3, SendsFields DEF SameIdle
    <3> QED BY <3>4 DEF IdleInv, SameIdle
  <2>7. CASE Concludes
    BY <2>1, <2>7 DEF Concludes, SendsNothing, IdleInv, Loops, Timers
  <2> QED BY <1>5, <2>2, <2>3, <2>4, <2>5, <2>6, <2>7 DEF RelayStep
<1> QED BY <1>1, <1>2, <1>3, <1>4, <1>5 DEF RelayNext

(* An idle timeout ends a stream only after a period of silence, where no   *)
(* write to a client takes as long as the timeout.                          *)
THEOREM IdleTheorem == ASSUME ~SlowClients PROVE RelaySpec => []IdleMeansSilence
<1>1. RelayInit => IdleInv
  BY InitInv
<1>2. IdleInv /\ RelayInv /\ [RelayNext]_relayVars => IdleInv'
  BY IdleStep
<1>3. IdleInv => IdleMeansSilence
  BY DEF IdleInv, IdleMeansSilence
<1> QED BY <1>1, <1>2, <1>3, RelayInvariant, PTL DEF RelaySpec
=============================================================================
