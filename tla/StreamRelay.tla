---------------------------- MODULE StreamRelay -----------------------------
(***************************************************************************)
(* The relay of one stream, Handler.streamResponse: a goroutine that reads  *)
(* lines of the upstream, the loop that takes them one by one beside four   *)
(* timers, and a client that may leave at any time.  The loop goes on after *)
(* the client has left, to learn what the stream costs; what it has seen    *)
(* when it ends decides whether the request is paid for.                    *)
(*                                                                          *)
(* An event is a line of data and a blank line; ReadLine returns a long     *)
(* line in fragments.  A client of another protocol than the upstream is    *)
(* sent whole events, written by the adapter; any other client is sent the  *)
(* fragments as they come.  maxUpstreamBodyBytes is 0 in the program, so no *)
(* line is too long.  StreamConversion models what the adapter writes;      *)
(* here an event is only what the relay tells apart:                        *)
(*   more    it goes on                 stop  a Chat finish_reason          *)
(*   end     the protocol's end         fail  an error of the upstream      *)
(*   cut     data that is no JSON                                           *)
(* An answer that is incomplete ends the protocol too, but no turn is       *)
(* remembered of it, nor of one too large: the end here is that of an       *)
(* answer the history keeps.                                                *)
(***************************************************************************)
EXTENDS Naturals

CONSTANTS
  Streams,     \* protocols of upstream and client, timeouts configured
  MaxLines,    \* bound on the fragments an upstream sends
  SlowClients  \* whether writing to a client can take as long as the idle timeout

Protocols == {"chat_completions", "messages", "responses"}

ASSUME StreamRelayAssumption ==
  /\ Streams \subseteq [source : Protocols, target : Protocols, idle : BOOLEAN, total : BOOLEAN]
  /\ MaxLines \in Nat /\ SlowClients \in BOOLEAN

Kinds == {"more", "stop", "end", "fail", "cut"}
Nothing == "nothing"

VARIABLES
  stream,  \* the stream that is relayed
  wire,    \* the upstream: where it is in its text, the events it has sent
  reader,  \* the goroutine that reads, and the line it offers
  relay,   \* the variables of streamResponse
  timers,  \* the timers and channels of its select
  client   \* whether the client is there, and what it has been sent

relayVars == <<stream, wire, reader, relay, timers, client>>

Converted == stream.source # stream.target

Item(kind, more, event) == [kind |-> kind, more |-> more, event |-> event]
NoItem == Item(Nothing, FALSE, Nothing)
Finals == {Item("eof", FALSE, Nothing), Item("error", FALSE, Nothing)}

RelayInit ==
  /\ stream \in Streams
  /\ wire = [at |-> "between", sent |-> {}, lines |-> 0]
  /\ reader = [at |-> "reading", item |-> NoItem]
  /\ relay = [pc |-> "select", line |-> Nothing, boundary |-> TRUE, event |-> Nothing,
              outcome |-> "open", terminal |-> FALSE, eof |-> FALSE, error |-> FALSE,
              finished |-> FALSE, remembered |-> FALSE, headers |-> ~Converted,
              connected |-> TRUE, watching |-> TRUE, cause |-> Nothing, verdict |-> Nothing]
  /\ timers = [drain |-> "off", idle |-> IF stream.idle THEN "running" ELSE "off",
               cancelled |-> FALSE, activity |-> FALSE, quiet |-> TRUE, elapsed |-> FALSE]
  /\ client = [gone |-> FALSE, at |-> "between", torn |-> FALSE, shown |-> Nothing]

-----------------------------------------------------------------------------
(* The upstream and the goroutine that reads it.  Nothing follows the end   *)
(* of the protocol but the end of the body.                                 *)

Ended == "end" \in wire.sent

EventsOf(source) == IF source = "chat_completions" THEN Kinds ELSE Kinds \ {"stop"}

\* Some bytes came: one token in the channel activityC, if there is one.
Heard == IF ~stream.idle THEN timers
         ELSE [timers EXCEPT !.activity = TRUE, !.quiet = FALSE,
                             !.elapsed = timers.elapsed /\ timers.idle = "fired"]

Offers(item) == reader.at = "reading" /\ reader' = [at |-> "offering", item |-> item]

Line(place, item) ==
  /\ ~timers.cancelled /\ wire.lines < MaxLines
  /\ Offers(item)
  /\ wire' = [at |-> place, lines |-> wire.lines + 1,
              sent |-> IF item.event = Nothing THEN wire.sent ELSE wire.sent \cup {item.event}]
  /\ timers' \in {timers, Heard}

Reads ==
  /\ \/ /\ wire.at \in {"between", "line"} /\ ~Ended
        /\ \/ Line("line", Item("data", TRUE, Nothing))
           \/ \E e \in EventsOf(stream.source) : Line("event", Item("data", FALSE, e))
     \/ wire.at = "between" /\ Line("event", Item("comment", FALSE, Nothing))
     \/ wire.at = "event" /\ Line("between", Item("blank", FALSE, Nothing))
  /\ UNCHANGED <<stream, relay, client>>

BytesArrive ==
  /\ reader.at = "reading" /\ stream.idle /\ ~timers.cancelled
  /\ timers' = Heard
  /\ UNCHANGED <<stream, wire, reader, relay, client>>

\* The body ends, the connection breaks, or reading was cancelled.
ReadEnds ==
  /\ \E item \in Finals : (item.kind = "eof" => ~timers.cancelled) /\ Offers(item)
  /\ UNCHANGED <<stream, wire, relay, timers, client>>

ReaderLeaves ==
  /\ reader.at # "gone" /\ timers.cancelled
  /\ reader' = [at |-> "gone", item |-> NoItem]
  /\ UNCHANGED <<stream, wire, relay, timers, client>>

-----------------------------------------------------------------------------
(* What a client makes of a write.                                          *)

Shows(c, e) ==
  IF e = Nothing \/ c.shown = "fail" THEN c
  ELSE [c EXCEPT !.shown = IF e \in {"end", "fail"} THEN e ELSE "more"]

\* A blank line hands the event to the client's code.  The line break the
\* relay adds at the end of the body ends a line or stands for a blank one.
SeesLine(c, item, e) ==
  IF item.more THEN [c EXCEPT !.at = "line"]
  ELSE IF item.kind \in {"data", "comment"} \/ (item \in Finals /\ c.at = "line")
       THEN [c EXCEPT !.at = "event"]
       ELSE Shows([c EXCEPT !.at = "between"], e)

SeesBeat(c) == [c EXCEPT !.torn = @ \/ c.at # "between"]

\* After a write that failed the client is lost, and nothing is sent any more.
StartsDrain(t) == [t EXCEPT !.drain = IF @ = "off" THEN "running" ELSE @]

Disconnected(s) == [s EXCEPT !.error = TRUE, !.connected = FALSE, !.watching = FALSE]

-----------------------------------------------------------------------------
(* One line in the loop.                                                    *)

LineOf(s, item) == IF s.line # Nothing THEN s.line
                   ELSE IF item.kind \in {"data", "comment"} THEN item.kind ELSE Nothing

\* The event as far as it has been read; a body that ends inside a line cuts it.
EventOf(s, item) ==
  IF item.more \/ LineOf(s, item) # "data" THEN s.event
  ELSE IF item \in Finals THEN "cut" ELSE item.event

IsBoundary(s, item) == ~item.more /\ LineOf(s, item) = Nothing

EndsEvent(s, item) == IsBoundary(s, item) \/ item \in Finals

\* The event this line completes.
Complete(s, item) == IF EndsEvent(s, item) THEN EventOf(s, item) ELSE Nothing

\* A variant in which the first verdict stays.
FirstClassified(s, e) ==
  IF s.outcome # "open" THEN s.outcome
  ELSE IF e = "fail" THEN "failed"
  ELSE IF e \in {"stop", "end"} THEN "billable" ELSE "open"

\* classifyStreamEvent: a failure overrides, the first verdict stays otherwise.
Classified(s, e) ==
  CASE e = "fail" -> "failed"
    [] e \in {"stop", "end"} /\ s.outcome = "open" -> "billable"
    [] OTHER -> s.outcome

IsTerminal(e) == e = "end" \/ (e = "fail" /\ stream.source # "chat_completions")

Refused(s, e) == Converted /\ ~s.finished /\ e = "cut"

Noted(s, e) == [s EXCEPT !.outcome = Classified(s, e), !.terminal = @ \/ IsTerminal(e)]

\* A variant that remembers a turn when the next line is read.
ToldFirst(s, e) ==
  LET finished == s.finished \/ (Converted /\ e \in {"end", "fail"})
  IN  [Noted(s, e) EXCEPT
         !.error = IF Converted /\ e # Nothing THEN FALSE ELSE @,
         !.finished = finished,
         !.remembered = @ \/ (stream.target = "responses" /\ s.terminal)]

\* Translate, and the history of the responses endpoint.
Told(s, e) ==
  LET finished == s.finished \/ (Converted /\ e \in {"end", "fail"})
  IN  [Noted(s, e) EXCEPT
         !.error = IF Converted /\ e # Nothing THEN FALSE ELSE @,
         !.finished = finished,
         !.remembered = @ \/ (stream.target = "responses" /\ e = "end")]

Ends(s, item) ==
  IF item \notin Finals THEN s
  ELSE [s EXCEPT !.pc = "ended", !.cause = "upstream", !.eof = item.kind = "eof",
                 !.error = @ \/ item.kind = "error"]

\* The end of an iteration: what the next line finds.
Reset(s, item) ==
  IF item.more THEN [s EXCEPT !.line = LineOf(s, item)]
  ELSE [s EXCEPT !.line = Nothing, !.boundary = IsBoundary(s, item),
                 !.event = IF EndsEvent(s, item) THEN Nothing ELSE EventOf(s, item)]

\* What the client may be sent for this line: the frame of the adapter, which
\* may have nothing to say before the end, or the fragment itself.
Output(s, item, e) ==
  IF ~Converted THEN {SeesLine(client, item, e)}
  ELSE IF s.finished THEN {}
  ELSE {Shows(client, f) : f \in {e} \ {Nothing}}

MayBeSilent(s, e) == Converted /\ (s.finished \/ e \in {Nothing, "more", "stop"})

\* The relay goes on as s and t, with a write or without.
Sends(s, t, seen) ==
  \E ok \in BOOLEAN :
    LET sent == [s EXCEPT !.headers = TRUE]
    IN  /\ client' = IF client.gone \/ ~ok THEN [client EXCEPT !.gone = TRUE] ELSE seen
        /\ relay' = IF ok THEN sent ELSE Disconnected(sent)
        /\ timers' = IF ok THEN t ELSE StartsDrain(t)

SendsNothing(s, t) == relay' = s /\ timers' = t /\ UNCHANGED client

Selects == relay.pc = "select"

Takes ==
  /\ Selects /\ reader.at = "offering"
  /\ reader' = [at |-> IF reader.item \in Finals THEN "gone" ELSE "reading", item |-> NoItem]
  /\ LET item == reader.item
         e == Complete(relay, item)
         next == Ends(Reset(Told(relay, e), item), item)
     IN  CASE item \in Finals /\ LineOf(relay, item) = Nothing /\ relay.event = Nothing ->
                SendsNothing(Ends(relay, item), timers)
           [] Refused(relay, e) ->
                SendsNothing([Noted(relay, e) EXCEPT !.pc = "ended", !.cause = "adapter", !.error = TRUE], timers)
           [] OTHER ->
                \/ relay.connected /\ \E seen \in Output(relay, item, e) : Sends(next, timers, seen)
                \/ (~relay.connected \/ MayBeSilent(relay, e)) /\ SendsNothing(next, timers)
  /\ UNCHANGED <<stream, wire>>

-----------------------------------------------------------------------------
(* The other cases of the select.                                           *)

\* A variant that leaves the drain timer to a write that fails.
SeesDisconnectOnly ==
  /\ Selects /\ client.gone /\ relay.watching
  /\ SendsNothing([relay EXCEPT !.connected = FALSE, !.watching = FALSE], timers)
  /\ UNCHANGED <<stream, wire, reader>>

SeesDisconnect ==
  /\ Selects /\ client.gone /\ relay.watching
  /\ SendsNothing([relay EXCEPT !.connected = FALSE, !.watching = FALSE], [timers EXCEPT !.drain = "running"])
  /\ UNCHANGED <<stream, wire, reader>>

Stops(cause) ==
  /\ Selects
  /\ SendsNothing([relay EXCEPT !.pc = "ended", !.cause = cause, !.error = TRUE],
                  [timers EXCEPT !.cancelled = TRUE])
  /\ UNCHANGED <<stream, wire, reader>>

Drains == timers.drain = "fired" /\ Stops("drain")
Idles == timers.idle = "fired" /\ Stops("idle")
RunsOut == stream.total /\ timers.cancelled /\ Stops("deadline")

\* A variant that does not start the period again.
NotesOnly ==
  /\ Selects /\ timers.activity
  /\ SendsNothing(relay, [timers EXCEPT !.activity = FALSE])
  /\ UNCHANGED <<stream, wire, reader>>

\* resetIdleTimer takes back a timer that has fired and was not seen to.
NotesActivity ==
  /\ Selects /\ timers.activity
  /\ SendsNothing(relay, [timers EXCEPT !.activity = FALSE, !.idle = "running", !.quiet = TRUE])
  /\ UNCHANGED <<stream, wire, reader>>

\* A variant that only looks at whole lines.
MayBeatInLine == relay.connected /\ relay.headers /\ relay.boundary

MayBeat == /\ relay.connected /\ relay.headers
           /\ relay.boundary /\ relay.line = Nothing

Beats ==
  /\ Selects /\ MayBeat
  /\ Sends(relay, timers, SeesBeat(client))
  /\ UNCHANGED <<stream, wire, reader>>

-----------------------------------------------------------------------------
(* After the loop: the adapter's last words for a Chat upstream that sent   *)
(* no [DONE], the verdict, and the deferred cancelUpstream.                 *)

Finalizes == Converted /\ relay.eof /\ relay.outcome = "billable" /\ ~relay.finished

\* A variant that trusts a finish_reason although the stream broke off after it.
VerdictWithoutEnd ==
  IF relay.outcome = "failed" THEN "failed"
  ELSE IF relay.outcome = "open" \/ (Converted /\ ~relay.headers /\ relay.error)
       THEN "unknown" ELSE "settled"

Verdict ==
  IF relay.outcome = "failed" THEN "failed"
  ELSE IF \/ Converted /\ ~relay.headers /\ relay.error
          \/ relay.outcome = "open"
          \/ ~relay.eof /\ ~relay.terminal
       THEN "unknown" ELSE "settled"

FinalFrame ==
  /\ relay.pc = "ended" /\ Finalizes
  /\ LET said == [relay EXCEPT !.finished = TRUE, !.remembered = @ \/ stream.target = "responses"]
     IN  IF relay.connected THEN Sends(said, timers, Shows(client, "end")) ELSE SendsNothing(said, timers)
  /\ UNCHANGED <<stream, wire, reader>>

Concludes ==
  /\ relay.pc = "ended" /\ ~Finalizes /\ relay.verdict = Nothing
  /\ SendsNothing([relay EXCEPT !.verdict = Verdict], [timers EXCEPT !.cancelled = TRUE])
  /\ UNCHANGED <<stream, wire, reader>>

-----------------------------------------------------------------------------
(* Time, and the client.  Between the arrival of a byte and the reset of    *)
(* the idle timer no time passes, unless a write to the client takes long.  *)

DrainFires == timers.drain = "running" /\ timers' = [timers EXCEPT !.drain = "fired"]

IdleFires ==
  /\ timers.idle = "running" /\ (SlowClients \/ ~timers.activity)
  /\ timers' = [timers EXCEPT !.idle = "fired", !.elapsed = timers.quiet]

DeadlinePasses == stream.total /\ ~timers.cancelled /\ timers' = [timers EXCEPT !.cancelled = TRUE]

TimePasses ==
  /\ relay.verdict = Nothing
  /\ DrainFires \/ IdleFires \/ DeadlinePasses
  /\ UNCHANGED <<stream, wire, reader, relay, client>>

ClientLeaves ==
  /\ ~client.gone
  /\ client' = [client EXCEPT !.gone = TRUE]
  /\ UNCHANGED <<stream, wire, reader, relay, timers>>

ReaderStep == Reads \/ BytesArrive \/ ReadEnds \/ ReaderLeaves
RelayStep == Takes \/ SeesDisconnect \/ Drains \/ Idles \/ RunsOut \/ NotesActivity \/ Beats \/ FinalFrame \/ Concludes

RelayNext == ReaderStep \/ RelayStep \/ TimePasses \/ ClientLeaves

RelaySpec == RelayInit /\ [][RelayNext]_relayVars

\* The select takes any case that stays ready, sooner or later; the drain timer
\* runs out; a read that was cancelled returns.  Nothing makes an upstream send.
RelayFairness ==
  /\ WF_relayVars(SeesDisconnect) /\ WF_relayVars(Drains)
  /\ WF_relayVars(TimePasses /\ DrainFires)
  /\ WF_relayVars(FinalFrame) /\ WF_relayVars(Concludes)
  /\ WF_relayVars(ReaderLeaves)

-----------------------------------------------------------------------------
(* Properties.                                                              *)

RelayTypeOK ==
  /\ wire \in [at : {"between", "line", "event"}, sent : SUBSET Kinds, lines : 0..MaxLines]
  /\ reader.at \in {"reading", "offering", "gone"}
  /\ reader.item \in Finals \cup {NoItem} \cup [kind : {"data", "comment", "blank"}, more : BOOLEAN, event : Kinds \cup {Nothing}]
  /\ relay.pc \in {"select", "ended"}
  /\ relay.line \in {Nothing, "data", "comment"} /\ relay.event \in Kinds \cup {Nothing}
  /\ relay.outcome \in {"open", "billable", "failed"}
  /\ relay.cause \in {Nothing, "upstream", "adapter", "drain", "idle", "deadline"}
  /\ relay.verdict \in {Nothing, "settled", "failed", "unknown"}
  /\ timers.drain \in {"off", "running", "fired"} /\ timers.idle \in {"off", "running", "fired"}
  /\ client.at \in {"between", "line", "event"} /\ client.shown \in {Nothing, "more", "end", "fail"}

(* A heartbeat never falls inside an event: a client that is sent fragments *)
(* as they come could otherwise take half an event for a whole one          *)
(* (docs/admin-console.md:209).                                             *)
NoBeatInsideEvent == ~client.torn

(* A stream is paid for only when the upstream said it had stopped, no      *)
(* error was on the wire, and all of it was read or its end was; one that   *)
(* failed is not paid for; and one whose end the relay has read is paid for *)
(* whatever happens to the client or the timers.  The exception: a client   *)
(* of another protocol that left before the first frame, and a relay that   *)
(* then ended with an error (handler.go:1547).                              *)
AgreesWithWire ==
  /\ relay.verdict = "settled" => /\ wire.sent \cap {"stop", "end"} # {} /\ "fail" \notin wire.sent
                                  /\ relay.eof \/ "end" \in wire.sent
  /\ relay.verdict = "failed" => "fail" \in wire.sent
  /\ relay.verdict = "unknown" /\ relay.terminal => Converted /\ ~relay.headers /\ relay.error

(* The client and the ledger agree: a client that was shown the end of its  *)
(* answer pays for it, one that was shown an error does not, and a client   *)
(* still there pays only for an answer it was shown the end of, or one that *)
(* a Chat upstream ended without [DONE].                                    *)
AgreesWithClient ==
  /\ client.shown = "end" => relay.verdict = "settled"
  /\ client.shown = "fail" => relay.verdict = "failed"
  /\ relay.verdict = "settled" /\ ~client.gone => client.shown = "end" \/ (~Converted /\ "stop" \in wire.sent)

(* The verdict, once there is one, is what the upstream said and what the   *)
(* client was shown, whoever left, failed or ran out of time first.         *)
VerdictIsJust == relay.verdict # Nothing => AgreesWithWire /\ AgreesWithClient

(* A client of the responses endpoint can refer to an answer as soon as it  *)
(* has been shown its end: the relay remembers the turn before it writes    *)
(* the terminal event (handler.go:1434).                                    *)
ShownIsRemembered == client.shown = "end" /\ stream.target = "responses" => relay.remembered

(* The idle timeout ends a stream only after a whole period in which no     *)
(* byte came, whatever the order in which the loop sees timer and bytes     *)
(* (docs/admin-console.md:210).                                             *)
IdleMeansSilence == relay.cause = "idle" => timers.elapsed

(* Once the client has left, the relay ends within the drain timeout and    *)
(* the reading goroutine is gone, even if the upstream says nothing more    *)
(* and no other timeout is configured.                                      *)
DisconnectFreesAll == client.gone ~> (relay.verdict # Nothing /\ reader.at = "gone")
=============================================================================
