-------------------------- MODULE StreamConversion --------------------------
(***************************************************************************)
(* A stream on its way through the adapter: an upstream that speaks one     *)
(* protocol, the adapter, and a client that reads another one.              *)
(*                                                                          *)
(* The decoder (decodeProtocolStreamDelta) turns each event of the upstream *)
(* into a delta.  Messages and Responses send one block after the other; a  *)
(* chunk of Chat may carry several things, and its tool calls may be filled *)
(* in any order until something else is said.  A sparse upstream speaks     *)
(* Responses and leaves the deltas out: what it says is in the events that  *)
(* end a part and in the terminal event.                                    *)
(***************************************************************************)
EXTENDS StreamAdapter

CONSTANTS
  Conversions,  \* pairs of protocols: of the upstream and of the client
  ReasoningChars, TextChars, \* what one delta of each kind can carry
  Citations,
  CallIds,      \* identifiers an upstream gives to tool calls
  MaxBlocks, MaxChunks, MaxReasoning, MaxText, MaxArguments \* bounds of one answer

Protocols == {"chat_completions", "messages", "responses"}

ASSUME StreamConversionAssumption ==
  /\ Conversions \subseteq {c \in Protocols \X Protocols : c[1] # c[2]}
  /\ NoId \notin CallIds

VARIABLES
  up,      \* the upstream
  adapter, \* the protocolStreamAdapter of the relay
  client   \* what the client has made of the events so far

streamVars == <<up, adapter, client>>

-----------------------------------------------------------------------------

\* said: everything the upstream has told, streamed or not.  run: the first of
\* the parallel tool calls of a chat.  late: what a sparse upstream will tell
\* in its terminal event.
NewUpstream(sparse) == [
  sparse |-> sparse, greeted |-> FALSE, stopped |-> FALSE, over |-> FALSE,
  blocks |-> 0, block |-> "none", silent |-> FALSE, run |-> 1,
  late |-> [text |-> <<>>, searches |-> <<>>],
  said |-> [reasoning |-> <<>>, text |-> <<>>, refusal |-> <<>>, notes |-> {}, tools |-> <<>>, searches |-> {}]]

StreamInit ==
  \E conversion \in Conversions, sparse \in BOOLEAN :
    /\ sparse => conversion[1] = "responses"
    /\ up = NewUpstream(sparse)
    /\ adapter = NewAdapter(conversion)
    /\ client = NewClient

\* The relay passes a delta to the adapter and what it writes to the client.
Relay(next) ==
  /\ adapter' = [next EXCEPT !.out = <<>>]
  /\ client' = FoldLeft(Receive, client, next.out)

Sends(d) == Relay(Translate(adapter, d))

InBlocks == ~up.over /\ adapter.source \in {"messages", "responses"}
Within(kind) == InBlocks /\ up.block = kind

Hello ==
  /\ ~up.over /\ ~up.greeted /\ up.blocks = 0
  /\ up' = [up EXCEPT !.greeted = TRUE]
  /\ Sends([Silence EXCEPT !.hello = TRUE])

Kinds ==
  IF adapter.source = "messages" THEN {"reasoning", "text"}
  ELSE IF up.sparse THEN {"text", "refusal"} ELSE {"reasoning", "text", "refusal"}

Told(kind, data) == [up EXCEPT !.said[kind] = @ \o data, !.silent = FALSE]

Refusal == <<"no">>

Says(kind) ==
  CASE kind = "reasoning" -> {<<c>> : c \in IF Len(up.said.reasoning) < MaxReasoning THEN ReasoningChars ELSE {}}
    [] kind = "text" -> {<<c>> : c \in IF Len(up.said.text) < MaxText THEN TextChars ELSE {}}
    [] kind = "refusal" -> IF up.said.refusal = <<>> THEN {Refusal} ELSE {}

BeginBlock(kind) ==
  /\ Within("none") /\ up.blocks < MaxBlocks /\ kind \in Kinds /\ Says(kind) # {}
  /\ up' = [up EXCEPT !.blocks = @ + 1, !.block = kind, !.silent = TRUE]
  /\ Sends(Silence)

BlockDelta(kind) ==
  /\ Within(kind) /\ ~up.sparse
  /\ \E data \in Says(kind) :
       /\ up' = Told(kind, data)
       /\ Sends([Silence EXCEPT ![kind] = data])

Cite(note) ==
  /\ Within("text") /\ ~up.sparse
  /\ up' = [up EXCEPT !.said.notes = @ \cup {note}]
  /\ Sends([Silence EXCEPT !.notes = <<note>>])

\* A block that was opened has a content.
EndBlock(kind) ==
  /\ Within(kind) /\ ~up.sparse /\ ~up.silent
  /\ up' = [up EXCEPT !.block = "none"]
  /\ Sends(Silence)

\* content_part.done of a sparse upstream.  It cites in one of its parts only:
\* the decoder takes no citation once it has one.
TellPart(kind) ==
  /\ Within(kind) /\ up.sparse
  /\ \E data \in Says(kind), notes \in {<<>>} \cup {<<n>> : n \in Citations} :
       LET told == [Told(kind, data) EXCEPT !.block = "none"] IN
       /\ notes # <<>> => kind = "text" /\ adapter.noted = {}
       /\ up' = [told EXCEPT !.late.text = IF kind = "text" THEN @ \o data ELSE @,
                             !.said.notes = @ \cup ToSet(notes)]
       /\ Sends([Silence EXCEPT !.notes = notes, !.refusal = IF kind = "refusal" THEN data ELSE <<>>])

BeginTool(id) ==
  /\ Within("none") /\ up.blocks < MaxBlocks
  /\ up' = [up EXCEPT !.blocks = @ + 1, !.block = "tool",
                      !.said.tools = Append(@, [key |-> up.blocks, id |-> id, args |-> <<>>])]
  /\ Sends([Silence EXCEPT !.tools = <<[key |-> up.blocks, id |-> id, args |-> <<>>, started |-> TRUE]>>])

Argument == <<"x">>
FilledTool(i) == [key |-> up.said.tools[i].key, id |-> up.said.tools[i].id, args |-> Argument, started |-> FALSE]
CurrentTool == Len(up.said.tools)

ToolArguments ==
  /\ Within("tool") /\ ~up.sparse /\ Len(up.said.tools[CurrentTool].args) < MaxArguments
  /\ up' = [up EXCEPT !.said.tools[CurrentTool].args = @ \o Argument]
  /\ Sends([Silence EXCEPT !.tools = <<FilledTool(CurrentTool)>>])

\* function_call_arguments.done repeats the arguments, or tells them.
EndTool(told) ==
  /\ Within("tool") /\ (told => up.sparse)
  /\ up' = [up EXCEPT !.block = "none", !.said.tools[CurrentTool].args = IF told THEN Argument ELSE @]
  /\ Sends(IF told THEN [Silence EXCEPT !.tools = <<FilledTool(CurrentTool)>>] ELSE Silence)

SearchStage(key, stage) == Sends([Silence EXCEPT !.searches = <<[key |-> key, stage |-> stage]>>])

BeginSearch ==
  /\ Within("none") /\ up.blocks < MaxBlocks
  /\ up' = [up EXCEPT !.blocks = @ + 1, !.block = "search", !.said.searches = @ \cup {up.blocks}]
  /\ SearchStage(up.blocks, IF adapter.source = "messages" THEN "server_start" ELSE "added")

SearchGoesOn ==
  /\ Within("search") /\ UNCHANGED up
  /\ SearchStage(up.blocks - 1, IF adapter.source = "messages" THEN "server_args" ELSE "searching")

\* A sparse upstream may leave the end of a search to its terminal event.
EndSearch(told) ==
  /\ Within("search") /\ (told \/ up.sparse)
  /\ up' = [up EXCEPT !.block = IF adapter.source = "messages" THEN "searched" ELSE "none",
                      !.late.searches = IF told THEN @ ELSE Append(@, up.blocks - 1)]
  /\ IF told THEN SearchStage(up.blocks - 1, IF adapter.source = "messages" THEN "server_stop" ELSE "done")
     ELSE Sends(Silence)

\* The result of a search is a block of its own in Messages.  It may be missing.
SearchResult ==
  \/ /\ Within("searched")
     /\ up' = [up EXCEPT !.block = "result"]
     /\ SearchStage(up.blocks - 1, "result_start")
  \/ /\ Within("result")
     /\ up' = [up EXCEPT !.block = "none"]
     /\ SearchStage(up.blocks - 1, "result_stop")

NoResult == Within("searched") /\ up' = [up EXCEPT !.block = "none"] /\ UNCHANGED <<adapter, client>>

\* message_stop, response.completed
Complete ==
  /\ Within("none")
  /\ up' = [up EXCEPT !.over = TRUE]
  /\ Sends([Silence EXCEPT
       !.text = IF adapter.text = <<>> THEN up.late.text ELSE <<>>,
       !.searches = [i \in DOMAIN up.late.searches |-> [key |-> up.late.searches[i], stage |-> "done"]],
       !.done = TRUE])

--------------------------------------
(* Chat.                                                                    *)

Maybe(S) == S \cup {<<>>}

InChat == ~up.over /\ adapter.source = "chat_completions"

\* A chunk of content, which may start a tool call as well.
Chunk ==
  /\ InChat /\ ~up.stopped /\ up.blocks < MaxChunks
  /\ \E reasoning \in Maybe(Says("reasoning")), text \in Maybe(Says("text")), refusal \in Maybe(Says("refusal")),
        notes \in Maybe({<<n>> : n \in Citations}), ids \in Maybe({<<id>> : id \in CallIds \cup {NoId}}) :
       LET tools == [i \in DOMAIN ids |-> [key |-> CurrentTool + 1, id |-> ids[i], args |-> <<>>]]
           spoken == <<text, refusal, notes>> # <<<<>>, <<>>, <<>>>>
       IN  /\ Cardinality({i \in 1..5 : <<reasoning, text, refusal, notes, ids>>[i] # <<>>}) \in 1..2
           /\ up' = [up EXCEPT !.blocks = @ + 1, !.run = IF spoken THEN CurrentTool + 1 ELSE @,
                               !.said = [reasoning |-> @.reasoning \o reasoning, text |-> @.text \o text,
                                         refusal |-> @.refusal \o refusal, notes |-> @.notes \cup ToSet(notes),
                                         tools |-> @.tools \o tools, searches |-> @.searches]]
           /\ Sends([Silence EXCEPT !.reasoning = reasoning, !.text = text, !.refusal = refusal, !.notes = notes,
                                    !.tools = [i \in DOMAIN ids |-> [key |-> CurrentTool + 1, id |-> ids[i],
                                                                     args |-> <<>>, started |-> TRUE]]])

\* The parallel calls of a chat.  An identifier that was missing may come late.
ChatArguments(i) ==
  /\ InChat /\ ~up.stopped /\ i \in up.run..CurrentTool /\ Len(up.said.tools[i].args) < MaxArguments
  /\ up' = [up EXCEPT !.said.tools[i].args = @ \o Argument]
  /\ \E id \in IF up.said.tools[i].id = NoId THEN CallIds \cup {NoId} ELSE {up.said.tools[i].id} :
       Sends([Silence EXCEPT !.tools = <<[FilledTool(i) EXCEPT !.id = id]>>])

\* finish_reason
Stop ==
  /\ InChat /\ ~up.stopped
  /\ up' = [up EXCEPT !.stopped = TRUE]
  /\ Sends([Silence EXCEPT !.hello = TRUE])

\* [DONE], which some upstreams leave out
ChatDone ==
  /\ InChat /\ up.stopped
  /\ up' = [up EXCEPT !.over = TRUE]
  /\ Sends([Silence EXCEPT !.done = TRUE])

ChatEnds ==
  /\ InChat /\ up.stopped
  /\ up' = [up EXCEPT !.over = TRUE]
  /\ Relay(Finalize(adapter))

Fail ==
  /\ ~up.over
  /\ up' = [up EXCEPT !.over = TRUE]
  /\ Sends([Silence EXCEPT !.error = TRUE])

StreamNext ==
  \/ Hello
  \/ \E kind \in {"reasoning", "text", "refusal"} : BeginBlock(kind) \/ BlockDelta(kind) \/ EndBlock(kind) \/ TellPart(kind)
  \/ \E note \in Citations : Cite(note)
  \/ \E id \in CallIds \cup {NoId} : BeginTool(id)
  \/ ToolArguments
  \/ \E told \in BOOLEAN : EndTool(told) \/ EndSearch(told)
  \/ BeginSearch
  \/ SearchGoesOn
  \/ SearchResult
  \/ NoResult
  \/ Complete
  \/ Chunk
  \/ \E i \in 1..MaxChunks : ChatArguments(i)
  \/ Stop
  \/ ChatDone
  \/ ChatEnds
  \/ Fail

StreamSpec == StreamInit /\ [][StreamNext]_streamVars

-----------------------------------------------------------------------------
(* What the client has heard.                                               *)

HeardParts == FlattenSeq([i \in DOMAIN client.items |-> client.items[i].parts])

Heard(kind) ==
  LET of == SelectSeq(HeardParts, LAMBDA p : p.kind = kind)
  IN  FlattenSeq([i \in DOMAIN of |-> of[i].data])

\* A refusal is text to a client of Messages.
HeardText ==
  IF adapter.target = "messages" THEN SelectSeq(Heard("text"), LAMBDA c : c # Refusal[1]) ELSE Heard("text")
HeardRefusal ==
  IF adapter.target = "messages" THEN SelectSeq(Heard("text"), LAMBDA c : c = Refusal[1]) ELSE Heard("refusal")

HeardNotes == FlattenSeq([i \in DOMAIN HeardParts |-> HeardParts[i].notes])
HeardItems(kind) == SelectSeq(client.items, LAMBDA item : item.kind = kind)

\* The decoded state stays within the variables of the adapter.
StreamTypeOK ==
  /\ <<adapter.source, adapter.target>> \in Conversions
  /\ adapter.out = <<>>
  /\ client.phase \in {"new", "open", "done", "failed"}
  /\ adapter.finished <=> client.phase \in {"done", "failed"}
  /\ adapter.reasoning # up.said.reasoning => adapter.target = "responses"

\* Every stream is one the client can follow: it is opened first, each item
\* comes at the next index, is filled only while it is open, with a content
\* that its closing event repeats, nothing is left open at the end, and the
\* end of the upstream is the end of the stream ("SSE 会按目标协议生成完整
\* 生命周期和终止事件", docs/api.md:195).  Excepted are reasoning and the
\* numbers of citations, which are not kept in order (README, 4).
LifecycleHolds ==
  /\ client.misplaced \subseteq {"reasoning", "number"}
  /\ up.over => client.phase \in {"done", "failed"}

\* What the upstream has said arrives: text as soon as it is said, but for a
\* text that may be a copy of the reasoning in Messages; and at the end text,
\* refusal, citations, searches and calls with their arguments, each once,
\* with an identifier no other call has.  Only a whole copy of the reasoning
\* is kept from a client of Messages (docs/api.md:207).
AnswerIsWhole ==
  /\ ~up.sparse /\ HeardText # up.said.text =>
       adapter.target = "messages" /\ CouldDuplicateReasoning(up.said.text, up.said.reasoning)
  /\ client.phase = "done" =>
       LET calls == HeardItems("tool")
           searches == HeardItems("search")
           said == up.said.tools
           args(i) == IF said[i].args = <<>> /\ adapter.target # "chat_completions" THEN NoArguments ELSE said[i].args
       IN  /\ \/ HeardText = up.said.text
              \/ /\ adapter.target = "messages" /\ HeardText = <<>>
                 /\ DuplicatesReasoning(up.said.text, up.said.reasoning)
           /\ HeardRefusal = up.said.refusal
           /\ IsInjective(HeardNotes) /\ ToSet(HeardNotes) = up.said.notes
           /\ Len(calls) = Len(said)
           /\ \A i \in DOMAIN calls :
                /\ calls[i].parts[1].data = args(i)
                /\ \A j \in 1..i - 1 : calls[i].key # calls[j].key
                /\ said[i].id # NoId /\ (\A j \in 1..i - 1 : said[j].id # said[i].id) => calls[i].key = said[i].id
           /\ adapter.target # "chat_completions" =>
                {searches[i].key : i \in DOMAIN searches} = up.said.searches /\ Len(searches) = Cardinality(up.said.searches)

\* The terminal event of a Responses stream repeats the items of the stream in
\* their order, with the same identifiers and contents; a part without text is
\* left out, with the citations it may have.
TerminalRepeatsStream ==
  LET repeated(item) == Entry(item.kind, item.key, SelectSeq(item.parts, LAMBDA p : p.data # <<>>))
  IN  adapter.target = "responses" /\ client.phase = "done" =>
        client.output = SelectSeq([i \in DOMAIN client.items |-> repeated(client.items[i])],
                                  LAMBDA e : e.kind = "search" \/ e.parts # <<>>)

\* Reasoning comes while the reasoning item is open.
ReasoningStaysInOrder == "reasoning" \notin client.misplaced
=============================================================================
