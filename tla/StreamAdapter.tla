---------------------------- MODULE StreamAdapter ----------------------------
(***************************************************************************)
(* The conversion of a stream from the protocol of the upstream to the      *)
(* protocol of the client (internal/gateway/protocol_stream_adapter.go).    *)
(* An upstream event is decoded to a delta, Translate merges it into the    *)
(* adapter and writes the events of the other protocol: items and blocks    *)
(* that are opened, filled, closed and at last repeated in the terminal     *)
(* event.  A client can only follow a stream in which an item is filled     *)
(* while it is open; that is what this module is about.                     *)
(*                                                                          *)
(* adapter is the struct of the code: its operators are the methods, each   *)
(* from adapter to adapter, and out holds what one call has written.  Text  *)
(* is a sequence of characters; usage, models, stop reasons and the wording *)
(* of events are left out.  StreamConversion puts an upstream before the    *)
(* adapter and a client behind it.                                          *)
(***************************************************************************)
EXTENDS Naturals, Sequences, SequencesExt

Blank == " "
NoId == <<>>

-----------------------------------------------------------------------------
(* Events, and what a client does with them.  index is an output_index or a *)
(* block index, part a content index within it.                             *)

Part(kind, data) == [kind |-> kind, data |-> data, notes |-> <<>>]
Unclaimed == <<>>

Added(index, kind, key, parts) == [type |-> "added", index |-> index, kind |-> kind, key |-> key, parts |-> parts]
PartAdded(index, part, kind) == [type |-> "part", index |-> index, part |-> part, kind |-> kind]
Delta(index, part, kind, data) == [type |-> "delta", index |-> index, part |-> part, kind |-> kind, data |-> data]
Note(index, part, number, data) ==
  [type |-> "note", index |-> index, part |-> part, number |-> number, data |-> data]
Stage(index) == [type |-> "stage", index |-> index]
Done(index, parts) == [type |-> "done", index |-> index, parts |-> parts]
Started(items) == [type |-> "start", items |-> items]
Terminal(output) == [type |-> "end", output |-> output]
Failure == [type |-> "error"]

\* Annotations are numbered in Responses only.
Unnumbered == 99

NewClient == [phase |-> "new", items |-> <<>>, misplaced |-> {}, output |-> <<>>]

Misplaced(c, what) == [c EXCEPT !.misplaced = @ \cup {what}]

Fits(item, e) ==
  /\ item.open
  /\ e.type = "part" => e.part = Len(item.parts)
  /\ e.type \in {"delta", "note"} => e.part < Len(item.parts)
  /\ e.type = "delta" => item.parts[e.part + 1].kind = e.kind
  /\ e.type = "done" => e.parts \in {Unclaimed, item.parts}

Extended(item, e) ==
  CASE e.type = "part"  -> [item EXCEPT !.parts = Append(@, Part(e.kind, <<>>))]
    [] e.type = "delta" -> [item EXCEPT !.parts[e.part + 1].data = @ \o e.data]
    [] e.type = "note"  -> [item EXCEPT !.parts[e.part + 1].notes = Append(@, e.data)]
    [] e.type = "done"  -> [item EXCEPT !.open = FALSE]
    [] OTHER -> item

Item(kind, key, parts, open) == [kind |-> kind, key |-> key, parts |-> parts, open |-> open]

\* Annotations of a Responses message are numbered from zero.
Numbering(c, e) ==
  IF e.type = "note" /\ e.number \notin {Unnumbered, Len(c.items[e.index + 1].parts[e.part + 1].notes)}
  THEN Misplaced(c, "number") ELSE c

\* An event of an item, its arrival aside.
ReceivePart(c, e) ==
  IF e.index >= Len(c.items) THEN Misplaced(c, "index")
  ELSE IF ~Fits(c.items[e.index + 1], e) THEN Misplaced(c, c.items[e.index + 1].kind)
  ELSE [Numbering(c, e) EXCEPT !.items[e.index + 1] = Extended(@, e)]

Receive(c, e) ==
  IF e.type = "error" /\ c.phase \in {"new", "open"} THEN [c EXCEPT !.phase = "failed"]
  ELSE IF e.type = "start" /\ c.phase = "new" THEN [c EXCEPT !.phase = "open", !.items = e.items]
  ELSE IF e.type \in {"start", "error"} \/ c.phase # "open" THEN Misplaced(c, "phase")
  ELSE CASE e.type = "end" ->
              IF \E i \in DOMAIN c.items : c.items[i].open THEN Misplaced(c, "end")
              ELSE [c EXCEPT !.phase = "done", !.output = e.output]
         [] e.type = "added" ->
              IF e.index # Len(c.items) THEN Misplaced(c, "index")
              ELSE [c EXCEPT !.items = Append(@, Item(e.kind, e.key, e.parts, TRUE))]
         [] OTHER -> ReceivePart(c, e)

-----------------------------------------------------------------------------
(* The adapter.                                                             *)

NewAdapter(conversion) == [
  source |-> conversion[1], target |-> conversion[2],
  started |-> FALSE, finished |-> FALSE, out |-> <<>>,
  text |-> <<>>, refusal |-> <<>>, reasoning |-> <<>>, noted |-> {}, emitted |-> 0,
  tools |-> <<>>, searches |-> <<>>, parts |-> <<>>,
  nextIndex |-> 0,
  thought |-> [started |-> FALSE, done |-> FALSE, index |-> 0],
  message |-> [started |-> FALSE, done |-> FALSE, index |-> 0, content |-> <<>>],
  textOpen |-> FALSE, blockIndex |-> 0, blockOpened |-> FALSE, sent |-> 0, committed |-> FALSE]

Write(a, e) == [a EXCEPT !.out = Append(@, e)]

\* nextResponsesOutputIndex
Numbered(a) == [a EXCEPT !.nextIndex = @ + 1]

Position(seq, key) == SelectInSeq(seq, LAMBDA x : x.key = key)

\* A terminal event repeats what a message consists of, in the order of its parts.
Content(a, kind) == SelectInSeq(a.message.content, LAMBDA p : p.kind = kind)

--------------------------------------
(* Items of the Responses protocol.                                         *)

\* An entry of response.Parts, from which the terminal event is made.
Entry(kind, key, parts) == [kind |-> kind, key |-> key, parts |-> parts]

CloseReasoning(a) ==
  IF ~a.thought.started \/ a.thought.done THEN a
  ELSE [Write(a, Done(a.thought.index, <<Part("reasoning", a.reasoning)>>))
          EXCEPT !.thought.done = TRUE,
                 !.parts = Append(@, Entry("reasoning", 0, <<Part("reasoning", a.reasoning)>>))]

\* A call that was given no arguments gets an empty object.
NoArguments == <<"{}">>
Arguments(tool) == IF tool.args = <<>> THEN NoArguments ELSE tool.args

\* A variant that closes a call without arguments as it is.
CloseToolBare(a, i) ==
  IF ~a.tools[i].open THEN a
  ELSE [Write(a, Done(a.tools[i].index, <<Part("arguments", Arguments(a.tools[i]))>>)) EXCEPT !.tools[i].open = FALSE]

CloseTool(a, i) ==
  LET tool == a.tools[i]
      whole == IF tool.args # <<>> THEN a ELSE Write(a, Delta(tool.index, 0, "arguments", NoArguments))
  IN  IF ~tool.open THEN a
      ELSE [Write(whole, Done(tool.index, <<Part("arguments", Arguments(tool))>>))
              EXCEPT !.tools[i].open = FALSE]

CloseTools(a) == FoldLeftDomain(CloseTool, a, a.tools)

CloseMessage(a) ==
  IF ~a.message.started \/ a.message.done THEN a
  ELSE [Write(a, Done(a.message.index, a.message.content))
          EXCEPT !.message.done = TRUE,
                 !.parts = Append(@, Entry("message", a.message.index, a.message.content))]

OpenMessage(a) ==
  Write([Numbered(a) EXCEPT
           !.message = [started |-> TRUE, done |-> FALSE, index |-> a.nextIndex, content |-> <<>>]],
        Added(a.nextIndex, "message", a.nextIndex, <<>>))

EnsureMessage(a) ==
  IF a.message.started /\ ~a.message.done THEN a
  ELSE OpenMessage(CloseTools(CloseReasoning(IF a.message.done THEN [CloseTools(a) EXCEPT !.emitted = 0] ELSE a)))

OpenPart(a, kind) ==
  IF Content(a, kind) # 0 THEN a
  ELSE Write([a EXCEPT !.message.content = Append(@, Part(kind, <<>>))],
             PartAdded(a.message.index, Len(a.message.content), kind))

\* ensureResponsesText and ensureResponsesRefusal
EnsurePart(a, kind) == OpenPart(EnsureMessage(a), kind)

EnsureReasoning(a) ==
  IF a.thought.started THEN a
  ELSE Write([Numbered(a) EXCEPT !.thought = [started |-> TRUE, done |-> FALSE, index |-> a.nextIndex]],
             Added(a.nextIndex, "reasoning", 0, <<Part("reasoning", <<>>)>>))

FillReasoning(a, data) == Write(a, Delta(a.thought.index, 0, "reasoning", data))

FillPart(a, i, data) ==
  Write([a EXCEPT !.message.content[i].data = @ \o data],
        Delta(a.message.index, i - 1, a.message.content[i].kind, data))

ResponsesDelta(a, kind, data) ==
  LET fill(b) == FillPart(b, Content(b, kind), data)
  IN  IF kind = "reasoning" THEN FillReasoning(EnsureReasoning(a), data) ELSE fill(EnsurePart(a, kind))

--------------------------------------
(* Blocks of the Messages protocol.  A stream that is converted carries no  *)
(* signature, so there is no thinking block.                                *)

CloseBlock(a) ==
  IF ~a.textOpen THEN a ELSE [Write(a, Done(a.blockIndex, Unclaimed)) EXCEPT !.textOpen = FALSE]

CloseToolBlock(a, i) ==
  LET tool == a.tools[i]
      whole == IF tool.args # <<>> THEN a ELSE Write(a, Delta(tool.index, 0, "arguments", NoArguments))
  IN  IF ~tool.open THEN a ELSE [Write(whole, Done(tool.index, Unclaimed)) EXCEPT !.tools[i].open = FALSE]

CloseToolBlocks(a) == FoldLeftDomain(CloseToolBlock, a, a.tools)

NextBlock(a) ==
  [a EXCEPT !.blockIndex = IF a.blockOpened THEN @ + 1 ELSE @, !.blockOpened = TRUE]

OpenBlock(a) == Write([a EXCEPT !.textOpen = TRUE], Added(a.blockIndex, "text", 0, <<Part("text", <<>>)>>))

EnsureBlock(a) == IF a.textOpen THEN a ELSE OpenBlock(NextBlock(CloseToolBlocks(CloseBlock(a))))

\* Reasoning without a signature is not shown.  A refusal is text.
MessagesDelta(a, kind, data) ==
  LET fill(b) == Write(b, Delta(b.blockIndex, 0, "text", data))
  IN  IF kind = "reasoning" THEN a ELSE fill(EnsureBlock(a))

--------------------------------------
(* Text.  Some providers repeat their reasoning as the text of the answer.  *)
(* As long as the text may turn out to be such a copy it is held back.      *)

ChatPart == [reasoning |-> 0, text |-> 1, refusal |-> 2]

ContentDelta(a, kind, data) ==
  CASE a.target = "chat_completions" -> Write(a, Delta(0, ChatPart[kind], kind, data))
    [] a.target = "messages" -> MessagesDelta(a, kind, data)
    [] a.target = "responses" -> ResponsesDelta(a, kind, data)

Trimmed(s) ==
  LET ink == {i \in DOMAIN s : s[i] # Blank}
  IN  IF ink = {} THEN <<>>
      ELSE SubSeq(s, CHOOSE i \in ink : \A j \in ink : i <= j, CHOOSE i \in ink : \A j \in ink : i >= j)

CouldDuplicateReasoning(text, reasoning) ==
  Trimmed(reasoning) # <<>> /\ IsPrefix(Trimmed(text), Trimmed(reasoning))

DuplicatesReasoning(text, reasoning) ==
  Trimmed(text) # <<>> /\ Trimmed(text) = Trimmed(reasoning)

SendText(a, data) ==
  [ContentDelta(a, "text", data) EXCEPT !.sent = Len(a.text), !.committed = TRUE]

HeldBack(a) == SubSeq(a.text, a.sent + 1, Len(a.text))

\* A variant that releases only what has just arrived.
MessagesTextForgetful(a, data) ==
  IF a.committed \/ ~CouldDuplicateReasoning(a.text, a.reasoning) THEN SendText(a, data) ELSE a

MessagesText(a, data) ==
  IF a.committed THEN SendText(a, data)
  ELSE IF CouldDuplicateReasoning(a.text, a.reasoning) \/ HeldBack(a) = <<>> THEN a
  ELSE SendText(a, HeldBack(a))

FlushMessagesText(a) ==
  IF HeldBack(a) = <<>> \/ (~a.committed /\ DuplicatesReasoning(a.text, a.reasoning)) THEN a
  ELSE SendText(a, HeldBack(a))

TextDelta(a, data) == IF a.target = "messages" THEN MessagesText(a, data) ELSE ContentDelta(a, "text", data)

NotePart(a, i, number, note) ==
  Write([a EXCEPT !.message.content[i].notes = Append(@, note)], Note(a.message.index, i - 1, number, note))

AnnotationDelta(a, note) ==
  LET block(b) == Write(b, Note(b.blockIndex, 0, Unnumbered, note))
      part(b) == NotePart(b, Content(b, "text"), a.emitted, note)
  IN  CASE a.target = "chat_completions" -> Write(a, Note(0, ChatPart["text"], Unnumbered, note))
        [] a.target = "messages" -> block(EnsureBlock(a))
        [] a.target = "responses" -> part(EnsurePart([a EXCEPT !.emitted = @ + 1], "text"))

--------------------------------------
(* Tool calls.  An upstream may give no identifier, or one twice.           *)

MergeTool(a, t) ==
  LET i == Position(a.tools, t.key)
      known == IF i # 0 THEN a.tools
               ELSE Append(a.tools, [key |-> t.key, id |-> t.id, committed |-> FALSE, args |-> <<>>,
                                     shown |-> FALSE, open |-> FALSE, index |-> 0])
      j == Position(known, t.key)
      id == IF t.id # NoId /\ ~known[j].committed THEN t.id ELSE known[j].id
  IN  [a EXCEPT !.tools = [known EXCEPT ![j].id = id, ![j].args = @ \o t.args]]

\* A variant that takes identifiers as they come.
TakenIdentity(a, i) == [a EXCEPT !.tools[i].committed = TRUE]

ToolIdentity(a, i) ==
  LET taken == {a.tools[j].id : j \in {j \in DOMAIN a.tools : a.tools[j].committed}}
      id == a.tools[i].id
  IN  IF a.tools[i].committed THEN a
      ELSE [a EXCEPT !.tools[i].committed = TRUE,
                     !.tools[i].id = IF id \in taken \cup {NoId} THEN <<"novro", i>> ELSE id]

ShowTool(a, i, index) ==
  Write([a EXCEPT !.tools[i].shown = TRUE, !.tools[i].open = TRUE, !.tools[i].index = index],
        Added(index, "tool", a.tools[i].id, <<Part("arguments", <<>>)>>))

FillTool(a, i, data) == IF data = <<>> THEN a ELSE Write(a, Delta(a.tools[i].index, 0, "arguments", data))

\* The message is item 0 of a Chat stream; the tool calls follow.
ChatTool(a, i, t) == FillTool(IF t.started THEN ShowTool(a, i, i) ELSE a, i, t.args)

MessagesTool(a, i, t) ==
  LET b == NextBlock(CloseBlock(a))
  IN  FillTool(IF a.tools[i].shown THEN a ELSE ShowTool(b, i, b.blockIndex), i, t.args)

\* A variant that leaves the message open beside the call.
ResponsesToolBeside(a, i, t) ==
  LET add(b) == ShowTool([Numbered(b) EXCEPT !.parts = Append(@, Entry("tool", i, <<>>))], i, b.nextIndex)
  IN  FillTool(IF a.tools[i].shown THEN a ELSE add(CloseReasoning(a)), i, t.args)

ResponsesTool(a, i, t) ==
  LET add(b) == ShowTool([Numbered(b) EXCEPT !.parts = Append(@, Entry("tool", i, <<>>))], i, b.nextIndex)
  IN  FillTool(IF a.tools[i].shown THEN a ELSE add(CloseMessage(CloseReasoning(a))), i, t.args)

WriteTool(a, i, t) ==
  CASE a.target = "chat_completions" -> ChatTool(a, i, t)
    [] a.target = "messages" -> MessagesTool(a, i, t)
    [] a.target = "responses" -> ResponsesTool(a, i, t)

ToolDelta(a, t) ==
  LET named(b, i) == WriteTool(ToolIdentity(b, i), i, t)
      merged(b) == named(b, Position(b.tools, t.key))
  IN  merged(MergeTool(a, t))

--------------------------------------
(* Web searches.                                                            *)

EnsureSearch(a, s) ==
  IF Position(a.searches, s.key) # 0 THEN a
  ELSE [a EXCEPT !.searches = Append(@, [key |-> s.key, added |-> FALSE, searching |-> FALSE,
                                         completed |-> FALSE, index |-> 0])]

Box(a, kind, key) ==
  LET b == NextBlock(a)
  IN  Write(Write(b, Added(b.blockIndex, kind, key, <<>>)), Done(b.blockIndex, Unclaimed))

MessagesSearch(a, i) ==
  LET s == a.searches[i]
  IN  IF s.completed THEN a
      ELSE [Box(Box(CloseToolBlocks(CloseBlock(a)), "search", s.key), "result", s.key)
              EXCEPT !.searches[i].completed = TRUE]

AddSearch(a, i) ==
  LET key == a.searches[i].key
      add(b) == Write([Numbered(b) EXCEPT !.searches[i].added = TRUE, !.searches[i].index = b.nextIndex,
                                          !.parts = Append(@, Entry("search", key, <<>>))],
                      Added(b.nextIndex, "search", key, <<>>))
  IN  IF a.searches[i].added THEN a ELSE add(CloseTools(CloseMessage(CloseReasoning(a))))

StartSearching(a, i) ==
  IF a.searches[i].searching THEN a
  ELSE Write([a EXCEPT !.searches[i].searching = TRUE], Stage(a.searches[i].index))

CompleteSearch(a, i) ==
  LET b == Write(StartSearching(a, i), Stage(a.searches[i].index))
  IN  IF a.searches[i].completed THEN a
      ELSE [Write(b, Done(a.searches[i].index, Unclaimed)) EXCEPT !.searches[i].completed = TRUE]

ResponsesSearch(a, i, stage) ==
  LET advance(b) == CASE stage \in {"server_args", "server_stop", "searching"} -> StartSearching(b, i)
                      [] stage \in {"result_start", "result_stop", "done"} -> CompleteSearch(b, i)
                      [] OTHER -> b
  IN  advance(AddSearch(a, i))

SearchEvent(a, s) ==
  LET write(b, i) == CASE b.target = "messages" /\ s.stage = "done" -> MessagesSearch(b, i)
                       [] b.target = "responses" -> ResponsesSearch(b, i, s.stage)
                       [] OTHER -> b
      known(b) == write(b, Position(b.searches, s.key))
  IN  known(EnsureSearch(a, s))

-----------------------------------------------------------------------------
(* One call of the relay.                                                   *)

Silence == [reasoning |-> <<>>, text |-> <<>>, refusal |-> <<>>, notes |-> <<>>, tools |-> <<>>,
            searches |-> <<>>, hello |-> FALSE, done |-> FALSE, error |-> FALSE]

Merge(a, d) ==
  [a EXCEPT !.reasoning = @ \o d.reasoning, !.text = @ \o d.text, !.refusal = @ \o d.refusal,
            !.noted = @ \cup ToSet(d.notes)]

\* A chat stream is one message whose parts need not be opened.
Start(a) ==
  LET message == Item("message", 0, <<Part("reasoning", <<>>), Part("text", <<>>), Part("refusal", <<>>)>>, TRUE)
  IN  IF a.started THEN a
      ELSE Write([a EXCEPT !.started = TRUE], Started(IF a.target = "chat_completions" THEN <<message>> ELSE <<>>))

\* The output of a terminal event: the i-th call of the parts is the i-th of
\* the calls, and what is empty is left out.
Output(a) ==
  LET nonempty(parts) == SelectSeq(parts, LAMBDA p : p.data # <<>>)
      item(e) == IF e.kind = "tool"
                 THEN Entry("tool", a.tools[e.key].id, <<Part("arguments", Arguments(a.tools[e.key]))>>)
                 ELSE Entry(e.kind, e.key, nonempty(e.parts))
  IN  SelectSeq([i \in DOMAIN a.parts |-> item(a.parts[i])],
                LAMBDA e : e.kind \in {"tool", "search"} \/ e.parts # <<>>)

\* The last chunk of a chat stream closes whatever it consists of.
WriteDone(a) ==
  LET closing(b, i) == Write(b, Done(i - 1, Unclaimed))
      searched(b, i) == IF b.searches[i].added THEN CompleteSearch(b, i) ELSE b
      closed == CloseTools(CloseMessage(CloseReasoning(a)))
      repeat(b) == Write(b, Terminal(Output(b)))
  IN  CASE a.target = "chat_completions" ->
             Write(FoldLeft(closing, a, [i \in 1..Len(a.tools) + 1 |-> i]), Terminal(<<>>))
        [] a.target = "messages" -> Write(CloseToolBlocks(CloseBlock(a)), Terminal(<<>>))
        [] a.target = "responses" -> repeat(FoldLeftDomain(searched, closed, a.searches))

Finalize(a) ==
  LET end(b) == [WriteDone(IF b.target = "messages" THEN FlushMessagesText(b) ELSE b) EXCEPT !.finished = TRUE]
  IN  IF a.finished THEN a ELSE end(Start(a))

\* Reasoning that comes after the message of a Responses stream is dropped.
Heeded(a, d) == IF a.target = "responses" /\ a.message.started THEN [d EXCEPT !.reasoning = <<>>] ELSE d

\* In this order, each if the delta has it.
Converted(a, d) ==
  LET reason(b) == IF d.reasoning = <<>> THEN b ELSE ContentDelta(b, "reasoning", d.reasoning)
      say(b) == IF d.text = <<>> THEN b ELSE TextDelta(b, d.text)
      refuse(b) == IF d.refusal = <<>> THEN b ELSE ContentDelta(b, "refusal", d.refusal)
      new(b, note) == IF note \in a.noted THEN b ELSE AnnotationDelta(b, note)
      cite(b) == FoldLeft(new, b, d.notes)
      search(b) == FoldLeft(SearchEvent, FoldLeft(ToolDelta, b, d.tools), d.searches)
      end(b) == IF d.done THEN Finalize(b) ELSE b
  IN  end(search(cite(refuse(say(reason(Start(Merge(a, d))))))))

Translate(a, delta) ==
  LET d == Heeded(a, delta)
  IN  CASE a.finished -> a
        [] ~a.finished /\ d.error -> [Write(a, Failure) EXCEPT !.finished = TRUE]
        [] ~a.finished /\ ~a.started /\ d = Silence -> a
        [] OTHER -> Converted(a, d)
=============================================================================
