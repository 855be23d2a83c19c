---------------------------- MODULE Translation ----------------------------
(***************************************************************************)
(* The gateway speaks chat/completions to every upstream and three         *)
(* protocols to its clients: chat itself, Anthropic's Messages and         *)
(* OpenAI's Responses.  A request is decoded item by item into a chat      *)
(* conversation; the upstream's stream is translated chunk by chunk into   *)
(* the client's events.                                                    *)
(*                                                                         *)
(* Texts are not modelled: a part of the answer is its number in the       *)
(* stream.  A chunk with several parts is handled like its parts one after *)
(* the other, which is how `handle' reads it.  The first block of a stream *)
(* has number 1 here and index 0 in the code; 0 stands for none.           *)
(***************************************************************************)
EXTENDS Naturals, FiniteSets, Sequences, SequencesExt, FiniteSetsExt

CONSTANTS
  MaxItems,   \* bound: items of a request
  MaxParts    \* bound: parts of an answer

VARIABLES
  api,      \* the client's protocol
  phase,    \* "decode", "stream", "ended", "cut" or "rejected"
  talk,     \* what the client has put into its request so far
  msgs,     \* oaiMsgs
  pending,  \* pendingCalls
  sent,     \* the parts the upstream has sent
  tr,       \* the stream translator, with the client at the other end
  gone      \* gatedWriter: the client has left

request == <<talk, msgs, pending>>
answer == <<sent, tr, gone>>
tvars == <<api, phase, talk, msgs, pending, sent, tr, gone>>

-----------------------------------------------------------------------------
(* Requests.  The client numbers its tool calls; `open' are those without a *)
(* result yet.  A conversation that a tool-using client may send has all    *)
(* results of a group of calls before anything else is said.               *)

Message(role, said, calls, answers) ==
  [role |-> role, said |-> said, calls |-> calls, answers |-> answers]

ToolMessage(call) == Message("tool", TRUE, <<>>, call)

(* One Anthropic message.  Results come first, whatever their place; a user *)
(* message of which nothing is left is dropped, an assistant's is not.      *)
anthMessages(role, said, uses, results) ==
  IF role = "assistant" THEN <<Message(role, said, uses, 0)>>
  ELSE [i \in DOMAIN results |-> ToolMessage(results[i])]
       \o IF said THEN <<Message(role, TRUE, <<>>, 0)>> ELSE <<>>

MayAdd == phase = "decode" /\ talk.items < MaxItems

decodeAnthropicRequest == \E said \in BOOLEAN :
  /\ MayAdd /\ api = "anthropic"
  /\ \/ /\ talk.open = {}
        /\ \E n \in 0..2 :
             LET uses == [i \in 1..n |-> talk.asked + i]
             IN  /\ msgs' = msgs \o anthMessages("assistant", said, uses, <<>>)
                 /\ talk' = [talk EXCEPT !.items = @ + 1, !.asked = @ + n,
                                         !.open = ToSet(uses)]
     \/ /\ \E results \in SetToSeqs(talk.open) :
             msgs' = msgs \o anthMessages("user", said, <<>>, results)
        /\ talk' = [talk EXCEPT !.items = @ + 1, !.open = {}]
  /\ UNCHANGED <<api, phase, pending>> /\ UNCHANGED answer

(* Mutation of flushCalls: an output does not flush. *)
MutFlushCalls(type) ==
  IF pending = <<>> \/ type = "output" THEN msgs
  ELSE Append(msgs, Message("assistant", FALSE, pending, 0))

flushCalls(type) ==
  IF pending = <<>> THEN msgs
  ELSE Append(msgs, Message("assistant", FALSE, pending, 0))

(* One Responses item.  Calls in a row become one assistant message; what  *)
(* has no counterpart in chat (reasoning) is dropped without a flush.      *)
decodeResponsesRequest ==
  /\ MayAdd /\ api = "responses"
  /\ \/ /\ talk.open = {}
        /\ \E role \in {"user", "assistant", "system"} :
             msgs' = Append(flushCalls("message"), Message(role, TRUE, <<>>, 0))
        /\ pending' = <<>>
        /\ talk' = [talk EXCEPT !.items = @ + 1, !.answering = FALSE]
     \/ /\ talk.answering => talk.open = {}
        /\ pending' = Append(pending, talk.asked + 1)
        /\ talk' = [talk EXCEPT !.items = @ + 1, !.asked = @ + 1, !.answering = FALSE,
                                !.open = @ \cup {talk.asked + 1}]
        /\ UNCHANGED msgs
     \/ \E call \in talk.open :
          /\ msgs' = Append(flushCalls("output"), ToolMessage(call))
          /\ pending' = <<>>
          /\ talk' = [talk EXCEPT !.items = @ + 1, !.answering = TRUE,
                                  !.open = @ \ {call}]
     \/ /\ talk' = [talk EXCEPT !.items = @ + 1]       \* reasoning
        /\ UNCHANGED <<msgs, pending>>
  /\ UNCHANGED <<api, phase>> /\ UNCHANGED answer

NewTalk == [items |-> 0, asked |-> 0, open |-> {}, answering |-> FALSE]

(* The decoded request is on its way; the decoder keeps nothing *)
RequestDecoded ==
  /\ phase = "decode"
  /\ api # "chat" => talk.items > 0
  /\ phase' = IF api = "responses" /\ flushCalls("end") = <<>> THEN "rejected" ELSE "stream"
  /\ talk' = NewTalk /\ msgs' = <<>> /\ pending' = <<>>
  /\ UNCHANGED api /\ UNCHANGED answer

-----------------------------------------------------------------------------
(* What a client that follows its protocol rebuilds: it starts, extends    *)
(* and closes the blocks it is told of.                                    *)

NewClient == [begun |-> FALSE, blocks |-> <<>>, open |-> 0, end |-> "none",
              stop |-> "none", whole |-> <<>>, nested |-> TRUE]

Block(kind, call, parts) == [kind |-> kind, call |-> call, parts |-> parts]

Receive(c, e) ==
  CASE e.ev = "start" -> [c EXCEPT !.begun = TRUE, !.nested = @ /\ ~c.begun]
    [] e.ev = "open" ->
         [c EXCEPT !.blocks = Append(@, Block(e.kind, e.call, <<>>)), !.open = e.at,
                   !.nested = @ /\ c.begun /\ c.open = 0 /\ e.at = Len(c.blocks) + 1]
    [] e.ev = "delta" ->
         [c EXCEPT !.blocks[e.at].parts = Append(@, e.part),
                   !.nested = @ /\ c.open = e.at]
    [] e.ev = "close" -> [c EXCEPT !.open = 0, !.nested = @ /\ c.open = e.at]
    [] e.ev = "done" ->
         [c EXCEPT !.end = "done", !.stop = e.stop, !.whole = e.whole,
                   !.nested = @ /\ c.begun /\ c.open = 0 /\ c.end = "none"]
    [] e.ev = "failed" -> [c EXCEPT !.end = "failed", !.nested = @ /\ c.end = "none"]
    [] e.ev = "raw" ->
         [c EXCEPT !.blocks = Append(@, Block("raw", 0, e.parts))]

(* gatedWriter: once the client has left nothing is written, and the       *)
(* translator is told that all is well                                     *)
Write(c, e) == IF gone THEN c ELSE Receive(c, e)

-----------------------------------------------------------------------------
(* The two stream translators.                                             *)

NewTranslator == [started |-> FALSE, kind |-> "none", at |-> 0, next |-> 1,
                  map |-> {},       \* toolMap, toolSeen: index and block
                  call |-> 0, buf |-> <<>>, output |-> <<>>,
                  sawTool |-> FALSE, stop |-> "none", usage |-> 0, client |-> NewClient]

client == tr.client

emit(t, e) == [t EXCEPT !.client = Write(@, e)]

ensureStart(t) ==
  IF t.started THEN t ELSE emit([t EXCEPT !.started = TRUE], [ev |-> "start"])

(* Responses also keeps the finished item for response.completed *)
closeBlock(t) ==
  IF t.at = 0 THEN t
  ELSE emit([t EXCEPT !.at = 0, !.kind = "none",
                      !.output = Append(@, Block(t.kind, t.call, t.buf))],
            [ev |-> "close", at |-> t.at])

openBlock(t, kind, call) ==
  LET c == closeBlock(ensureStart(t))
  IN  emit([c EXCEPT !.at = c.next, !.kind = kind, !.next = @ + 1,
                     !.call = call, !.buf = <<>>, !.sawTool = @ \/ kind = "tool"],
           [ev |-> "open", at |-> c.next, kind |-> kind, call |-> call])

delta(t, at, p) == emit([t EXCEPT !.buf = Append(@, p.n)],
                        [ev |-> "delta", at |-> at, part |-> p.n])

(* openText, openMessage and openReasoning *)
Extend(t, kind, p) ==
  LET o == IF t.kind = kind THEN t ELSE openBlock(t, kind, 0) IN delta(o, o.at, p)

Mapped(t, index) == {m \in t.map : m.index = index}
BlockOf(t, index) == (CHOOSE m \in Mapped(t, index) : TRUE).at
NoteIndex(t, p) ==
  IF p.index = 0 THEN t
  ELSE [t EXCEPT !.map = {m \in @ : m.index # p.index} \cup {[index |-> p.index, at |-> t.at]}]

(* Mutation of Continues: a fragment with an id starts a call. *)
MutContinues(t, p) == p.index # 0 /\ ~p.named /\ ~p.id /\ Mapped(t, p.index) # {}

(* A fragment continues a call if it has a known index and no name.  Its   *)
(* id says nothing: some vendors repeat it with every fragment.            *)
Continues(t, p) == p.index # 0 /\ ~p.named /\ Mapped(t, p.index) # {}

NameOf(p) == IF p.named THEN p.call ELSE 0

anthTool(t, p) ==
  LET cont == Continues(t, p)
      o == IF cont THEN t ELSE NoteIndex(openBlock(t, "tool", NameOf(p)), p)
  IN  IF p.args THEN delta(o, IF cont THEN BlockOf(t, p.index) ELSE o.at, p) ELSE o

respTool(t, p) ==
  LET cont == Continues(t, p) /\ t.kind = "tool"
      opens == ~cont /\ (p.id \/ p.named \/ t.kind # "tool")
      o == IF opens THEN NoteIndex(openBlock(t, "tool", NameOf(p)), p) ELSE t
  IN  IF p.args THEN delta(o, o.at, p) ELSE o

anthStopReason(finish) ==
  CASE finish = "tool_calls" -> "tool_use"
    [] finish = "length" -> "max_tokens"
    [] finish = "content_filter" -> "refusal"
    [] OTHER -> "end_turn"

respStatus(finish) == IF finish = "length" THEN "incomplete" ELSE "completed"

anthHandle(t, p) ==
  CASE p.kind = "text" -> Extend(t, "text", p)
    [] p.kind = "reason" -> t
    [] p.kind = "tool" -> anthTool(t, p)
    [] p.kind = "finish" -> [t EXCEPT !.stop = anthStopReason(p.finish)]
    [] p.kind = "usage" -> [t EXCEPT !.usage = p.n]

respHandle(t, p) ==
  CASE p.kind \in {"text", "reason"} -> Extend(t, p.kind, p)
    [] p.kind = "tool" -> respTool(t, p)
    [] p.kind = "finish" -> [t EXCEPT !.stop = IF p.finish = "length" THEN "incomplete" ELSE @]
    [] p.kind = "usage" -> [t EXCEPT !.usage = p.n]

(* pipeSSE: a line of the event that has begun *)
chatLine(t, p) ==
  [t EXCEPT !.buf = Append(@, p.n), !.usage = IF p.kind = "usage" THEN p.n ELSE @]

writeEvent(t) ==
  IF t.buf = <<>> THEN t
  ELSE emit([t EXCEPT !.buf = <<>>], [ev |-> "raw", parts |-> t.buf])

(* Mutation of closing: the last block stays open. *)
MutClosing(t) == ensureStart(t)

closing(t) == closeBlock(ensureStart(t))

(* Upstreams that never say why they stop: tool_use after a tool call *)
anthFinish(t) ==
  LET c == closing(t)
  IN  emit(c, [ev |-> "done", whole |-> <<>>,
               stop |-> IF c.stop # "none" THEN c.stop
                        ELSE IF c.sawTool THEN "tool_use" ELSE "end_turn"])

respFinish(t) ==
  LET c == closing(t)
  IN  emit(c, [ev |-> "done", whole |-> c.output,
               stop |-> IF c.stop = "incomplete" THEN c.stop ELSE "completed"])

fail(t) == IF api = "chat" THEN writeEvent(t) ELSE emit(t, [ev |-> "failed"])

-----------------------------------------------------------------------------
(* The upstream's stream.                                                  *)

Part(kind) == [kind |-> kind, n |-> Len(sent) + 1, call |-> 0, index |-> 0,
               id |-> FALSE, named |-> FALSE, args |-> FALSE, finish |-> "none"]

Begun == {sent[i].call : i \in DOMAIN sent} \ {0}

(* The fragment that begins a call names it; an index is the call's number *)
Fragment(call, first) ==
  {[Part("tool") EXCEPT !.call = call, !.named = first,
                        !.index = v.index, !.id = v.id, !.args = v.args] :
     v \in [index : {0, call}, id : IF first THEN {TRUE} ELSE BOOLEAN,
            args : IF first THEN BOOLEAN ELSE {TRUE}]}

Once(parts) == {p \in parts : \A i \in DOMAIN sent : sent[i].kind # p.kind}

(* One reason for the end and one usage; chat is passed on as it is *)
Offered ==
  {Part("text")} \cup Once({Part("usage")})
  \cup IF api = "chat" THEN {} ELSE
       {Part("reason")}
       \cup Once({[Part("finish") EXCEPT !.finish = f] :
                   f \in {"stop", "tool_calls", "length", "content_filter"}})
       \cup Fragment(Cardinality(Begun) + 1, TRUE)
       \cup UNION {Fragment(call, FALSE) : call \in Begun}

handle(p) ==
  CASE api = "anthropic" -> anthHandle(tr, p)
    [] api = "responses" -> respHandle(tr, p)
    [] api = "chat" -> chatLine(tr, p)

(* Mutation of Relay: reading stops when the client leaves. *)
MutRelay(t) == tr' = IF gone THEN tr ELSE t

(* Reading goes on when the client has left, for the usage at the end *)
Relay(t) == tr' = t

ChunkArrives == \E p \in Offered :
  /\ phase = "stream" /\ Len(sent) < MaxParts
  /\ sent' = Append(sent, p)
  /\ Relay(handle(p))
  /\ UNCHANGED <<api, phase, gone>> /\ UNCHANGED request

(* The empty line that ends an event of the chat stream *)
EmptyLine ==
  /\ phase = "stream" /\ api = "chat" /\ tr.buf # <<>>
  /\ Relay(writeEvent(tr))
  /\ UNCHANGED <<api, phase, sent, gone>> /\ UNCHANGED request

finish ==
  CASE api = "anthropic" -> anthFinish(tr)
    [] api = "responses" -> respFinish(tr)
    [] api = "chat" -> writeEvent(tr)

StreamEnds ==
  /\ phase = "stream"
  /\ phase' = "ended"
  /\ Relay(finish)
  /\ UNCHANGED <<api, sent, gone>> /\ UNCHANGED request

StreamBreaks ==
  /\ phase = "stream"
  /\ phase' = "cut"
  /\ Relay(fail(tr))
  /\ UNCHANGED <<api, sent, gone>> /\ UNCHANGED request

ReaderLeaves ==
  /\ phase = "stream" /\ ~gone
  /\ gone' = TRUE
  /\ UNCHANGED <<api, phase, sent, tr>> /\ UNCHANGED request

TranslationInit ==
  /\ api \in {"chat", "anthropic", "responses"}
  /\ phase = "decode"
  /\ talk = NewTalk /\ pending = <<>>
  /\ \/ msgs = <<>>
     \/ api # "chat" /\ msgs = <<Message("system", TRUE, <<>>, 0)>>
  /\ sent = <<>> /\ tr = NewTranslator /\ gone = FALSE

TranslationNext ==
  \/ decodeAnthropicRequest \/ decodeResponsesRequest \/ RequestDecoded
  \/ ChunkArrives \/ EmptyLine \/ StreamEnds \/ StreamBreaks \/ ReaderLeaves

TranslationSpec == TranslationInit /\ [][TranslationNext]_tvars

-----------------------------------------------------------------------------
(* The answer as a whole, for a client that does not stream.  A part is its *)
(* place in the stream, so that parts in their order are their set.        *)

Said(kind) == {i \in DOMAIN sent : sent[i].kind = kind}

Arguments == [c \in 1..Cardinality(Begun) |->
                {i \in Said("tool") : sent[i].call = c /\ sent[i].args}]

encodeAnthropicResponse == [text |-> Said("text"), reason |-> {}, calls |-> Arguments]
encodeResponsesResponse == [text |-> Said("text"), reason |-> Said("reason"), calls |-> Arguments]

LastFinish == IF Said("finish") = {} THEN "none" ELSE sent[Max(Said("finish"))].finish

-----------------------------------------------------------------------------
(* The calls asked so far: in the messages, and in the one to come         *)
Groups == [i \in 1..(Len(msgs) + 1) |-> IF i <= Len(msgs) THEN msgs[i].calls ELSE pending]

(* The chat conversation is one an upstream accepts and the client meant:  *)
(* each tool result stands behind the assistant message with its call with *)
(* nothing but results in between, and each call is asked once, in the     *)
(* order the client numbered them (responses.go:157, anthropic.go:245).    *)
RequestFaithful ==
  /\ \A i \in DOMAIN msgs : msgs[i].role = "tool" =>
       \E j \in 1..(i - 1) :
         /\ msgs[i].answers \in ToSet(msgs[j].calls)
         /\ \A k \in (j + 1)..(i - 1) : msgs[k].role = "tool"
  /\ UNION {ToSet(Groups[i]) : i \in DOMAIN Groups} = 1..talk.asked
  /\ \A i, j \in DOMAIN Groups : \A m \in DOMAIN Groups[i], n \in DOMAIN Groups[j] :
       i < j \/ (i = j /\ m < n) => Groups[i][m] < Groups[j][n]

(* An upstream keeps the protocol if the fragments of a call follow one    *)
(* another and, if there are several, all carry its index.                 *)
Orderly == \A i \in DOMAIN sent : sent[i].kind = "tool" /\ ~sent[i].named =>
  /\ sent[i].index # 0
  /\ \E j \in 1..(i - 1) :
       /\ sent[j].named /\ sent[j].index = sent[i].index
       /\ \A k \in j..i : sent[k].kind = "tool" => sent[k].call = sent[i].call
       /\ \A k \in j..i : sent[k].kind \notin {"text", "reason"}

(* The events nest: blocks are numbered in a row, one is open at a time,   *)
(* a delta goes to the open one, and one last event ends the stream, also  *)
(* one that breaks (anthropic.go:498, responses.go:403, 679).              *)
EventsNest ==
  /\ Orderly => client.nested
  /\ phase = "ended" /\ ~gone /\ api # "chat" => client.end = "done"
  /\ phase = "cut" /\ ~gone /\ api # "chat" => client.end = "failed"

Content(blocks, kind, call) ==
  UNION {ToSet(blocks[i].parts) : i \in {j \in DOMAIN blocks : blocks[j].kind = kind
                                                             /\ blocks[j].call = call}}
ToolBlocks(blocks) == {i \in DOMAIN blocks : blocks[i].kind = "tool"}

(* What the blocks say, in whatever blocks it is said *)
Heard(blocks) ==
  [text |-> Content(blocks, "text", 0), reason |-> Content(blocks, "reason", 0),
   calls |-> [c \in {blocks[i].call : i \in ToolBlocks(blocks)} |-> Content(blocks, "tool", c)]]

(* All parts in their order, and one block for each call, in the order of calls *)
InOrder(blocks) ==
  /\ \A i, j \in DOMAIN blocks : \A m \in DOMAIN blocks[i].parts, n \in DOMAIN blocks[j].parts :
       i < j \/ (i = j /\ m < n) => blocks[i].parts[m] < blocks[j].parts[n]
  /\ \A i, j \in ToolBlocks(blocks) : i < j => blocks[i].call < blocks[j].call

(* A streaming client rebuilds the answer a client gets that does not      *)
(* stream: the same text, each tool call once, under its name, with all its *)
(* arguments, and the same reason for the end if the upstream gave one      *)
(* (anthropic.go:616, responses.go:641).                                   *)
Rebuilt == phase = "ended" /\ ~gone /\ Orderly =>
  /\ InOrder(client.blocks)
  /\ api = "anthropic" =>
       /\ Heard(client.blocks) = encodeAnthropicResponse
       /\ LastFinish # "none" => client.stop = anthStopReason(LastFinish)
  /\ api = "responses" =>
       /\ Heard(client.blocks) = encodeResponsesResponse
       /\ client.whole = client.blocks
       /\ LastFinish = "length" => client.stop = respStatus(LastFinish)
  /\ api = "chat" => Content(client.blocks, "raw", 0) = DOMAIN sent

(* What the upstream said of the usage is known at the end, whether or not *)
(* the client stayed (sse.go:15).                                          *)
Harvested == phase \in {"ended", "cut"} =>
  tr.usage = IF Said("usage") = {} THEN 0 ELSE Max(Said("usage"))
=============================================================================
