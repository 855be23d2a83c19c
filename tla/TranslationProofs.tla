-------------------------- MODULE TranslationProofs --------------------------
(***************************************************************************)
(* Proofs about Translation, for conversations and answers of any length.  *)
(***************************************************************************)
EXTENDS Translation, SequenceTheorems, FiniteSetTheorems, TLAPS

Kinds == {"none", "text", "reason", "tool", "raw"}
Blocks == [kind : Kinds, call : Nat, parts : Seq(Nat)]
Stops == {"none", "tool_use", "max_tokens", "refusal", "end_turn", "incomplete", "completed"}
Clients ==
  [begun : BOOLEAN, blocks : Seq(Blocks), open : Nat, end : {"none", "done", "failed"},
   stop : Stops, whole : Seq(Blocks), nested : BOOLEAN]
Translators ==
  [started : BOOLEAN, kind : Kinds, at : Nat, next : Nat, map : SUBSET [index : Nat, at : Nat],
   call : Nat, buf : Seq(Nat), output : Seq(Blocks), sawTool : BOOLEAN, stop : Stops,
   usage : Nat, client : Clients]

-----------------------------------------------------------------------------
(* What the client makes of an event *)

(* A block is one. *)
LEMMA BlockTyped ==
  ASSUME NEW kind \in Kinds, NEW call \in Nat, NEW parts \in Seq(Nat)
  PROVE  /\ Block(kind, call, parts) \in Blocks
         /\ Block(kind, call, parts).kind = kind
         /\ Block(kind, call, parts).call = call
         /\ Block(kind, call, parts).parts = parts
BY DEF Block, Blocks

(* The stream begins once. *)
LEMMA HearsStart ==
  ASSUME NEW c \in Clients, NEW d, d = Receive(c, [ev |-> "start"])
  PROVE  /\ d \in Clients /\ d.begun /\ d.blocks = c.blocks /\ d.open = c.open /\ d.end = c.end
         /\ d.stop = c.stop /\ d.whole = c.whole /\ (d.nested <=> c.nested /\ ~c.begun)
<1>1. d = [c EXCEPT !.begun = TRUE, !.nested = @ /\ ~c.begun]
  BY DEF Receive
<1> DEFINE b == c.nested /\ ~c.begun
<1>2. b \in BOOLEAN
  OBVIOUS
<1>3. d = [c EXCEPT !.begun = TRUE, !.nested = b]
  BY <1>1
<1> HIDE DEF b
<1>4. /\ d \in Clients /\ d.begun /\ d.blocks = c.blocks /\ d.open = c.open /\ d.end = c.end
      /\ d.stop = c.stop /\ d.whole = c.whole /\ d.nested = b
  BY <1>2, <1>3 DEF Clients
<1> QED
  BY <1>4 DEF b

(* A block is opened behind the others. *)
LEMMA HearsOpen ==
  ASSUME NEW c \in Clients, NEW kind \in Kinds, NEW call \in Nat, NEW at \in Nat,
         NEW d, d = Receive(c, [ev |-> "open", at |-> at, kind |-> kind, call |-> call])
  PROVE  /\ d \in Clients /\ d.begun = c.begun
         /\ d.blocks = Append(c.blocks, Block(kind, call, <<>>)) /\ d.open = at
         /\ d.end = c.end /\ d.stop = c.stop /\ d.whole = c.whole
         /\ d.nested <=> c.nested /\ c.begun /\ c.open = 0 /\ at = Len(c.blocks) + 1
<1> DEFINE b == c.nested /\ c.begun /\ c.open = 0 /\ at = Len(c.blocks) + 1
           new == Append(c.blocks, Block(kind, call, <<>>))
<1>1. d = [c EXCEPT !.blocks = new, !.open = at, !.nested = b]
  BY DEF Receive
<1>2. b \in BOOLEAN /\ new \in Seq(Blocks)
  <2>1. <<>> \in Seq(Nat)
    OBVIOUS
  <2>2. Block(kind, call, <<>>) \in Blocks
    BY <2>1, BlockTyped
  <2> QED
    BY <2>2 DEF Clients
<1> HIDE DEF b, new
<1>3. /\ d \in Clients /\ d.begun = c.begun /\ d.blocks = new /\ d.open = at
      /\ d.end = c.end /\ d.stop = c.stop /\ d.whole = c.whole /\ d.nested = b
  BY <1>1, <1>2 DEF Clients
<1> QED
  BY <1>3 DEF b, new

(* A part is added to the block it is for. *)
LEMMA HearsDelta ==
  ASSUME NEW c \in Clients, NEW at \in Nat, NEW n \in Nat,
         NEW d, d = Receive(c, [ev |-> "delta", at |-> at, part |-> n])
  PROVE  /\ d \in Clients /\ d.begun = c.begun
         /\ d.blocks = [c.blocks EXCEPT ![at].parts = Append(@, n)] /\ d.open = c.open
         /\ d.end = c.end /\ d.stop = c.stop /\ d.whole = c.whole
         /\ d.nested <=> c.nested /\ c.open = at
<1> DEFINE b == c.nested /\ c.open = at
           new == [c.blocks EXCEPT ![at].parts = Append(@, n)]
<1>1. d = [c EXCEPT !.blocks = new, !.nested = b]
  BY DEF Receive
<1>2. b \in BOOLEAN /\ new \in Seq(Blocks)
  <2>1. c.blocks \in Seq(Blocks)
    BY DEF Clients
  <2>2. ASSUME NEW x \in Blocks PROVE [x EXCEPT !.parts = Append(@, n)] \in Blocks
    <3> DEFINE p == Append(x.parts, n)
    <3>1. p \in Seq(Nat)
      BY DEF Blocks
    <3> HIDE DEF p
    <3>2. [x EXCEPT !.parts = p] \in Blocks
      BY <3>1 DEF Blocks
    <3> QED
      BY <3>2 DEF p
  <2>3. CASE at \in DOMAIN c.blocks
    <3> DEFINE y == [c.blocks[at] EXCEPT !.parts = Append(@, n)]
    <3>1. new = [c.blocks EXCEPT ![at] = y]
      OBVIOUS
    <3>2. y \in Blocks
      BY <2>1, <2>2, <2>3
    <3> HIDE DEF y, new
    <3> QED
      BY <2>1, <2>3, <3>1, <3>2, ExceptSeq
  <2>4. CASE at \notin DOMAIN c.blocks
    <3>1. new = c.blocks
      BY <2>1, <2>4
    <3> QED
      BY <2>1, <3>1
  <2> QED
    BY <2>3, <2>4
<1> HIDE DEF b, new
<1>3. /\ d \in Clients /\ d.begun = c.begun /\ d.blocks = new /\ d.open = c.open
      /\ d.end = c.end /\ d.stop = c.stop /\ d.whole = c.whole /\ d.nested = b
  BY <1>1, <1>2 DEF Clients
<1> QED
  BY <1>3 DEF b, new

(* The open block is closed. *)
LEMMA HearsClose ==
  ASSUME NEW c \in Clients, NEW at \in Nat, NEW d, d = Receive(c, [ev |-> "close", at |-> at])
  PROVE  /\ d \in Clients /\ d.begun = c.begun /\ d.blocks = c.blocks /\ d.open = 0
         /\ d.end = c.end /\ d.stop = c.stop /\ d.whole = c.whole
         /\ d.nested <=> c.nested /\ c.open = at
<1> DEFINE b == c.nested /\ c.open = at
           z == 0
<1>1. d = [c EXCEPT !.open = z, !.nested = b]
  BY DEF Receive
<1>2. b \in BOOLEAN /\ z \in Nat
  OBVIOUS
<1> HIDE DEF b, z
<1>3. /\ d \in Clients /\ d.begun = c.begun /\ d.blocks = c.blocks /\ d.open = z
      /\ d.end = c.end /\ d.stop = c.stop /\ d.whole = c.whole /\ d.nested = b
  BY <1>1, <1>2 DEF Clients
<1> QED
  BY <1>3 DEF b, z

(* The stream ends. *)
LEMMA HearsDone ==
  ASSUME NEW c \in Clients, NEW whole \in Seq(Blocks), NEW stop \in Stops,
         NEW d, d = Receive(c, [ev |-> "done", whole |-> whole, stop |-> stop])
  PROVE  /\ d \in Clients /\ d.begun = c.begun /\ d.blocks = c.blocks /\ d.open = c.open
         /\ d.end = "done" /\ d.stop = stop /\ d.whole = whole
         /\ d.nested <=> c.nested /\ c.begun /\ c.open = 0 /\ c.end = "none"
<1> DEFINE b == c.nested /\ c.begun /\ c.open = 0 /\ c.end = "none"
<1>1. d = [c EXCEPT !.end = "done", !.stop = stop, !.whole = whole, !.nested = b]
  BY DEF Receive
<1>2. b \in BOOLEAN
  OBVIOUS
<1> HIDE DEF b
<1>3. /\ d \in Clients /\ d.begun = c.begun /\ d.blocks = c.blocks /\ d.open = c.open
      /\ d.end = "done" /\ d.stop = stop /\ d.whole = whole /\ d.nested = b
  BY <1>1, <1>2 DEF Clients
<1> QED
  BY <1>3 DEF b

(* The stream fails. *)
LEMMA HearsFailure ==
  ASSUME NEW c \in Clients, NEW d, d = Receive(c, [ev |-> "failed"])
  PROVE  /\ d \in Clients /\ d.blocks = c.blocks /\ d.end = "failed"
         /\ d.nested <=> c.nested /\ c.end = "none"
<1> DEFINE b == c.nested /\ c.end = "none"
<1>1. d = [c EXCEPT !.end = "failed", !.nested = b]
  BY DEF Receive
<1>2. b \in BOOLEAN
  OBVIOUS
<1> HIDE DEF b
<1>3. /\ d \in Clients /\ d.blocks = c.blocks /\ d.end = "failed" /\ d.nested = b
  BY <1>1, <1>2 DEF Clients
<1> QED
  BY <1>3 DEF b

(* An event of the chat stream is passed on. *)
LEMMA HearsRaw ==
  ASSUME NEW c \in Clients, NEW parts \in Seq(Nat),
         NEW d, d = Receive(c, [ev |-> "raw", parts |-> parts])
  PROVE  /\ d \in Clients /\ d.blocks = Append(c.blocks, Block("raw", 0, parts))
         /\ d.end = c.end /\ d.nested = c.nested
<1> DEFINE new == Append(c.blocks, Block("raw", 0, parts))
<1>1. d = [c EXCEPT !.blocks = new]
  BY DEF Receive
<1>2. new \in Seq(Blocks)
  <2>1. Block("raw", 0, parts) \in Blocks
    BY BlockTyped DEF Kinds
  <2> QED
    BY <2>1 DEF Clients
<1> HIDE DEF new
<1>3. d \in Clients /\ d.blocks = new /\ d.end = c.end /\ d.nested = c.nested
  BY <1>1, <1>2 DEF Clients
<1> QED
  BY <1>3 DEF new
-----------------------------------------------------------------------------
(* The steps of a translator *)

(* The client hears what the translator has written: its open block is the  *)
(* translator's, the others are those kept for the end.                     *)
Mirrors(t) ==
  IF t.at = 0 THEN t.kind = "none" /\ t.client.blocks = t.output
  ELSE /\ t.kind \in {"text", "reason", "tool"} /\ (t.kind # "tool" => t.call = 0)
       /\ t.at = Len(t.output) + 1
       /\ t.client.blocks = Append(t.output, Block(t.kind, t.call, t.buf))

Good(t) ==
  /\ t.client.begun = t.started /\ t.client.open = t.at /\ t.client.end = "none"
  /\ t.next = Len(t.client.blocks) + 1 /\ t.client.nested
  /\ Mirrors(t)

(* Writing an event changes the client only. *)
LEMMA Emits ==
  ASSUME NEW t \in Translators, NEW e, NEW d \in Clients,
         d = IF gone THEN t.client ELSE Receive(t.client, e)
  PROVE  /\ emit(t, e) \in Translators /\ emit(t, e).client = d
         /\ emit(t, e).started = t.started /\ emit(t, e).kind = t.kind /\ emit(t, e).at = t.at
         /\ emit(t, e).next = t.next /\ emit(t, e).map = t.map /\ emit(t, e).call = t.call
         /\ emit(t, e).buf = t.buf /\ emit(t, e).output = t.output
         /\ emit(t, e).sawTool = t.sawTool
         /\ emit(t, e).stop = t.stop /\ emit(t, e).usage = t.usage
<1>1. emit(t, e) = [t EXCEPT !.client = d]
  BY DEF emit, Write
<1> QED
  BY <1>1 DEF Translators

(* The stream begins with the first thing to say. *)
LEMMA EnsuresStart ==
  ASSUME NEW t \in Translators, NEW u, u = ensureStart(t)
  PROVE  /\ u \in Translators /\ u.started
         /\ u.kind = t.kind /\ u.at = t.at /\ u.next = t.next /\ u.map = t.map /\ u.call = t.call
         /\ u.buf = t.buf /\ u.output = t.output /\ u.sawTool = t.sawTool
         /\ u.stop = t.stop /\ u.usage = t.usage
         /\ gone => u.client = t.client
         /\ ~gone /\ Good(t) => Good(u) /\ u.client.blocks = t.client.blocks
<1>1. CASE t.started
  BY <1>1 DEF ensureStart
<1>2. CASE ~t.started
  <2> DEFINE s == [t EXCEPT !.started = TRUE]
             e == [ev |-> "start"]
             d == IF gone THEN s.client ELSE Receive(s.client, e)
  <2>1. /\ s \in Translators /\ s.started
        /\ s.kind = t.kind /\ s.at = t.at /\ s.next = t.next /\ s.map = t.map /\ s.call = t.call
        /\ s.buf = t.buf /\ s.output = t.output /\ s.sawTool = t.sawTool
        /\ s.stop = t.stop /\ s.usage = t.usage /\ s.client = t.client /\ t.client \in Clients
    BY DEF Translators
  <2>2. u = emit(s, e)
    BY <1>2 DEF ensureStart
  <2> HIDE DEF s
  <2>3. /\ d \in Clients
        /\ ~gone => /\ d.begun /\ d.blocks = t.client.blocks /\ d.open = t.client.open
                    /\ d.end = t.client.end /\ (d.nested <=> t.client.nested /\ ~t.client.begun)
    BY <2>1, HearsStart
  <2> HIDE DEF d, e
  <2>4. /\ u \in Translators /\ u.client = d /\ u.started
        /\ u.kind = t.kind /\ u.at = t.at /\ u.next = t.next /\ u.map = t.map /\ u.call = t.call
        /\ u.buf = t.buf /\ u.output = t.output /\ u.sawTool = t.sawTool
        /\ u.stop = t.stop /\ u.usage = t.usage
    BY <2>1, <2>2, <2>3, Emits DEF d
  <2>5. gone => u.client = t.client
    BY <2>1, <2>4 DEF d
  <2>6. ASSUME ~gone, Good(t) PROVE Good(u) /\ u.client.blocks = t.client.blocks
    BY <1>2, <2>3, <2>4, <2>6, ZenonT(30) DEF Good, Mirrors
  <2> QED
    BY <2>4, <2>5, <2>6
<1> QED
  BY <1>1, <1>2

(* The open block is closed and kept. *)
LEMMA ClosesBlock ==
  ASSUME NEW t \in Translators, NEW u, u = closeBlock(t)
  PROVE  /\ u \in Translators /\ u.at = 0 /\ u.started = t.started
         /\ u.next = t.next /\ u.map = t.map /\ u.sawTool = t.sawTool
         /\ u.stop = t.stop /\ u.usage = t.usage
         /\ gone => u.client = t.client
         /\ ~gone /\ Good(t) => Good(u) /\ u.client.blocks = t.client.blocks
<1>1. CASE t.at = 0
  BY <1>1 DEF closeBlock
<1>2. CASE t.at # 0
  <2> DEFINE done == Append(t.output, Block(t.kind, t.call, t.buf))
             z == 0
             s == [t EXCEPT !.at = z, !.kind = "none", !.output = done]
             e == [ev |-> "close", at |-> t.at]
             d == IF gone THEN s.client ELSE Receive(s.client, e)
  <2>0. done \in Seq(Blocks) /\ z \in Nat /\ "none" \in Kinds /\ t.at \in Nat /\ t.client \in Clients
    <3>1. Block(t.kind, t.call, t.buf) \in Blocks
      BY BlockTyped DEF Translators
    <3> QED
      BY <3>1 DEF Translators, Kinds
  <2>2. u = emit(s, e)
    BY <1>2 DEF closeBlock
  <2> HIDE DEF done, z
  <2>1. /\ s \in Translators /\ s.started = t.started
        /\ s.kind = "none" /\ s.at = z /\ s.next = t.next /\ s.map = t.map /\ s.call = t.call
        /\ s.buf = t.buf /\ s.output = done /\ s.sawTool = t.sawTool
        /\ s.stop = t.stop /\ s.usage = t.usage /\ s.client = t.client
    BY <2>0 DEF Translators
  <2> HIDE DEF s
  <2>3. /\ d \in Clients
        /\ ~gone => /\ d.begun = t.client.begun /\ d.blocks = t.client.blocks /\ d.open = 0
                    /\ d.end = t.client.end /\ (d.nested <=> t.client.nested /\ t.client.open = t.at)
    BY <2>0, <2>1, HearsClose
  <2> HIDE DEF d, e
  <2>4. /\ u \in Translators /\ u.client = d /\ u.started = t.started
        /\ u.kind = "none" /\ u.at = z /\ u.next = t.next /\ u.map = t.map /\ u.call = t.call
        /\ u.buf = t.buf /\ u.output = done /\ u.sawTool = t.sawTool
        /\ u.stop = t.stop /\ u.usage = t.usage
    BY <2>1, <2>2, <2>3, Emits DEF d
  <2>5. gone => u.client = t.client
    BY <2>1, <2>4 DEF d
  <2>6. ASSUME ~gone, Good(t) PROVE Good(u) /\ u.client.blocks = t.client.blocks
    BY <1>2, <2>3, <2>4, <2>6 DEF Good, Mirrors, done, z
  <2> QED
    BY <2>4, <2>5, <2>6 DEF z
<1> QED
  BY <1>1, <1>2

(* What the translator knows beside the block it is in is left alone, and  *)
(* a client that has left hears nothing.                                   *)
Steady(t, u) == /\ u \in Translators /\ u.stop = t.stop /\ u.usage = t.usage
                /\ gone => u.client = t.client

InBlock(t, kind, call, at, map) == t.kind = kind /\ t.call = call /\ t.at = at /\ t.map = map

(* D is B with one block more *)
BlockMore(B, D, kind, call) == D = Append(B, Block(kind, call, <<>>))

(* A block is opened behind the others. *)
LEMMA OpensBlock ==
  ASSUME NEW t \in Translators, NEW kind \in {"text", "reason", "tool"}, NEW call \in Nat, NEW u,
         kind # "tool" => call = 0, u = openBlock(t, kind, call)
  PROVE  /\ Steady(t, u) /\ InBlock(u, kind, call, t.next, t.map)
         /\ ~gone /\ Good(t) => /\ Good(u) /\ u.at # 0
                                /\ BlockMore(t.client.blocks, u.client.blocks, kind, call)
<1> DEFINE r == ensureStart(t)
           c == closeBlock(r)
           one == c.next
           next == c.next + 1
           saw == c.sawTool \/ kind = "tool"
           empty == <<>>
           s == [c EXCEPT !.at = one, !.kind = kind, !.next = next, !.call = call, !.buf = empty,
                          !.sawTool = saw]
           e == [ev |-> "open", at |-> one, kind |-> kind, call |-> call]
           d == IF gone THEN s.client ELSE Receive(s.client, e)
<1>1. /\ r \in Translators /\ r.started /\ r.next = t.next /\ r.map = t.map
      /\ r.stop = t.stop /\ r.usage = t.usage
      /\ gone => r.client = t.client
      /\ ~gone /\ Good(t) => Good(r) /\ r.client.blocks = t.client.blocks
  <2> HIDE DEF r
  <2> QED
    BY EnsuresStart DEF r
<1>2. /\ c \in Translators /\ c.at = 0 /\ c.started = r.started /\ c.next = r.next /\ c.map = r.map
      /\ c.stop = r.stop /\ c.usage = r.usage
      /\ gone => c.client = r.client
      /\ ~gone /\ Good(r) => Good(c) /\ c.client.blocks = r.client.blocks
  <2> HIDE DEF r, c
  <2> QED
    BY <1>1, ClosesBlock DEF c
<1>3. u = emit(s, e)
  BY DEF openBlock
<1> HIDE DEF r, c
<1>4. one \in Nat /\ next \in Nat /\ saw \in BOOLEAN /\ empty \in Seq(Nat) /\ kind \in Kinds
      /\ c.client \in Clients /\ next = one + 1
  BY <1>2 DEF Translators, Kinds
<1>5. empty = <<>> /\ one = c.next
  OBVIOUS
<1> HIDE DEF one, next, saw, empty
<1>6. /\ s \in Translators /\ s.started = c.started
      /\ s.kind = kind /\ s.at = one /\ s.next = next /\ s.map = c.map /\ s.call = call
      /\ s.buf = empty /\ s.output = c.output
      /\ s.stop = c.stop /\ s.usage = c.usage /\ s.client = c.client
  BY <1>2, <1>4, ZenonT(30) DEF Translators
<1> HIDE DEF s
<1>7. /\ d \in Clients
      /\ ~gone => /\ d.begun = c.client.begun
                  /\ d.blocks = Append(c.client.blocks, Block(kind, call, <<>>)) /\ d.open = one
                  /\ d.end = c.client.end
                  /\ (d.nested <=> c.client.nested /\ c.client.begun /\ c.client.open = 0
                                   /\ one = Len(c.client.blocks) + 1)
  <2>1. s.client = c.client /\ c.client \in Clients
    BY <1>4, <1>6
  <2> QED
    BY <1>4, <2>1, HearsOpen
<1> HIDE DEF d, e
<1>8. /\ u \in Translators /\ u.client = d /\ u.started = c.started
      /\ u.kind = kind /\ u.at = one /\ u.next = next /\ u.map = c.map /\ u.call = call
      /\ u.buf = empty /\ u.output = c.output
      /\ u.stop = c.stop /\ u.usage = c.usage
  BY <1>3, <1>6, <1>7, Emits DEF d
<1>9. gone => u.client = t.client
  BY <1>1, <1>2, <1>6, <1>8 DEF d
<1>10. ASSUME ~gone, Good(t)
       PROVE  /\ Good(u) /\ u.at # 0
              /\ BlockMore(t.client.blocks, u.client.blocks, kind, call)
  <2>1. Good(c) /\ c.client.blocks = t.client.blocks /\ c.started
    BY <1>1, <1>2, <1>10
  <2>2. c.client.blocks = c.output /\ one = Len(c.client.blocks) + 1 /\ c.client.begun
        /\ c.client.open = 0 /\ c.client.nested /\ c.client.end = "none"
    BY <1>2, <1>5, <2>1 DEF Good, Mirrors
  <2>3. c.client.blocks \in Seq(Blocks) /\ Len(c.client.blocks) \in Nat
    BY <1>4 DEF Clients
  <2>4. Len(u.client.blocks) = Len(c.client.blocks) + 1
    <3>1. <<>> \in Seq(Nat)
      OBVIOUS
    <3>2. Block(kind, call, <<>>) \in Blocks
      BY <1>4, <3>1, BlockTyped
    <3> QED
      BY <1>7, <1>8, <1>10, <2>3, <3>2
  <2>5. Mirrors(u)
    BY <1>5, <1>7, <1>8, <1>10, <2>2, <2>3 DEF Mirrors
  <2>6. Good(u)
    <3>1. u.client.nested
      BY <1>7, <1>8, <1>10, <2>2
    <3>2. u.next = Len(u.client.blocks) + 1
      BY <1>4, <1>8, <2>2, <2>4
    <3>3. u.client.begun = u.started /\ u.client.open = u.at /\ u.client.end = "none"
      BY <1>7, <1>8, <1>10, <2>1, <2>2
    <3> QED
      BY <2>5, <3>1, <3>2, <3>3 DEF Good
  <2> QED
    BY <1>7, <1>8, <1>10, <2>1, <2>2, <2>3, <2>6 DEF BlockMore
<1> QED
  BY <1>1, <1>2, <1>5, <1>8, <1>9, <1>10 DEF Steady, InBlock

-----------------------------------------------------------------------------
(* Blocks *)

(* All that the blocks say was sent up to part n *)
UpTo(blocks, n) ==
  \A i \in DOMAIN blocks : \A m \in DOMAIN blocks[i].parts : blocks[i].parts[m] <= n

CallsOf(blocks) == {blocks[i].call : i \in ToolBlocks(blocks)}

(* D tells part p, by S in a block (kind, call), and the calls of new *)
Tells(B, D, p, kind, call, S, new) ==
  /\ InOrder(D) /\ UpTo(D, p) /\ CallsOf(D) = CallsOf(B) \cup new
  /\ \A k \in Kinds, c \in Nat :
       Content(D, k, c) = Content(B, k, c) \cup IF k = kind /\ c = call THEN S ELSE {}

(* What blocks say is said in one of them. *)
LEMMA SaidInBlock ==
  ASSUME NEW B, NEW kind, NEW call, NEW x
  PROVE  x \in Content(B, kind, call) <=>
           \E i \in DOMAIN B : /\ B[i].kind = kind /\ B[i].call = call
                               /\ \E m \in DOMAIN B[i].parts : B[i].parts[m] = x
<1> DEFINE I == {j \in DOMAIN B : B[j].kind = kind /\ B[j].call = call}
           S == {ToSet(B[i].parts) : i \in I}
<1>1. x \in Content(B, kind, call) <=> x \in UNION S
  BY DEF Content
<1>2. x \in UNION S <=> \E i \in I : x \in ToSet(B[i].parts)
  OBVIOUS
<1>3. ASSUME NEW i PROVE x \in ToSet(B[i].parts) <=> \E m \in DOMAIN B[i].parts : B[i].parts[m] = x
  BY DEF ToSet
<1> HIDE DEF S
<1> QED
  BY <1>1, <1>2, <1>3

(* An empty block behind the others says nothing. *)
LEMMA OpenedBlock ==
  ASSUME NEW B \in Seq(Blocks), NEW kind \in Kinds, NEW call \in Nat, NEW n, NEW D,
         InOrder(B), UpTo(B, n), kind = "tool" => \A c \in CallsOf(B) : c < call,
         BlockMore(B, D, kind, call)
  PROVE  /\ D \in Seq(Blocks)
         /\ Tells(B, D, n, kind, call, {}, IF kind = "tool" THEN {call} ELSE {})
<1> DEFINE new == Block(kind, call, <<>>)
           l == Len(B) + 1
<1>1. new \in Blocks /\ new.kind = kind /\ new.call = call /\ new.parts = <<>>
  <2>1. <<>> \in Seq(Nat)
    OBVIOUS
  <2>2. new \in Blocks
    BY <2>1, BlockTyped
  <2>3. new.kind = kind /\ new.call = call /\ new.parts = <<>>
    BY DEF Block
  <2> QED
    BY <2>2, <2>3
<1>2. D = Append(B, new)
  BY DEF BlockMore
<1> HIDE DEF new
<1>3. /\ D \in Seq(Blocks) /\ Len(D) = l /\ DOMAIN D = 1..l /\ DOMAIN B = 1..Len(B)
      /\ D[l] = new /\ \A i \in DOMAIN B : D[i] = B[i]
      /\ Len(B) \in Nat
  BY <1>1, <1>2
<1>4. DOMAIN D[l].parts = {} /\ DOMAIN D = DOMAIN B \cup {l} /\ l \notin DOMAIN B
  BY <1>1, <1>3
<1>5. UpTo(D, n)
  BY <1>3, <1>4 DEF UpTo
<1>6. ToolBlocks(D) = ToolBlocks(B) \cup IF kind = "tool" THEN {l} ELSE {}
  BY <1>1, <1>3, <1>4 DEF ToolBlocks
<1>7. CallsOf(D) = CallsOf(B) \cup IF kind = "tool" THEN {call} ELSE {}
  <2>1. \A i \in ToolBlocks(B) : i \in DOMAIN B /\ D[i].call = B[i].call
    BY <1>3 DEF ToolBlocks
  <2> QED
    BY <1>1, <1>3, <1>6, <2>1 DEF CallsOf
<1>8. InOrder(D)
  <2>1. ASSUME NEW i \in DOMAIN D, NEW j \in DOMAIN D,
               NEW m \in DOMAIN D[i].parts, NEW k \in DOMAIN D[j].parts,
               i < j \/ (i = j /\ m < k)
        PROVE  D[i].parts[m] < D[j].parts[k]
    <3>1. i \in DOMAIN B /\ j \in DOMAIN B
      BY <1>4
    <3>2. D[i] = B[i] /\ D[j] = B[j]
      BY <1>3, <3>1
    <3> QED
      BY <2>1, <3>1, <3>2 DEF InOrder
  <2>2. ASSUME NEW i \in ToolBlocks(D), NEW j \in ToolBlocks(D), i < j
        PROVE  D[i].call < D[j].call
    <3>1. i \in DOMAIN D /\ j \in DOMAIN D
      BY DEF ToolBlocks
    <3>2. i # l
      BY <1>3, <2>2, <3>1
    <3>3. i \in ToolBlocks(B) /\ i \in DOMAIN B /\ D[i] = B[i]
      BY <1>3, <1>4, <1>6, <3>1, <3>2
    <3>4. CASE j = l
      <4>1. kind = "tool" /\ B[i].call \in CallsOf(B)
        BY <1>1, <1>3, <3>3, <3>4 DEF ToolBlocks, CallsOf
      <4> QED
        BY <1>1, <1>3, <3>3, <3>4, <4>1
    <3>5. CASE j # l
      <4>1. j \in ToolBlocks(B) /\ j \in DOMAIN B /\ D[j] = B[j]
        BY <1>3, <1>4, <1>6, <3>1, <3>5
      <4> QED
        BY <2>2, <3>3, <4>1 DEF InOrder
    <3> QED
      BY <3>4, <3>5
  <2> QED
    BY <2>1, <2>2 DEF InOrder
<1>9. ASSUME NEW k \in Kinds, NEW c \in Nat PROVE Content(D, k, c) = Content(B, k, c)
  <2>1. ASSUME NEW x PROVE x \in Content(D, k, c) <=> x \in Content(B, k, c)
    <3> DEFINE in(E, i) == /\ E[i].kind = k /\ E[i].call = c
                           /\ \E m \in DOMAIN E[i].parts : E[i].parts[m] = x
    <3>1. \A i \in DOMAIN B : D[i] = B[i]
      BY <1>3
    <3>6. \A E : x \in Content(E, k, c) <=> \E i \in DOMAIN E : in(E, i)
      BY SaidInBlock
    <3>2. x \in Content(D, k, c) <=> \E i \in DOMAIN D : in(D, i)
      BY <3>6
    <3>3. x \in Content(B, k, c) <=> \E i \in DOMAIN B : in(B, i)
      BY <3>6
    <3>4. ~in(D, l)
      BY <1>4
    <3>5. \A i \in DOMAIN B : in(D, i) <=> in(B, i)
      BY <3>1
    <3> HIDE DEF in
    <3> QED
      BY <1>4, <3>2, <3>3, <3>4, <3>5
  <2> QED
    BY <2>1
<1> QED
  BY <1>3, <1>5, <1>7, <1>8, <1>9 DEF Tells

(* D is B with one part more in the last block *)
OneMore(B, D, p) ==
  /\ B # <<>> /\ DOMAIN D = DOMAIN B /\ \A i \in DOMAIN B : i # Len(B) => D[i] = B[i]
  /\ D[Len(B)].kind = B[Len(B)].kind /\ D[Len(B)].call = B[Len(B)].call
  /\ D[Len(B)].parts = Append(B[Len(B)].parts, p)

(* The next part stands at the end of the last block. *)
LEMMA PartBehind ==
  ASSUME NEW B \in Seq(Blocks), NEW D \in Seq(Blocks), NEW n \in Nat, NEW p \in Nat, n < p,
         InOrder(B), UpTo(B, n), OneMore(B, D, p)
  PROVE  /\ InOrder(D) /\ UpTo(D, p) /\ CallsOf(D) = CallsOf(B)
         /\ \A k \in Kinds, c \in Nat :
              Content(D, k, c) =
                Content(B, k, c) \cup IF k = B[Len(B)].kind /\ c = B[Len(B)].call THEN {p} ELSE {}
<1> DEFINE l == Len(B)
           old == B[l].parts
           parts == Append(old, p)
<1>1. l \in Nat /\ l \in DOMAIN B /\ DOMAIN B = 1..l /\ B[l] \in Blocks
  BY DEF OneMore
<1>2. /\ old \in Seq(Nat) /\ parts \in Seq(Nat) /\ DOMAIN old = 1..Len(old) /\ Len(old) \in Nat
      /\ DOMAIN parts = 1..(Len(old) + 1) /\ parts[Len(old) + 1] = p
      /\ \A m \in DOMAIN old : parts[m] = old[m]
  <2>1. old \in Seq(Nat)
    BY <1>1 DEF Blocks
  <2> HIDE DEF old
  <2> QED
    BY <2>1
<1>4. D[l].parts = parts
  BY DEF OneMore
<1> HIDE DEF parts
<1>5. /\ DOMAIN D = DOMAIN B /\ D[l].kind = B[l].kind /\ D[l].call = B[l].call
      /\ \A i \in DOMAIN B : i # l => D[i] = B[i]
  BY DEF OneMore
<1>6. \A m \in DOMAIN old : old[m] <= n /\ old[m] \in Nat
  <2>1. \A m \in DOMAIN old : old[m] \in Nat
    <3> HIDE DEF old
    <3> QED
      BY <1>2
  <2> QED
    BY <1>1, <2>1 DEF UpTo
<1>7. \A i \in DOMAIN B : \A m \in DOMAIN B[i].parts : B[i].parts[m] <= n /\ B[i].parts[m] \in Nat
  <2>1. ASSUME NEW i \in DOMAIN B, NEW m \in DOMAIN B[i].parts
        PROVE  B[i].parts[m] <= n /\ B[i].parts[m] \in Nat
    <3>1. B[i] \in Blocks
      OBVIOUS
    <3>2. B[i].parts \in Seq(Nat)
      BY <3>1 DEF Blocks
    <3> QED
      BY <3>2 DEF UpTo
  <2> QED
    BY <2>1
<1> HIDE DEF old
<1>8. UpTo(D, p)
  <2>1. ASSUME NEW i \in DOMAIN D, NEW m \in DOMAIN D[i].parts PROVE D[i].parts[m] <= p
    <3>1. CASE i = l
      <4>1. D[i].parts = parts
        BY <1>4, <1>5, <3>1
      <4>2. m \in DOMAIN old \/ m = Len(old) + 1
        BY <1>2, <4>1
      <4> QED
        BY <1>2, <1>6, <4>1, <4>2
    <3>2. CASE i # l
      BY <1>5, <1>7, <3>2
    <3> QED
      BY <3>1, <3>2
  <2> QED
    BY <2>1 DEF UpTo
<1>9. ToolBlocks(D) = ToolBlocks(B)
  BY <1>4, <1>5 DEF ToolBlocks
<1>10. \A i \in DOMAIN B : D[i].call = B[i].call
  BY <1>4, <1>5
<1>11. CallsOf(D) = CallsOf(B)
  BY <1>9, <1>10 DEF CallsOf, ToolBlocks
<1>12. InOrder(D)
  <2>1. ASSUME NEW i \in DOMAIN D, NEW j \in DOMAIN D,
               NEW m \in DOMAIN D[i].parts, NEW k \in DOMAIN D[j].parts,
               i < j \/ (i = j /\ m < k)
        PROVE  D[i].parts[m] < D[j].parts[k]
    <3>1. CASE j # l
      <4>1. i # l
        BY <1>1, <1>5, <2>1, <3>1
      <4>2. D[i] = B[i] /\ D[j] = B[j]
        BY <1>5, <3>1, <4>1
      <4> QED
        BY <1>5, <2>1, <4>2 DEF InOrder
    <3>2. CASE j = l /\ i # l
      <4>1. D[i] = B[i] /\ i < l
        BY <1>5, <2>1, <3>2
      <4>2. CASE k \in DOMAIN old
        BY <1>1, <1>2, <1>4, <1>5, <2>1, <3>2, <4>1, <4>2 DEF InOrder, old
      <4>3. CASE k \notin DOMAIN old
        <5>1. D[j].parts = parts
          BY <1>4, <1>5, <3>2
        <5>2. D[j].parts[k] = p
          BY <1>2, <4>3, <5>1
        <5>3. i \in DOMAIN B /\ m \in DOMAIN B[i].parts
          BY <1>5, <4>1
        <5> QED
          BY <1>7, <4>1, <5>2, <5>3
      <4> QED
        BY <4>2, <4>3
    <3>3. CASE j = l /\ i = l
      <4>1. m < k /\ m \in DOMAIN parts /\ k \in DOMAIN parts
        BY <1>1, <1>4, <1>5, <2>1, <3>3
      <4>2. m \in DOMAIN old
        BY <1>2, <4>1
      <4>3. CASE k \in DOMAIN old
        <5>1. old[m] < old[k]
          BY <1>1, <4>1, <4>2, <4>3 DEF InOrder, old
        <5> QED
          BY <1>2, <1>4, <1>5, <3>3, <4>2, <4>3, <5>1
      <4>4. CASE k \notin DOMAIN old
        <5>1. parts[k] = p
          BY <1>2, <4>1, <4>4
        <5>2. parts[m] <= n /\ parts[m] \in Nat
          BY <1>2, <1>6, <4>2
        <5>3. D[i].parts = parts /\ D[j].parts = parts
          BY <1>4, <1>5, <3>3
        <5> QED
          BY <5>1, <5>2, <5>3
      <4> QED
        BY <4>3, <4>4
    <3> QED
      BY <3>1, <3>2, <3>3
  <2>2. ASSUME NEW i \in ToolBlocks(D), NEW j \in ToolBlocks(D), i < j
        PROVE  D[i].call < D[j].call
    BY <1>9, <1>10, <2>2 DEF InOrder, ToolBlocks
  <2> QED
    BY <2>1, <2>2 DEF InOrder
<1>13. ASSUME NEW k \in Kinds, NEW c \in Nat
       PROVE  Content(D, k, c) =
                Content(B, k, c) \cup IF k = B[l].kind /\ c = B[l].call THEN {p} ELSE {}
  <2>1. ASSUME NEW x
        PROVE  x \in Content(D, k, c) <=>
                 x \in Content(B, k, c) \/ (k = B[l].kind /\ c = B[l].call /\ x = p)
    <3>1. ASSUME x \in Content(D, k, c)
          PROVE  x \in Content(B, k, c) \/ (k = B[l].kind /\ c = B[l].call /\ x = p)
      <4>0. \E i \in DOMAIN D : /\ D[i].kind = k /\ D[i].call = c
                                /\ \E m \in DOMAIN D[i].parts : D[i].parts[m] = x
        BY <3>1, SaidInBlock
      <4>1. PICK i \in DOMAIN D : /\ D[i].kind = k /\ D[i].call = c
                                  /\ \E m \in DOMAIN D[i].parts : D[i].parts[m] = x
        BY <4>0
      <4>2. PICK m \in DOMAIN D[i].parts : D[i].parts[m] = x
        BY <4>1
      <4>3. CASE i # l
        <5>1. i \in DOMAIN B /\ D[i] = B[i]
          BY <1>5, <4>3
        <5> QED
          BY <4>1, <4>2, <5>1, SaidInBlock
      <4>4. CASE i = l /\ m \in DOMAIN old
        <5>1. B[l].parts[m] = x /\ m \in DOMAIN B[l].parts
          BY <1>2, <1>4, <1>5, <4>2, <4>4 DEF old
        <5>2. B[l].kind = k /\ B[l].call = c
          BY <1>4, <1>5, <4>1, <4>4
        <5> QED
          BY <1>1, <5>1, <5>2, SaidInBlock
      <4>5. CASE i = l /\ m \notin DOMAIN old
        <5>1. D[i].parts = parts /\ B[l].kind = k /\ B[l].call = c
          BY <1>4, <1>5, <4>1, <4>5
        <5>2. x = p
          BY <1>2, <4>2, <4>5, <5>1
        <5> QED
          BY <5>1, <5>2
      <4> QED
        BY <4>3, <4>4, <4>5
    <3>2. ASSUME x \in Content(B, k, c) PROVE x \in Content(D, k, c)
      <4>1. PICK i \in DOMAIN B : /\ B[i].kind = k /\ B[i].call = c
                                  /\ \E m \in DOMAIN B[i].parts : B[i].parts[m] = x
        BY <3>2, SaidInBlock
      <4>2. PICK m \in DOMAIN B[i].parts : B[i].parts[m] = x
        BY <4>1
      <4>3. m \in DOMAIN D[i].parts /\ D[i].parts[m] = x /\ D[i].kind = k /\ D[i].call = c
        <5>1. CASE i # l
          BY <1>5, <4>1, <4>2, <5>1
        <5>2. CASE i = l
          <6>1. m \in DOMAIN old /\ old[m] = x
            BY <4>2, <5>2 DEF old
          <6>2. m \in DOMAIN parts /\ parts[m] = x
            BY <1>2, <6>1
          <6>3. D[i].parts = parts /\ D[i].kind = B[l].kind /\ D[i].call = B[l].call
            BY <1>4, <1>5, <5>2
          <6> QED
            BY <4>1, <5>2, <6>2, <6>3
        <5> QED
          BY <5>1, <5>2
      <4> QED
        BY <1>5, <4>3, SaidInBlock
    <3>3. ASSUME k = B[l].kind, c = B[l].call, x = p PROVE x \in Content(D, k, c)
      <4>1. Len(old) + 1 \in DOMAIN D[l].parts /\ D[l].parts[Len(old) + 1] = x
        <5>1. D[l].parts = parts
          BY <1>1, <1>4, <1>5
        <5>2. Len(old) + 1 \in DOMAIN parts
          BY <1>2
        <5> QED
          BY <1>2, <3>3, <5>1, <5>2
      <4>2. D[l].kind = k /\ D[l].call = c /\ l \in DOMAIN D
        BY <1>1, <1>4, <1>5, <3>3
      <4> QED
        BY <4>1, <4>2, SaidInBlock
    <3> QED
      BY <3>1, <3>2, <3>3
  <2>2. CASE k = B[l].kind /\ c = B[l].call
    BY <2>1, <2>2
  <2>3. CASE ~(k = B[l].kind /\ c = B[l].call)
    BY <2>1, <2>3
  <2> QED
    BY <2>2, <2>3
<1> QED
  BY <1>8, <1>11, <1>12, <1>13

(* A delta adds one part. *)
LEMMA AddedPart ==
  ASSUME NEW B \in Seq(Blocks), B # <<>>, NEW p \in Nat,
         NEW D, D = [B EXCEPT ![Len(B)].parts = Append(@, p)]
  PROVE  D \in Seq(Blocks) /\ OneMore(B, D, p)
<1> DEFINE l == Len(B)
           parts == Append(B[l].parts, p)
           new == [B[l] EXCEPT !.parts = parts]
<1>1. l \in Nat /\ l \in DOMAIN B /\ B[l] \in Blocks
  OBVIOUS
<1>2. parts \in Seq(Nat)
  BY <1>1 DEF Blocks
<1>3. D = [B EXCEPT ![l] = new]
  OBVIOUS
<1> HIDE DEF parts
<1>4. new \in Blocks /\ new.kind = B[l].kind /\ new.call = B[l].call /\ new.parts = parts
  BY <1>1, <1>2 DEF Blocks
<1> HIDE DEF new
<1>5. \A x \in Blocks : [B EXCEPT ![l] = x] \in Seq(Blocks)
  BY <1>1, ExceptSeq
<1>6. D \in Seq(Blocks)
  BY <1>3, <1>4, <1>5
<1>7. DOMAIN D = DOMAIN B /\ D[l] = new /\ \A i \in DOMAIN B : i # l => D[i] = B[i]
  BY <1>1, <1>3
<1>8. D[l].kind = B[l].kind /\ D[l].call = B[l].call /\ D[l].parts = Append(B[l].parts, p)
  BY <1>4, <1>7 DEF parts
<1> QED
  BY <1>6, <1>7, <1>8 DEF OneMore

-----------------------------------------------------------------------------
(* The parts of an answer, and what a translator makes of one *)

Sayings == {"text", "reason", "tool", "finish", "usage"}
Endings == {"none", "stop", "tool_calls", "length", "content_filter"}
SentParts ==
  [kind : Sayings, n : Nat, call : Nat, index : Nat, id : BOOLEAN, named : BOOLEAN,
   args : BOOLEAN, finish : Endings]

(* Blocks that tell the parts before p *)
Before(B, p) == InOrder(B) /\ \E n \in Nat : n < p /\ UpTo(B, n)

(* A translator that is in a block is in the client's last one. *)
LEMMA InLastBlock ==
  ASSUME NEW t \in Translators, Good(t), t.at # 0
  PROVE  /\ t.client.blocks \in Seq(Blocks) /\ t.client.blocks # <<>>
         /\ t.at = Len(t.client.blocks) /\ Len(t.client.blocks) = Len(t.output) + 1
         /\ t.client.blocks[t.at].kind = t.kind /\ t.client.blocks[t.at].call = t.call
         /\ t.client.blocks[t.at].parts = t.buf
<1> DEFINE new == Block(t.kind, t.call, t.buf)
<1>1. /\ t.client.blocks = Append(t.output, new) /\ t.at = Len(t.output) + 1
      /\ t.output \in Seq(Blocks) /\ t.client \in Clients
      /\ t.kind \in Kinds /\ t.call \in Nat /\ t.buf \in Seq(Nat)
  BY DEF Good, Mirrors, Translators
<1>2. new \in Blocks /\ new.kind = t.kind /\ new.call = t.call /\ new.parts = t.buf
  BY <1>1, BlockTyped
<1> HIDE DEF new
<1>3. t.client.blocks \in Seq(Blocks) /\ Len(t.client.blocks) = Len(t.output) + 1
      /\ t.client.blocks[Len(t.output) + 1] = new /\ t.client.blocks # <<>>
  BY <1>1, <1>2, AppendProperties
<1> QED
  BY <1>1, <1>2, <1>3

(* A delta changes the block the translator is in. *)
LEMMA Deltas ==
  ASSUME NEW t \in Translators, NEW at \in Nat, NEW p, NEW u,
         p.n \in Nat, u = delta(t, at, p)
  PROVE  /\ Steady(t, u) /\ InBlock(u, t.kind, t.call, t.at, t.map)
         /\ ~gone /\ Good(t) /\ t.at # 0 /\ at = t.at =>
              /\ Good(u)
              /\ OneMore(t.client.blocks, u.client.blocks, p.n)
<1> DEFINE buf == Append(t.buf, p.n)
           s == [t EXCEPT !.buf = buf]
           e == [ev |-> "delta", at |-> at, part |-> p.n]
           d == IF gone THEN s.client ELSE Receive(s.client, e)
<1>1. buf \in Seq(Nat) /\ t.client \in Clients
  BY DEF Translators
<1>2. u = emit(s, e)
  BY DEF delta
<1> HIDE DEF buf
<1>3. /\ s \in Translators /\ s.started = t.started
      /\ s.kind = t.kind /\ s.at = t.at /\ s.next = t.next /\ s.map = t.map /\ s.call = t.call
      /\ s.buf = buf /\ s.output = t.output
      /\ s.stop = t.stop /\ s.usage = t.usage /\ s.client = t.client
  BY <1>1 DEF Translators
<1> HIDE DEF s
<1>4. /\ d \in Clients
      /\ ~gone => /\ d.begun = t.client.begun /\ d.open = t.client.open
                  /\ d.blocks = [t.client.blocks EXCEPT ![at].parts = Append(@, p.n)]
                  /\ d.end = t.client.end /\ (d.nested <=> t.client.nested /\ t.client.open = at)
  <2>1. s.client = t.client /\ t.client \in Clients
    BY <1>1, <1>3
  <2> DEFINE n == p.n
  <2>2. n \in Nat
    OBVIOUS
  <2>3. e = [ev |-> "delta", at |-> at, part |-> n]
    OBVIOUS
  <2> HIDE DEF n, e
  <2>4. gone => d \in Clients
    BY <2>1
  <2>5. ~gone => d = Receive(t.client, [ev |-> "delta", at |-> at, part |-> n])
    BY <2>1, <2>3
  <2> HIDE DEF d
  <2>6. ~gone => /\ d \in Clients /\ d.begun = t.client.begun /\ d.open = t.client.open
                 /\ d.blocks = [t.client.blocks EXCEPT ![at].parts = Append(@, n)]
                 /\ d.end = t.client.end /\ (d.nested <=> t.client.nested /\ t.client.open = at)
    <3> DEFINE c == t.client
               blocks == [c.blocks EXCEPT ![at].parts = Append(@, n)]
    <3>1. c \in Clients
      BY <2>1
    <3> HIDE DEF c
    <3>2. ASSUME NEW x, x = Receive(c, [ev |-> "delta", at |-> at, part |-> n])
          PROVE  /\ x \in Clients /\ x.begun = c.begun /\ x.open = c.open
                 /\ x.blocks = blocks
                 /\ x.end = c.end /\ (x.nested <=> c.nested /\ c.open = at)
      BY <2>2, <3>1, <3>2, HearsDelta
    <3> HIDE DEF blocks
    <3>3. ~gone => d = Receive(c, [ev |-> "delta", at |-> at, part |-> n])
      BY <2>5 DEF c
    <3>4. ~gone => /\ d \in Clients /\ d.begun = c.begun /\ d.open = c.open
                   /\ d.blocks = blocks
                   /\ d.end = c.end /\ (d.nested <=> c.nested /\ c.open = at)
      BY <3>2, <3>3
    <3> QED
      BY <3>4 DEF c, blocks
  <2> QED
    BY <2>4, <2>6 DEF n
<1> HIDE DEF d, e
<1>5. /\ u \in Translators /\ u.client = d /\ u.started = t.started
      /\ u.kind = t.kind /\ u.at = t.at /\ u.next = t.next /\ u.map = t.map /\ u.call = t.call
      /\ u.buf = buf /\ u.output = t.output
      /\ u.stop = t.stop /\ u.usage = t.usage
  BY <1>2, <1>3, <1>4, Emits DEF d
<1>6. gone => u.client = t.client
  BY <1>3, <1>5 DEF d
<1>7. ASSUME ~gone, Good(t), t.at # 0, at = t.at
      PROVE  Good(u) /\ OneMore(t.client.blocks, u.client.blocks, p.n)
  <2> DEFINE B == t.client.blocks
             D == u.client.blocks
             l == Len(B)
             new == Block(t.kind, t.call, buf)
  <2>1. /\ B \in Seq(Blocks) /\ B # <<>> /\ t.at = l /\ l = Len(t.output) + 1
        /\ B[l].kind = t.kind /\ B[l].call = t.call /\ B[l].parts = t.buf
    BY <1>7, InLastBlock
  <2>2. D = [B EXCEPT ![l].parts = Append(@, p.n)]
    BY <1>4, <1>5, <1>7, <2>1
  <2>3. D \in Seq(Blocks) /\ OneMore(B, D, p.n)
    <3> HIDE DEF B, D
    <3> QED
      BY <2>1, <2>2, AddedPart
  <2>4. new \in Blocks /\ new.kind = t.kind /\ new.call = t.call /\ new.parts = buf
    BY <1>1, BlockTyped DEF Translators
  <2>5. t.output \in Seq(Blocks) /\ B = Append(t.output, Block(t.kind, t.call, t.buf))
    BY <1>7 DEF Good, Mirrors, Translators
  <2>6. D[l] = new
    <3>1. l \in DOMAIN B
      BY <2>1
    <3>2. B[l] = Block(t.kind, t.call, t.buf)
      BY <2>1, <2>5
    <3>3. D[l] = [B[l] EXCEPT !.parts = Append(@, p.n)]
      BY <2>2, <3>1
    <3>4. D[l] = [B[l] EXCEPT !.parts = buf]
      BY <2>1, <3>3 DEF buf
    <3> QED
      BY <3>2, <3>4 DEF Block
  <2>7. D = Append(t.output, new)
    <3> DEFINE E == Append(t.output, new)
    <3>1. /\ E \in Seq(Blocks) /\ Len(E) = l /\ E[l] = new
          /\ \A i \in 1..Len(t.output) : E[i] = t.output[i]
      <4> HIDE DEF new
      <4> QED
        BY <2>1, <2>4, <2>5, AppendProperties
    <3>2. Len(D) = l /\ l \in Nat /\ DOMAIN B = 1..l
      <4>1. DOMAIN D = 1..l
        <5> HIDE DEF B, D
        <5>1. DOMAIN D = DOMAIN B
          BY <2>3 DEF OneMore
        <5> QED
          BY <2>1, <5>1
      <4>2. DOMAIN D = 1..Len(D) /\ Len(D) \in Nat /\ l \in Nat /\ DOMAIN B = 1..l
        <5> HIDE DEF B, D
        <5> QED
          BY <2>1, <2>3
      <4> HIDE DEF D, l
      <4> QED
        BY <4>1, <4>2
    <3>3. ASSUME NEW i \in 1..l PROVE E[i] = D[i]
      <4>1. CASE i = l
        BY <2>6, <3>1, <4>1
      <4>2. CASE i # l
        <5>1. D[i] = B[i]
          BY <2>3, <3>2, <4>2 DEF OneMore
        <5>2. i \in 1..Len(t.output) /\ Len(t.output) \in Nat
          BY <2>1, <2>5, <3>2, <4>2
        <5>3. B[i] = t.output[i]
          BY <2>5, <5>2
        <5> QED
          BY <3>1, <5>1, <5>2, <5>3
      <4> QED
        BY <4>1, <4>2
    <3> HIDE DEF E, D, l
    <3>4. E = D
      BY <2>3, <3>1, <3>2, <3>3, SeqEqual
    <3> QED
      BY <3>4 DEF E
  <2>8. Len(D) = l
    <3>1. DOMAIN D = DOMAIN B
      BY <2>3 DEF OneMore
    <3> HIDE DEF D, B
    <3> QED
      BY <2>1, <2>3, <3>1
  <2>9. Mirrors(u)
    BY <1>5, <1>7, <2>7 DEF Mirrors, Good
  <2> QED
    BY <1>4, <1>5, <1>7, <2>3, <2>8, <2>9 DEF Good
<1> QED
  BY <1>5, <1>6, <1>7 DEF Steady, InBlock

(* A block is opened for part p, and says nothing yet. *)
LEMMA OpenTells ==
  ASSUME NEW t \in Translators, NEW kind \in {"text", "reason", "tool"}, NEW call \in Nat,
         NEW p \in Nat, NEW u, u = openBlock(t, kind, call),
         kind # "tool" => call = 0, ~gone, Good(t), Before(t.client.blocks, p),
         kind = "tool" => \A c \in CallsOf(t.client.blocks) : c < call
  PROVE  /\ Before(u.client.blocks, p)
         /\ Tells(t.client.blocks, u.client.blocks, p, kind, call, {},
                  IF kind = "tool" THEN {call} ELSE {})
<1> DEFINE B == t.client.blocks
           D == u.client.blocks
<1>1. B \in Seq(Blocks) /\ kind \in Kinds
  BY DEF Translators, Clients, Kinds
<1>2. BlockMore(B, D, kind, call)
  BY OpensBlock
<1>3. PICK n \in Nat : n < p /\ UpTo(B, n)
  BY DEF Before
<1>4. InOrder(B)
  BY DEF Before
<1>5. kind = "tool" => \A c \in CallsOf(B) : c < call
  OBVIOUS
<1> HIDE DEF B, D
<1>10. D \in Seq(Blocks) /\ Tells(B, D, n, kind, call, {}, IF kind = "tool" THEN {call} ELSE {})
  BY <1>1, <1>2, <1>3, <1>4, <1>5, OpenedBlock
<1>6. /\ D \in Seq(Blocks) /\ InOrder(D) /\ UpTo(D, n)
      /\ \A k \in Kinds, c \in Nat : Content(D, k, c) = Content(B, k, c)
      /\ CallsOf(D) = CallsOf(B) \cup IF kind = "tool" THEN {call} ELSE {}
  BY <1>10 DEF Tells
<1>7. UpTo(D, p)
  <2>1. ASSUME NEW i \in DOMAIN D, NEW m \in DOMAIN D[i].parts PROVE D[i].parts[m] <= p
    <3>1. D[i] \in Blocks
      BY <1>6
    <3>2. D[i].parts[m] \in Nat
      BY <3>1 DEF Blocks
    <3>3. D[i].parts[m] <= n
      BY <1>6 DEF UpTo
    <3> QED
      BY <1>3, <3>2, <3>3
  <2> QED
    BY <2>1 DEF UpTo
<1>8. Before(D, p)
  BY <1>3, <1>6 DEF Before
<1>9. Tells(B, D, p, kind, call, {}, IF kind = "tool" THEN {call} ELSE {})
  BY <1>6, <1>7 DEF Tells
<1> QED
  BY <1>8, <1>9 DEF B, D

(* A delta to the open block says part p. *)
LEMMA DeltaTells ==
  ASSUME NEW t \in Translators, NEW p, NEW u, u = delta(t, t.at, p), p.n \in Nat,
         ~gone, Good(t), t.at # 0, Before(t.client.blocks, p.n)
  PROVE  Good(u) /\ Tells(t.client.blocks, u.client.blocks, p.n, t.kind, t.call, {p.n}, {})
<1> DEFINE B == t.client.blocks
           D == u.client.blocks
           q == p.n
<1>1. /\ u \in Translators /\ Good(u) /\ OneMore(B, D, q)
  <2>1. t.at \in Nat
    BY DEF Translators
  <2> QED
    BY <2>1, Deltas DEF Steady
<1>2. B \in Seq(Blocks) /\ B[Len(B)].kind = t.kind /\ B[Len(B)].call = t.call
  BY InLastBlock
<1>3. D \in Seq(Blocks)
  BY <1>1 DEF Translators, Clients
<1>4. PICK n \in Nat : n < q /\ UpTo(B, n)
  BY DEF Before
<1>5. InOrder(B) /\ q \in Nat
  BY DEF Before
<1> HIDE DEF B, D, q
<1>6. /\ InOrder(D) /\ UpTo(D, q) /\ CallsOf(D) = CallsOf(B)
      /\ \A k \in Kinds, c \in Nat :
           Content(D, k, c) =
             Content(B, k, c) \cup IF k = B[Len(B)].kind /\ c = B[Len(B)].call THEN {q} ELSE {}
  BY <1>1, <1>2, <1>3, <1>4, <1>5, PartBehind
<1>7. Tells(B, D, q, t.kind, t.call, {q}, {})
  BY <1>2, <1>6 DEF Tells
<1> QED
  BY <1>1, <1>7 DEF B, D, q

(* Opening a block and a delta to it are one telling. *)
LEMMA TellsBoth ==
  ASSUME NEW B, NEW E, NEW D, NEW p, NEW kind, NEW call, NEW S, NEW new,
         Tells(B, E, p, kind, call, {}, new), Tells(E, D, p, kind, call, S, {})
  PROVE  Tells(B, D, p, kind, call, S, new)
<1>1. CallsOf(D) = CallsOf(B) \cup new /\ InOrder(D) /\ UpTo(D, p)
  BY DEF Tells
<1>2. ASSUME NEW k \in Kinds, NEW c \in Nat
      PROVE  Content(D, k, c) = Content(B, k, c) \cup IF k = kind /\ c = call THEN S ELSE {}
  <2>1. Content(E, k, c) = Content(B, k, c)
    BY DEF Tells
  <2> QED
    BY <2>1 DEF Tells
<1> QED
  BY <1>1, <1>2 DEF Tells

(* Text and reasoning go to a block of their own kind. *)
LEMMA Extends ==
  ASSUME NEW t \in Translators, NEW kind \in {"text", "reason"}, NEW p, NEW u,
         p.n \in Nat, u = Extend(t, kind, p)
  PROVE  /\ Steady(t, u)
         /\ ~gone /\ Good(t) /\ Before(t.client.blocks, p.n) =>
              Good(u) /\ Tells(t.client.blocks, u.client.blocks, p.n, kind, 0, {p.n}, {})
<1> DEFINE z == 0
           opened == openBlock(t, kind, z)
           o == IF t.kind = kind THEN t ELSE opened
<1>1. u = delta(o, o.at, p) /\ kind \in {"text", "reason", "tool"} /\ kind # "tool" /\ z \in Nat
      /\ z = 0
  BY DEF Extend
<1> HIDE DEF z
<1>6. opened = openBlock(t, kind, z)
  OBVIOUS
<1> HIDE DEF opened
<1>7. /\ Steady(t, opened) /\ InBlock(opened, kind, z, t.next, t.map)
      /\ ~gone /\ Good(t) => Good(opened) /\ opened.at # 0
  BY <1>1, <1>6, OpensBlock
<1>2. /\ opened \in Translators /\ opened.kind = kind /\ opened.call = 0
      /\ ~gone /\ Good(t) => Good(opened) /\ opened.at # 0
  BY <1>1, <1>7 DEF Steady, InBlock
<1>3. Steady(t, o) /\ o \in Translators /\ o.at \in Nat
  BY <1>7 DEF Steady, Translators
<1> HIDE DEF o
<1>4. Steady(o, u)
  BY <1>1, <1>3, Deltas
<1>5. ASSUME ~gone, Good(t), Before(t.client.blocks, p.n)
      PROVE  Good(u) /\ Tells(t.client.blocks, u.client.blocks, p.n, kind, 0, {p.n}, {})
  <2>1. CASE t.kind = kind
    <3>1. t.at # 0 /\ t.call = 0 /\ u = delta(t, t.at, p)
      BY <1>1, <1>5, <2>1 DEF Good, Mirrors, o
    <3> QED
      BY <1>5, <2>1, <3>1, DeltaTells
  <2>2. CASE t.kind # kind
    <3>1. u = delta(opened, opened.at, p) /\ Good(opened) /\ opened.at # 0
      BY <1>1, <1>2, <1>5, <2>2 DEF o
    <3>2. /\ Before(opened.client.blocks, p.n)
          /\ Tells(t.client.blocks, opened.client.blocks, p.n, kind, 0, {}, {})
      <4> DEFINE q == p.n
      <4>1. q \in Nat /\ Before(t.client.blocks, q)
        BY <1>5
      <4> HIDE DEF q
      <4>2. /\ Before(opened.client.blocks, q)
            /\ Tells(t.client.blocks, opened.client.blocks, q, kind, z, {},
                     IF kind = "tool" THEN {z} ELSE {})
        BY <1>1, <1>5, <1>6, <4>1, OpenTells
      <4> QED
        BY <1>1, <4>2 DEF q
    <3>3. Good(u) /\ Tells(opened.client.blocks, u.client.blocks, p.n, kind, 0, {p.n}, {})
      BY <1>2, <1>5, <3>1, <3>2, DeltaTells
    <3> QED
      BY <3>2, <3>3, TellsBoth
  <2> QED
    BY <2>1, <2>2
<1> QED
  BY <1>3, <1>4, <1>5 DEF Steady

(* The index of a call leads to the block it was noted for. *)
LEMMA NotesIndex ==
  ASSUME NEW t \in Translators, NEW p, NEW u,
         p.index \in Nat, u = NoteIndex(t, p)
  PROVE  /\ u \in Translators /\ u.kind = t.kind /\ u.at = t.at /\ u.call = t.call
         /\ u.stop = t.stop /\ u.usage = t.usage /\ u.client = t.client
         /\ Good(t) => Good(u)
         /\ p.index # 0 => Mapped(u, p.index) = {[index |-> p.index, at |-> t.at]}
<1>1. CASE p.index = 0
  BY <1>1 DEF NoteIndex
<1>2. CASE p.index # 0
  <2> DEFINE pair == [index |-> p.index, at |-> t.at]
             map == {m \in t.map : m.index # p.index} \cup {pair}
  <2>1. pair \in [index : Nat, at : Nat] /\ pair.index = p.index
    BY DEF Translators
  <2> HIDE DEF pair
  <2>2. map \in SUBSET [index : Nat, at : Nat]
    BY <2>1 DEF Translators
  <2>3. {m \in map : m.index = p.index} = {pair}
    BY <2>1
  <2> HIDE DEF map
  <2>4. u = [t EXCEPT !.map = map]
    BY <1>2 DEF NoteIndex, map, pair
  <2>5. /\ u \in Translators /\ u.kind = t.kind /\ u.at = t.at /\ u.call = t.call
        /\ u.stop = t.stop /\ u.usage = t.usage /\ u.client = t.client /\ u.map = map
        /\ u.started = t.started /\ u.next = t.next /\ u.buf = t.buf /\ u.output = t.output
    BY <2>2, <2>4 DEF Translators
  <2>6. Mapped(u, p.index) = {pair}
    BY <2>3, <2>5 DEF Mapped
  <2>7. Good(t) => Good(u)
    BY <2>5 DEF Good, Mirrors
  <2> QED
    BY <2>5, <2>6, <2>7 DEF pair
<1> QED
  BY <1>1, <1>2

(* The fragment that begins a call, and one that goes on *)
Begins(t, p) ==
  LET o == NoteIndex(openBlock(t, "tool", NameOf(p)), p) IN IF p.args THEN delta(o, o.at, p) ELSE o

GoesOn(t, at, p) == IF p.args THEN delta(t, at, p) ELSE t

ArgumentsIn(p) == IF p.args THEN {p.n} ELSE {}

(* The call of p has the open block, which its index leads to *)
AtCall(t, p) == /\ t.kind = "tool" /\ t.call = NameOf(p)
                /\ p.index # 0 => Mapped(t, p.index) = {[index |-> p.index, at |-> t.at]}

(* Parts that are not for the client change no block. *)
LEMMA NothingTold ==
  ASSUME NEW B \in Seq(Blocks), NEW p \in Nat, NEW kind, NEW call, Before(B, p)
  PROVE  Tells(B, B, p, kind, call, {}, {})
<1>1. PICK n \in Nat : n < p /\ UpTo(B, n)
  BY DEF Before
<1>2. ASSUME NEW i \in DOMAIN B, NEW m \in DOMAIN B[i].parts PROVE B[i].parts[m] <= p
  <2>1. B[i] \in Blocks
    OBVIOUS
  <2>2. B[i].parts[m] \in Nat
    BY <2>1 DEF Blocks
  <2>3. B[i].parts[m] <= n
    BY <1>1 DEF UpTo
  <2> QED
    BY <1>1, <2>2, <2>3
<1>3. UpTo(B, p)
  BY <1>2 DEF UpTo
<1> QED
  BY <1>3 DEF Tells, Before

(* A fragment that goes on stays in its block. *)
LEMMA GoesOnTells ==
  ASSUME NEW t \in Translators, NEW at \in Nat, NEW p, NEW u, p.n \in Nat, u = GoesOn(t, at, p)
  PROVE  /\ Steady(t, u) /\ InBlock(u, t.kind, t.call, t.at, t.map)
         /\ ~gone /\ Good(t) /\ t.at # 0 /\ at = t.at /\ Before(t.client.blocks, p.n) =>
              /\ Good(u)
              /\ Tells(t.client.blocks, u.client.blocks, p.n, t.kind, t.call, ArgumentsIn(p), {})
<1>1. CASE p.args
  <2>1. u = delta(t, at, p)
    BY <1>1 DEF GoesOn
  <2>2. Steady(t, u) /\ InBlock(u, t.kind, t.call, t.at, t.map)
    BY <2>1, Deltas
  <2>3. ASSUME ~gone, Good(t), t.at # 0, at = t.at, Before(t.client.blocks, p.n)
        PROVE  /\ Good(u)
               /\ Tells(t.client.blocks, u.client.blocks, p.n, t.kind, t.call, {p.n}, {})
    <3>1. u = delta(t, t.at, p)
      BY <2>1, <2>3
    <3> QED
      BY <2>3, <3>1, DeltaTells
  <2> QED
    BY <1>1, <2>2, <2>3 DEF ArgumentsIn
<1>2. CASE ~p.args
  <2>1. u = t
    BY <1>2 DEF GoesOn
  <2>2. Steady(t, u) /\ InBlock(u, t.kind, t.call, t.at, t.map)
    BY <2>1 DEF Steady, InBlock
  <2>3. ASSUME Before(t.client.blocks, p.n)
        PROVE  Tells(t.client.blocks, t.client.blocks, p.n, t.kind, t.call, {}, {})
    <3>1. t.client.blocks \in Seq(Blocks)
      BY DEF Translators, Clients
    <3> QED
      BY <2>3, <3>1, NothingTold
  <2> QED
    BY <1>2, <2>1, <2>2, <2>3 DEF ArgumentsIn
<1> QED
  BY <1>1, <1>2

(* A fragment that begins a call has a new block. *)
LEMMA BeginsTells ==
  ASSUME NEW t \in Translators, NEW p \in SentParts, NEW u, u = Begins(t, p)
  PROVE  /\ Steady(t, u) /\ AtCall(u, p)
         /\ ~gone /\ Good(t) => Good(u) /\ u.at # 0
         /\ /\ ~gone /\ Good(t) /\ Before(t.client.blocks, p.n)
            /\ \A c \in CallsOf(t.client.blocks) : c < NameOf(p)
            => Tells(t.client.blocks, u.client.blocks, p.n, "tool", NameOf(p), ArgumentsIn(p),
                     {NameOf(p)})
<1> DEFINE call == NameOf(p)
           a == openBlock(t, "tool", call)
           o == NoteIndex(a, p)
<1>1. /\ u = GoesOn(o, o.at, p) /\ call \in Nat /\ p.n \in Nat /\ p.index \in Nat
      /\ a = openBlock(t, "tool", call) /\ o = NoteIndex(a, p) /\ call = NameOf(p)
  BY DEF Begins, GoesOn, NameOf, SentParts
<1> HIDE DEF call, a, o
<1>2. /\ Steady(t, a) /\ InBlock(a, "tool", call, t.next, t.map)
      /\ ~gone /\ Good(t) => /\ Good(a) /\ a.at # 0
  BY <1>1, OpensBlock
<1>3. a \in Translators
  BY <1>2 DEF Steady
<1>4. /\ o \in Translators /\ o.kind = a.kind /\ o.at = a.at /\ o.call = a.call
      /\ o.stop = a.stop /\ o.usage = a.usage /\ o.client = a.client
      /\ Good(a) => Good(o)
      /\ p.index # 0 => Mapped(o, p.index) = {[index |-> p.index, at |-> a.at]}
  BY <1>1, <1>3, NotesIndex
<1>5. o.at \in Nat
  BY <1>4 DEF Translators
<1>6. /\ Steady(o, u) /\ InBlock(u, o.kind, o.call, o.at, o.map)
      /\ ~gone /\ Good(o) /\ o.at # 0 /\ Before(o.client.blocks, p.n) =>
           /\ Good(u)
           /\ Tells(o.client.blocks, u.client.blocks, p.n, o.kind, o.call, ArgumentsIn(p), {})
  BY <1>1, <1>4, <1>5, GoesOnTells
<1>7. Steady(t, u)
  BY <1>2, <1>4, <1>6 DEF Steady
<1>8. AtCall(u, p)
  <2>1. u.kind = "tool" /\ u.call = call /\ u.at = a.at /\ u.map = o.map
    BY <1>2, <1>4, <1>6 DEF InBlock
  <2> QED
    BY <1>1, <1>4, <2>1 DEF AtCall, Mapped
<1>9. ASSUME ~gone, Good(t) PROVE Good(u) /\ u.at # 0
  <2>1. Good(o) /\ o.at # 0
    BY <1>2, <1>4, <1>9
  <2>2. u.at = o.at
    BY <1>6 DEF InBlock
  <2>3. CASE p.args
    <3>1. u = delta(o, o.at, p)
      BY <1>1, <2>3 DEF GoesOn
    <3> QED
      BY <1>1, <1>4, <1>5, <1>9, <2>1, <2>2, <3>1, Deltas
  <2>4. CASE ~p.args
    BY <1>1, <2>1, <2>2, <2>4 DEF GoesOn
  <2> QED
    BY <2>3, <2>4
<1>10. ASSUME ~gone, Good(t), Before(t.client.blocks, p.n),
              \A c \in CallsOf(t.client.blocks) : c < call
       PROVE  Tells(t.client.blocks, u.client.blocks, p.n, "tool", call, ArgumentsIn(p), {call})
  <2> DEFINE q == p.n
  <2>1. q \in Nat /\ Before(t.client.blocks, q)
    BY <1>1, <1>10
  <2> HIDE DEF q
  <2>2. /\ Before(a.client.blocks, q)
        /\ Tells(t.client.blocks, a.client.blocks, q, "tool", call, {},
                 IF "tool" = "tool" THEN {call} ELSE {})
    BY <1>1, <1>10, <2>1, OpenTells
  <2>3. Tells(o.client.blocks, u.client.blocks, p.n, "tool", call, ArgumentsIn(p), {})
    BY <1>2, <1>4, <1>6, <1>10, <2>2 DEF InBlock, q
  <2>4. Tells(t.client.blocks, a.client.blocks, p.n, "tool", call, {}, {call})
    BY <2>2 DEF q
  <2> QED
    BY <1>4, <2>3, <2>4, TellsBoth
<1> QED
  BY <1>1, <1>7, <1>8, <1>9, <1>10

(* Both translators begin a call or go on with one. *)
LEMMA ToolBegins ==
  ASSUME NEW t, NEW p, p.named
  PROVE  anthTool(t, p) = Begins(t, p) /\ respTool(t, p) = Begins(t, p)
BY DEF anthTool, respTool, Continues, Begins

(* They go on in the open block if the index of the call leads there. *)
LEMMA ToolGoesOn ==
  ASSUME NEW t, NEW p, ~p.named, p.index # 0, t.kind = "tool",
         Mapped(t, p.index) = {[index |-> p.index, at |-> t.at]}
  PROVE  anthTool(t, p) = GoesOn(t, t.at, p) /\ respTool(t, p) = GoesOn(t, t.at, p)
<1>1. Continues(t, p)
  BY DEF Continues
<1>2. BlockOf(t, p.index) = t.at
  <2> DEFINE pair == [index |-> p.index, at |-> t.at]
  <2>1. pair.at = t.at /\ Mapped(t, p.index) = {pair}
    OBVIOUS
  <2> HIDE DEF pair
  <2>2. (CHOOSE m \in {pair} : TRUE) = pair
    OBVIOUS
  <2> QED
    BY <2>1, <2>2 DEF BlockOf
<1>3. anthTool(t, p) = GoesOn(t, t.at, p)
  BY <1>1, <1>2 DEF anthTool, GoesOn
<1>4. respTool(t, p) = GoesOn(t, t.at, p)
  BY <1>1 DEF respTool, GoesOn
<1> QED
  BY <1>3, <1>4

(* Whatever the upstream sends, a tool fragment leaves usage and stop alone. *)
LEMMA ToolSteady ==
  ASSUME NEW t \in Translators, NEW p \in SentParts
  PROVE  Steady(t, anthTool(t, p)) /\ Steady(t, respTool(t, p))
<1> DEFINE at == BlockOf(t, p.index)
<1>1. Steady(t, Begins(t, p))
  BY BeginsTells
<1>2. t.at \in Nat /\ p.n \in Nat
  BY DEF Translators, SentParts
<1>3. Steady(t, GoesOn(t, t.at, p))
  BY <1>2, GoesOnTells
<1>4. ASSUME Continues(t, p) PROVE at \in Nat
  <2>1. PICK m \in Mapped(t, p.index) : m = CHOOSE x \in Mapped(t, p.index) : TRUE
    BY <1>4 DEF Continues
  <2>2. m \in [index : Nat, at : Nat]
    BY <2>1 DEF Mapped, Translators
  <2> QED
    BY <2>1, <2>2 DEF BlockOf
<1>5. ASSUME Continues(t, p) PROVE Steady(t, GoesOn(t, at, p))
  <2> HIDE DEF at
  <2> QED
    BY <1>2, <1>4, <1>5, GoesOnTells
<1>6. anthTool(t, p) = IF Continues(t, p) THEN GoesOn(t, at, p) ELSE Begins(t, p)
  <2>1. CASE Continues(t, p)
    BY <2>1 DEF anthTool, GoesOn
  <2>2. CASE ~Continues(t, p)
    BY <2>2 DEF anthTool, Begins
  <2> QED
    BY <2>1, <2>2
<1>7. respTool(t, p) = GoesOn(t, t.at, p) \/ respTool(t, p) = Begins(t, p)
  <2> DEFINE cont == Continues(t, p) /\ t.kind = "tool"
             opens == ~cont /\ (p.id \/ p.named \/ t.kind # "tool")
  <2>1. CASE opens
    <3>1. respTool(t, p) = Begins(t, p)
      BY <2>1 DEF respTool, Begins
    <3> QED
      BY <3>1
  <2>2. CASE ~opens
    <3>1. respTool(t, p) = GoesOn(t, t.at, p)
      BY <2>2 DEF respTool, GoesOn
    <3> QED
      BY <3>1
  <2> QED
    BY <2>1, <2>2
<1> QED
  BY <1>1, <1>3, <1>5, <1>6, <1>7

-----------------------------------------------------------------------------
(* The end of an answer *)

(* At the end the client has the blocks it had, and none is open. *)
LEMMA Closes ==
  ASSUME NEW t \in Translators, NEW u, u = closing(t)
  PROVE  /\ Steady(t, u) /\ u.at = 0 /\ u.started
         /\ ~gone /\ Good(t) => Good(u) /\ u.client.blocks = t.client.blocks
<1> DEFINE r == ensureStart(t)
<1>1. r = ensureStart(t) /\ u = closeBlock(r)
  BY DEF closing
<1> HIDE DEF r
<1>2. /\ r \in Translators /\ r.started /\ r.stop = t.stop /\ r.usage = t.usage
      /\ gone => r.client = t.client
      /\ ~gone /\ Good(t) => Good(r) /\ r.client.blocks = t.client.blocks
  BY <1>1, EnsuresStart
<1>3. /\ u \in Translators /\ u.at = 0 /\ u.started = r.started
      /\ u.stop = r.stop /\ u.usage = r.usage
      /\ gone => u.client = r.client
      /\ ~gone /\ Good(r) => Good(u) /\ u.client.blocks = r.client.blocks
  BY <1>1, <1>2, ClosesBlock
<1> QED
  BY <1>2, <1>3 DEF Steady

(* The client has heard the end *)
HeardEnd(c, d, stop, whole) ==
  d.end = "done" /\ d.stop = stop /\ d.whole = whole /\ d.blocks = c.blocks

(* The last event tells the reason and, for Responses, the whole answer. *)
LEMMA Finishes ==
  ASSUME NEW t \in Translators, NEW stop \in Stops, NEW whole \in Seq(Blocks),
         NEW u, u = emit(t, [ev |-> "done", whole |-> whole, stop |-> stop])
  PROVE  /\ Steady(t, u)
         /\ ~gone => HeardEnd(t.client, u.client, stop, whole)
         /\ ~gone /\ Good(t) /\ t.at = 0 /\ t.started => u.client.nested
<1> DEFINE e == [ev |-> "done", whole |-> whole, stop |-> stop]
           c == t.client
           d == IF gone THEN c ELSE Receive(c, e)
<1>1. c \in Clients
  BY DEF Translators
<1>2. u = emit(t, e)
  OBVIOUS
<1> HIDE DEF c
<1>3. ASSUME NEW x, x = Receive(c, e)
      PROVE  /\ x \in Clients /\ HeardEnd(c, x, stop, whole)
             /\ (x.nested <=> c.nested /\ c.begun /\ c.open = 0 /\ c.end = "none")
  BY <1>1, <1>3, HearsDone DEF HeardEnd
<1> HIDE DEF e
<1>4. /\ d \in Clients
      /\ ~gone => /\ HeardEnd(c, d, stop, whole)
                  /\ (d.nested <=> c.nested /\ c.begun /\ c.open = 0 /\ c.end = "none")
  BY <1>1, <1>3
<1>5. d = IF gone THEN t.client ELSE Receive(t.client, e)
  BY DEF c
<1> HIDE DEF d
<1>6. u \in Translators /\ u.client = d /\ u.stop = t.stop /\ u.usage = t.usage
  BY <1>2, <1>4, <1>5, Emits
<1>7. Steady(t, u)
  BY <1>5, <1>6 DEF Steady
<1>8. ASSUME ~gone, Good(t), t.at = 0, t.started PROVE u.client.nested
  BY <1>4, <1>6, <1>8 DEF Good, c
<1> QED
  BY <1>4, <1>6, <1>7, <1>8 DEF c

(* Anthropic: the end of a stream *)
LEMMA AnthFinishes ==
  ASSUME NEW t \in Translators, NEW u, u = anthFinish(t)
  PROVE  /\ Steady(t, u)
         /\ ~gone => u.client.end = "done"
         /\ ~gone /\ Good(t) => u.client.nested /\ u.client.blocks = t.client.blocks
         /\ ~gone /\ t.stop # "none" => u.client.stop = t.stop
<1> DEFINE c == closing(t)
           stop == IF c.stop # "none" THEN c.stop ELSE IF c.sawTool THEN "tool_use" ELSE "end_turn"
           whole == <<>>
<1>1. c = closing(t) /\ whole \in Seq(Blocks)
  OBVIOUS
<1>2. u = emit(c, [ev |-> "done", whole |-> whole, stop |-> stop])
  BY DEF anthFinish
<1> HIDE DEF c
<1>3. /\ Steady(t, c) /\ c.at = 0 /\ c.started
      /\ ~gone /\ Good(t) => Good(c) /\ c.client.blocks = t.client.blocks
  BY <1>1, Closes
<1>4. c \in Translators /\ stop \in Stops /\ (t.stop # "none" => stop = t.stop)
  BY <1>3 DEF Steady, Translators, Stops
<1> HIDE DEF stop, whole
<1>5. /\ Steady(c, u)
      /\ ~gone => HeardEnd(c.client, u.client, stop, whole)
      /\ ~gone /\ Good(c) /\ c.at = 0 /\ c.started => u.client.nested
  BY <1>1, <1>2, <1>4, Finishes
<1> QED
  BY <1>3, <1>4, <1>5 DEF Steady, HeardEnd

(* Responses: the end of a stream, with the answer as a whole *)
LEMMA RespFinishes ==
  ASSUME NEW t \in Translators, NEW u, u = respFinish(t)
  PROVE  /\ Steady(t, u)
         /\ ~gone => u.client.end = "done"
         /\ ~gone /\ Good(t) => /\ u.client.nested /\ u.client.blocks = t.client.blocks
                                /\ u.client.whole = u.client.blocks
         /\ ~gone /\ t.stop = "incomplete" => u.client.stop = t.stop
<1> DEFINE c == closing(t)
           stop == IF c.stop = "incomplete" THEN c.stop ELSE "completed"
           whole == c.output
<1>1. c = closing(t)
  OBVIOUS
<1>2. u = emit(c, [ev |-> "done", whole |-> whole, stop |-> stop])
  BY DEF respFinish
<1> HIDE DEF c
<1>3. /\ Steady(t, c) /\ c.at = 0 /\ c.started
      /\ ~gone /\ Good(t) => Good(c) /\ c.client.blocks = t.client.blocks
  BY <1>1, Closes
<1>4. c \in Translators /\ stop \in Stops /\ (t.stop = "incomplete" => stop = t.stop)
      /\ whole \in Seq(Blocks)
  BY <1>3 DEF Steady, Translators, Stops
<1>5. Good(c) => whole = c.client.blocks
  BY <1>3 DEF Good, Mirrors
<1> HIDE DEF stop, whole
<1>6. /\ Steady(c, u)
      /\ ~gone => HeardEnd(c.client, u.client, stop, whole)
      /\ ~gone /\ Good(c) /\ c.at = 0 /\ c.started => u.client.nested
  BY <1>1, <1>2, <1>4, Finishes
<1> QED
  BY <1>3, <1>4, <1>5, <1>6 DEF Steady, HeardEnd

(* A stream that breaks is told as one. *)
LEMMA Breaks ==
  ASSUME NEW t \in Translators, NEW u, u = emit(t, [ev |-> "failed"])
  PROVE  /\ Steady(t, u)
         /\ ~gone => u.client.end = "failed"
         /\ ~gone /\ Good(t) => u.client.nested
<1> DEFINE e == [ev |-> "failed"]
           c == t.client
           d == IF gone THEN c ELSE Receive(c, e)
<1>1. c \in Clients
  BY DEF Translators
<1>2. u = emit(t, e)
  OBVIOUS
<1> HIDE DEF c
<1>3. ASSUME NEW x, x = Receive(c, e)
      PROVE  /\ x \in Clients /\ x.end = "failed" /\ (x.nested <=> c.nested /\ c.end = "none")
  BY <1>1, <1>3, HearsFailure
<1> HIDE DEF e
<1>4. /\ d \in Clients
      /\ ~gone => d.end = "failed" /\ (d.nested <=> c.nested /\ c.end = "none")
  BY <1>1, <1>3
<1>5. d = IF gone THEN t.client ELSE Receive(t.client, e)
  BY DEF c
<1> HIDE DEF d
<1>6. u \in Translators /\ u.client = d /\ u.stop = t.stop /\ u.usage = t.usage
  BY <1>2, <1>4, <1>5, Emits
<1>7. Steady(t, u)
  BY <1>5, <1>6 DEF Steady
<1> QED
  BY <1>4, <1>6, <1>7 DEF c, Good

-----------------------------------------------------------------------------
(* The chat stream *)

(* Of the lines up to n, the client has those of the events passed on, and *)
(* buf those of the event that has begun.                                  *)
PassedOn(B, buf, n) ==
  /\ InOrder(B) /\ UpTo(B, n)
  /\ \A i \in DOMAIN B : B[i].kind = "raw" /\ B[i].call = 0
  /\ \A i \in DOMAIN B : \A m \in DOMAIN B[i].parts, k \in DOMAIN buf : B[i].parts[m] < buf[k]
  /\ \A k, m \in DOMAIN buf : k < m => buf[k] < buf[m]
  /\ \A k \in DOMAIN buf : buf[k] <= n
  /\ Content(B, "raw", 0) \cup ToSet(buf) = 1..n

(* The next line *)
LEMMA LinePassed ==
  ASSUME NEW B \in Seq(Blocks), NEW buf \in Seq(Nat), NEW n \in Nat, PassedOn(B, buf, n)
  PROVE  PassedOn(B, Append(buf, n + 1), n + 1)
<1> DEFINE new == Append(buf, n + 1)
           l == Len(buf)
<1>1. /\ new \in Seq(Nat) /\ DOMAIN new = 1..(l + 1) /\ new[l + 1] = n + 1 /\ l \in Nat
      /\ DOMAIN buf = 1..l /\ \A k \in DOMAIN buf : new[k] = buf[k] /\ buf[k] \in Nat
  OBVIOUS
<1>2. \A k \in DOMAIN new : k \in DOMAIN buf \/ k = l + 1
  BY <1>1
<1> HIDE DEF new, l
<1>3. ASSUME NEW i \in DOMAIN B, NEW m \in DOMAIN B[i].parts
      PROVE  B[i].parts[m] \in Nat /\ B[i].parts[m] <= n
  <2>1. B[i] \in Blocks
    OBVIOUS
  <2>2. B[i].parts \in Seq(Nat)
    BY <2>1 DEF Blocks
  <2> QED
    BY <2>2 DEF PassedOn, UpTo
<1>4. UpTo(B, n + 1)
  BY <1>3 DEF UpTo
<1>5. \A i \in DOMAIN B : \A m \in DOMAIN B[i].parts, k \in DOMAIN new : B[i].parts[m] < new[k]
  <2>1. ASSUME NEW i \in DOMAIN B, NEW m \in DOMAIN B[i].parts, NEW k \in DOMAIN new
        PROVE  B[i].parts[m] < new[k]
    <3>1. CASE k \in DOMAIN buf
      BY <1>1, <3>1 DEF PassedOn
    <3>2. CASE k = l + 1
      BY <1>1, <1>3, <3>2
    <3> QED
      BY <1>2, <3>1, <3>2
  <2> QED
    BY <2>1
<1>6. \A k \in DOMAIN buf : buf[k] <= n
  BY DEF PassedOn
<1>7. \A k, m \in DOMAIN new : k < m => new[k] < new[m]
  <2>1. ASSUME NEW k \in DOMAIN new, NEW m \in DOMAIN new, k < m PROVE new[k] < new[m]
    <3>1. k \in DOMAIN buf
      BY <1>1, <2>1
    <3>2. CASE m \in DOMAIN buf
      BY <1>1, <2>1, <3>1, <3>2 DEF PassedOn
    <3>3. CASE m = l + 1
      BY <1>1, <1>6, <3>1, <3>3
    <3> QED
      BY <1>2, <3>2, <3>3
  <2> QED
    BY <2>1
<1>8. \A k \in DOMAIN new : new[k] <= n + 1
  BY <1>1, <1>2, <1>6
<1>9. ToSet(new) = ToSet(buf) \cup {n + 1}
  BY <1>1, <1>2 DEF ToSet
<1>10. 1..(n + 1) = (1..n) \cup {n + 1}
  OBVIOUS
<1>11. Content(B, "raw", 0) \cup ToSet(new) = 1..(n + 1)
  BY <1>9, <1>10 DEF PassedOn
<1>12. PassedOn(B, new, n + 1)
  BY <1>4, <1>5, <1>7, <1>8, <1>11 DEF PassedOn
<1> QED
  BY <1>12 DEF new

(* The event is passed on. *)
LEMMA EventPassed ==
  ASSUME NEW B \in Seq(Blocks), NEW buf \in Seq(Nat), NEW n \in Nat, PassedOn(B, buf, n),
         NEW D, D = Append(B, Block("raw", 0, buf))
  PROVE  D \in Seq(Blocks) /\ PassedOn(D, <<>>, n)
<1> DEFINE new == Block("raw", 0, buf)
           l == Len(B) + 1
<1>1. new \in Blocks /\ new.kind = "raw" /\ new.call = 0 /\ new.parts = buf
  <2>1. "raw" \in Kinds
    BY DEF Kinds
  <2>2. new \in Blocks
    BY <2>1, BlockTyped
  <2>3. new.kind = "raw" /\ new.call = 0 /\ new.parts = buf
    BY DEF Block
  <2> QED
    BY <2>2, <2>3
<1>2. D = Append(B, new)
  OBVIOUS
<1> HIDE DEF new
<1>3. /\ D \in Seq(Blocks) /\ Len(D) = l /\ DOMAIN D = 1..l /\ DOMAIN B = 1..Len(B)
      /\ D[l] = new /\ \A i \in DOMAIN B : D[i] = B[i]
      /\ Len(B) \in Nat
  BY <1>1, <1>2
<1>4. \A i \in DOMAIN D : i \in DOMAIN B \/ i = l
  BY <1>3
<1> HIDE DEF l
<1>5. UpTo(D, n)
  BY <1>1, <1>3, <1>4 DEF UpTo, PassedOn
<1>6. \A i \in DOMAIN D : D[i].kind = "raw" /\ D[i].call = 0
  BY <1>1, <1>3, <1>4 DEF PassedOn
<1>7. ToolBlocks(D) = {}
  BY <1>6 DEF ToolBlocks
<1>8. InOrder(D)
  <2>1. ASSUME NEW i \in DOMAIN D, NEW j \in DOMAIN D,
               NEW m \in DOMAIN D[i].parts, NEW k \in DOMAIN D[j].parts,
               i < j \/ (i = j /\ m < k)
        PROVE  D[i].parts[m] < D[j].parts[k]
    <3>1. CASE j # l
      <4>1. i # l /\ i \in DOMAIN B /\ j \in DOMAIN B
        BY <1>3, <1>4, <2>1, <3>1 DEF l
      <4>2. D[i] = B[i] /\ D[j] = B[j]
        BY <1>3, <4>1
      <4> QED
        BY <2>1, <4>1, <4>2 DEF PassedOn, InOrder
    <3>2. CASE j = l /\ i # l
      <4>1. i \in DOMAIN B /\ D[i] = B[i] /\ D[j].parts = buf
        BY <1>1, <1>3, <1>4, <3>2
      <4> QED
        BY <4>1 DEF PassedOn
    <3>3. CASE j = l /\ i = l
      <4>1. D[i].parts = buf /\ D[j].parts = buf /\ m < k
        BY <1>1, <1>3, <2>1, <3>3 DEF l
      <4> QED
        BY <4>1 DEF PassedOn
    <3> QED
      BY <3>1, <3>2, <3>3
  <2> QED
    BY <1>7, <2>1 DEF InOrder
<1>9. Content(D, "raw", 0) = Content(B, "raw", 0) \cup ToSet(buf)
  <2>1. ASSUME NEW x PROVE x \in Content(D, "raw", 0) <=> x \in Content(B, "raw", 0) \/ x \in ToSet(buf)
    <3> DEFINE in(E, i) == /\ E[i].kind = "raw" /\ E[i].call = 0
                           /\ \E m \in DOMAIN E[i].parts : E[i].parts[m] = x
    <3>1. \A E : x \in Content(E, "raw", 0) <=> \E i \in DOMAIN E : in(E, i)
      BY SaidInBlock
    <3>2. x \in Content(D, "raw", 0) <=> \E i \in DOMAIN D : in(D, i)
      BY <3>1
    <3>3. x \in Content(B, "raw", 0) <=> \E i \in DOMAIN B : in(B, i)
      BY <3>1
    <3>4. in(D, l) <=> x \in ToSet(buf)
      BY <1>1, <1>3 DEF ToSet
    <3>5. \A i \in DOMAIN B : in(D, i) <=> in(B, i)
      BY <1>3
    <3>6. l \in DOMAIN D /\ DOMAIN B \subseteq DOMAIN D
      BY <1>3 DEF l
    <3> HIDE DEF in
    <3> QED
      BY <1>4, <3>2, <3>3, <3>4, <3>5, <3>6
  <2> QED
    BY <2>1
<1>10. ToSet(<<>>) = {} /\ DOMAIN <<>> = {}
  BY DEF ToSet
<1>11. Content(D, "raw", 0) \cup ToSet(<<>>) = 1..n
  BY <1>9, <1>10 DEF PassedOn
<1>12. PassedOn(D, <<>>, n)
  <2> DEFINE none == <<>>
  <2>1. DOMAIN none = {} /\ Content(D, "raw", 0) \cup ToSet(none) = 1..n
    BY <1>10, <1>11
  <2> HIDE DEF none
  <2>2. PassedOn(D, none, n)
    BY <1>5, <1>6, <1>8, <2>1 DEF PassedOn
  <2> QED
    BY <2>2 DEF none
<1> QED
  BY <1>3, <1>12

(* A line of the chat stream changes the event that has begun only. *)
LEMMA ChatLine ==
  ASSUME NEW t \in Translators, NEW p \in SentParts, NEW u, u = chatLine(t, p)
  PROVE  /\ u \in Translators /\ u.client = t.client /\ u.buf = Append(t.buf, p.n)
         /\ u.usage = IF p.kind = "usage" THEN p.n ELSE t.usage
<1> DEFINE buf == Append(t.buf, p.n)
           usage == IF p.kind = "usage" THEN p.n ELSE t.usage
<1>1. buf \in Seq(Nat) /\ usage \in Nat
  <2>1. t.buf \in Seq(Nat) /\ p.n \in Nat /\ t.usage \in Nat
    BY DEF Translators, SentParts
  <2> QED
    BY <2>1
<1>2. u = [t EXCEPT !.buf = buf, !.usage = usage]
  BY DEF chatLine
<1> HIDE DEF buf, usage
<1>3. u \in Translators /\ u.client = t.client /\ u.buf = buf /\ u.usage = usage
  BY <1>1, <1>2 DEF Translators
<1> QED
  BY <1>3 DEF buf, usage

(* The empty line passes the event on, if there is one. *)
LEMMA WritesEvent ==
  ASSUME NEW t \in Translators, NEW u, u = writeEvent(t)
  PROVE  /\ Steady(t, u) /\ u.client.nested = t.client.nested
         /\ \A n \in Nat : ~gone /\ PassedOn(t.client.blocks, t.buf, n) =>
              u.buf = <<>> /\ PassedOn(u.client.blocks, u.buf, n)
<1>1. CASE t.buf = <<>>
  BY <1>1 DEF writeEvent, Steady
<1>2. CASE t.buf # <<>>
  <2> DEFINE empty == <<>>
             s == [t EXCEPT !.buf = empty]
             e == [ev |-> "raw", parts |-> t.buf]
             c == t.client
             d == IF gone THEN c ELSE Receive(c, e)
  <2>1. empty \in Seq(Nat) /\ empty = <<>>
    OBVIOUS
  <2>2. c \in Clients /\ t.buf \in Seq(Nat)
    BY DEF Translators
  <2>3. u = emit(s, e)
    BY <1>2 DEF writeEvent
  <2> HIDE DEF empty
  <2>4. s \in Translators /\ s.buf = empty /\ s.stop = t.stop /\ s.usage = t.usage /\ s.client = c
    BY <2>1 DEF Translators
  <2> HIDE DEF s, c
  <2>5. ASSUME NEW x, x = Receive(c, e)
        PROVE  /\ x \in Clients /\ x.blocks = Append(c.blocks, Block("raw", 0, t.buf))
               /\ x.end = c.end /\ x.nested = c.nested
    BY <2>2, <2>5, HearsRaw
  <2> HIDE DEF e
  <2>6. /\ d \in Clients /\ d.nested = c.nested
        /\ ~gone => d.blocks = Append(c.blocks, Block("raw", 0, t.buf))
    BY <2>2, <2>5
  <2>7. d = IF gone THEN s.client ELSE Receive(s.client, e)
    BY <2>4
  <2> HIDE DEF d
  <2>8. u \in Translators /\ u.client = d /\ u.stop = s.stop /\ u.usage = s.usage /\ u.buf = s.buf
    BY <2>3, <2>4, <2>6, <2>7, Emits
  <2>9. Steady(t, u)
    BY <2>4, <2>7, <2>8 DEF Steady, c
  <2>10. ASSUME NEW n \in Nat, ~gone, PassedOn(c.blocks, t.buf, n)
         PROVE  u.buf = <<>> /\ PassedOn(u.client.blocks, u.buf, n)
    <3>1. c.blocks \in Seq(Blocks)
      BY <2>2 DEF Clients
    <3>2. d.blocks = Append(c.blocks, Block("raw", 0, t.buf))
      BY <2>6, <2>10
    <3>3. PassedOn(d.blocks, <<>>, n)
      BY <2>2, <2>10, <3>1, <3>2, EventPassed
    <3> QED
      BY <2>1, <2>4, <2>8, <3>3
  <2> QED
    BY <2>6, <2>8, <2>9, <2>10 DEF c
<1> QED
  BY <1>1, <1>2

-----------------------------------------------------------------------------
(* One part *)

(* What of a part is for the client, and the call it begins *)
PartFor(p) ==
  IF p.kind = "text" \/ (p.kind = "reason" /\ api = "responses") THEN {p.n}
  ELSE IF p.kind = "tool" THEN ArgumentsIn(p) ELSE {}

CallFor(p) == IF p.named THEN {p.call} ELSE {}

(* What every part of the upstream's is like *)
Plausible(p) ==
  /\ p \in SentParts
  /\ p.call # 0 <=> p.kind = "tool"
  /\ p.named => p.kind = "tool"

(* What a part says beside the blocks *)
Notes(t, u, p) ==
  /\ u \in Translators
  /\ gone => u.client = t.client
  /\ u.usage = IF p.kind = "usage" THEN p.n ELSE t.usage
  /\ p.kind # "finish" => u.stop = t.stop

(* The fragment goes on with the call of the open block *)
OnCall(t, p) == /\ p.kind = "tool" /\ ~p.named => p.index # 0 /\ t.kind = "tool" /\ t.call = p.call
                /\ p.kind = "tool" /\ ~p.named =>
                     Mapped(t, p.index) = {[index |-> p.index, at |-> t.at]}

(* The translator is in the same block *)
Stays(t, u) == InBlock(u, t.kind, t.call, t.at, t.map)

(* What the part does to the blocks *)
PartTold(t, u, p) ==
  /\ Good(u) /\ Tells(t.client.blocks, u.client.blocks, p.n, p.kind, p.call, PartFor(p), CallFor(p))
  /\ p.named => AtCall(u, p)
  /\ p.kind \in {"finish", "usage"} \/ (p.kind = "tool" /\ ~p.named) => Stays(t, u)

(* The calls before the one that begins *)
Later(t, p) == p.named => \A c \in CallsOf(t.client.blocks) : c < p.call

(* The reason for the end changes no block. *)
LEMMA NotesStop ==
  ASSUME NEW t \in Translators, NEW stop \in Stops, NEW u, u = [t EXCEPT !.stop = stop]
  PROVE  /\ u \in Translators /\ Stays(t, u) /\ u.client = t.client
         /\ u.usage = t.usage /\ u.stop = stop /\ (Good(t) => Good(u))
BY DEF Translators, Stays, InBlock, Good, Mirrors

(* The usage changes no block. *)
LEMMA NotesUsage ==
  ASSUME NEW t \in Translators, NEW usage \in Nat, NEW u, u = [t EXCEPT !.usage = usage]
  PROVE  /\ u \in Translators /\ Stays(t, u) /\ u.client = t.client
         /\ u.usage = usage /\ u.stop = t.stop /\ (Good(t) => Good(u))
BY DEF Translators, Stays, InBlock, Good, Mirrors

(* The reason for the end and the usage are not for the client now. *)
LEMMA NotTold ==
  ASSUME NEW t \in Translators, NEW u \in Translators, NEW p, Plausible(p),
         p.kind \in {"finish", "usage"}, Stays(t, u), u.client = t.client, Good(u),
         Before(t.client.blocks, p.n)
  PROVE  PartTold(t, u, p)
<1>1. t.client.blocks \in Seq(Blocks) /\ p.n \in Nat
  BY DEF Translators, Clients, Plausible, SentParts
<1>2. Tells(t.client.blocks, t.client.blocks, p.n, p.kind, p.call, {}, {})
  BY <1>1, NothingTold
<1>3. PartFor(p) = {} /\ CallFor(p) = {} /\ ~p.named
  BY DEF PartFor, CallFor, Plausible
<1> QED
  BY <1>2, <1>3 DEF PartTold

(* A fragment is told as a part of its call. *)
LEMMA ToolTold ==
  ASSUME NEW t \in Translators, NEW p, Plausible(p), p.kind = "tool",
         ~gone, Good(t), Before(t.client.blocks, p.n), Later(t, p), OnCall(t, p)
  PROVE  PartTold(t, anthTool(t, p), p) /\ PartTold(t, respTool(t, p), p)
<1>1. p \in SentParts /\ p.n \in Nat
  BY DEF Plausible, SentParts
<1>2. PartFor(p) = ArgumentsIn(p)
  BY DEF PartFor
<1>3. CASE p.named
  <2> DEFINE u == Begins(t, p)
             B == t.client.blocks
  <2>1. NameOf(p) = p.call /\ CallFor(p) = {p.call}
    BY <1>3 DEF NameOf, CallFor
  <2>2. \A c \in CallsOf(B) : c < NameOf(p)
    BY <1>3, <2>1 DEF Later
  <2>3. u = Begins(t, p) /\ Before(B, p.n)
    OBVIOUS
  <2> HIDE DEF u
  <2>4. AtCall(u, p) /\ Good(u)
        /\ Tells(B, u.client.blocks, p.n, "tool", NameOf(p), ArgumentsIn(p), {NameOf(p)})
    BY <1>1, <2>2, <2>3, BeginsTells
  <2>5. PartTold(t, u, p)
    BY <1>2, <1>3, <2>1, <2>4 DEF PartTold
  <2>6. anthTool(t, p) = u /\ respTool(t, p) = u
    BY <1>3, <2>3, ToolBegins
  <2> QED
    BY <2>5, <2>6
<1>4. CASE ~p.named
  <2> DEFINE u == GoesOn(t, t.at, p)
  <2>1. p.index # 0 /\ t.kind = "tool" /\ t.call = p.call
        /\ Mapped(t, p.index) = {[index |-> p.index, at |-> t.at]}
    BY <1>4 DEF OnCall
  <2>2. t.at \in Nat /\ t.at # 0
    BY <2>1 DEF Good, Mirrors, Translators
  <2>3. u = GoesOn(t, t.at, p)
    OBVIOUS
  <2> HIDE DEF u
  <2>4. /\ Stays(t, u) /\ Good(u)
        /\ Tells(t.client.blocks, u.client.blocks, p.n, t.kind, t.call, ArgumentsIn(p), {})
    BY <1>1, <2>2, <2>3, GoesOnTells DEF Stays
  <2>5. CallFor(p) = {}
    BY <1>4 DEF CallFor
  <2>6. PartTold(t, u, p)
    BY <1>2, <1>4, <2>1, <2>4, <2>5 DEF PartTold
  <2>7. anthTool(t, p) = u /\ respTool(t, p) = u
    BY <1>4, <2>1, <2>3, ToolGoesOn
  <2> QED
    BY <2>6, <2>7
<1> QED
  BY <1>3, <1>4

(* Text and reasoning are told in blocks of their kind. *)
LEMMA SpeechTold ==
  ASSUME NEW t \in Translators, NEW p, NEW u, Plausible(p), p.kind \in {"text", "reason"},
         p.kind = "reason" => api = "responses", u = Extend(t, p.kind, p)
  PROVE  /\ Steady(t, u)
         /\ ~gone /\ Good(t) /\ Before(t.client.blocks, p.n) => PartTold(t, u, p)
<1> DEFINE kind == p.kind
<1>1. /\ p.n \in Nat /\ p.call = 0 /\ ~p.named /\ PartFor(p) = {p.n} /\ CallFor(p) = {}
      /\ kind \in {"text", "reason"} /\ u = Extend(t, kind, p) /\ kind = p.kind
  BY DEF Plausible, SentParts, PartFor, CallFor
<1> HIDE DEF kind
<1>2. /\ Steady(t, u)
      /\ ~gone /\ Good(t) /\ Before(t.client.blocks, p.n) =>
           Good(u) /\ Tells(t.client.blocks, u.client.blocks, p.n, kind, 0, {p.n}, {})
  BY <1>1, Extends
<1> QED
  BY <1>1, <1>2 DEF PartTold

(* Anthropic: what a part changes, and that it is told *)
LEMMA AnthHandles ==
  ASSUME NEW t \in Translators, NEW p, Plausible(p), api = "anthropic",
         NEW u, u = anthHandle(t, p)
  PROVE  /\ Notes(t, u, p)
         /\ p.kind = "finish" => u.stop = anthStopReason(p.finish)
         /\ /\ ~gone /\ Good(t) /\ Before(t.client.blocks, p.n)
            /\ Later(t, p) /\ OnCall(t, p)
            => PartTold(t, u, p)
<1>1. p \in SentParts /\ p.kind \in Sayings /\ p.n \in Nat
  BY DEF Plausible, SentParts
<1>2. CASE p.kind = "text"
  <2>1. u = Extend(t, p.kind, p)
    BY <1>2 DEF anthHandle
  <2>2. /\ Steady(t, u)
        /\ ~gone /\ Good(t) /\ Before(t.client.blocks, p.n) => PartTold(t, u, p)
    BY <1>2, <2>1, SpeechTold
  <2> QED
    BY <1>2, <2>2 DEF Notes, Steady
<1>3. CASE p.kind = "reason"
  <2>1. u = t
    BY <1>3 DEF anthHandle
  <2>2. ASSUME Before(t.client.blocks, p.n), Good(t) PROVE PartTold(t, u, p)
    <3>1. t.client.blocks \in Seq(Blocks)
      BY DEF Translators, Clients
    <3>2. Tells(t.client.blocks, t.client.blocks, p.n, p.kind, p.call, {}, {})
      BY <1>1, <2>2, <3>1, NothingTold
    <3>3. PartFor(p) = {} /\ CallFor(p) = {} /\ ~p.named
      BY <1>3 DEF PartFor, CallFor, Plausible
    <3> QED
      BY <1>3, <2>1, <2>2, <3>2, <3>3 DEF PartTold
  <2> QED
    BY <1>3, <2>1, <2>2 DEF Notes
<1>4. CASE p.kind = "tool"
  <2>1. u = anthTool(t, p)
    BY <1>4 DEF anthHandle
  <2>2. Steady(t, u)
    BY <1>1, <2>1, ToolSteady
  <2>3. ASSUME ~gone, Good(t), Before(t.client.blocks, p.n), Later(t, p), OnCall(t, p)
        PROVE  PartTold(t, u, p)
    BY <1>4, <2>1, <2>3, ToolTold
  <2> QED
    BY <1>4, <2>2, <2>3 DEF Notes, Steady
<1>5. CASE p.kind = "finish"
  <2> DEFINE stop == anthStopReason(p.finish)
  <2>1. u = [t EXCEPT !.stop = stop] /\ stop \in Stops
    BY <1>5 DEF anthHandle, anthStopReason, Stops
  <2> HIDE DEF stop
  <2>2. /\ u \in Translators /\ Stays(t, u) /\ u.client = t.client
        /\ u.usage = t.usage /\ u.stop = stop /\ (Good(t) => Good(u))
    BY <2>1, NotesStop
  <2>3. Good(t) /\ Before(t.client.blocks, p.n) => PartTold(t, u, p)
    BY <1>5, <2>2, NotTold
  <2> QED
    BY <1>5, <2>2, <2>3 DEF Notes, stop
<1>6. CASE p.kind = "usage"
  <2> DEFINE n == p.n
  <2>1. u = [t EXCEPT !.usage = n] /\ n \in Nat
    BY <1>1, <1>6 DEF anthHandle
  <2> HIDE DEF n
  <2>2. /\ u \in Translators /\ Stays(t, u) /\ u.client = t.client
        /\ u.usage = n /\ u.stop = t.stop /\ (Good(t) => Good(u))
    BY <2>1, NotesUsage
  <2>3. Good(t) /\ Before(t.client.blocks, p.n) => PartTold(t, u, p)
    BY <1>6, <2>2, NotTold
  <2> QED
    BY <1>6, <2>2, <2>3 DEF Notes, n
<1> QED
  BY <1>1, <1>2, <1>3, <1>4, <1>5, <1>6 DEF Sayings

(* Responses: what a part changes, and that it is told *)
LEMMA RespHandles ==
  ASSUME NEW t \in Translators, NEW p, Plausible(p), api = "responses",
         NEW u, u = respHandle(t, p)
  PROVE  /\ Notes(t, u, p)
         /\ p.kind = "finish" /\ p.finish = "length" => u.stop = "incomplete"
         /\ /\ ~gone /\ Good(t) /\ Before(t.client.blocks, p.n)
            /\ Later(t, p) /\ OnCall(t, p)
            => PartTold(t, u, p)
<1>1. p \in SentParts /\ p.kind \in Sayings /\ p.n \in Nat
  BY DEF Plausible, SentParts
<1>2. CASE p.kind \in {"text", "reason"}
  <2>1. u = Extend(t, p.kind, p)
    BY <1>2 DEF respHandle
  <2>2. /\ Steady(t, u)
        /\ ~gone /\ Good(t) /\ Before(t.client.blocks, p.n) => PartTold(t, u, p)
    BY <1>2, <2>1, SpeechTold
  <2> QED
    BY <1>2, <2>2 DEF Notes, Steady
<1>4. CASE p.kind = "tool"
  <2>1. u = respTool(t, p)
    BY <1>4 DEF respHandle
  <2>2. Steady(t, u)
    BY <1>1, <2>1, ToolSteady
  <2>3. ASSUME ~gone, Good(t), Before(t.client.blocks, p.n), Later(t, p), OnCall(t, p)
        PROVE  PartTold(t, u, p)
    BY <1>4, <2>1, <2>3, ToolTold
  <2> QED
    BY <1>4, <2>2, <2>3 DEF Notes, Steady
<1>5. CASE p.kind = "finish"
  <2> DEFINE stop == IF p.finish = "length" THEN "incomplete" ELSE t.stop
  <2>1. u = [t EXCEPT !.stop = stop] /\ stop \in Stops
    BY <1>5 DEF respHandle, Translators, Stops
  <2> HIDE DEF stop
  <2>2. /\ u \in Translators /\ Stays(t, u) /\ u.client = t.client
        /\ u.usage = t.usage /\ u.stop = stop /\ (Good(t) => Good(u))
    BY <2>1, NotesStop
  <2>3. Good(t) /\ Before(t.client.blocks, p.n) => PartTold(t, u, p)
    BY <1>5, <2>2, NotTold
  <2> QED
    BY <1>5, <2>2, <2>3 DEF Notes, stop
<1>6. CASE p.kind = "usage"
  <2> DEFINE n == p.n
  <2>1. u = [t EXCEPT !.usage = n] /\ n \in Nat
    BY <1>1, <1>6 DEF respHandle
  <2> HIDE DEF n
  <2>2. /\ u \in Translators /\ Stays(t, u) /\ u.client = t.client
        /\ u.usage = n /\ u.stop = t.stop /\ (Good(t) => Good(u))
    BY <2>1, NotesUsage
  <2>3. Good(t) /\ Before(t.client.blocks, p.n) => PartTold(t, u, p)
    BY <1>6, <2>2, NotTold
  <2> QED
    BY <1>6, <2>2, <2>3 DEF Notes, n
<1> QED
  BY <1>1, <1>2, <1>4, <1>5, <1>6 DEF Sayings

-----------------------------------------------------------------------------
(* What the upstream has sent *)

AnswerTypes ==
  /\ api \in {"chat", "anthropic", "responses"}
  /\ phase \in {"decode", "stream", "ended", "cut", "rejected"}
  /\ gone \in BOOLEAN /\ sent \in Seq(SentParts) /\ tr \in Translators

(* The parts are numbered, the calls among them begin in their order, and  *)
(* there is one usage and one reason for the end at most.                  *)
WellSent ==
  /\ \A i \in DOMAIN sent : Plausible(sent[i]) /\ sent[i].n = i
  /\ \A i, j \in DOMAIN sent :
       sent[i].kind \in {"usage", "finish"} /\ sent[j].kind = sent[i].kind => i = j
  /\ IsFiniteSet(Begun) /\ Begun = 1..Cardinality(Begun)

(* The arguments of a call *)
ArgumentsOf(c) == {i \in Said("tool") : sent[i].call = c /\ sent[i].args}

(* A part the upstream may send next *)
Next(p) ==
  /\ Plausible(p) /\ p.n = Len(sent) + 1
  /\ p.kind \in {"usage", "finish"} => Said(p.kind) = {}
  /\ p.named => p.call = Cardinality(Begun) + 1
  /\ p.kind = "tool" /\ ~p.named => p.call \in Begun

(* What is offered may come next. *)
LEMMA OfferedIsNext ==
  ASSUME AnswerTypes, WellSent, NEW p \in Offered
  PROVE  Next(p)
<1>1. Len(sent) + 1 \in Nat /\ Cardinality(Begun) \in Nat
  BY FS_CardinalityType DEF AnswerTypes, WellSent
<1>2. ASSUME NEW kind \in Sayings PROVE
        /\ Part(kind) \in SentParts /\ Part(kind).n = Len(sent) + 1 /\ Part(kind).call = 0
        /\ Part(kind).kind = kind /\ ~Part(kind).named
  BY <1>1 DEF Part, SentParts, Endings
<1>3. ASSUME p = Part("text") \/ p = Part("reason") PROVE Next(p)
  BY <1>2, <1>3 DEF Next, Plausible, Sayings
<1>4. ASSUME p \in Once({Part("usage")}) PROVE Next(p)
  <2>1. p = Part("usage") /\ \A i \in DOMAIN sent : sent[i].kind # p.kind
    BY <1>4 DEF Once
  <2>2. p \in SentParts /\ p.n = Len(sent) + 1 /\ p.call = 0 /\ p.kind = "usage" /\ ~p.named
    BY <1>2, <2>1 DEF Sayings
  <2> QED
    BY <2>1, <2>2 DEF Next, Plausible, Said
<1>5. ASSUME NEW f \in Endings, p \in Once({[Part("finish") EXCEPT !.finish = f]})
      PROVE  Next(p)
  <2>1. p = [Part("finish") EXCEPT !.finish = f] /\ \A i \in DOMAIN sent : sent[i].kind # p.kind
    BY <1>5 DEF Once
  <2>2. p \in SentParts /\ p.n = Len(sent) + 1 /\ p.call = 0 /\ p.kind = "finish" /\ ~p.named
    BY <1>2, <2>1 DEF Sayings, SentParts
  <2> QED
    BY <2>1, <2>2 DEF Next, Plausible, Said
<1>6. ASSUME NEW call \in Nat, NEW first \in BOOLEAN, p \in Fragment(call, first), call # 0
      PROVE  /\ Plausible(p) /\ p.n = Len(sent) + 1 /\ p.kind = "tool" /\ p.named = first
             /\ p.call = call
  <2>5. PICK v \in [index : {0, call}, id : IF first THEN {TRUE} ELSE BOOLEAN,
                    args : IF first THEN BOOLEAN ELSE {TRUE}] :
               p = [Part("tool") EXCEPT !.call = call, !.named = first,
                                        !.index = v.index, !.id = v.id, !.args = v.args]
    BY <1>6 DEF Fragment
  <2> DEFINE index == v.index
             id == v.id
             args == v.args
  <2>1. p = [Part("tool") EXCEPT !.call = call, !.named = first,
                                 !.index = index, !.id = id, !.args = args]
    BY <2>5
  <2>2. index \in Nat /\ id \in BOOLEAN /\ args \in BOOLEAN /\ "tool" \in Sayings
    <3>1. /\ index \in {0, call}
          /\ id \in IF first THEN {TRUE} ELSE BOOLEAN
          /\ args \in IF first THEN BOOLEAN ELSE {TRUE}
      OBVIOUS
    <3> HIDE DEF index, id, args
    <3>2. index \in Nat
      BY <3>1
    <3>3. id \in BOOLEAN /\ args \in BOOLEAN
      BY <3>1
    <3> QED
      BY <3>2, <3>3 DEF Sayings
  <2> HIDE DEF index, id, args
  <2>3. Part("tool") \in SentParts /\ Part("tool").n = Len(sent) + 1 /\ Part("tool").kind = "tool"
    BY <1>2, <2>2
  <2>4. p \in SentParts /\ p.n = Len(sent) + 1 /\ p.kind = "tool" /\ p.named = first /\ p.call = call
    BY <2>1, <2>2, <2>3 DEF SentParts
  <2> QED
    BY <1>6, <2>4 DEF Plausible
<1>7. ASSUME p \in Fragment(Cardinality(Begun) + 1, TRUE) PROVE Next(p)
  <2> DEFINE call == Cardinality(Begun) + 1
  <2>1. call \in Nat /\ call # 0
    BY <1>1
  <2>2. p \in Fragment(call, TRUE)
    BY <1>7
  <2> HIDE DEF call
  <2>3. Plausible(p) /\ p.n = Len(sent) + 1 /\ p.kind = "tool" /\ p.named /\ p.call = call
    BY <1>6, <2>1, <2>2
  <2> QED
    BY <2>3 DEF Next, call
<1>8. ASSUME NEW call \in Begun, p \in Fragment(call, FALSE) PROVE Next(p)
  <2>1. call \in Nat /\ call # 0
    BY <1>1 DEF WellSent
  <2>2. Plausible(p) /\ p.n = Len(sent) + 1 /\ p.kind = "tool" /\ ~p.named /\ p.call = call
    BY <1>6, <1>8, <2>1
  <2> QED
    BY <2>2 DEF Next
<1>9. \/ p = Part("text") \/ p = Part("reason") \/ p \in Once({Part("usage")})
      \/ \E f \in Endings : p \in Once({[Part("finish") EXCEPT !.finish = f]})
      \/ p \in Fragment(Cardinality(Begun) + 1, TRUE)
      \/ \E call \in Begun : p \in Fragment(call, FALSE)
  <2> DEFINE F == {"stop", "tool_calls", "length", "content_filter"}
             E == {[Part("finish") EXCEPT !.finish = f] : f \in F}
             U == UNION {Fragment(call, FALSE) : call \in Begun}
  <2>1. ASSUME p \in Once(E)
        PROVE  \E f \in Endings : p \in Once({[Part("finish") EXCEPT !.finish = f]})
    <3>1. PICK f \in F : p = [Part("finish") EXCEPT !.finish = f]
      BY <2>1 DEF Once
    <3>2. p \in Once({[Part("finish") EXCEPT !.finish = f]})
      BY <2>1, <3>1 DEF Once
    <3>3. f \in Endings
      BY DEF Endings
    <3> QED
      BY <3>2, <3>3
  <2>2. ASSUME p \in U PROVE \E call \in Begun : p \in Fragment(call, FALSE)
    BY <2>2
  <2>3. \/ p \in {Part("text")} \/ p \in Once({Part("usage")}) \/ p \in {Part("reason")}
        \/ p \in Once(E) \/ p \in Fragment(Cardinality(Begun) + 1, TRUE) \/ p \in U
    <3> HIDE DEF E, U
    <3>1. Offered = {Part("text")} \cup Once({Part("usage")})
                    \cup IF api = "chat" THEN {} ELSE
                         {Part("reason")} \cup Once(E)
                         \cup Fragment(Cardinality(Begun) + 1, TRUE) \cup U
      BY DEF Offered, E, U
    <3>2. CASE api = "chat"
      BY <3>1, <3>2
    <3>3. CASE api # "chat"
      BY <3>1, <3>3
    <3> QED
      BY <3>2, <3>3
  <2> HIDE DEF U, E
  <2> QED
    BY <2>1, <2>2, <2>3
<1> QED
  BY <1>3, <1>4, <1>5, <1>7, <1>8, <1>9

(* The part stands behind the others. *)
LEMMA Sends ==
  ASSUME AnswerTypes, NEW p, Next(p), sent' = Append(sent, p)
  PROVE  /\ sent' \in Seq(SentParts) /\ Len(sent) \in Nat /\ Len(sent') = Len(sent) + 1
         /\ p.n = Len(sent) + 1 /\ sent'[p.n] = p /\ p.n \notin DOMAIN sent
         /\ DOMAIN sent = 1..Len(sent) /\ DOMAIN sent' = DOMAIN sent \cup {p.n}
         /\ \A i \in DOMAIN sent : sent'[i] = sent[i]
<1>1. p \in SentParts /\ sent \in Seq(SentParts) /\ p.n = Len(sent) + 1
  BY DEF Next, Plausible, AnswerTypes
<1>2. /\ sent' \in Seq(SentParts) /\ Len(sent) \in Nat /\ Len(sent') = Len(sent) + 1
      /\ DOMAIN sent' = 1..(Len(sent) + 1) /\ DOMAIN sent = 1..Len(sent)
      /\ sent'[Len(sent) + 1] = p /\ \A i \in DOMAIN sent : sent'[i] = sent[i]
  BY <1>1
<1> QED
  BY <1>1, <1>2

(* What has been said so far, with the part *)
LEMMA SaidNow ==
  ASSUME AnswerTypes, NEW p, Next(p), sent' = Append(sent, p)
  PROVE  /\ \A kind : Said(kind)' = Said(kind) \cup IF p.kind = kind THEN {p.n} ELSE {}
         /\ \A c : ArgumentsOf(c)' =
                     ArgumentsOf(c) \cup IF p.kind = "tool" /\ p.call = c THEN ArgumentsIn(p) ELSE {}
         /\ Begun' = Begun \cup CallFor(p)
<1> USE Sends
<1>1. ASSUME NEW kind PROVE Said(kind)' = Said(kind) \cup IF p.kind = kind THEN {p.n} ELSE {}
  BY DEF Said
<1>2. ASSUME NEW c
      PROVE  ArgumentsOf(c)' =
               ArgumentsOf(c) \cup IF p.kind = "tool" /\ p.call = c THEN ArgumentsIn(p) ELSE {}
  <2>1. ASSUME NEW i
        PROVE  i \in ArgumentsOf(c)' <=>
                 /\ i \in DOMAIN sent' /\ sent'[i].kind = "tool" /\ sent'[i].call = c
                 /\ sent'[i].args
    BY DEF ArgumentsOf, Said
  <2>2. ASSUME NEW i
        PROVE  i \in ArgumentsOf(c) <=>
                 /\ i \in DOMAIN sent /\ sent[i].kind = "tool" /\ sent[i].call = c
                 /\ sent[i].args
    BY DEF ArgumentsOf, Said
  <2>3. CASE p.kind = "tool" /\ p.call = c /\ p.args
    <3>1. ArgumentsIn(p) = {p.n}
      BY <2>3 DEF ArgumentsIn
    <3>2. \A i : i \in ArgumentsOf(c)' <=> i \in ArgumentsOf(c) \/ i = p.n
      BY <2>1, <2>2, <2>3
    <3> HIDE DEF ArgumentsOf
    <3> QED
      BY <2>3, <3>1, <3>2
  <2>4. CASE ~(p.kind = "tool" /\ p.call = c /\ p.args)
    <3>1. p.kind = "tool" /\ p.call = c => ArgumentsIn(p) = {}
      BY <2>4 DEF ArgumentsIn
    <3>2. \A i : i \in ArgumentsOf(c)' <=> i \in ArgumentsOf(c)
      BY <2>1, <2>2, <2>4
    <3> HIDE DEF ArgumentsOf
    <3> QED
      BY <3>1, <3>2
  <2> QED
    BY <2>3, <2>4
<1>3. Begun' = Begun \cup CallFor(p)
  <2>1. ASSUME NEW c PROVE c \in Begun <=> c # 0 /\ \E i \in DOMAIN sent : sent[i].call = c
    BY DEF Begun
  <2>2. ASSUME NEW c PROVE c \in Begun' <=> c # 0 /\ \E i \in DOMAIN sent' : sent'[i].call = c
    BY DEF Begun
  <2>3. ASSUME NEW c PROVE c \in Begun' <=> c \in Begun \/ (c # 0 /\ c = p.call)
    BY <2>1, <2>2
  <2>4. CASE p.named
    <3>1. CallFor(p) = {p.call} /\ p.call # 0
      BY <2>4 DEF CallFor, Next, Plausible
    <3> HIDE DEF Begun
    <3> QED
      BY <2>3, <3>1
  <2>5. CASE ~p.named
    <3>1. CallFor(p) = {} /\ (p.call # 0 => p.call \in Begun)
      BY <2>5 DEF CallFor, Next, Plausible
    <3> HIDE DEF Begun
    <3> QED
      BY <2>3, <3>1, ZenonT(30)
  <2> QED
    BY <2>4, <2>5
<1> QED
  BY <1>1, <1>2, <1>3

(* The upstream's stream stays well formed. *)
LEMMA SendsWell ==
  ASSUME AnswerTypes, WellSent, NEW p, Next(p), sent' = Append(sent, p)
  PROVE  WellSent'
<1>1. /\ p.n = Len(sent) + 1 /\ sent'[p.n] = p /\ p.n \notin DOMAIN sent
      /\ DOMAIN sent' = DOMAIN sent \cup {p.n}
      /\ \A i \in DOMAIN sent : sent'[i] = sent[i]
  BY Sends
<1>2. \A i \in DOMAIN sent' : Plausible(sent'[i]) /\ sent'[i].n = i
  BY <1>1 DEF WellSent, Next
<1>3. ASSUME NEW i \in DOMAIN sent', NEW j \in DOMAIN sent',
             sent'[i].kind \in {"usage", "finish"}, sent'[j].kind = sent'[i].kind
      PROVE  i = j
  <2>1. p.kind \in {"usage", "finish"} => \A k \in DOMAIN sent : sent[k].kind # p.kind
    BY DEF Next, Said
  <2> QED
    BY <1>1, <1>3, <2>1 DEF WellSent
<1>4. Begun' = Begun \cup CallFor(p)
  BY SaidNow
<1>5. IsFiniteSet(Begun') /\ Begun' = 1..Cardinality(Begun')
  <2> DEFINE n == Cardinality(Begun)
  <2>1. IsFiniteSet(Begun) /\ Begun = 1..n /\ n \in Nat
    BY FS_CardinalityType DEF WellSent
  <2>2. CASE p.named
    <3>1. Begun' = Begun \cup {n + 1}
      BY <1>4, <2>2 DEF CallFor, Next
    <3> HIDE DEF n
    <3>2. n + 1 \notin Begun /\ Begun' = 1..(n + 1)
      BY <2>1, <3>1
    <3>3. IsFiniteSet(Begun') /\ Cardinality(Begun') = n + 1
      BY <2>1, <3>2, FS_Interval
    <3> QED
      BY <3>2, <3>3
  <2>3. CASE ~p.named
    <3>1. Begun' = Begun
      BY <1>4, <2>3 DEF CallFor
    <3> QED
      BY <2>1, <3>1
  <2> QED
    BY <2>2, <2>3
<1>6. Plausible(p)' <=> Plausible(p)
  BY DEF Plausible
<1> QED
  BY <1>2, <1>3, <1>5 DEF WellSent, Plausible

(* A call that may still go on *)
Unbroken(j) ==
  /\ sent[j].named /\ sent[j].index # 0
  /\ \A k \in j..Len(sent) : sent[k].kind = "tool" => sent[k].call = sent[j].call
  /\ \A k \in j..Len(sent) : sent[k].kind \notin {"text", "reason"}

(* An upstream that keeps the protocol has kept it before, and a fragment  *)
(* goes on with a call that may go on.                                     *)
LEMMA OrderlySends ==
  ASSUME AnswerTypes, WellSent, NEW p, Next(p), sent' = Append(sent, p), Orderly'
  PROVE  /\ Orderly
         /\ p.kind = "tool" /\ ~p.named =>
              /\ p.index # 0
              /\ \E j \in DOMAIN sent : /\ Unbroken(j) /\ sent[j].index = p.index
                                        /\ sent[j].call = p.call
<1> DEFINE Run(s, i) ==
      /\ s[i].index # 0
      /\ \E j \in 1..(i - 1) :
           /\ s[j].named /\ s[j].index = s[i].index
           /\ \A k \in j..i : s[k].kind = "tool" => s[k].call = s[i].call
           /\ \A k \in j..i : s[k].kind \notin {"text", "reason"}
<1>1. /\ p.n = Len(sent) + 1 /\ sent'[p.n] = p /\ Len(sent) \in Nat
      /\ DOMAIN sent = 1..Len(sent) /\ DOMAIN sent' = DOMAIN sent \cup {p.n}
      /\ \A i \in DOMAIN sent : sent'[i] = sent[i]
  BY Sends
<1>2. ASSUME NEW i \in DOMAIN sent', sent'[i].kind = "tool", ~sent'[i].named
      PROVE  Run(sent', i)
  BY <1>2 DEF Orderly
<1>3. ASSUME NEW i \in DOMAIN sent, sent[i].kind = "tool", ~sent[i].named
      PROVE  Run(sent, i)
  <2>1. Run(sent', i) /\ sent'[i] = sent[i]
    BY <1>1, <1>2, <1>3
  <2>2. PICK j \in 1..(i - 1) :
           /\ sent'[j].named /\ sent'[j].index = sent'[i].index
           /\ \A k \in j..i : sent'[k].kind = "tool" => sent'[k].call = sent'[i].call
           /\ \A k \in j..i : sent'[k].kind \notin {"text", "reason"}
    BY <2>1
  <2>3. j \in j..i /\ j..i \subseteq DOMAIN sent
    BY <1>1
  <2>4. \A k \in j..i : sent'[k] = sent[k]
    BY <1>1, <2>3
  <2>5. sent[i].index # 0
    BY <2>1
  <2>6. sent[j].named /\ sent[j].index = sent[i].index
    BY <2>1, <2>2, <2>3, <2>4
  <2>7. \A k \in j..i : sent[k].kind = "tool" => sent[k].call = sent[i].call
    BY <2>1, <2>2, <2>4
  <2>8. \A k \in j..i : sent[k].kind \notin {"text", "reason"}
    BY <2>2, <2>4
  <2> QED
    BY <2>5, <2>6, <2>7, <2>8
<1>4. Orderly
  BY <1>3 DEF Orderly
<1>5. ASSUME p.kind = "tool", ~p.named
      PROVE  /\ p.index # 0
             /\ \E j \in DOMAIN sent : /\ Unbroken(j) /\ sent[j].index = p.index
                                       /\ sent[j].call = p.call
  <2>1. p.n \in DOMAIN sent' /\ Run(sent', p.n)
    BY <1>1, <1>2, <1>5
  <2>2. PICK j \in 1..(p.n - 1) :
           /\ sent'[j].named /\ sent'[j].index = p.index
           /\ \A k \in j..p.n : sent'[k].kind = "tool" => sent'[k].call = p.call
           /\ \A k \in j..p.n : sent'[k].kind \notin {"text", "reason"}
    BY <1>1, <2>1
  <2>3. j \in DOMAIN sent /\ j \in j..p.n /\ j..Len(sent) \subseteq DOMAIN sent
        /\ j..Len(sent) \subseteq j..p.n
    BY <1>1
  <2>4. \A k \in j..Len(sent) : sent'[k] = sent[k]
    BY <1>1, <2>3
  <2>5. sent'[j] = sent[j] /\ Plausible(sent[j])
    BY <1>1, <2>3 DEF WellSent
  <2>6. sent[j].named /\ sent[j].index = p.index /\ sent[j].kind = "tool" /\ sent[j].call = p.call
    BY <2>2, <2>3, <2>5 DEF Plausible
  <2>7. Unbroken(j)
    BY <1>1, <1>5, <2>1, <2>2, <2>3, <2>4, <2>6 DEF Unbroken
  <2> QED
    BY <1>1, <2>1, <2>3, <2>6, <2>7
<1> QED
  BY <1>4, <1>5

(* A call may go on behind a part only if it might before, and the part is *)
(* not of another, or if the part begins it.                               *)
LEMMA UnbrokenNow ==
  ASSUME AnswerTypes, WellSent, NEW p, Next(p), sent' = Append(sent, p),
         NEW j \in DOMAIN sent', Unbroken(j)'
  PROVE  /\ p.kind \notin {"text", "reason"}
         /\ j = p.n => p.named /\ p.index # 0 /\ sent'[j] = p
         /\ j # p.n => /\ j \in DOMAIN sent /\ sent'[j] = sent[j] /\ Unbroken(j)
                       /\ p.kind = "tool" => p.call = sent[j].call /\ ~p.named
<1>1. /\ p.n = Len(sent) + 1 /\ sent'[p.n] = p /\ Len(sent) \in Nat /\ Len(sent') = p.n
      /\ DOMAIN sent = 1..Len(sent) /\ DOMAIN sent' = DOMAIN sent \cup {p.n}
      /\ \A i \in DOMAIN sent : sent'[i] = sent[i]
  BY Sends
<1>2. /\ sent'[j].named /\ sent'[j].index # 0
      /\ \A k \in j..Len(sent') : sent'[k].kind = "tool" => sent'[k].call = sent'[j].call
      /\ \A k \in j..Len(sent') : sent'[k].kind \notin {"text", "reason"}
  BY DEF Unbroken
<1>3. p.n \in j..Len(sent')
  BY <1>1
<1>4. p.kind \notin {"text", "reason"}
  BY <1>1, <1>2, <1>3
<1>5. ASSUME j # p.n
      PROVE  /\ j \in DOMAIN sent /\ sent'[j] = sent[j] /\ Unbroken(j)
             /\ p.kind = "tool" => p.call = sent[j].call /\ ~p.named
  <2>1. j \in DOMAIN sent /\ sent'[j] = sent[j]
    BY <1>1, <1>5
  <2>2. \A k \in j..Len(sent) : k \in DOMAIN sent /\ k \in j..Len(sent') /\ sent'[k] = sent[k]
    BY <1>1, <2>1
  <2>3. Unbroken(j)
    BY <1>2, <2>1, <2>2 DEF Unbroken
  <2>4. p.kind = "tool" => p.call = sent[j].call
    BY <1>1, <1>2, <1>3, <2>1
  <2>5. ASSUME p.kind = "tool", p.named PROVE FALSE
    <3>1. p.call = Cardinality(Begun) + 1 /\ Cardinality(Begun) \in Nat
          /\ Begun = 1..Cardinality(Begun)
      BY <2>5, FS_CardinalityType DEF Next, WellSent
    <3>2. p.call \notin Begun
      BY <3>1
    <3>3. p.call # 0
      BY <2>5 DEF Next, Plausible
    <3> QED
      BY <2>1, <2>4, <2>5, <3>2, <3>3 DEF Begun
  <2> QED
    BY <2>1, <2>3, <2>4, <2>5
<1> QED
  BY <1>1, <1>2, <1>4, <1>5

-----------------------------------------------------------------------------
(* The invariant of an answer *)

(* A call that may go on has the open block, which its index leads to.     *)
Running == \A j \in DOMAIN sent : Unbroken(j) =>
  /\ tr.kind = "tool" /\ tr.call = sent[j].call
  /\ Mapped(tr, sent[j].index) = {[index |-> sent[j].index, at |-> tr.at]}

(* The client has been told what was sent. *)
Told ==
  /\ InOrder(client.blocks) /\ UpTo(client.blocks, Len(sent))
  /\ Content(client.blocks, "text", 0) = Said("text")
  /\ Content(client.blocks, "reason", 0) = IF api = "responses" THEN Said("reason") ELSE {}
  /\ CallsOf(client.blocks) = Begun
  /\ \A c \in Nat : Content(client.blocks, "tool", c) = ArgumentsOf(c)

(* The translator knows the reason for the end. *)
Stopped == \A i \in Said("finish") :
  /\ api = "anthropic" => tr.stop = anthStopReason(sent[i].finish)
  /\ api = "responses" /\ sent[i].finish = "length" => tr.stop = "incomplete"

(* It knows the usage, whether or not the client has stayed. *)
Metered ==
  /\ \A i \in Said("usage") : tr.usage = i
  /\ Said("usage") = {} => tr.usage = 0

(* Of what is written to a client that has stayed it misses nothing. *)
Streaming == phase \in {"decode", "stream"} /\ ~gone =>
  /\ api = "chat" => PassedOn(client.blocks, tr.buf, Len(sent))
  /\ api # "chat" /\ Orderly => Good(tr) /\ Running /\ Told

AnswerInv ==
  /\ AnswerTypes /\ WellSent /\ Metered /\ Stopped
  /\ api = "chat" => client.nested
  /\ Streaming /\ EventsNest /\ Rebuilt

(* A part is told to a client that has stayed. *)
LEMMA PartsTold ==
  ASSUME AnswerTypes, WellSent, NEW p, Next(p), sent' = Append(sent, p), api' = api,
         PartTold(tr, tr', p), api # "chat", Running, Told, Orderly'
  PROVE  Good(tr') /\ Running' /\ Told'
<1>1. /\ p.n = Len(sent) + 1 /\ sent'[p.n] = p /\ Len(sent) \in Nat /\ Len(sent') = p.n
      /\ DOMAIN sent' = DOMAIN sent \cup {p.n}
      /\ \A i \in DOMAIN sent : sent'[i] = sent[i]
  BY Sends
<1>2. /\ \A kind : Said(kind)' = Said(kind) \cup IF p.kind = kind THEN {p.n} ELSE {}
      /\ \A c : ArgumentsOf(c)' =
                  ArgumentsOf(c) \cup IF p.kind = "tool" /\ p.call = c THEN ArgumentsIn(p) ELSE {}
      /\ Begun' = Begun \cup CallFor(p)
  BY SaidNow
<1>3. /\ p \in SentParts /\ p.kind \in Sayings /\ p.call \in Nat
      /\ p.call # 0 <=> p.kind = "tool"
      /\ p.named => p.kind = "tool"
  BY DEF Next, Plausible, SentParts
<1> DEFINE B == client.blocks
           D == tr'.client.blocks
<1>4. client' = tr'.client /\ client = tr.client /\ D = client'.blocks
  BY DEF client
<1>5. /\ Good(tr')
      /\ Tells(B, D, p.n, p.kind, p.call, PartFor(p), CallFor(p))
      /\ p.named => AtCall(tr', p)
      /\ p.kind \in {"finish", "usage"} \/ (p.kind = "tool" /\ ~p.named) => Stays(tr, tr')
  BY <1>4 DEF PartTold
<1>6. Running'
  <2>1. ASSUME NEW j \in DOMAIN sent', Unbroken(j)'
        PROVE  /\ tr'.kind = "tool" /\ tr'.call = sent'[j].call
               /\ Mapped(tr', sent'[j].index) = {[index |-> sent'[j].index, at |-> tr'.at]}
    <3>1. /\ p.kind \notin {"text", "reason"}
          /\ j = p.n => p.named /\ p.index # 0 /\ sent'[j] = p
          /\ j # p.n => /\ j \in DOMAIN sent /\ sent'[j] = sent[j] /\ Unbroken(j)
                        /\ p.kind = "tool" => p.call = sent[j].call /\ ~p.named
      BY <2>1, UnbrokenNow
    <3>2. CASE j = p.n
      BY <1>5, <3>1, <3>2 DEF AtCall, NameOf
    <3>3. CASE j # p.n
      <4>1. Stays(tr, tr')
        BY <1>3, <1>5, <3>1, <3>3 DEF Sayings
      <4>2. tr'.kind = tr.kind /\ tr'.call = tr.call /\ tr'.at = tr.at /\ tr'.map = tr.map
        BY <4>1 DEF Stays, InBlock
      <4>3. /\ tr.kind = "tool" /\ tr.call = sent[j].call
            /\ Mapped(tr, sent[j].index) = {[index |-> sent[j].index, at |-> tr.at]}
        BY <3>1, <3>3 DEF Running
      <4> QED
        BY <3>1, <3>3, <4>2, <4>3 DEF Mapped
    <3> QED
      BY <3>2, <3>3
  <2> QED
    BY <2>1 DEF Running
<1>7. Told'
  <2> HIDE DEF D, B
  <2>1. /\ InOrder(D) /\ UpTo(D, p.n) /\ CallsOf(D) = CallsOf(B) \cup CallFor(p)
        /\ \A k \in Kinds, c \in Nat :
             Content(D, k, c) = Content(B, k, c)
                                  \cup IF k = p.kind /\ c = p.call THEN PartFor(p) ELSE {}
    BY <1>5 DEF Tells
  <2>2. /\ Content(B, "text", 0) = Said("text")
        /\ Content(B, "reason", 0) = IF api = "responses" THEN Said("reason") ELSE {}
        /\ CallsOf(B) = Begun
        /\ \A c \in Nat : Content(B, "tool", c) = ArgumentsOf(c)
    BY DEF Told, B
  <2>3. "text" \in Kinds /\ "reason" \in Kinds /\ "tool" \in Kinds
    BY DEF Kinds
  <2>4. Content(D, "text", 0) = Said("text")'
    <3>1. p.kind = "text" => p.call = 0 /\ PartFor(p) = {p.n}
      BY <1>3 DEF PartFor
    <3> QED
      BY <1>2, <2>1, <2>2, <2>3, <3>1, ZenonT(30)
  <2>5. Content(D, "reason", 0) = IF api' = "responses" THEN Said("reason")' ELSE {}
    <3>1. p.kind = "reason" => /\ p.call = 0
                               /\ PartFor(p) = IF api = "responses" THEN {p.n} ELSE {}
      BY <1>3 DEF PartFor
    <3>2. CASE api = "responses"
      BY <1>2, <2>1, <2>2, <2>3, <3>1, <3>2, ZenonT(30)
    <3>3. CASE api # "responses"
      BY <1>2, <2>1, <2>2, <2>3, <3>1, <3>3
    <3> QED
      BY <3>2, <3>3
  <2>6. CallsOf(D) = Begun'
    BY <1>2, <2>1, <2>2
  <2>7. ASSUME NEW c \in Nat PROVE Content(D, "tool", c) = ArgumentsOf(c)'
    <3>1. p.kind = "tool" => PartFor(p) = ArgumentsIn(p)
      BY DEF PartFor
    <3> QED
      BY <1>2, <2>1, <2>2, <2>3, <3>1, ZenonT(30)
  <2> QED
    BY <1>1, <1>4, <2>1, <2>4, <2>5, <2>6, <2>7 DEF Told
<1> QED
  BY <1>5, <1>6, <1>7

(* The next part finds the blocks as they should be. *)
LEMMA PartsFit ==
  ASSUME AnswerTypes, WellSent, NEW p, Next(p), sent' = Append(sent, p), Orderly',
         Running, Told
  PROVE  Before(tr.client.blocks, p.n) /\ Later(tr, p) /\ OnCall(tr, p)
<1>1. p.n = Len(sent) + 1 /\ Len(sent) \in Nat
  BY Sends
<1>2. Before(tr.client.blocks, p.n)
  BY <1>1 DEF Told, Before, client
<1>3. Later(tr, p)
  <2>1. Begun = 1..Cardinality(Begun) /\ Cardinality(Begun) \in Nat
    BY FS_CardinalityType DEF WellSent
  <2>2. CallsOf(tr.client.blocks) = Begun
    BY DEF Told, client
  <2>3. p.named => p.call = Cardinality(Begun) + 1
    BY DEF Next
  <2> QED
    BY <2>1, <2>2, <2>3 DEF Later
<1>4. OnCall(tr, p)
  <2>1. ASSUME p.kind = "tool", ~p.named
        PROVE  /\ p.index # 0 /\ tr.kind = "tool" /\ tr.call = p.call
               /\ Mapped(tr, p.index) = {[index |-> p.index, at |-> tr.at]}
    <3>1. p.index # 0 /\ \E j \in DOMAIN sent : /\ Unbroken(j) /\ sent[j].index = p.index
                                                /\ sent[j].call = p.call
      BY <2>1, OrderlySends
    <3>2. PICK j \in DOMAIN sent : Unbroken(j) /\ sent[j].index = p.index /\ sent[j].call = p.call
      BY <3>1
    <3>3. /\ tr.kind = "tool" /\ tr.call = sent[j].call
          /\ Mapped(tr, sent[j].index) = {[index |-> sent[j].index, at |-> tr.at]}
      BY <3>2 DEF Running
    <3> QED
      BY <3>1, <3>2, <3>3
  <2> QED
    BY <2>1 DEF OnCall
<1> QED
  BY <1>2, <1>3, <1>4

(* A kind that is said once at most is said last where it is said. *)
LEMMA SaidOnce ==
  ASSUME WellSent, AnswerTypes, NEW kind \in {"usage", "finish"}, NEW i \in Said(kind)
  PROVE  Max(Said(kind)) = i /\ Said(kind) # {}
<1>1. \A j \in Said(kind) : j = i
  BY DEF Said, WellSent
<1>2. i \in Nat
  BY DEF Said, AnswerTypes
<1>3. i \in Said(kind) /\ \A y \in Said(kind) : i >= y
  BY <1>1, <1>2
<1> QED
  BY <1>1, <1>3 DEF Max

(* In the beginning nothing is said. *)
LEMMA AnswerInit == TranslationInit => AnswerInv
<1> SUFFICES ASSUME TranslationInit PROVE AnswerInv
  OBVIOUS
<1> DEFINE none == <<>>
           zero == 0
           one == 1
           nomap == {}
<1>1. none = <<>> /\ none \in Seq(Blocks) /\ none \in Seq(Nat) /\ none \in Seq(SentParts)
      /\ DOMAIN none = {} /\ Len(none) = 0 /\ none = <<>>
  OBVIOUS
<1>2. zero \in Nat /\ one \in Nat /\ nomap \in SUBSET [index : Nat, at : Nat] /\ zero = 0 /\ one = 1
  OBVIOUS
<1>3. /\ sent = none /\ gone = FALSE /\ phase = "decode"
      /\ api \in {"chat", "anthropic", "responses"}
      /\ tr = [started |-> FALSE, kind |-> "none", at |-> zero, next |-> one, map |-> nomap,
               call |-> zero, buf |-> none, output |-> none, sawTool |-> FALSE, stop |-> "none",
               usage |-> zero,
               client |-> [begun |-> FALSE, blocks |-> none, open |-> zero, end |-> "none",
                           stop |-> "none", whole |-> none, nested |-> TRUE]]
  BY DEF TranslationInit, NewTranslator, NewClient
<1> HIDE DEF none, zero, one, nomap
<1>4. tr \in Translators
  BY <1>1, <1>2, <1>3 DEF Translators, Clients, Kinds, Stops
<1>5. /\ tr.started = FALSE /\ tr.kind = "none" /\ tr.at = zero /\ tr.next = one /\ tr.buf = none
      /\ tr.output = none /\ tr.usage = zero
      /\ client.begun = FALSE /\ client.blocks = none /\ client.open = zero /\ client.end = "none"
      /\ client.nested = TRUE
  BY <1>3 DEF client
<1>6. AnswerTypes
  BY <1>1, <1>3, <1>4 DEF AnswerTypes
<1>7. Begun = {} /\ \A kind : Said(kind) = {}
  BY <1>1, <1>3 DEF Begun, Said
<1>8. WellSent
  <2>1. IsFiniteSet({}) /\ Cardinality({}) = 0 /\ {} = 1..0
    BY FS_EmptySet
  <2> QED
    BY <1>1, <1>3, <1>7, <2>1 DEF WellSent
<1>9. Metered /\ Stopped
  BY <1>2, <1>5, <1>7 DEF Metered, Stopped
<1>10. ToolBlocks(none) = {} /\ InOrder(none) /\ UpTo(none, 0) /\ CallsOf(none) = {}
  <2>1. ToolBlocks(none) = {}
    BY <1>1 DEF ToolBlocks
  <2> QED
    BY <1>1, <2>1 DEF InOrder, UpTo, CallsOf
<1>11. \A kind, call : Content(none, kind, call) = {}
  <2>1. ASSUME NEW kind, NEW call, NEW x PROVE x \notin Content(none, kind, call)
    BY <1>1, SaidInBlock
  <2> QED
    BY <2>1
<1>12. PassedOn(client.blocks, tr.buf, Len(sent))
  <2>1. ToSet(none) = {} /\ 1..0 = {}
    BY <1>1 DEF ToSet
  <2> QED
    BY <1>1, <1>3, <1>5, <1>10, <1>11, <2>1 DEF PassedOn
<1>13. Good(tr)
  <2>1. Mirrors(tr)
    BY <1>2, <1>5 DEF Mirrors, client
  <2>2. /\ tr.client.begun = tr.started /\ tr.client.open = tr.at /\ tr.client.end = "none"
        /\ tr.client.nested
    BY <1>5 DEF client
  <2>3. tr.next = Len(tr.client.blocks) + 1
    <3>1. Len(none) + 1 = one
      BY <1>1, <1>2
    <3>2. tr.client.blocks = none /\ tr.next = one
      BY <1>5 DEF client
    <3> QED
      BY <3>1, <3>2
  <2> QED
    BY <2>1, <2>2, <2>3 DEF Good
<1>14. Running
  BY <1>1, <1>3 DEF Running
<1>15. Told
  <2>1. ASSUME NEW c \in Nat PROVE ArgumentsOf(c) = {}
    BY <1>7 DEF ArgumentsOf
  <2> QED
    BY <1>1, <1>3, <1>5, <1>7, <1>10, <1>11, <2>1 DEF Told
<1>16. EventsNest /\ Rebuilt
  BY <1>3, <1>5 DEF EventsNest, Rebuilt
<1> QED
  BY <1>5, <1>6, <1>8, <1>9, <1>12, <1>13, <1>14, <1>15, <1>16 DEF AnswerInv, Streaming

(* Nothing is said while the request is decoded. *)
LEMMA AnswerDecodes ==
  ASSUME AnswerInv, phase = "decode", phase' \in {"decode", "stream", "rejected"},
         api' = api, UNCHANGED answer
  PROVE  AnswerInv'
<1>1. sent' = sent /\ tr' = tr /\ gone' = gone /\ api' = api
  BY DEF answer
<1>2. client' = client /\ Begun' = Begun /\ (\A kind : Said(kind)' = Said(kind))
      /\ (\A c : ArgumentsOf(c)' = ArgumentsOf(c)) /\ Orderly' = Orderly
  BY <1>1 DEF client, Begun, Said, ArgumentsOf, Orderly
<1>3. AnswerTypes' /\ WellSent' /\ Metered' /\ Stopped'
  BY <1>1, <1>2 DEF AnswerInv, AnswerTypes, WellSent, Metered, Stopped, Plausible
<1>4. Running' = Running /\ Told' = Told
  <2>1. Running' = Running
    BY <1>1 DEF Running, Unbroken, Mapped
  <2>2. Told' = Told
    BY <1>1, <1>2 DEF Told
  <2> QED
    BY <2>1, <2>2
<1>5. Streaming'
  BY <1>1, <1>2, <1>4 DEF AnswerInv, Streaming, Good, Mirrors
<1>6. EventsNest' /\ Rebuilt'
  BY <1>1, <1>2 DEF AnswerInv, EventsNest, Rebuilt
<1> QED
  BY <1>1, <1>2, <1>3, <1>5, <1>6 DEF AnswerInv

(* A part arrives. *)
LEMMA AnswerChunk ==
  ASSUME AnswerInv, NEW p \in Offered, phase = "stream", sent' = Append(sent, p),
         tr' = handle(p), UNCHANGED <<api, phase, gone>>
  PROVE  AnswerInv'
<1> DEFINE u == handle(p)
<1>0. /\ AnswerTypes /\ WellSent /\ Metered /\ Stopped /\ Streaming /\ EventsNest
      /\ api = "chat" => client.nested
  BY DEF AnswerInv
<1>1. Next(p) /\ Plausible(p) /\ p \in SentParts /\ tr \in Translators
  BY <1>0, OfferedIsNext DEF Next, Plausible, AnswerTypes
<1>2. /\ p.n = Len(sent) + 1 /\ sent'[p.n] = p /\ Len(sent) \in Nat /\ Len(sent') = p.n
      /\ DOMAIN sent' = DOMAIN sent \cup {p.n} /\ sent' \in Seq(SentParts)
      /\ \A i \in DOMAIN sent : sent'[i] = sent[i]
  BY <1>0, <1>1, Sends
<1>3. \A kind : Said(kind)' = Said(kind) \cup IF p.kind = kind THEN {p.n} ELSE {}
  BY <1>0, <1>1, SaidNow
<1>4. WellSent'
  BY <1>0, <1>1, SendsWell
<1>5. Orderly' => Orderly
  BY <1>0, <1>1, OrderlySends
<1>6. api = "anthropic" =>
        /\ Notes(tr, tr', p)
        /\ p.kind = "finish" => tr'.stop = anthStopReason(p.finish)
        /\ /\ ~gone /\ Good(tr) /\ Before(tr.client.blocks, p.n)
           /\ Later(tr, p) /\ OnCall(tr, p)
           => PartTold(tr, tr', p)
  <2> SUFFICES ASSUME api = "anthropic"
               PROVE  /\ Notes(tr, tr', p)
                      /\ p.kind = "finish" => tr'.stop = anthStopReason(p.finish)
                      /\ /\ ~gone /\ Good(tr) /\ Before(tr.client.blocks, p.n)
                         /\ Later(tr, p) /\ OnCall(tr, p)
                         => PartTold(tr, tr', p)
    OBVIOUS
  <2>1. tr' = anthHandle(tr, p)
    BY DEF handle
  <2> QED
    BY <1>1, <2>1, AnthHandles
<1>7. api = "responses" =>
        /\ Notes(tr, tr', p)
        /\ p.kind = "finish" /\ p.finish = "length" => tr'.stop = "incomplete"
        /\ /\ ~gone /\ Good(tr) /\ Before(tr.client.blocks, p.n)
           /\ Later(tr, p) /\ OnCall(tr, p)
           => PartTold(tr, tr', p)
  <2> SUFFICES ASSUME api = "responses"
               PROVE  /\ Notes(tr, tr', p)
                      /\ p.kind = "finish" /\ p.finish = "length" => tr'.stop = "incomplete"
                      /\ /\ ~gone /\ Good(tr) /\ Before(tr.client.blocks, p.n)
                         /\ Later(tr, p) /\ OnCall(tr, p)
                         => PartTold(tr, tr', p)
    OBVIOUS
  <2>1. tr' = respHandle(tr, p)
    BY DEF handle
  <2> QED
    BY <1>1, <2>1, RespHandles
<1>8. api = "chat" =>
        /\ tr' \in Translators /\ tr'.client = tr.client /\ tr'.buf = Append(tr.buf, p.n)
        /\ tr'.usage = IF p.kind = "usage" THEN p.n ELSE tr.usage
  <2> SUFFICES ASSUME api = "chat"
               PROVE  /\ tr' \in Translators /\ tr'.client = tr.client
                      /\ tr'.buf = Append(tr.buf, p.n)
                      /\ tr'.usage = IF p.kind = "usage" THEN p.n ELSE tr.usage
    OBVIOUS
  <2>1. tr' = chatLine(tr, p)
    BY DEF handle
  <2> QED
    BY <1>1, <2>1, ChatLine
<1>9. api = "chat" \/ api = "anthropic" \/ api = "responses"
  BY <1>0 DEF AnswerTypes
<1>10. /\ tr' \in Translators
       /\ gone => tr'.client = tr.client
       /\ tr'.usage = IF p.kind = "usage" THEN p.n ELSE tr.usage
       /\ p.kind # "finish" /\ api # "chat" => tr'.stop = tr.stop
  BY <1>6, <1>7, <1>8, <1>9 DEF Notes
<1>11. AnswerTypes'
  BY <1>0, <1>2, <1>10 DEF AnswerTypes
<1>12. Metered'
  <2>1. CASE p.kind = "usage"
    <3>1. Said("usage")' = {p.n}
      BY <1>1, <1>3, <2>1 DEF Next
    <3> QED
      BY <1>10, <2>1, <3>1 DEF Metered
  <2>2. CASE p.kind # "usage"
    BY <1>0, <1>3, <1>10, <2>2 DEF Metered
  <2> QED
    BY <2>1, <2>2
<1>13. Stopped'
  <2>1. ASSUME NEW i \in Said("finish")'
        PROVE  /\ api' = "anthropic" => tr'.stop = anthStopReason(sent'[i].finish)
               /\ api' = "responses" /\ sent'[i].finish = "length" => tr'.stop = "incomplete"
    <3>1. CASE p.kind = "finish"
      <4>1. i = p.n
        BY <1>1, <1>3, <3>1 DEF Next
      <4> QED
        BY <1>2, <1>6, <1>7, <3>1, <4>1
    <3>2. CASE p.kind # "finish"
      <4>1. i \in Said("finish") /\ i \in DOMAIN sent /\ sent'[i] = sent[i]
        BY <1>2, <1>3, <3>2 DEF Said
      <4> QED
        BY <1>0, <1>10, <3>2, <4>1 DEF Stopped
    <3> QED
      BY <3>1, <3>2
  <2> QED
    BY <2>1 DEF Stopped
<1>14. api' = "chat" => client'.nested
  BY <1>0, <1>8 DEF client
<1>15. ASSUME api # "chat", ~gone, Orderly' PROVE Good(tr') /\ Running' /\ Told'
  <2>1. Good(tr) /\ Running /\ Told
    BY <1>0, <1>5, <1>15 DEF Streaming
  <2>2. Before(tr.client.blocks, p.n) /\ Later(tr, p) /\ OnCall(tr, p)
    BY <1>0, <1>1, <1>15, <2>1, PartsFit
  <2>3. PartTold(tr, tr', p)
    BY <1>6, <1>7, <1>9, <1>15, <2>1, <2>2
  <2> QED
    BY <1>0, <1>1, <1>15, <2>1, <2>3, PartsTold
<1>17. ASSUME api = "chat", ~gone PROVE PassedOn(client'.blocks, tr'.buf, Len(sent'))
  <2> DEFINE B == client.blocks
             buf == tr.buf
             n == Len(sent)
  <2>1. B \in Seq(Blocks) /\ buf \in Seq(Nat) /\ n \in Nat /\ PassedOn(B, buf, n)
    BY <1>0, <1>1, <1>2, <1>17 DEF Streaming, client, Translators, Clients
  <2>2. client'.blocks = B /\ tr'.buf = Append(buf, n + 1) /\ Len(sent') = n + 1
    BY <1>2, <1>8, <1>17 DEF client
  <2> HIDE DEF B, buf, n
  <2>3. PassedOn(B, Append(buf, n + 1), n + 1)
    BY <2>1, LinePassed
  <2> QED
    BY <2>2, <2>3
<1>18. Streaming'
  BY <1>15, <1>17 DEF Streaming
<1>19. EventsNest'
  <2>1. ASSUME Orderly' PROVE client'.nested
    <3>1. CASE api = "chat"
      BY <1>14, <3>1
    <3>2. CASE api # "chat" /\ ~gone
      BY <1>15, <2>1, <3>2 DEF Good, client
    <3>3. CASE gone
      BY <1>0, <1>5, <1>10, <2>1, <3>3 DEF EventsNest, client
    <3> QED
      BY <1>0, <3>1, <3>2, <3>3 DEF AnswerTypes
  <2> QED
    BY <2>1 DEF EventsNest
<1>20. Rebuilt'
  BY DEF Rebuilt
<1> QED
  BY <1>4, <1>11, <1>12, <1>13, <1>14, <1>18, <1>19, <1>20 DEF AnswerInv

(* The chat stream's event is passed on. *)
LEMMA AnswerEvent ==
  ASSUME AnswerInv, phase = "stream", api = "chat", tr' = writeEvent(tr),
         UNCHANGED <<api, sent, gone>>, phase' \in {"stream", "ended", "cut"}
  PROVE  AnswerInv'
<1>0. /\ AnswerTypes /\ WellSent /\ Metered /\ Stopped /\ Streaming /\ EventsNest
      /\ client.nested
  BY DEF AnswerInv
<1>1. tr \in Translators /\ Len(sent) \in Nat /\ DOMAIN sent = 1..Len(sent)
  BY <1>0 DEF AnswerTypes
<1>2. /\ Steady(tr, tr') /\ tr'.client.nested = tr.client.nested
      /\ \A n \in Nat : ~gone /\ PassedOn(tr.client.blocks, tr.buf, n) =>
           tr'.buf = <<>> /\ PassedOn(tr'.client.blocks, tr'.buf, n)
  BY <1>1, WritesEvent
<1>3. Begun' = Begun /\ (\A kind : Said(kind)' = Said(kind)) /\ Orderly' = Orderly
  BY DEF Begun, Said, Orderly
<1>4. AnswerTypes' /\ WellSent' /\ Metered' /\ Stopped'
  BY <1>0, <1>2, <1>3 DEF AnswerTypes, WellSent, Metered, Stopped, Plausible, Steady
<1>5. client'.nested
  BY <1>0, <1>2 DEF client
<1>6. ASSUME ~gone
      PROVE  tr'.buf = <<>> /\ PassedOn(client'.blocks, tr'.buf, Len(sent))
  <2>1. PassedOn(tr.client.blocks, tr.buf, Len(sent))
    BY <1>0, <1>6 DEF Streaming, client
  <2> QED
    BY <1>1, <1>2, <1>6, <2>1 DEF client
<1>7. Streaming'
  BY <1>6 DEF Streaming
<1>8. EventsNest'
  BY <1>5 DEF EventsNest
<1>9. Rebuilt'
  <2>1. ASSUME ~gone
        PROVE  /\ InOrder(client'.blocks)
               /\ Content(client'.blocks, "raw", 0) = DOMAIN sent'
    <3> DEFINE none == <<>>
    <3>1. tr'.buf = none /\ ToSet(none) = {}
      BY <1>6, <2>1 DEF ToSet
    <3> HIDE DEF none
    <3> QED
      BY <1>1, <1>6, <2>1, <3>1 DEF PassedOn
  <2> QED
    BY <2>1 DEF Rebuilt
<1> QED
  BY <1>4, <1>5, <1>7, <1>8, <1>9 DEF AnswerInv

(* The answer that was told is the one a client gets that does not stream. *)
LEMMA ToldIsAnswer ==
  ASSUME AnswerTypes, WellSent, Told
  PROVE  /\ api = "anthropic" => Heard(client.blocks) = encodeAnthropicResponse
         /\ api = "responses" => Heard(client.blocks) = encodeResponsesResponse
<1> DEFINE B == client.blocks
           calls == {B[i].call : i \in ToolBlocks(B)}
           n == Cardinality(Begun)
<1>1. Content(B, "text", 0) = Said("text")
      /\ Content(B, "reason", 0) = (IF api = "responses" THEN Said("reason") ELSE {})
  BY DEF Told
<1>2. calls = 1..n /\ n \in Nat
  BY FS_CardinalityType DEF Told, CallsOf, WellSent
<1>3. \A c \in 1..n : Content(B, "tool", c) = {i \in Said("tool") : sent[i].call = c /\ sent[i].args}
  BY <1>2 DEF Told, ArgumentsOf
<1> HIDE DEF calls, n
<1>4. [c \in calls |-> Content(B, "tool", c)]
      = [c \in 1..n |-> {i \in Said("tool") : sent[i].call = c /\ sent[i].args}]
  BY <1>2, <1>3
<1>5. Heard(B) = [text |-> Content(B, "text", 0), reason |-> Content(B, "reason", 0),
                  calls |-> [c \in calls |-> Content(B, "tool", c)]]
  BY DEF Heard, calls
<1>6. Arguments = [c \in 1..n |-> {i \in Said("tool") : sent[i].call = c /\ sent[i].args}]
  BY DEF Arguments, n
<1> QED
  BY <1>1, <1>4, <1>5, <1>6 DEF encodeAnthropicResponse, encodeResponsesResponse

(* The reason for the end is the one the upstream gave. *)
LEMMA ReasonTold ==
  ASSUME AnswerTypes, WellSent, Stopped
  PROVE  /\ LastFinish # "none" /\ api = "anthropic" =>
              tr.stop = anthStopReason(LastFinish) /\ tr.stop # "none"
         /\ LastFinish = "length" /\ api = "responses" => tr.stop = "incomplete"
<1>1. CASE Said("finish") = {}
  BY <1>1 DEF LastFinish
<1>2. CASE Said("finish") # {}
  <2>1. PICK i \in Said("finish") : TRUE
    BY <1>2
  <2>2. LastFinish = sent[i].finish
    BY <1>2, <2>1, SaidOnce DEF LastFinish
  <2>3. /\ api = "anthropic" => tr.stop = anthStopReason(sent[i].finish)
        /\ api = "responses" /\ sent[i].finish = "length" => tr.stop = "incomplete"
    BY <2>1 DEF Stopped
  <2>4. \A f : anthStopReason(f) # "none"
    BY DEF anthStopReason
  <2> QED
    BY <2>2, <2>3, <2>4
<1> QED
  BY <1>1, <1>2

(* The stream ends as it should. *)
LEMMA AnswerEnds ==
  ASSUME AnswerInv, phase = "stream", phase' = "ended", api # "chat", tr' = finish,
         UNCHANGED <<api, sent, gone>>
  PROVE  AnswerInv'
<1>0. /\ AnswerTypes /\ WellSent /\ Metered /\ Stopped /\ Streaming /\ EventsNest
  BY DEF AnswerInv
<1>1. tr \in Translators /\ (api = "anthropic" \/ api = "responses")
  BY <1>0 DEF AnswerTypes
<1>2. api = "anthropic" =>
        /\ Steady(tr, tr')
        /\ ~gone => tr'.client.end = "done"
        /\ ~gone /\ Good(tr) => tr'.client.nested /\ tr'.client.blocks = tr.client.blocks
        /\ ~gone /\ tr.stop # "none" => tr'.client.stop = tr.stop
  <2> SUFFICES ASSUME api = "anthropic"
               PROVE  /\ Steady(tr, tr')
                      /\ ~gone => tr'.client.end = "done"
                      /\ ~gone /\ Good(tr) => tr'.client.nested /\ tr'.client.blocks = tr.client.blocks
                      /\ ~gone /\ tr.stop # "none" => tr'.client.stop = tr.stop
    OBVIOUS
  <2>1. tr' = anthFinish(tr)
    BY DEF finish
  <2> QED
    BY <1>1, <2>1, AnthFinishes
<1>3. api = "responses" =>
        /\ Steady(tr, tr')
        /\ ~gone => tr'.client.end = "done"
        /\ ~gone /\ Good(tr) => /\ tr'.client.nested /\ tr'.client.blocks = tr.client.blocks
                                /\ tr'.client.whole = tr'.client.blocks
        /\ ~gone /\ tr.stop = "incomplete" => tr'.client.stop = tr.stop
  <2> SUFFICES ASSUME api = "responses"
               PROVE  /\ Steady(tr, tr')
                      /\ ~gone => tr'.client.end = "done"
                      /\ ~gone /\ Good(tr) => /\ tr'.client.nested
                                              /\ tr'.client.blocks = tr.client.blocks
                                              /\ tr'.client.whole = tr'.client.blocks
                      /\ ~gone /\ tr.stop = "incomplete" => tr'.client.stop = tr.stop
    OBVIOUS
  <2>1. tr' = respFinish(tr)
    BY DEF finish
  <2> QED
    BY <1>1, <2>1, RespFinishes
<1>4. Begun' = Begun /\ (\A kind : Said(kind)' = Said(kind)) /\ Orderly' = Orderly
  BY DEF Begun, Said, Orderly
<1>5. Steady(tr, tr')
  BY <1>1, <1>2, <1>3
<1>6. AnswerTypes' /\ WellSent' /\ Metered' /\ Stopped'
  BY <1>0, <1>4, <1>5 DEF AnswerTypes, WellSent, Metered, Stopped, Plausible, Steady
<1>7. ASSUME ~gone, Orderly PROVE Good(tr) /\ Told
  BY <1>0, <1>7 DEF Streaming
<1>8. Streaming'
  BY DEF Streaming
<1>9. EventsNest'
  <2>1. ASSUME Orderly PROVE tr'.client.nested
    <3>1. CASE gone
      BY <1>0, <1>5, <2>1, <3>1 DEF EventsNest, Steady, client
    <3>2. CASE ~gone
      BY <1>1, <1>2, <1>3, <1>7, <2>1, <3>2
    <3> QED
      BY <3>1, <3>2
  <2>2. ~gone => tr'.client.end = "done"
    BY <1>1, <1>2, <1>3
  <2> QED
    BY <1>4, <2>1, <2>2 DEF EventsNest, client
<1>10. ASSUME ~gone, Orderly
       PROVE  /\ InOrder(client'.blocks)
              /\ api = "anthropic" =>
                   /\ Heard(client'.blocks) = encodeAnthropicResponse
                   /\ LastFinish # "none" => client'.stop = anthStopReason(LastFinish)
              /\ api = "responses" =>
                   /\ Heard(client'.blocks) = encodeResponsesResponse
                   /\ client'.whole = client'.blocks
                   /\ LastFinish = "length" => client'.stop = respStatus(LastFinish)
  <2>1. Good(tr) /\ Told
    BY <1>7, <1>10
  <2>2. client'.blocks = client.blocks /\ InOrder(client.blocks)
    BY <1>1, <1>2, <1>3, <1>10, <2>1 DEF Told, client
  <2>3. /\ api = "anthropic" => Heard(client.blocks) = encodeAnthropicResponse
        /\ api = "responses" => Heard(client.blocks) = encodeResponsesResponse
    BY <1>0, <2>1, ToldIsAnswer
  <2>4. /\ LastFinish # "none" /\ api = "anthropic" =>
             tr.stop = anthStopReason(LastFinish) /\ tr.stop # "none"
        /\ LastFinish = "length" /\ api = "responses" => tr.stop = "incomplete"
    BY <1>0, ReasonTold
  <2>5. api = "anthropic" /\ LastFinish # "none" => client'.stop = anthStopReason(LastFinish)
    BY <1>2, <1>10, <2>4 DEF client
  <2>6. api = "responses" => client'.whole = client'.blocks
    BY <1>3, <1>10, <2>1 DEF client
  <2>7. api = "responses" /\ LastFinish = "length" => client'.stop = respStatus(LastFinish)
    BY <1>3, <1>10, <2>4 DEF client, respStatus
  <2> QED
    BY <2>2, <2>3, <2>5, <2>6, <2>7
<1>11. Rebuilt'
  <2>1. /\ encodeAnthropicResponse' = encodeAnthropicResponse
        /\ encodeResponsesResponse' = encodeResponsesResponse /\ LastFinish' = LastFinish
    BY DEF encodeAnthropicResponse, encodeResponsesResponse, LastFinish, Arguments, Said, Begun
  <2> QED
    BY <1>4, <1>10, <2>1 DEF Rebuilt
<1> QED
  BY <1>6, <1>8, <1>9, <1>11 DEF AnswerInv

(* The stream breaks, and the client is told. *)
LEMMA AnswerBreaks ==
  ASSUME AnswerInv, phase = "stream", phase' = "cut", api # "chat", tr' = fail(tr),
         UNCHANGED <<api, sent, gone>>
  PROVE  AnswerInv'
<1>0. /\ AnswerTypes /\ WellSent /\ Metered /\ Stopped /\ Streaming /\ EventsNest
  BY DEF AnswerInv
<1>1. tr \in Translators
  BY <1>0 DEF AnswerTypes
<1>2. tr' = emit(tr, [ev |-> "failed"])
  BY DEF fail
<1>3. /\ Steady(tr, tr')
      /\ ~gone => tr'.client.end = "failed"
      /\ ~gone /\ Good(tr) => tr'.client.nested
  BY <1>1, <1>2, Breaks
<1>4. Begun' = Begun /\ (\A kind : Said(kind)' = Said(kind)) /\ Orderly' = Orderly
  BY DEF Begun, Said, Orderly
<1>6. AnswerTypes' /\ WellSent' /\ Metered' /\ Stopped'
  BY <1>0, <1>3, <1>4 DEF AnswerTypes, WellSent, Metered, Stopped, Plausible, Steady
<1>8. Streaming' /\ Rebuilt'
  BY DEF Streaming, Rebuilt
<1>9. EventsNest'
  <2>1. ASSUME Orderly PROVE tr'.client.nested
    <3>1. CASE gone
      BY <1>0, <1>3, <2>1, <3>1 DEF EventsNest, Steady, client
    <3>2. CASE ~gone
      BY <1>0, <1>3, <2>1, <3>2 DEF Streaming
    <3> QED
      BY <3>1, <3>2
  <2> QED
    BY <1>3, <1>4, <2>1 DEF EventsNest, client
<1> QED
  BY <1>6, <1>8, <1>9 DEF AnswerInv

(* The client leaves, or nothing happens. *)
LEMMA AnswerStays ==
  ASSUME AnswerInv, UNCHANGED <<api, phase, sent, tr>>,
         gone' = gone \/ (phase = "stream" /\ gone' = TRUE)
  PROVE  AnswerInv'
<1>1. /\ Begun' = Begun /\ (\A kind : Said(kind)' = Said(kind)) /\ Orderly' = Orderly
      /\ client' = client
  BY DEF Begun, Said, Orderly, client
<1>2. AnswerTypes' /\ WellSent' /\ Metered' /\ Stopped'
  BY <1>1 DEF AnswerInv, AnswerTypes, WellSent, Metered, Stopped, Plausible
<1>3. CASE gone' = gone
  <2>1. (\A c : ArgumentsOf(c)' = ArgumentsOf(c)) /\ Running' = Running /\ Good(tr') = Good(tr)
    BY DEF ArgumentsOf, Said, Running, Unbroken, Mapped
  <2>2. Told' = Told
    BY <1>1, <2>1 DEF Told
  <2>3. Streaming' /\ EventsNest'
    BY <1>1, <1>3, <2>1, <2>2 DEF AnswerInv, Streaming, EventsNest
  <2>4. Rebuilt'
    <3>1. /\ encodeAnthropicResponse' = encodeAnthropicResponse
          /\ encodeResponsesResponse' = encodeResponsesResponse /\ LastFinish' = LastFinish
      BY DEF encodeAnthropicResponse, encodeResponsesResponse, LastFinish, Arguments, Said, Begun
    <3> QED
      BY <1>1, <1>3, <3>1 DEF AnswerInv, Rebuilt
  <2> QED
    BY <1>1, <1>2, <2>3, <2>4 DEF AnswerInv
<1>4. CASE phase = "stream" /\ gone' = TRUE
  <2>1. Streaming' /\ Rebuilt'
    BY <1>4 DEF Streaming, Rebuilt
  <2>2. EventsNest'
    BY <1>1, <1>4 DEF AnswerInv, EventsNest
  <2> QED
    BY <1>1, <1>2, <2>1, <2>2 DEF AnswerInv
<1> QED
  BY <1>3, <1>4

(* What holds of the answer holds after every step. *)
LEMMA AnswerStep == AnswerInv /\ [TranslationNext]_tvars => AnswerInv'
<1> SUFFICES ASSUME AnswerInv, [TranslationNext]_tvars PROVE AnswerInv'
  OBVIOUS
<1>1. CASE decodeAnthropicRequest
  <2>1. phase = "decode" /\ phase' = "decode" /\ api' = api /\ UNCHANGED answer
    BY <1>1 DEF decodeAnthropicRequest, MayAdd
  <2> QED
    BY <2>1, AnswerDecodes
<1>2. CASE decodeResponsesRequest
  <2>1. phase = "decode" /\ phase' = "decode" /\ api' = api /\ UNCHANGED answer
    BY <1>2 DEF decodeResponsesRequest, MayAdd
  <2> QED
    BY <2>1, AnswerDecodes
<1>3. CASE RequestDecoded
  <2>1. phase = "decode" /\ phase' \in {"stream", "rejected"} /\ api' = api /\ UNCHANGED answer
    BY <1>3 DEF RequestDecoded
  <2> QED
    BY <2>1, AnswerDecodes
<1>4. CASE ChunkArrives
  <2>1. PICK p \in Offered :
           /\ phase = "stream" /\ sent' = Append(sent, p) /\ tr' = handle(p)
           /\ UNCHANGED <<api, phase, gone>>
    BY <1>4 DEF ChunkArrives, Relay
  <2> QED
    BY <2>1, AnswerChunk
<1>5. CASE EmptyLine
  <2>1. /\ phase = "stream" /\ api = "chat" /\ tr' = writeEvent(tr)
        /\ UNCHANGED <<api, phase, sent, gone>>
    BY <1>5 DEF EmptyLine, Relay
  <2> QED
    BY <2>1, AnswerEvent
<1>6. CASE StreamEnds
  <2>1. /\ phase = "stream" /\ phase' = "ended" /\ tr' = finish
        /\ UNCHANGED <<api, sent, gone>>
    BY <1>6 DEF StreamEnds, Relay
  <2>2. CASE api = "chat"
    <3>1. tr' = writeEvent(tr)
      BY <2>1, <2>2 DEF finish
    <3> QED
      BY <2>1, <2>2, <3>1, AnswerEvent
  <2>3. CASE api # "chat"
    BY <2>1, <2>3, AnswerEnds
  <2> QED
    BY <2>2, <2>3
<1>7. CASE StreamBreaks
  <2>1. /\ phase = "stream" /\ phase' = "cut" /\ tr' = fail(tr)
        /\ UNCHANGED <<api, sent, gone>>
    BY <1>7 DEF StreamBreaks, Relay
  <2>2. CASE api = "chat"
    <3>1. tr' = writeEvent(tr)
      BY <2>1, <2>2 DEF fail
    <3> QED
      BY <2>1, <2>2, <3>1, AnswerEvent
  <2>3. CASE api # "chat"
    BY <2>1, <2>3, AnswerBreaks
  <2> QED
    BY <2>2, <2>3
<1>8. CASE ReaderLeaves
  BY <1>8, AnswerStays DEF ReaderLeaves
<1>9. CASE UNCHANGED tvars
  BY <1>9, AnswerStays DEF tvars
<1> QED
  BY <1>1, <1>2, <1>3, <1>4, <1>5, <1>6, <1>7, <1>8, <1>9 DEF TranslationNext

(* However long the answer, and wherever it breaks or the client leaves,   *)
(* the translator's state is the one the parts sent so far lead to, and the *)
(* client's the one the translator has told it of.                         *)
THEOREM AnswerHolds == TranslationSpec => []AnswerInv
BY AnswerInit, AnswerStep, PTL DEF TranslationSpec

(* The events of an orderly answer nest and have one end, and a stream that *)
(* breaks says so (anthropic.go:498, responses.go:403, 679).               *)
THEOREM EventsAlwaysNest == TranslationSpec => []EventsNest
<1>1. AnswerInv => EventsNest
  BY DEF AnswerInv
<1> QED
  BY <1>1, AnswerHolds, PTL

(* A client that streams rebuilds the answer of one that does not           *)
(* (anthropic.go:616, responses.go:641).                                   *)
THEOREM AnswersRebuilt == TranslationSpec => []Rebuilt
<1>1. AnswerInv => Rebuilt
  BY DEF AnswerInv
<1> QED
  BY <1>1, AnswerHolds, PTL

(* The usage that is charged is what the upstream said of it, even if the  *)
(* client has left before (sse.go:15).                                     *)
THEOREM UsageHarvested == TranslationSpec => []Harvested
<1>1. AnswerInv => Harvested
  <2> SUFFICES ASSUME AnswerInv PROVE Harvested
    OBVIOUS
  <2>0. AnswerTypes /\ WellSent /\ Metered
    BY DEF AnswerInv
  <2>1. CASE Said("usage") = {}
    BY <2>0, <2>1 DEF Metered, Harvested
  <2>2. CASE Said("usage") # {}
    <3>1. PICK i \in Said("usage") : TRUE
      BY <2>2
    <3>2. Max(Said("usage")) = i
      BY <2>0, <3>1, SaidOnce
    <3> QED
      BY <2>0, <2>2, <3>1, <3>2 DEF Metered, Harvested
  <2> QED
    BY <2>1, <2>2
<1> QED
  BY <1>1, AnswerHolds, PTL

-----------------------------------------------------------------------------
(* The request *)

Roles == {"system", "user", "assistant", "tool"}
Messages == [role : Roles, said : BOOLEAN, calls : Seq(Nat), answers : Nat]

RequestTypes ==
  /\ api \in {"chat", "anthropic", "responses"}
  /\ talk \in [items : Nat, asked : Nat, open : SUBSET Nat, answering : BOOLEAN]
  /\ IsFiniteSet(talk.open)
  /\ msgs \in Seq(Messages) /\ pending \in Seq(Nat)

(* A result of the call may come next. *)
Behind(call, M) == \E j \in DOMAIN M :
  /\ call \in ToSet(M[j].calls)
  /\ \A k \in (j + 1)..Len(M) : M[k].role = "tool"

(* Every result stands behind its call. *)
Answered(M) == \A i \in DOMAIN M : M[i].role = "tool" =>
  \E j \in 1..(i - 1) :
    /\ M[i].answers \in ToSet(M[j].calls)
    /\ \A k \in (j + 1)..(i - 1) : M[k].role = "tool"

(* The messages T may follow: results come first among them. *)
Follows(M, T) == \A i \in DOMAIN T : T[i].role = "tool" =>
  /\ Behind(T[i].answers, M)
  /\ \A k \in 1..(i - 1) : T[k].role = "tool"

(* The calls of a message that is still open are the newest of all.        *)
Answerable == \A call \in talk.open :
  IF api = "responses" /\ ~talk.answering THEN call \in ToSet(pending)
  ELSE pending = <<>> /\ Behind(call, msgs)

GroupsOf(M, P) == [i \in 1..(Len(M) + 1) |-> IF i <= Len(M) THEN M[i].calls ELSE P]

(* The groups hold the numbers 1..n, one after the other. *)
Numbered(G, n) ==
  /\ \A i \in DOMAIN G : \A m \in DOMAIN G[i] : G[i][m] \in 1..n
  /\ \A x \in 1..n : \E i \in DOMAIN G : \E m \in DOMAIN G[i] : G[i][m] = x
  /\ \A i, j \in DOMAIN G : \A m \in DOMAIN G[i], k \in DOMAIN G[j] :
       i < j \/ (i = j /\ m < k) => G[i][m] < G[j][k]

RequestInv ==
  /\ RequestTypes
  /\ api # "responses" => pending = <<>>
  /\ Answered(msgs) /\ Answerable
  /\ Numbered(Groups, talk.asked)

(* A message is one. *)
LEMMA MessageTyped ==
  ASSUME NEW role \in Roles, NEW said \in BOOLEAN, NEW calls \in Seq(Nat), NEW answers \in Nat
  PROVE  /\ Message(role, said, calls, answers) \in Messages
         /\ Message(role, said, calls, answers).role = role
         /\ Message(role, said, calls, answers).calls = calls
         /\ Message(role, said, calls, answers).answers = answers
BY DEF Message, Messages

(* A conversation in which results stand behind their calls is continued.  *)
LEMMA ConversationGoesOn ==
  ASSUME NEW M \in Seq(Messages), NEW T \in Seq(Messages), Answered(M), Follows(M, T)
  PROVE  Answered(M \o T)
<1> DEFINE C == M \o T
<1>1. /\ C \in Seq(Messages) /\ Len(M) \in Nat /\ Len(T) \in Nat
      /\ DOMAIN M = 1..Len(M) /\ DOMAIN T = 1..Len(T)
      /\ DOMAIN C = 1..(Len(M) + Len(T))
      /\ \A i \in 1..Len(M) : C[i] = M[i]
      /\ \A i \in 1..Len(T) : C[Len(M) + i] = T[i]
  BY ConcatProperties
<1> HIDE DEF C
<1>2. ASSUME NEW i \in DOMAIN C, C[i].role = "tool"
      PROVE  \E j \in 1..(i - 1) :
               /\ C[i].answers \in ToSet(C[j].calls)
               /\ \A k \in (j + 1)..(i - 1) : C[k].role = "tool"
  <2>1. CASE i \in DOMAIN M
    <3>1. PICK j \in 1..(i - 1) : /\ M[i].answers \in ToSet(M[j].calls)
                                  /\ \A k \in (j + 1)..(i - 1) : M[k].role = "tool"
      BY <1>1, <1>2, <2>1 DEF Answered
    <3>2. /\ j \in 1..Len(M) /\ i \in 1..Len(M) /\ j \in Nat /\ i \in Nat
          /\ \A k \in (j + 1)..(i - 1) : k \in 1..Len(M)
      BY <1>1, <2>1
    <3> QED
      BY <1>1, <3>1, <3>2
  <2>2. CASE i \notin DOMAIN M
    <3> DEFINE t == i - Len(M)
    <3>1. t \in DOMAIN T /\ C[i] = T[t] /\ i = Len(M) + t /\ i \in Nat /\ t \in Nat
      BY <1>1, <2>2
    <3> HIDE DEF t
    <3>2. Behind(T[t].answers, M) /\ \A k \in 1..(t - 1) : T[k].role = "tool"
      BY <1>2, <3>1 DEF Follows
    <3>3. \E j \in DOMAIN M : /\ T[t].answers \in ToSet(M[j].calls)
                              /\ \A k \in (j + 1)..Len(M) : M[k].role = "tool"
      BY <3>2 DEF Behind
    <3>4. PICK j \in DOMAIN M : /\ T[t].answers \in ToSet(M[j].calls)
                                /\ \A k \in (j + 1)..Len(M) : M[k].role = "tool"
      BY <3>3
    <3>5. ASSUME NEW k \in (j + 1)..(i - 1) PROVE C[k].role = "tool"
      <4>1. CASE k <= Len(M)
        BY <1>1, <3>1, <3>4, <4>1
      <4>2. CASE k > Len(M)
        <5>1. k - Len(M) \in 1..(t - 1) /\ k - Len(M) \in 1..Len(T) /\ k = Len(M) + (k - Len(M))
          BY <1>1, <3>1, <4>2
        <5>2. C[k] = T[k - Len(M)]
          BY <1>1, <5>1
        <5> QED
          BY <3>2, <5>1, <5>2
      <4> QED
        BY <1>1, <4>1, <4>2
    <3>6. j \in 1..(i - 1) /\ C[j] = M[j]
      BY <1>1, <3>1
    <3> QED
      BY <3>1, <3>4, <3>5, <3>6
  <2> QED
    BY <2>1, <2>2
<1> QED
  BY <1>2 DEF Answered, C

(* A result leaves the calls before it open to answers. *)
LEMMA ResultsBetween ==
  ASSUME NEW M \in Seq(Messages), NEW e \in Messages, e.role = "tool", NEW call, Behind(call, M)
  PROVE  Behind(call, Append(M, e))
<1> DEFINE C == Append(M, e)
<1>1. /\ Len(M) \in Nat /\ Len(C) = Len(M) + 1 /\ DOMAIN M = 1..Len(M) /\ DOMAIN C = 1..(Len(M) + 1)
      /\ \A i \in 1..Len(M) : C[i] = M[i]
      /\ C[Len(M) + 1] = e
  BY AppendProperties
<1> HIDE DEF C
<1>2. \E j \in DOMAIN M : /\ call \in ToSet(M[j].calls)
                          /\ \A k \in (j + 1)..Len(M) : M[k].role = "tool"
  BY DEF Behind
<1>3. PICK j \in DOMAIN M : /\ call \in ToSet(M[j].calls)
                            /\ \A k \in (j + 1)..Len(M) : M[k].role = "tool"
  BY <1>2
<1>4. \A k \in (j + 1)..Len(C) : C[k].role = "tool"
  BY <1>1, <1>3
<1>5. j \in DOMAIN C /\ C[j] = M[j]
  BY <1>1
<1> QED
  BY <1>3, <1>4, <1>5 DEF Behind, C

(* The calls of the last message are. *)
LEMMA CallsJustMade ==
  ASSUME NEW M \in Seq(Messages), NEW e \in Messages, NEW call \in ToSet(e.calls)
  PROVE  Behind(call, Append(M, e))
<1> DEFINE C == Append(M, e)
           j == Len(M) + 1
<1>1. /\ Len(M) \in Nat /\ Len(C) = j /\ DOMAIN C = 1..j /\ C[j] = e
  BY AppendProperties
<1> HIDE DEF C
<1>2. j \in DOMAIN C /\ call \in ToSet(C[j].calls) /\ \A k \in (j + 1)..Len(C) : C[k].role = "tool"
  BY <1>1
<1> QED
  BY <1>2 DEF Behind, C

-----------------------------------------------------------------------------
(* The numbers of the calls *)

(* H is G with k more calls in its last group, and no calls behind. *)
Longer(G, H, n, k) ==
  /\ Len(G) <= Len(H)
  /\ \A i \in 1..(Len(G) - 1) : H[i] = G[i]
  /\ \A i \in (Len(G) + 1)..Len(H) : H[i] = <<>>
  /\ LET g == G[Len(G)]
         h == H[Len(G)]
     IN  /\ Len(h) = Len(g) + k
         /\ \A m \in 1..Len(g) : h[m] = g[m]
         /\ \A m \in 1..k : h[Len(g) + m] = n + m

Lists == Seq(Seq(Nat))

(* Lists of numbers have their places. *)
LEMMA ListPlaces ==
  ASSUME NEW G \in Lists
  PROVE  /\ Len(G) \in Nat /\ DOMAIN G = 1..Len(G)
         /\ \A i \in DOMAIN G : Len(G[i]) \in Nat /\ DOMAIN G[i] = 1..Len(G[i])
<1>1. Len(G) \in Nat /\ DOMAIN G = 1..Len(G) /\ \A i \in 1..Len(G) : G[i] \in Seq(Nat)
  BY DEF Lists
<1>2. \A s \in Seq(Nat) : Len(s) \in Nat /\ DOMAIN s = 1..Len(s)
  OBVIOUS
<1> QED
  BY <1>1, <1>2

(* The last group grows, or groups without calls are added. *)
LEMMA NumbersGrow ==
  ASSUME NEW G \in Lists, NEW H \in Lists, NEW n \in Nat, NEW k \in Nat,
         Len(G) > 0, Numbered(G, n), Longer(G, H, n, k)
  PROVE  Numbered(H, n + k)
<1> DEFINE g == Len(G)
           L == Len(G[g])
<1>1. /\ g \in Nat /\ g > 0 /\ DOMAIN G = 1..g /\ g <= Len(H) /\ DOMAIN H = 1..Len(H)
      /\ Len(H) \in Nat
  BY ListPlaces DEF Longer
<1>2. Len(H[g]) = L + k
  BY DEF Longer
<1>3. /\ L \in Nat /\ DOMAIN G[g] = 1..L /\ DOMAIN H[g] = 1..(L + k)
      /\ \A m \in 1..L : H[g][m] = G[g][m]
      /\ \A m \in 1..k : H[g][L + m] = n + m
  <2>1. g \in DOMAIN G /\ g \in DOMAIN H
    BY <1>1
  <2> QED
    BY <1>2, <2>1, ListPlaces DEF Longer
<1>4. /\ \A i \in 1..(g - 1) : H[i] = G[i]
      /\ \A i \in (g + 1)..Len(H) : DOMAIN H[i] = {}
  <2>1. DOMAIN <<>> = {}
    OBVIOUS
  <2> QED
    BY <2>1 DEF Longer
<1> HIDE DEF g, L
<1>5. ASSUME NEW i \in DOMAIN H, NEW m \in DOMAIN H[i]
      PROVE  \/ i \in DOMAIN G /\ m \in DOMAIN G[i] /\ H[i][m] = G[i][m]
             \/ i = g /\ m \in Nat /\ m > L /\ m - L \in 1..k /\ H[i][m] = n + (m - L)
  <2>0. i \in Nat /\ i \in 1..Len(H)
    BY <1>1
  <2>1. CASE i < g
    <3>1. i \in 1..(g - 1) /\ i \in DOMAIN G
      BY <1>1, <2>0, <2>1
    <3>2. H[i] = G[i]
      BY <1>4, <3>1
    <3> QED
      BY <3>1, <3>2
  <2>2. CASE i > g
    BY <1>1, <1>4, <2>2
  <2>3. CASE i = g /\ m <= L
    BY <1>1, <1>3, <2>3
  <2>4. CASE i = g /\ m > L
    <3>1. m \in 1..(L + k) /\ L \in Nat /\ m > L
      BY <1>3, <2>4
    <3>2. m - L \in 1..k /\ m = L + (m - L) /\ m \in Nat
      BY <3>1
    <3>3. H[g][L + (m - L)] = n + (m - L)
      BY <1>3, <3>2
    <3> QED
      BY <2>4, <3>2, <3>3
  <2>5. i \in Nat /\ m \in Nat
    <3>1. DOMAIN H[i] = 1..Len(H[i]) /\ i \in Nat
      BY <1>1, ListPlaces
    <3> QED
      BY <3>1
  <2> QED
    BY <1>1, <1>3, <2>1, <2>2, <2>3, <2>4, <2>5
<1>6. \A i \in DOMAIN G : \A m \in DOMAIN G[i] : G[i][m] \in 1..n
  BY DEF Numbered
<1>7. ASSUME NEW i \in DOMAIN H, NEW m \in DOMAIN H[i] PROVE H[i][m] \in 1..(n + k)
  <2>1. CASE i \in DOMAIN G /\ m \in DOMAIN G[i] /\ H[i][m] = G[i][m]
    BY <1>6, <2>1
  <2>2. CASE m - L \in 1..k /\ H[i][m] = n + (m - L)
    <3> DEFINE d == m - L
    <3>1. d \in 1..k /\ H[i][m] = n + d
      BY <2>2
    <3> HIDE DEF d
    <3> QED
      BY <3>1
  <2> QED
    BY <1>5, <2>1, <2>2
<1>8. \A i \in DOMAIN G : i \in DOMAIN H /\ \A m \in DOMAIN G[i] : m \in DOMAIN H[i] /\ H[i][m] = G[i][m]
  <2>1. ASSUME NEW i \in DOMAIN G, NEW m \in DOMAIN G[i]
        PROVE  m \in DOMAIN H[i] /\ H[i][m] = G[i][m]
    <3>1. CASE i < g
      BY <1>1, <1>4, <3>1
    <3>2. CASE i = g
      BY <1>3, <3>2
    <3> QED
      BY <1>1, <3>1, <3>2
  <2> QED
    BY <1>1, <2>1
<1>9. ASSUME NEW x \in 1..(n + k) PROVE \E i \in DOMAIN H : \E m \in DOMAIN H[i] : H[i][m] = x
  <2>1. CASE x <= n
    <3>1. \E i \in DOMAIN G : \E m \in DOMAIN G[i] : G[i][m] = x
      BY <2>1 DEF Numbered
    <3> QED
      BY <1>8, <3>1
  <2>2. CASE x > n
    <3> DEFINE d == x - n
    <3>1. d \in 1..k /\ x = n + d
      BY <2>2
    <3> HIDE DEF d
    <3>2. L + d \in DOMAIN H[g] /\ H[g][L + d] = x /\ g \in DOMAIN H
      BY <1>1, <1>3, <3>1
    <3> QED
      BY <3>2
  <2> QED
    BY <2>1, <2>2
<1>10. ASSUME NEW i \in DOMAIN H, NEW j \in DOMAIN H, NEW m \in DOMAIN H[i], NEW l \in DOMAIN H[j],
              i < j \/ (i = j /\ m < l)
       PROVE  H[i][m] < H[j][l]
  <2>1. CASE i \in DOMAIN G /\ m \in DOMAIN G[i] /\ H[i][m] = G[i][m]
    <3>1. CASE j \in DOMAIN G /\ l \in DOMAIN G[j] /\ H[j][l] = G[j][l]
      BY <1>10, <2>1, <3>1 DEF Numbered
    <3>2. CASE l - L \in 1..k /\ H[j][l] = n + (l - L)
      <4> DEFINE d == l - L
      <4>1. d \in 1..k /\ H[j][l] = n + d
        BY <3>2
      <4>2. H[i][m] \in 1..n
        BY <1>6, <2>1
      <4> HIDE DEF d
      <4> QED
        BY <4>1, <4>2
    <3> QED
      BY <1>5, <3>1, <3>2
  <2>2. CASE i = g /\ m \in Nat /\ m > L /\ m - L \in 1..k /\ H[i][m] = n + (m - L)
    <3>1. j = g
      <4>1. ~(j > g)
        BY <1>1, <1>4
      <4> QED
        BY <1>1, <1>10, <2>2, <4>1
    <3>2. l \in Nat /\ l > m
      <4>1. l \in 1..(L + k) /\ L \in Nat
        BY <1>3, <3>1
      <4>2. m < l
        BY <1>1, <1>10, <2>2, <3>1
      <4> QED
        BY <2>2, <4>1, <4>2
    <3>3. l - L \in 1..k /\ H[j][l] = n + (l - L)
      BY <1>3, <1>5, <2>2, <3>1, <3>2, SMTT(30)
    <3> DEFINE d == l - L
               c == m - L
    <3>4. d \in 1..k /\ c \in 1..k /\ c < d /\ H[i][m] = n + c /\ H[j][l] = n + d
      BY <1>3, <2>2, <3>2, <3>3
    <3> HIDE DEF c, d
    <3> QED
      BY <3>4
  <2> QED
    BY <1>5, <2>1, <2>2
<1> QED
  BY <1>7, <1>9, <1>10 DEF Numbered

(* The messages T ask the calls of the open group and k more. *)
Asks(P, T, Q, n, k) ==
  LET h == IF T = <<>> THEN Q ELSE T[1].calls
  IN  /\ T # <<>> => Q = <<>>
      /\ \A i \in DOMAIN T : i # 1 => T[i].calls = <<>>
      /\ Len(h) = Len(P) + k
      /\ \A m \in 1..Len(P) : h[m] = P[m]
      /\ \A m \in 1..k : h[Len(P) + m] = n + m

(* There is a group for each message, and the one that is open. *)
LEMMA GroupPlaces ==
  ASSUME NEW M \in Seq(Messages), NEW P \in Seq(Nat)
  PROVE  /\ GroupsOf(M, P) \in Lists /\ Len(GroupsOf(M, P)) = Len(M) + 1
         /\ GroupsOf(M, P)[Len(M) + 1] = P
         /\ \A i \in 1..Len(M) : GroupsOf(M, P)[i] = M[i].calls
<1> DEFINE l == Len(M) + 1
           F == GroupsOf(M, P)
           calls(i) == IF i <= Len(M) THEN M[i].calls ELSE P
<1>1. Len(M) \in Nat /\ l \in Nat /\ Len(M) < l /\ \A i \in 1..Len(M) : M[i] \in Messages
  OBVIOUS
<1>2. F = [i \in 1..l |-> calls(i)]
  BY DEF GroupsOf
<1>3. \A i \in 1..Len(M) : calls(i) = M[i].calls /\ M[i].calls \in Seq(Nat)
  BY <1>1 DEF Messages
<1>4. calls(l) = P
  BY <1>1
<1> HIDE DEF calls, F
<1>5. \A i \in 1..l : calls(i) \in Seq(Nat)
  <2>1. \A i \in 1..l : i \in 1..Len(M) \/ i = l
    BY <1>1
  <2> QED
    BY <1>3, <1>4, <2>1
<1>6. DOMAIN F = 1..l /\ \A i \in 1..l : F[i] = calls(i)
  BY <1>2
<1> HIDE DEF l
<1>7. [i \in 1..l |-> calls(i)] \in Seq(Seq(Nat))
  BY <1>1, <1>5, IsASeq
<1>8. F \in Lists /\ Len(F) = l
  <2>1. F \in Seq(Seq(Nat))
    BY <1>2, <1>7
  <2>2. F \in Lists
    BY <2>1 DEF Lists
  <2>3. Len(F) \in Nat /\ DOMAIN F = 1..Len(F)
    BY <2>2, ListPlaces
  <2> QED
    BY <1>1, <1>6, <2>2, <2>3
<1>9. l \in 1..l /\ \A i \in 1..Len(M) : i \in 1..l
  BY <1>1 DEF l
<1> QED
  BY <1>3, <1>4, <1>6, <1>8, <1>9 DEF F, l

(* Messages that ask the next calls keep the numbers. *)
LEMMA CallsAsked ==
  ASSUME NEW M \in Seq(Messages), NEW T \in Seq(Messages), NEW P \in Seq(Nat), NEW Q \in Seq(Nat),
         NEW n \in Nat, NEW k \in Nat, Numbered(GroupsOf(M, P), n), Asks(P, T, Q, n, k)
  PROVE  Numbered(GroupsOf(M \o T, Q), n + k)
<1> DEFINE C == M \o T
           G == GroupsOf(M, P)
           H == GroupsOf(C, Q)
<1>1. /\ C \in Seq(Messages) /\ Len(M) \in Nat /\ Len(T) \in Nat
      /\ Len(C) = Len(M) + Len(T)
      /\ \A i \in 1..Len(M) : C[i] = M[i]
      /\ \A i \in 1..Len(T) : C[Len(M) + i] = T[i]
      /\ DOMAIN T = 1..Len(T)
  BY ConcatProperties
<1> HIDE DEF C
<1>3. /\ G \in Lists /\ Len(G) = Len(M) + 1 /\ G[Len(M) + 1] = P
      /\ \A i \in 1..Len(M) : G[i] = M[i].calls
  BY GroupPlaces
<1>4. /\ H \in Lists /\ Len(H) = Len(C) + 1 /\ H[Len(C) + 1] = Q
      /\ \A i \in 1..Len(C) : H[i] = C[i].calls
  BY <1>1, GroupPlaces
<1>5. Numbered(G, n)
  OBVIOUS
<1> HIDE DEF G, H
<1>6. Longer(G, H, n, k)
  <2> DEFINE g == Len(M) + 1
             h == IF T = <<>> THEN Q ELSE T[1].calls
  <2>1. H[g] = h
    <3>1. CASE T = <<>>
      <4>1. Len(T) = 0
        BY <3>1
      <4> QED
        BY <1>1, <1>4, <3>1, <4>1
    <3>2. CASE T # <<>>
      <4>1. Len(T) > 0 /\ 1 \in 1..Len(T) /\ g \in 1..Len(C)
        BY <1>1, <3>2
      <4>2. C[g] = T[1]
        BY <1>1, <4>1
      <4>3. H[g] = C[g].calls
        BY <1>4, <4>1
      <4> QED
        BY <3>2, <4>2, <4>3
    <3> QED
      BY <3>1, <3>2
  <2>2. \A i \in (g + 1)..Len(H) : H[i] = <<>>
    <3> SUFFICES ASSUME NEW i \in (g + 1)..Len(H) PROVE H[i] = <<>>
      OBVIOUS
    <3>1. CASE i <= Len(C)
      <4> DEFINE t == i - Len(M)
      <4>1. t \in 1..Len(T) /\ t # 1 /\ i = Len(M) + t /\ i \in 1..Len(C)
        BY <1>1, <1>4, <3>1
      <4>2. H[i] = T[t].calls
        BY <1>1, <1>4, <4>1
      <4> HIDE DEF t
      <4> QED
        BY <1>1, <4>1, <4>2 DEF Asks
    <3>2. CASE i > Len(C)
      <4>1. i = Len(C) + 1 /\ Len(T) > 0
        <5> DEFINE a == Len(M)
                   b == Len(T)
                   c == Len(C)
                   l == Len(H)
        <5>1. a \in Nat /\ b \in Nat /\ c = a + b /\ l = c + 1 /\ i \in (a + 1 + 1)..l /\ i > c
          BY <1>1, <1>4, <3>2
        <5> HIDE DEF a, b, c, l
        <5>2. i = c + 1 /\ b > 0
          BY <5>1
        <5> QED
          BY <5>2 DEF b, c
      <4>2. T # <<>>
        BY <4>1
      <4> QED
        BY <1>4, <4>1, <4>2 DEF Asks
    <3> QED
      BY <1>1, <1>4, <3>1, <3>2
  <2>3. \A i \in 1..Len(M) : H[i] = G[i]
    <3> SUFFICES ASSUME NEW i \in 1..Len(M) PROVE H[i] = G[i]
      OBVIOUS
    <3>1. i \in 1..Len(C)
      BY <1>1
    <3>2. H[i] = C[i].calls /\ C[i] = M[i]
      BY <1>1, <1>4, <3>1
    <3> QED
      BY <1>3, <3>2
  <2>4. /\ Len(h) = Len(P) + k
        /\ \A m \in 1..Len(P) : h[m] = P[m]
        /\ \A m \in 1..k : h[Len(P) + m] = n + m
    BY DEF Asks
  <2>5. Len(G) = g /\ G[g] = P /\ g - 1 = Len(M) /\ g <= Len(H)
    <3>1. Len(H) = Len(M) + Len(T) + 1
      BY <1>1, <1>4
    <3>2. Len(G) = g /\ G[g] = P
      BY <1>3
    <3>3. Len(M) \in Nat /\ Len(T) \in Nat
      BY <1>1
    <3> QED
      BY <3>1, <3>2, <3>3
  <2> HIDE DEF g, h
  <2> QED
    BY <2>1, <2>2, <2>3, <2>4, <2>5 DEF Longer
<1>7. Len(G) > 0
  BY <1>1, <1>3
<1> QED
  BY <1>3, <1>4, <1>5, <1>6, <1>7, NumbersGrow DEF H, C

(* One message asks the calls of the open group and k more. *)
LEMMA MessageAsks ==
  ASSUME NEW M \in Seq(Messages), NEW e \in Messages, NEW P \in Seq(Nat), NEW n \in Nat, NEW k \in Nat,
         Numbered(GroupsOf(M, P), n), Len(e.calls) = Len(P) + k,
         \A m \in 1..Len(P) : e.calls[m] = P[m], \A m \in 1..k : e.calls[Len(P) + m] = n + m
  PROVE  Numbered(GroupsOf(Append(M, e), <<>>), n + k)
<1> DEFINE T == <<e>>
           none == <<>>
<1>1. T \in Seq(Messages) /\ T # <<>> /\ T[1] = e /\ DOMAIN T = 1..1
  OBVIOUS
<1>2. none \in Seq(Nat) /\ none = <<>>
  OBVIOUS
<1>3. Append(M, e) = M \o T
  BY AppendIsConcat
<1> HIDE DEF T, none
<1>4. Asks(P, T, none, n, k)
  <2>1. \A i \in DOMAIN T : i # 1 => T[i].calls = <<>>
    BY <1>1
  <2> QED
    BY <1>1, <1>2, <2>1 DEF Asks
<1>5. Numbered(GroupsOf(M \o T, none), n + k)
  BY <1>1, <1>2, <1>4, CallsAsked
<1> QED
  BY <1>2, <1>3, <1>5

(* A message without calls asks none. *)
LEMMA MessageSilent ==
  ASSUME NEW M \in Seq(Messages), NEW e \in Messages, NEW n \in Nat,
         Numbered(GroupsOf(M, <<>>), n), e.calls = <<>>
  PROVE  Numbered(GroupsOf(Append(M, e), <<>>), n)
<1> DEFINE none == <<>>
           k == 0
<1>1. none \in Seq(Nat) /\ Len(none) = k /\ k \in Nat /\ n + k = n /\ k = k + k /\ 1..k = {}
  OBVIOUS
<1>2. Numbered(GroupsOf(M, none), n) /\ e.calls = none
  OBVIOUS
<1> HIDE DEF none, k
<1>3. Len(e.calls) = Len(none) + k
  BY <1>1, <1>2
<1>4. /\ \A m \in 1..Len(none) : e.calls[m] = none[m]
      /\ \A m \in 1..k : e.calls[Len(none) + m] = n + m
  BY <1>1
<1>5. Numbered(GroupsOf(Append(M, e), none), n + k)
  BY <1>1, <1>2, <1>3, <1>4, MessageAsks
<1> QED
  BY <1>1, <1>5 DEF none

(* A message that is no result continues any conversation. *)
LEMMA MessageFollows ==
  ASSUME NEW M \in Seq(Messages), NEW e \in Messages, Answered(M),
         e.role = "tool" => Behind(e.answers, M)
  PROVE  Answered(Append(M, e))
<1> DEFINE T == <<e>>
<1>1. T \in Seq(Messages) /\ T[1] = e /\ DOMAIN T = 1..1
  OBVIOUS
<1>2. Append(M, e) = M \o T
  BY AppendIsConcat
<1> HIDE DEF T
<1>3. Follows(M, T)
  <2> SUFFICES ASSUME NEW i \in DOMAIN T, T[i].role = "tool"
               PROVE  Behind(T[i].answers, M) /\ \A k \in 1..(i - 1) : T[k].role = "tool"
    BY DEF Follows
  <2>1. i = 1
    BY <1>1
  <2> QED
    BY <1>1, <2>1
<1> QED
  BY <1>1, <1>2, <1>3, ConversationGoesOn

(* Flushed calls may be answered. *)
LEMMA Flushes ==
  ASSUME NEW type, RequestTypes, Answered(msgs), Numbered(GroupsOf(msgs, pending), talk.asked)
  PROVE  /\ flushCalls(type) \in Seq(Messages) /\ Answered(flushCalls(type))
         /\ Numbered(GroupsOf(flushCalls(type), <<>>), talk.asked)
         /\ \A call \in ToSet(pending) : Behind(call, flushCalls(type))
         /\ pending = <<>> => flushCalls(type) = msgs
<1>1. CASE pending = <<>>
  <2>1. flushCalls(type) = msgs
    BY <1>1 DEF flushCalls
  <2>2. ToSet(pending) = {}
    BY <1>1 DEF ToSet
  <2> QED
    BY <1>1, <2>1, <2>2 DEF RequestTypes
<1>2. CASE pending # <<>>
  <2> DEFINE e == Message("assistant", FALSE, pending, 0)
             k == 0
             n == talk.asked
  <2>1. k \in Nat /\ n \in Nat /\ n + k = n /\ 1..k = {}
    BY DEF RequestTypes
  <2>2. msgs \in Seq(Messages) /\ pending \in Seq(Nat) /\ Len(pending) \in Nat
    BY DEF RequestTypes
  <2>3. e \in Messages /\ e.calls = pending /\ e.role = "assistant"
    BY <2>2 DEF Message, Messages, Roles
  <2>4. flushCalls(type) = Append(msgs, e)
    BY <1>2 DEF flushCalls
  <2>5. Numbered(GroupsOf(msgs, pending), n)
    OBVIOUS
  <2> HIDE DEF e, n
  <2>6. Append(msgs, e) \in Seq(Messages)
    BY <2>2, <2>3
  <2>7. Answered(Append(msgs, e))
    BY <2>2, <2>3, MessageFollows
  <2>8. \A call \in ToSet(pending) : Behind(call, Append(msgs, e))
    BY <2>2, <2>3, CallsJustMade
  <2>9. Len(e.calls) = Len(pending) + k
    BY <2>2, <2>3
  <2> HIDE DEF k
  <2>10. /\ \A m \in 1..Len(pending) : e.calls[m] = pending[m]
         /\ \A m \in 1..k : e.calls[Len(pending) + m] = n + m
    BY <2>1, <2>3
  <2>11. Numbered(GroupsOf(Append(msgs, e), <<>>), n + k)
    BY <2>1, <2>2, <2>3, <2>5, <2>9, <2>10, MessageAsks
  <2> QED
    BY <1>2, <2>1, <2>4, <2>6, <2>7, <2>8, <2>11 DEF n
<1> QED
  BY <1>1, <1>2

(* The groups are those of the messages and the calls to come. *)
LEMMA GroupsAre == Groups = GroupsOf(msgs, pending) /\ Groups' = GroupsOf(msgs', pending')
BY DEF Groups, GroupsOf

(* The results of a user's message come first and answer what was asked. *)
LEMMA UserAnswers ==
  ASSUME NEW M \in Seq(Messages), NEW S \in SUBSET Nat, IsFiniteSet(S), NEW said \in BOOLEAN,
         NEW results \in SetToSeqs(S), \A call \in S : Behind(call, M)
  PROVE  LET T == anthMessages("user", said, <<>>, results)
         IN  /\ T \in Seq(Messages) /\ Follows(M, T)
             /\ \A i \in DOMAIN T : T[i].calls = <<>>
<1> DEFINE T == anthMessages("user", said, <<>>, results)
           n == Cardinality(S)
           R == [i \in DOMAIN results |-> ToolMessage(results[i])]
           last == Message("user", TRUE, <<>>, 0)
           none == <<>>
           U == IF said THEN <<last>> ELSE none
<1>1. n \in Nat /\ DOMAIN results = 1..n /\ \A i \in 1..n : results[i] \in S
  BY FS_CardinalityType DEF SetToSeqs
<1>2. \A i \in 1..n : /\ ToolMessage(results[i]) \in Messages
                      /\ ToolMessage(results[i]).role = "tool"
                      /\ ToolMessage(results[i]).calls = <<>>
                      /\ ToolMessage(results[i]).answers = results[i]
  <2>1. <<>> \in Seq(Nat)
    OBVIOUS
  <2> QED
    <3>1. \A i \in 1..n : results[i] \in Nat
      BY <1>1
    <3> QED
      BY <2>1, <3>1 DEF ToolMessage, Message, Messages, Roles
<1>3. /\ R \in Seq(Messages) /\ Len(R) = n /\ DOMAIN R = 1..n
      /\ \A i \in 1..n : /\ R[i].role = "tool" /\ R[i].calls = <<>> /\ R[i].answers = results[i]
  <2>1. R = [i \in 1..n |-> ToolMessage(results[i])]
    BY <1>1
  <2> HIDE DEF R, n
  <2>2. [i \in 1..n |-> ToolMessage(results[i])] \in Seq(Messages)
    BY <1>1, <1>2, IsASeq
  <2>3. DOMAIN R = 1..n /\ \A i \in 1..n : R[i] = ToolMessage(results[i])
    BY <2>1
  <2>4. R \in Seq(Messages)
    BY <2>1, <2>2
  <2>5. Len(R) = n
    BY <1>1, <2>3, <2>4
  <2> QED
    BY <1>2, <2>3, <2>4, <2>5
<1>4. last \in Messages /\ last.role = "user" /\ last.calls = <<>>
  <2>1. none \in Seq(Nat)
    OBVIOUS
  <2> QED
    BY <2>1 DEF Message, Messages, Roles
<1>5. /\ U \in Seq(Messages) /\ Len(U) \in Nat
      /\ \A i \in 1..Len(U) : i = 1 /\ U[i].role = "user" /\ U[i].calls = <<>>
  <2> HIDE DEF last
  <2>1. CASE said
    <3> DEFINE one == <<last>>
    <3>1. one \in Seq(Messages) /\ Len(one) = 1 /\ one[1] = last
      BY <1>4
    <3>2. U = one
      BY <2>1
    <3> HIDE DEF one, U
    <3>3. Len(U) = 1 /\ \A i \in 1..1 : i = 1
      BY <3>1, <3>2
    <3>4. U \in Seq(Messages) /\ Len(U) \in Nat
      BY <3>1, <3>2
    <3>5. U[1].role = "user" /\ U[1].calls = <<>>
      BY <1>4, <3>1, <3>2
    <3>6. ASSUME NEW i \in 1..Len(U) PROVE i = 1
      BY <3>3
    <3> QED
      BY <3>4, <3>5, <3>6
  <2>2. CASE ~said
    <3>1. none \in Seq(Messages) /\ Len(none) = 0
      OBVIOUS
    <3>2. U = none
      BY <2>2
    <3> HIDE DEF none, U
    <3> QED
      BY <3>1, <3>2
  <2> QED
    BY <2>1, <2>2
<1>6. T = R \o U
  BY DEF anthMessages
<1> HIDE DEF T, n, R, U, last, none
<1>7. /\ T \in Seq(Messages) /\ Len(T) = n + Len(U) /\ DOMAIN T = 1..(n + Len(U))
      /\ \A i \in 1..n : T[i] = R[i]
      /\ \A i \in (n + 1)..(n + Len(U)) : T[i] = U[i - n]
  <2>1. /\ R \o U \in Seq(Messages) /\ Len(R \o U) = n + Len(U)
        /\ \A i \in 1..(n + Len(U)) : (R \o U)[i] = IF i <= n THEN R[i] ELSE U[i - n]
    BY <1>3, <1>5, ConcatProperties
  <2> QED
    BY <1>1, <1>5, <1>6, <2>1
<1>8. ASSUME NEW i \in DOMAIN T, i > n PROVE T[i].role = "user" /\ T[i].calls = <<>>
  <2> DEFINE j == i - n
  <2>1. j \in 1..Len(U) /\ T[i] = U[j]
    BY <1>1, <1>5, <1>7, <1>8
  <2> HIDE DEF j
  <2> QED
    BY <1>5, <2>1
<1>9. ASSUME NEW i \in DOMAIN T, ~(i > n)
      PROVE  T[i].role = "tool" /\ T[i].calls = <<>> /\ T[i].answers \in S /\ i \in 1..n
  <2>1. i \in 1..n
    BY <1>1, <1>5, <1>7, <1>9
  <2> QED
    BY <1>1, <1>3, <1>7, <2>1
<1>10. \A i \in DOMAIN T : T[i].calls = <<>>
  BY <1>8, <1>9
<1>11. Follows(M, T)
  <2> SUFFICES ASSUME NEW i \in DOMAIN T, T[i].role = "tool"
               PROVE  Behind(T[i].answers, M) /\ \A k \in 1..(i - 1) : T[k].role = "tool"
    BY DEF Follows
  <2>1. i \in 1..n /\ T[i].answers \in S
    BY <1>8, <1>9
  <2>2. \A k \in 1..(i - 1) : k \in 1..n
    BY <1>1, <2>1
  <2> QED
    BY <1>3, <1>7, <2>1, <2>2
<1> QED
  BY <1>7, <1>10, <1>11 DEF T

-----------------------------------------------------------------------------
(* The steps of a request *)

(* Where nothing is said nothing is asked. *)
LEMMA NothingAsked == Answered(<<>>) /\ Numbered(GroupsOf(<<>>, <<>>), 0)
<1> DEFINE none == <<>>
           G == GroupsOf(none, none)
<1>1. none = <<>> /\ Len(none) = 0 /\ DOMAIN none = {}
  OBVIOUS
<1> HIDE DEF none
<1>2. G = [i \in 1..1 |-> none]
  BY <1>1 DEF GroupsOf
<1>3. DOMAIN G = 1..1 /\ (\A i \in DOMAIN G : DOMAIN G[i] = {}) /\ 1..0 = {}
  BY <1>1, <1>2
<1> HIDE DEF G
<1>4. Numbered(G, 0)
  BY <1>3 DEF Numbered
<1>5. Answered(none)
  BY <1>1 DEF Answered
<1> QED
  BY <1>1, <1>4, <1>5 DEF G

(* In the beginning nothing has been asked. *)
LEMMA RequestInit == TranslationInit => RequestInv
<1> SUFFICES ASSUME TranslationInit PROVE RequestInv
  OBVIOUS
<1> DEFINE none == <<>>
           zero == 0
           empty == {}
           e == Message("system", TRUE, <<>>, 0)
<1>1. none \in Seq(Nat) /\ none \in Seq(Messages) /\ none = <<>> /\ Len(none) = 0 /\ DOMAIN none = {}
  OBVIOUS
<1>2. zero \in Nat /\ empty \in SUBSET Nat /\ zero = 0 /\ empty = {} /\ IsFiniteSet(empty)
  BY FS_EmptySet
<1>3. e \in Messages /\ e.calls = none /\ e.role = "system"
  BY <1>1 DEF Message, Messages, Roles
<1>4. /\ api \in {"chat", "anthropic", "responses"} /\ pending = none
      /\ msgs = none \/ msgs = <<e>>
      /\ talk = [items |-> zero, asked |-> zero, open |-> empty, answering |-> FALSE]
  BY DEF TranslationInit, NewTalk
<1>5. <<e>> = Append(none, e) /\ <<e>> \in Seq(Messages)
  <2> HIDE DEF e
  <2> DEFINE T == <<e>>
  <2>1. T \in Seq(Messages)
    BY <1>3
  <2>2. Append(none, e) = none \o T
    BY <1>1, <1>3, AppendIsConcat
  <2> HIDE DEF T
  <2>3. none \o T = T
    BY <2>1, ConcatEmptySeq
  <2> QED
    BY <2>1, <2>2, <2>3 DEF T
<1> HIDE DEF none, zero, empty, e
<1>6. /\ talk \in [items : Nat, asked : Nat, open : SUBSET Nat, answering : BOOLEAN]
      /\ talk.asked = zero /\ talk.open = empty
  BY <1>2, <1>4
<1>7. RequestTypes
  BY <1>1, <1>2, <1>4, <1>5, <1>6 DEF RequestTypes
<1>8. Answered(none) /\ Numbered(GroupsOf(none, none), zero)
  BY <1>1, <1>2, NothingAsked
<1>9. Answered(<<e>>) /\ Numbered(GroupsOf(<<e>>, none), zero)
  BY <1>1, <1>2, <1>3, <1>5, <1>8, MessageFollows, MessageSilent
<1>10. Answered(msgs) /\ Numbered(GroupsOf(msgs, pending), talk.asked)
  BY <1>4, <1>6, <1>8, <1>9
<1>11. Answerable
  BY <1>2, <1>6 DEF Answerable
<1> QED
  BY <1>1, <1>4, <1>7, <1>10, <1>11, GroupsAre DEF RequestInv

(* A step of the decoder's is fine if the conversation it makes is. *)
LEMMA RequestGoesOn ==
  ASSUME api' = api, RequestTypes', api # "responses" => pending' = <<>>,
         Answered(msgs'), Answerable', Numbered(GroupsOf(msgs', pending'), talk'.asked)
  PROVE  RequestInv'
<1>1. Groups' = GroupsOf(msgs', pending')
  BY GroupsAre
<1>2. Answered(msgs)' /\ Numbered(Groups, talk.asked)'
  BY <1>1
<1> QED
  BY <1>2 DEF RequestInv

(* The client's own account stays one. *)
LEMMA TalkTyped ==
  ASSUME RequestTypes, NEW asked \in Nat, NEW open \in SUBSET Nat,
         talk' = [talk EXCEPT !.items = @ + 1, !.asked = asked, !.open = open]
  PROVE  /\ talk' \in [items : Nat, asked : Nat, open : SUBSET Nat, answering : BOOLEAN]
         /\ talk'.asked = asked /\ talk'.open = open
<1> DEFINE items == talk.items + 1
<1>1. items \in Nat
  BY DEF RequestTypes
<1>2. talk' = [talk EXCEPT !.items = items, !.asked = asked, !.open = open]
  OBVIOUS
<1> HIDE DEF items
<1> QED
  BY <1>1, <1>2 DEF RequestTypes

(* An assistant's message with calls *)
LEMMA AssistantDecodes ==
  ASSUME RequestInv, api = "anthropic", talk.open = {}, NEW n \in 0..2, NEW said \in BOOLEAN,
         NEW uses, uses = [i \in 1..n |-> talk.asked + i],
         msgs' = msgs \o anthMessages("assistant", said, uses, <<>>),
         talk' = [talk EXCEPT !.items = @ + 1, !.asked = @ + n, !.open = ToSet(uses)],
         api' = api, pending' = pending
  PROVE  RequestInv'
<1> DEFINE e == Message("assistant", said, uses, 0)
           asked == talk.asked + n
           open == ToSet(uses)
<1>1. RequestTypes /\ pending = <<>> /\ Answered(msgs) /\ Numbered(GroupsOf(msgs, pending), talk.asked)
  BY GroupsAre DEF RequestInv
<1>2. n \in Nat /\ talk.asked \in Nat /\ asked \in Nat
  BY <1>1 DEF RequestTypes
<1>3. DOMAIN uses = 1..n /\ \A i \in 1..n : uses[i] = talk.asked + i
  OBVIOUS
<1>4. uses \in Seq(Nat) /\ Len(uses) = n
  <2>1. \A i \in 1..n : talk.asked + i \in Nat
    BY <1>2, SMTT(30)
  <2>2. [i \in 1..n |-> talk.asked + i] \in Seq(Nat)
    BY <1>2, <2>1, IsASeq
  <2>3. uses \in Seq(Nat)
    BY <2>2
  <2> QED
    BY <1>2, <1>3, <2>3
<1>5. e \in Messages /\ e.calls = uses /\ e.role = "assistant"
  BY <1>4 DEF Message, Messages, Roles
<1>6. msgs \in Seq(Messages) /\ pending \in Seq(Nat) /\ Len(pending) = 0
  BY <1>1 DEF RequestTypes
<1>7. msgs' = Append(msgs, e)
  <2>1. anthMessages("assistant", said, uses, <<>>) = <<e>>
    BY DEF anthMessages
  <2>2. msgs' = msgs \o <<e>>
    BY <2>1
  <2> HIDE DEF e
  <2>3. Append(msgs, e) = msgs \o <<e>>
    BY <1>5, <1>6, AppendIsConcat
  <2> QED
    BY <2>2, <2>3
<1>8. open \in SUBSET Nat /\ IsFiniteSet(open)
  <2>1. open \subseteq 1..asked
    BY <1>2, <1>3 DEF ToSet
  <2>2. IsFiniteSet(1..asked)
    <3>1. 1 \in Int /\ asked \in Int
      BY <1>2
    <3> HIDE DEF asked
    <3> QED
      BY <3>1, FS_Interval
  <2> QED
    BY <1>2, <2>1, <2>2, FS_Subset
<1>9. talk' = [talk EXCEPT !.items = @ + 1, !.asked = asked, !.open = open]
  OBVIOUS
<1> HIDE DEF e, asked, open
<1>10. /\ talk' \in [items : Nat, asked : Nat, open : SUBSET Nat, answering : BOOLEAN]
       /\ talk'.asked = asked /\ talk'.open = open
  BY <1>1, <1>2, <1>8, <1>9, TalkTyped
<1>11. Append(msgs, e) \in Seq(Messages)
  BY <1>5, <1>6
<1>12. RequestTypes'
  BY <1>1, <1>6, <1>7, <1>8, <1>10, <1>11 DEF RequestTypes
<1>13. Answered(msgs')
  BY <1>1, <1>5, <1>6, <1>7, MessageFollows
<1>14. \A call \in open : Behind(call, msgs')
  BY <1>5, <1>6, <1>7, CallsJustMade DEF open
<1>15. Answerable'
  BY <1>1, <1>10, <1>14 DEF Answerable
<1>16. Numbered(GroupsOf(msgs', <<>>), asked)
  <2> DEFINE N == talk.asked
  <2>1. N \in Nat /\ Numbered(GroupsOf(msgs, pending), N)
    BY <1>1, <1>2
  <2>2. Len(e.calls) = Len(pending) + n
    BY <1>2, <1>4, <1>5, <1>6
  <2>3. \A m \in 1..n : e.calls[Len(pending) + m] = N + m
    BY <1>3, <1>5, <1>6
  <2>4. \A m \in 1..Len(pending) : e.calls[m] = pending[m]
    BY <1>6
  <2> HIDE DEF N
  <2>5. Numbered(GroupsOf(Append(msgs, e), <<>>), N + n)
    BY <1>2, <1>5, <1>6, <2>1, <2>2, <2>3, <2>4, MessageAsks
  <2> QED
    BY <1>7, <2>5 DEF N, asked
<1> QED
  BY <1>1, <1>10, <1>12, <1>13, <1>15, <1>16, RequestGoesOn

(* A user's message with all the results *)
LEMMA UserDecodes ==
  ASSUME RequestInv, api = "anthropic", NEW said \in BOOLEAN, NEW results \in SetToSeqs(talk.open),
         msgs' = msgs \o anthMessages("user", said, <<>>, results),
         talk' = [talk EXCEPT !.items = @ + 1, !.open = {}],
         api' = api, pending' = pending
  PROVE  RequestInv'
<1> DEFINE S == talk.open
           T == anthMessages("user", said, <<>>, results)
           N == talk.asked
           k == 0
           empty == {}
<1>1. RequestTypes /\ pending = <<>> /\ Answered(msgs) /\ Numbered(GroupsOf(msgs, pending), N)
      /\ Answerable
  BY GroupsAre DEF RequestInv
<1>2. /\ msgs \in Seq(Messages) /\ pending \in Seq(Nat) /\ Len(pending) = 0 /\ N \in Nat
      /\ S \in SUBSET Nat /\ IsFiniteSet(S)
  BY <1>1 DEF RequestTypes
<1>3. \A call \in S : Behind(call, msgs)
  BY <1>1 DEF Answerable
<1>4. results \in SetToSeqs(S) /\ msgs' = msgs \o T
  OBVIOUS
<1>5. empty \in SUBSET Nat /\ IsFiniteSet(empty) /\ empty = {}
  BY FS_EmptySet
<1>6. talk' = [talk EXCEPT !.items = @ + 1, !.asked = N, !.open = empty]
  BY <1>1 DEF RequestTypes
<1>7. k \in Nat /\ N + k = N /\ 1..k = {} /\ k = 0
  BY <1>2
<1> HIDE DEF S, N, k, empty
<1>8. /\ T \in Seq(Messages) /\ Follows(msgs, T) /\ \A i \in DOMAIN T : T[i].calls = <<>>
  BY <1>2, <1>3, <1>4, UserAnswers
<1>14. T \in Seq(Messages) /\ Follows(msgs, T) /\ Answered(msgs)
  BY <1>1, <1>8
<1> HIDE DEF T
<1>9. msgs' \in Seq(Messages) /\ Answered(msgs')
  <2>1. Answered(msgs \o T)
    BY <1>2, <1>14, ConversationGoesOn
  <2> QED
    <3>1. msgs \o T \in Seq(Messages)
      BY <1>2, <1>14, ConcatProperties
    <3> QED
      BY <1>4, <2>1, <3>1
<1>10. /\ talk' \in [items : Nat, asked : Nat, open : SUBSET Nat, answering : BOOLEAN]
       /\ talk'.asked = N /\ talk'.open = empty
  BY <1>1, <1>2, <1>5, <1>6, TalkTyped
<1>11. RequestTypes' /\ Answerable'
  BY <1>1, <1>5, <1>9, <1>10 DEF RequestTypes, Answerable
<1>12. Asks(pending, T, pending, N, k)
  <2> DEFINE h == IF T = <<>> THEN pending ELSE T[1].calls
  <2>1. h = pending
    <3>1. T # <<>> => 1 \in DOMAIN T
      BY <1>8
    <3> QED
      BY <1>1, <1>8, <3>1
  <2>2. Len(h) = Len(pending) + k
    BY <1>2, <1>7, <2>1
  <2> HIDE DEF h
  <2>3. /\ \A m \in 1..Len(pending) : h[m] = pending[m]
        /\ \A m \in 1..k : h[Len(pending) + m] = N + m
    BY <1>7, <2>1
  <2> QED
    BY <1>1, <1>8, <2>2, <2>3 DEF Asks, h
<1>13. Numbered(GroupsOf(msgs \o T, pending), N + k)
  BY <1>1, <1>2, <1>7, <1>8, <1>12, CallsAsked
<1> QED
  BY <1>1, <1>4, <1>7, <1>9, <1>10, <1>11, <1>13, RequestGoesOn

(* What a decoder of responses knows *)
LEMMA ResponsesKnow ==
  ASSUME RequestInv, api = "responses", NEW type
  PROVE  /\ RequestTypes /\ Answered(msgs) /\ Answerable
         /\ Numbered(GroupsOf(msgs, pending), talk.asked)
         /\ talk.asked \in Nat /\ talk.open \in SUBSET Nat /\ IsFiniteSet(talk.open)
         /\ msgs \in Seq(Messages) /\ pending \in Seq(Nat)
         /\ flushCalls(type) \in Seq(Messages) /\ Answered(flushCalls(type))
         /\ Numbered(GroupsOf(flushCalls(type), <<>>), talk.asked)
         /\ \A call \in talk.open : Behind(call, flushCalls(type))
<1>1. RequestTypes /\ Answered(msgs) /\ Answerable /\ Numbered(GroupsOf(msgs, pending), talk.asked)
  BY GroupsAre DEF RequestInv
<1>2. /\ flushCalls(type) \in Seq(Messages) /\ Answered(flushCalls(type))
      /\ Numbered(GroupsOf(flushCalls(type), <<>>), talk.asked)
      /\ \A call \in ToSet(pending) : Behind(call, flushCalls(type))
      /\ pending = <<>> => flushCalls(type) = msgs
  BY <1>1, Flushes
<1>3. \A call \in talk.open : Behind(call, flushCalls(type))
  BY <1>1, <1>2 DEF Answerable
<1> QED
  BY <1>1, <1>2, <1>3 DEF RequestTypes

(* A message behind the calls, none of which is open *)
LEMMA MessageDecodes ==
  ASSUME RequestInv, api = "responses", talk.open = {}, NEW role \in {"user", "assistant", "system"},
         msgs' = Append(flushCalls("message"), Message(role, TRUE, <<>>, 0)), pending' = <<>>,
         talk' = [talk EXCEPT !.items = @ + 1, !.answering = FALSE], api' = api
  PROVE  RequestInv'
<1> DEFINE F == flushCalls("message")
           e == Message(role, TRUE, <<>>, 0)
           none == <<>>
           items == talk.items + 1
<1>1. /\ RequestTypes /\ talk.asked \in Nat /\ talk.open \in SUBSET Nat /\ IsFiniteSet(talk.open)
      /\ F \in Seq(Messages) /\ Answered(F) /\ Numbered(GroupsOf(F, <<>>), talk.asked)
  BY ResponsesKnow
<1>2. none \in Seq(Nat) /\ none = <<>>
  OBVIOUS
<1>3. e \in Messages /\ e.calls = <<>> /\ e.role # "tool"
  BY <1>2 DEF Message, Messages, Roles
<1>4. msgs' = Append(F, e) /\ pending' = none
  OBVIOUS
<1>5. items \in Nat /\ talk' = [talk EXCEPT !.items = items, !.answering = FALSE]
  BY <1>1 DEF RequestTypes
<1> HIDE DEF F, e, none, items
<1>6. /\ talk' \in [items : Nat, asked : Nat, open : SUBSET Nat, answering : BOOLEAN]
      /\ talk'.asked = talk.asked /\ talk'.open = talk.open
  BY <1>1, <1>5 DEF RequestTypes
<1>7. Append(F, e) \in Seq(Messages)
  BY <1>1, <1>3
<1>8. RequestTypes' /\ Answerable'
  BY <1>1, <1>2, <1>4, <1>6, <1>7 DEF RequestTypes, Answerable
<1>9. Answered(Append(F, e))
  BY <1>1, <1>3, MessageFollows
<1>10. Numbered(GroupsOf(Append(F, e), <<>>), talk.asked)
  BY <1>1, <1>3, MessageSilent
<1>11. Answered(msgs') /\ Numbered(GroupsOf(msgs', pending'), talk'.asked)
  BY <1>2, <1>4, <1>6, <1>9, <1>10
<1> QED
  BY <1>8, <1>11, RequestGoesOn

(* A call, behind others or the first of its group *)
LEMMA CallDecodes ==
  ASSUME RequestInv, api = "responses", talk.answering => talk.open = {},
         pending' = Append(pending, talk.asked + 1),
         talk' = [talk EXCEPT !.items = @ + 1, !.asked = @ + 1, !.answering = FALSE,
                              !.open = @ \cup {talk.asked + 1}],
         msgs' = msgs, api' = api
  PROVE  RequestInv'
<1> DEFINE n == talk.asked
           x == n + 1
           open == talk.open \cup {x}
           items == talk.items + 1
           Q == Append(pending, x)
           none == <<>>
           k == 1
<1>1. /\ RequestTypes /\ Answered(msgs) /\ Answerable /\ Numbered(GroupsOf(msgs, pending), n)
      /\ n \in Nat /\ talk.open \in SUBSET Nat /\ IsFiniteSet(talk.open)
      /\ msgs \in Seq(Messages) /\ pending \in Seq(Nat)
  BY ResponsesKnow
<1>2. x \in Nat /\ items \in Nat /\ k \in Nat /\ n + k = x /\ \A m \in 1..k : m = 1
  BY <1>1 DEF RequestTypes
<1>3. open \in SUBSET Nat /\ IsFiniteSet(open)
  <2> HIDE DEF x
  <2>1. IsFiniteSet(open)
    BY <1>1, FS_AddElement
  <2> QED
    BY <1>1, <1>2, <2>1
<1>4. talk' = [talk EXCEPT !.items = items, !.asked = x, !.answering = FALSE, !.open = open]
  OBVIOUS
<1>5. none \in Seq(Messages) /\ none = <<>> /\ DOMAIN none = {}
  OBVIOUS
<1>6. pending' = Q
  OBVIOUS
<1> HIDE DEF items, open
<1>7. /\ talk' \in [items : Nat, asked : Nat, open : SUBSET Nat, answering : BOOLEAN]
      /\ talk'.asked = x /\ talk'.open = open /\ ~talk'.answering
  <2> HIDE DEF x
  <2> QED
    BY <1>1, <1>2, <1>3, <1>4 DEF RequestTypes
<1> HIDE DEF n, x, Q, none, k
<1>8. /\ Q \in Seq(Nat) /\ Len(pending) \in Nat /\ Len(Q) = Len(pending) + 1
      /\ \A m \in 1..Len(pending) : Q[m] = pending[m]
      /\ Q[Len(pending) + 1] = x
      /\ DOMAIN Q = 1..(Len(pending) + 1) /\ DOMAIN pending = 1..Len(pending)
  <2>1. Q \in Seq(Nat)
    BY <1>1, <1>2 DEF Q
  <2>2. /\ Len(Q) = Len(pending) + 1
        /\ \A m \in 1..Len(pending) : Q[m] = pending[m]
        /\ Q[Len(pending) + 1] = x
    BY <1>1, <1>2, AppendProperties DEF Q
  <2> QED
    BY <1>1, <2>1, <2>2
<1>9. RequestTypes'
  BY <1>1, <1>3, <1>6, <1>7, <1>8 DEF RequestTypes
<1>10. ToSet(pending) \subseteq ToSet(Q) /\ x \in ToSet(Q)
  BY <1>8 DEF ToSet
<1>11. Answerable'
  <2>1. ASSUME NEW call \in talk.open PROVE call \in ToSet(pending)
    BY <1>1, <2>1 DEF Answerable
  <2>2. \A call \in open : call \in ToSet(Q)
    BY <1>10, <2>1 DEF open
  <2> QED
    BY <1>6, <1>7, <2>2 DEF Answerable
<1>12. Asks(pending, none, Q, n, k)
  <2>1. k = 1 /\ x = n + 1
    BY DEF k, x
  <2>2. Len(Q) = Len(pending) + k
    BY <1>8, <2>1
  <2>3. \A m \in 1..k : Q[Len(pending) + m] = n + m
    BY <1>2, <1>8, <2>1
  <2>4. \A i \in DOMAIN none : i # 1 => none[i].calls = <<>>
    BY <1>5
  <2>5. (IF none = <<>> THEN Q ELSE none[1].calls) = Q
    BY <1>5
  <2> QED
    BY <1>5, <1>8, <2>2, <2>3, <2>4, <2>5 DEF Asks
<1>13. Numbered(GroupsOf(msgs \o none, Q), n + k)
  BY <1>1, <1>2, <1>5, <1>8, <1>12, CallsAsked
<1>14. msgs \o none = msgs
  BY <1>1, ConcatEmptySeq DEF none
<1> QED
  BY <1>1, <1>2, <1>6, <1>7, <1>9, <1>11, <1>13, <1>14, RequestGoesOn

(* The output of a call *)
LEMMA OutputDecodes ==
  ASSUME RequestInv, api = "responses", NEW call \in talk.open,
         msgs' = Append(flushCalls("output"), ToolMessage(call)), pending' = <<>>,
         talk' = [talk EXCEPT !.items = @ + 1, !.answering = TRUE, !.open = @ \ {call}],
         api' = api
  PROVE  RequestInv'
<1> DEFINE F == flushCalls("output")
           e == ToolMessage(call)
           none == <<>>
           items == talk.items + 1
           open == talk.open \ {call}
<1>1. /\ RequestTypes /\ talk.asked \in Nat /\ talk.open \in SUBSET Nat /\ IsFiniteSet(talk.open)
      /\ F \in Seq(Messages) /\ Answered(F) /\ Numbered(GroupsOf(F, <<>>), talk.asked)
      /\ \A c \in talk.open : Behind(c, F)
  BY ResponsesKnow
<1>2. none \in Seq(Nat) /\ none = <<>>
  OBVIOUS
<1>3. e \in Messages /\ e.calls = <<>> /\ e.role = "tool" /\ e.answers = call
  BY <1>1, <1>2 DEF ToolMessage, Message, Messages, Roles
<1>4. msgs' = Append(F, e) /\ pending' = none
  OBVIOUS
<1>5. items \in Nat /\ talk' = [talk EXCEPT !.items = items, !.answering = TRUE, !.open = open]
  BY <1>1 DEF RequestTypes
<1>6. open \in SUBSET Nat /\ IsFiniteSet(open) /\ open \subseteq talk.open
  BY <1>1, FS_RemoveElement
<1> HIDE DEF F, e, none, items, open
<1>7. /\ talk' \in [items : Nat, asked : Nat, open : SUBSET Nat, answering : BOOLEAN]
      /\ talk'.asked = talk.asked /\ talk'.open = open /\ talk'.answering
  BY <1>1, <1>5, <1>6 DEF RequestTypes
<1>8. Append(F, e) \in Seq(Messages)
  BY <1>1, <1>3
<1>9. RequestTypes'
  BY <1>1, <1>2, <1>4, <1>6, <1>7, <1>8 DEF RequestTypes
<1>10. \A c \in open : Behind(c, Append(F, e))
  BY <1>1, <1>3, <1>6, ResultsBetween
<1>11. Answerable'
  BY <1>2, <1>4, <1>7, <1>10 DEF Answerable
<1>12. Answered(Append(F, e))
  BY <1>1, <1>3, MessageFollows
<1>13. Numbered(GroupsOf(Append(F, e), <<>>), talk.asked)
  BY <1>1, <1>3, MessageSilent
<1>14. Answered(msgs') /\ Numbered(GroupsOf(msgs', pending'), talk'.asked)
  BY <1>2, <1>4, <1>7, <1>12, <1>13
<1> QED
  BY <1>9, <1>11, <1>14, RequestGoesOn

(* An item that is dropped *)
LEMMA ReasoningDecodes ==
  ASSUME RequestInv, talk' = [talk EXCEPT !.items = @ + 1],
         UNCHANGED <<api, msgs, pending>>
  PROVE  RequestInv'
<1> DEFINE items == talk.items + 1
<1>1. RequestTypes
  BY DEF RequestInv
<1>2. items \in Nat /\ talk' = [talk EXCEPT !.items = items]
  BY <1>1 DEF RequestTypes
<1> HIDE DEF items
<1>3. /\ talk' \in [items : Nat, asked : Nat, open : SUBSET Nat, answering : BOOLEAN]
      /\ talk'.asked = talk.asked /\ talk'.open = talk.open /\ talk'.answering = talk.answering
  BY <1>1, <1>2 DEF RequestTypes
<1>4. RequestTypes'
  BY <1>1, <1>3 DEF RequestTypes
<1>5. Answerable'
  BY <1>3 DEF RequestInv, Answerable
<1>6. Groups' = Groups
  BY DEF Groups
<1> QED
  BY <1>3, <1>4, <1>5, <1>6 DEF RequestInv

(* A request on its way leaves nothing behind. *)
LEMMA RequestLeaves ==
  ASSUME RequestInv, api' = api, talk' = NewTalk, msgs' = <<>>, pending' = <<>>
  PROVE  RequestInv'
<1> DEFINE none == <<>>
           zero == 0
           empty == {}
<1>1. none \in Seq(Nat) /\ none \in Seq(Messages) /\ none = <<>> /\ Len(none) = 0 /\ DOMAIN none = {}
  OBVIOUS
<1>2. zero \in Nat /\ empty \in SUBSET Nat /\ zero = 0 /\ empty = {} /\ IsFiniteSet(empty)
  BY FS_EmptySet
<1>3. /\ talk' = [items |-> zero, asked |-> zero, open |-> empty, answering |-> FALSE]
      /\ msgs' = none /\ pending' = none /\ api \in {"chat", "anthropic", "responses"}
  BY DEF NewTalk, RequestInv, RequestTypes
<1> HIDE DEF none, zero, empty
<1>4. /\ talk' \in [items : Nat, asked : Nat, open : SUBSET Nat, answering : BOOLEAN]
      /\ talk'.asked = zero /\ talk'.open = empty
  BY <1>2, <1>3
<1>5. RequestTypes' /\ Answerable'
  BY <1>1, <1>2, <1>3, <1>4 DEF RequestTypes, Answerable
<1>6. Answered(none) /\ Numbered(GroupsOf(none, none), zero)
  BY <1>1, <1>2, NothingAsked
<1> QED
  BY <1>1, <1>3, <1>4, <1>5, <1>6, RequestGoesOn

(* The answer does not touch the request. *)
LEMMA RequestStays ==
  ASSUME RequestInv, api' = api, UNCHANGED request PROVE RequestInv'
BY DEF RequestInv, RequestTypes, Answered, Behind, Answerable, Numbered, Groups, request

(* What holds of the request holds after every step. *)
LEMMA RequestStep == RequestInv /\ [TranslationNext]_tvars => RequestInv'
<1> SUFFICES ASSUME RequestInv, [TranslationNext]_tvars PROVE RequestInv'
  OBVIOUS
<1>1. CASE decodeAnthropicRequest
  <2>1. api = "anthropic" /\ api' = api /\ pending' = pending
    BY <1>1 DEF decodeAnthropicRequest
  <2>2. PICK said \in BOOLEAN :
          \/ /\ talk.open = {}
             /\ \E n \in 0..2 :
                  LET uses == [i \in 1..n |-> talk.asked + i]
                  IN  /\ msgs' = msgs \o anthMessages("assistant", said, uses, <<>>)
                      /\ talk' = [talk EXCEPT !.items = @ + 1, !.asked = @ + n,
                                              !.open = ToSet(uses)]
          \/ /\ \E results \in SetToSeqs(talk.open) :
                  msgs' = msgs \o anthMessages("user", said, <<>>, results)
             /\ talk' = [talk EXCEPT !.items = @ + 1, !.open = {}]
    BY <1>1, Zenon DEF decodeAnthropicRequest
  <2>3. ASSUME talk.open = {}, NEW n \in 0..2,
               msgs' = msgs \o anthMessages("assistant", said, [i \in 1..n |-> talk.asked + i], <<>>),
               talk' = [talk EXCEPT !.items = @ + 1, !.asked = @ + n,
                                    !.open = ToSet([i \in 1..n |-> talk.asked + i])]
        PROVE  RequestInv'
    BY <2>1, <2>3, AssistantDecodes, Zenon
  <2>4. ASSUME NEW results \in SetToSeqs(talk.open),
               msgs' = msgs \o anthMessages("user", said, <<>>, results),
               talk' = [talk EXCEPT !.items = @ + 1, !.open = {}]
        PROVE  RequestInv'
    BY <2>1, <2>4, UserDecodes, Zenon
  <2> QED
    BY <2>2, <2>3, <2>4, Zenon
<1>2. CASE decodeResponsesRequest
  <2>1. api = "responses" /\ api' = api
    BY <1>2 DEF decodeResponsesRequest
  <2>2. \/ /\ talk.open = {}
           /\ \E role \in {"user", "assistant", "system"} :
                msgs' = Append(flushCalls("message"), Message(role, TRUE, <<>>, 0))
           /\ pending' = <<>>
           /\ talk' = [talk EXCEPT !.items = @ + 1, !.answering = FALSE]
        \/ /\ talk.answering => talk.open = {}
           /\ pending' = Append(pending, talk.asked + 1)
           /\ talk' = [talk EXCEPT !.items = @ + 1, !.asked = @ + 1, !.answering = FALSE,
                                   !.open = @ \cup {talk.asked + 1}]
           /\ msgs' = msgs
        \/ \E call \in talk.open :
             /\ msgs' = Append(flushCalls("output"), ToolMessage(call))
             /\ pending' = <<>>
             /\ talk' = [talk EXCEPT !.items = @ + 1, !.answering = TRUE, !.open = @ \ {call}]
        \/ /\ talk' = [talk EXCEPT !.items = @ + 1]
           /\ UNCHANGED <<msgs, pending>>
    BY <1>2, Zenon DEF decodeResponsesRequest
  <2>3. ASSUME talk.open = {}, NEW role \in {"user", "assistant", "system"},
               msgs' = Append(flushCalls("message"), Message(role, TRUE, <<>>, 0)), pending' = <<>>,
               talk' = [talk EXCEPT !.items = @ + 1, !.answering = FALSE]
        PROVE  RequestInv'
    BY <2>1, <2>3, MessageDecodes, Zenon
  <2>4. ASSUME talk.answering => talk.open = {},
               pending' = Append(pending, talk.asked + 1),
               talk' = [talk EXCEPT !.items = @ + 1, !.asked = @ + 1, !.answering = FALSE,
                                    !.open = @ \cup {talk.asked + 1}],
               msgs' = msgs
        PROVE  RequestInv'
    BY <2>1, <2>4, CallDecodes, Zenon
  <2>5. ASSUME NEW call \in talk.open,
               msgs' = Append(flushCalls("output"), ToolMessage(call)), pending' = <<>>,
               talk' = [talk EXCEPT !.items = @ + 1, !.answering = TRUE, !.open = @ \ {call}]
        PROVE  RequestInv'
    BY <2>1, <2>5, OutputDecodes, Zenon
  <2>6. ASSUME talk' = [talk EXCEPT !.items = @ + 1], UNCHANGED <<msgs, pending>>
        PROVE  RequestInv'
    BY <2>1, <2>6, ReasoningDecodes
  <2> QED
    BY <2>2, <2>3, <2>4, <2>5, <2>6, Zenon
<1>3. CASE RequestDecoded
  BY <1>3, RequestLeaves DEF RequestDecoded
<1>4. CASE ChunkArrives
  BY <1>4, RequestStays DEF ChunkArrives
<1>5. CASE EmptyLine
  BY <1>5, RequestStays DEF EmptyLine
<1>6. CASE StreamEnds
  BY <1>6, RequestStays DEF StreamEnds
<1>7. CASE StreamBreaks
  BY <1>7, RequestStays DEF StreamBreaks
<1>8. CASE ReaderLeaves
  BY <1>8, RequestStays DEF ReaderLeaves
<1>9. CASE UNCHANGED tvars
  BY <1>9, RequestStays DEF tvars, request
<1> QED
  BY <1>1, <1>2, <1>3, <1>4, <1>5, <1>6, <1>7, <1>8, <1>9 DEF TranslationNext

(* However long the request, the calls that wait for a result are those    *)
(* whose message ends the conversation, or those about to be flushed.      *)
THEOREM RequestHolds == TranslationSpec => []RequestInv
BY RequestInit, RequestStep, PTL DEF TranslationSpec

(* In any conversation each tool result stands behind the message with its  *)
(* call, and each call is asked once, in the client's order                *)
(* (responses.go:157, anthropic.go:245).                                   *)
THEOREM RequestsFaithful == TranslationSpec => []RequestFaithful
<1>1. RequestInv => RequestFaithful
  <2> SUFFICES ASSUME RequestInv PROVE RequestFaithful
    OBVIOUS
  <2> DEFINE G == Groups
             n == talk.asked
  <2>1. Numbered(G, n) /\ Answered(msgs)
    BY DEF RequestInv
  <2>2. \A i \in DOMAIN msgs : msgs[i].role = "tool" =>
          \E j \in 1..(i - 1) :
            /\ msgs[i].answers \in ToSet(msgs[j].calls)
            /\ \A k \in (j + 1)..(i - 1) : msgs[k].role = "tool"
    BY <2>1 DEF Answered
  <2>3. UNION {ToSet(G[i]) : i \in DOMAIN G} = 1..n
    <3> HIDE DEF G, n
    <3>1. ASSUME NEW i \in DOMAIN G, NEW x \in ToSet(G[i]) PROVE x \in 1..n
      BY <2>1 DEF Numbered, ToSet
    <3>2. ASSUME NEW x \in 1..n PROVE \E i \in DOMAIN G : x \in ToSet(G[i])
      BY <2>1 DEF Numbered, ToSet
    <3> QED
      BY <3>1, <3>2
  <2>4. \A i, j \in DOMAIN G : \A m \in DOMAIN G[i], k \in DOMAIN G[j] :
          i < j \/ (i = j /\ m < k) => G[i][m] < G[j][k]
    <3> HIDE DEF G
    <3> QED
      BY <2>1 DEF Numbered
  <2> QED
    BY <2>2, <2>3, <2>4 DEF RequestFaithful
<1> QED
  BY <1>1, RequestHolds, PTL
=============================================================================
