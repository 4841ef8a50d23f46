--------------------------- MODULE ProviderStreams ---------------------------
(***************************************************************************)
(* How the streams of seven provider protocols become one: the functions   *)
(* stream* of packages/ai/src/providers read the provider's chunks, build  *)
(* the assistant message and push the events from which everybody else     *)
(* (the agent, the user interface, the proxy) follows it.                  *)
(*                                                                         *)
(* The provider says items one after another: text, thinking, a tool call, *)
(* or something else it did on its side (a web search), each in pieces.    *)
(* The protocols differ in how a chunk tells which item it belongs to:     *)
(* "labelled" ones number their items, others leave it to the kind of the  *)
(* chunk or to the identity of the call.                                   *)
(***************************************************************************)
EXTENDS Naturals, Sequences

CONSTANTS Api,       \* the protocols
          MaxItems,  \* bound on the items of a message
          MaxPieces, \* bound on the pieces of an item
          CleanCuts  \* a response that is cut off may look like one that ended

Labelled  == {"anthropic", "bedrock"}
Responses == {"openai-responses", "openai-codex-responses"}
ByKindOnly == {"openai-completions", "google", "mistral"}

Kind == {"text", "thinking", "toolCall"}

VARIABLES
  api,      \* model.api
  items,    \* what the provider has said, by item
  finish,   \* how it says it has finished; "no" before
  content,  \* output.content
  current,  \* currentBlock as its place in content, 0 for null; the labelled
            \* protocols do without
  reason,   \* output.stopReason
  told,     \* what one who only reads the events makes of them
  phase,    \* "streaming", "done" or "error": the last event of the stream
  aborted   \* the signal

vars == <<api, items, finish, content, current, reason, told, phase, aborted>>

NoItem == 0  \* a block without (or no longer with) an index or a key

Block == [kind : Kind, item : 0..MaxItems, text : Seq((1..MaxItems) \X (1..MaxPieces))]

TypeOK ==
    /\ api \in Api
    /\ \A i \in DOMAIN items : /\ items[i].kind \in Kind \cup {"other"}
                               /\ items[i].size \in 0..MaxPieces
                               /\ items[i].open \in BOOLEAN
    /\ Len(items) <= MaxItems
    /\ finish \in {"no", "stop", "length", "error"}
    /\ \A b \in DOMAIN content : content[b].kind \in Kind /\ content[b].item \in 0..MaxItems
    /\ current \in 0..Len(content)
    /\ reason \in {"stop", "length", "toolUse", "error", "aborted"}
    /\ Len(told) = Len(content)
    /\ phase \in {"streaming", "done", "error"}
    /\ aborted \in BOOLEAN

Init == /\ api \in Api
        /\ items = << >>
        /\ finish = "no"
        /\ content = << >>
        /\ current = 0
        /\ reason = "stop"
        /\ told = << >>
        /\ phase = "streaming"
        /\ aborted = FALSE
-----------------------------------------------------------------------------
(* What the adapters do, on a state s of content, told and current.        *)
Now == [content |-> content, told |-> told, current |-> current]

Becomes(s) == content' = s.content /\ told' = s.told /\ current' = s.current

BlockIndex(s) == Len(s.content)

(* A block is pushed, and its start event.                                 *)
Open(s, k, i) == [content |-> Append(s.content, [kind |-> k, item |-> i, text |-> << >>]),
                  told    |-> Append(s.told, [kind |-> k, text |-> << >>, open |-> TRUE]),
                  current |-> BlockIndex(s) + 1]

(* A piece goes to block b, its delta event says block at.                 *)
Add(s, b, at, p) == [s EXCEPT !.content[b].text = Append(@, p),
                              !.told[at].text   = Append(@, p)]

(* The end event for block b says block at and repeats the whole text.     *)
Close(s, b, at) == [s EXCEPT !.told[at].text = s.content[b].text,
                             !.told[at].open = FALSE]

FinishCurrent(s) == IF s.current = 0 THEN s ELSE Close(s, s.current, BlockIndex(s))

KindOf(i) == items[i].kind

(* The block of item i, 0 if there is none.                                *)
BlockOf(s, i) == LET Of == {b \in DOMAIN s.content : s.content[b].item = i}
                 IN IF Of = {} THEN 0 ELSE CHOOSE b \in Of : \A c \in Of : b <= c

(* A chunk whose kind decides: another kind than that of the current block *)
(* starts a new one, and so does a call with another id (first: the piece  *)
(* that names the call; the later ones come without it).                   *)
ByKind(s, i, p, first) ==
    LET fits == /\ s.current # 0
                /\ s.content[s.current].kind = KindOf(i)
                /\ ~(KindOf(i) = "toolCall" /\ first)
        t == IF fits THEN s ELSE Open(FinishCurrent(s), KindOf(i), i)
    IN Add(t, t.current, BlockIndex(t), p)

(* streamGoogle: a function call is a part of its own and complete.        *)
WholeCall(s, i, p) ==
    LET t == Open(FinishCurrent(s), "toolCall", i)
        u == Add(t, t.current, BlockIndex(t), p)
    IN [Close(u, u.current, BlockIndex(u)) EXCEPT !.current = 0]

(* consumeChatStream: calls are found by their key and end with the        *)
(* message.                                                                *)
KeyedCall(s, i, p) ==
    LET f == FinishCurrent(s)
        t == IF BlockOf(s, i) = 0 THEN Open(f, "toolCall", i) ELSE f
        b == BlockOf(t, i)
    IN [Add(t, b, b, p) EXCEPT !.current = 0]

(* Mutant of ByLabel: the provider's index is taken for a place in content,*)
(* which it is not after an item that makes no block.                      *)
ByPlace(s, i, p) ==
    LET t == IF api = "bedrock" /\ BlockOf(s, i) = 0 /\ KindOf(i) \in {"text", "thinking"}
             THEN Open(s, KindOf(i), i) ELSE s
    IN IF i \in DOMAIN t.content THEN Add(t, i, i, p) ELSE t

(* Deltas with an index; those of unknown items find no block.  Bedrock    *)
(* announces calls only: the first delta of another block makes it.        *)
ByLabel(s, i, p) ==
    LET t == IF api = "bedrock" /\ BlockOf(s, i) = 0 /\ KindOf(i) \in {"text", "thinking"}
             THEN Open(s, KindOf(i), i) ELSE s
        b == BlockOf(t, i)
    IN IF b = 0 THEN t ELSE Add(t, b, b, p)

(* processResponsesStream: deltas go to the current block if it is of      *)
(* their kind.                                                             *)
ToCurrent(s, i, p) == IF s.current # 0 /\ s.content[s.current].kind = KindOf(i)
                      THEN Add(s, s.current, BlockIndex(s), p) ELSE s

(* The adapter reads the piece p of item i.                                *)
Read(s, i, p, first) ==
    CASE api \in Labelled -> ByLabel(s, i, p)
      [] api \in Responses -> ToCurrent(s, i, p)
      [] api = "google" /\ KindOf(i) = "toolCall" -> WholeCall(s, i, p)
      [] api = "mistral" /\ KindOf(i) = "toolCall" -> KeyedCall(s, i, p)
      [] OTHER -> ByKind(s, i, p, first)

(* The provider announces item i (content_block_start, output_item.added,  *)
(* contentBlockStart): not in the protocols that go by kind.               *)
Announced(s, k, i) ==
    CASE k = "other" -> s
      [] api \in {"anthropic"} \cup Responses -> Open(s, k, i)
      [] api = "bedrock" /\ k = "toolCall" -> Open(s, k, i)
      [] OTHER -> s

(* It says that item i is complete (content_block_stop, output_item.done,  *)
(* contentBlockStop).                                                      *)
Stopped(s, i) ==
    LET b == IF api \in Labelled THEN BlockOf(s, i) ELSE s.current
    IN CASE b = 0 \/ KindOf(i) = "other" -> s
         [] api \in Labelled -> [Close(s, b, b) EXCEPT !.content[b].item = NoItem]
         [] api \in Responses -> [Close(s, b, BlockIndex(s)) EXCEPT !.current = 0]
         [] OTHER -> s

(* The loop over the chunks is left: what is still open ends.              *)
AllKeyedClosed(s) ==
    [s EXCEPT !.told = [b \in DOMAIN s.told |->
        IF s.content[b].kind = "toolCall"
        THEN [s.told[b] EXCEPT !.text = s.content[b].text, !.open = FALSE]
        ELSE s.told[b]]]

(* Mutant of Left: the current block does not end.                         *)
LeftOpen(s) == IF api = "mistral" THEN AllKeyedClosed(s) ELSE s

Left(s) == CASE api \in {"openai-completions", "google"} -> FinishCurrent(s)
             [] api = "mistral" -> AllKeyedClosed(FinishCurrent(s))
             [] OTHER -> s
-----------------------------------------------------------------------------
(* The provider, as its protocol lets it speak.  External, but for the     *)
(* adapter that reads the chunk.  Labelled items and the calls of mistral  *)
(* may be said at the same time, other items come one after the other.     *)
(* The first piece of an item comes before the next item begins.           *)
Streaming == phase = "streaming" /\ finish = "no"

Beside(k) == \/ api \in Labelled
             \/ api = "mistral" /\ k = "toolCall"

Begin == \E k \in Kind \cup {"other"} :
    /\ Streaming
    /\ Len(items) < MaxItems
    /\ k = "other" => api \notin ByKindOnly
    /\ api \in ByKindOnly /\ k # "toolCall" /\ items # << >> => items[Len(items)].kind # k
    /\ \A i \in DOMAIN items : /\ items[i].size > 0
                               /\ items[i].open => Beside(k) /\ Beside(KindOf(i))
    /\ items' = Append(items, [kind |-> k, size |-> 0, open |-> TRUE])
    /\ Becomes(Announced(Now, k, Len(items) + 1))
    /\ UNCHANGED <<api, finish, reason, phase, aborted>>

Piece(i) ==
    LET n == items[i].size + 1
    IN /\ Streaming
       /\ items[i].open
       /\ n <= MaxPieces
       /\ api = "google" /\ KindOf(i) = "toolCall" => n = 1
       /\ items' = [items EXCEPT ![i].size = n]
       /\ Becomes(Read(Now, i, <<i, n>>, n = 1))
       /\ UNCHANGED <<api, finish, reason, phase, aborted>>

(* An item has a piece before it is complete.                              *)
Stop(i) == /\ Streaming
           /\ items[i].open
           /\ items[i].size > 0
           /\ items' = [items EXCEPT ![i].open = FALSE]
           /\ Becomes(Stopped(Now, i))
           /\ UNCHANGED <<api, finish, reason, phase, aborted>>

(* The chunk that says why it ends (mapStopReason): a response ends with   *)
(* an error of the adapter if it says so.  "stop" becomes "toolUse" where  *)
(* the message has calls; google's becomes that whatever it was.  The      *)
(* chunk of a response that met its limit, response.incomplete, is one     *)
(* processResponsesStream does not know: codex renames it before.          *)
Reason(r) ==
    LET calls == \E b \in DOMAIN content : content[b].kind = "toolCall"
    IN CASE api = "openai-responses" /\ r = "length" -> reason
         [] calls /\ (r = "stop" \/ api = "google") -> "toolUse"
         [] OTHER -> r

Finish(r) == /\ Streaming
             /\ items # << >>
             /\ \A i \in DOMAIN items : ~items[i].open
             /\ finish' = r
             /\ reason' = Reason(r)
             /\ UNCHANGED <<api, items, content, current, told, phase, aborted>>

(* The chunks end: after the last of them, or, where the client library    *)
(* does not notice, because the response was cut off.                      *)
Ends == \/ finish # "no"
        \/ CleanCuts /\ api # "anthropic"

EndOfStream == /\ phase = "streaming"
               /\ Ends
               /\ Becomes(Left(Now))
               /\ IF aborted \/ reason = "error"
                  THEN phase' = "error" /\ reason' = (IF aborted THEN "aborted" ELSE "error")
                  ELSE phase' = "done" /\ UNCHANGED reason
               /\ UNCHANGED <<api, items, finish, aborted>>

(* The connection breaks, the signal cuts it, or an error chunk comes.     *)
Throw == /\ phase = "streaming"
         /\ phase' = "error"
         /\ reason' = IF aborted THEN "aborted" ELSE "error"
         /\ UNCHANGED <<api, items, finish, content, current, told, aborted>>

Abort == /\ ~aborted
         /\ aborted' = TRUE
         /\ UNCHANGED <<api, items, finish, content, current, reason, told, phase>>

Next == \/ Begin
        \/ \E i \in DOMAIN items : Piece(i) \/ Stop(i)
        \/ \E r \in {"stop", "length", "error"} : Finish(r)
        \/ EndOfStream
        \/ Throw
        \/ Abort

Spec == Init /\ [][Next]_vars
-----------------------------------------------------------------------------
(* Who only reads the events knows the message as it is built, block by    *)
(* block, and when it is done has seen the end of each: whatever protocol  *)
(* the chunks come in, with items said beside each other and items that    *)
(* are not for us in between (contentIndex of all stream* functions).      *)
EventsTell ==
    /\ Len(told) = Len(content)
    /\ \A b \in DOMAIN content : /\ told[b].kind = content[b].kind
                                 /\ told[b].text = content[b].text
                                 /\ phase = "done" => ~told[b].open

(* A message that is done is all that the provider said, each piece once   *)
(* and in its place, and the provider had finished it: it is not what had  *)
(* come when the connection went ("done" against "error" at the end of all *)
(* stream* functions).                                                     *)
Told(b) == [kind |-> b.kind, text |-> b.text]
Said(i) == [kind |-> KindOf(i), text |-> [n \in 1..items[i].size |-> <<i, n>>]]
DoneIsWhole ==
    LET ours == SelectSeq([i \in DOMAIN items |-> Said(i)], LAMBDA x : x.kind # "other")
    IN phase = "done" =>
        /\ finish # "no"
        /\ [b \in DOMAIN content |-> Told(content[b])] = ours

(* A message that met the output limit says so: packages/ai/README.md      *)
(* promises "length" then.  Not so for openai-responses, whose reader does *)
(* not know response.incomplete, nor for google when there are calls.      *)
LimitIsTold ==
    phase = "done" /\ finish = "length" =>
        \/ reason = "length"
        \/ api = "openai-responses"
        \/ api = "google" /\ \E b \in DOMAIN content : content[b].kind = "toolCall"
=============================================================================
