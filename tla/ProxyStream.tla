----------------------------- MODULE ProxyStream -----------------------------
(***************************************************************************)
(* An answer of the model that comes through a server: api/stream.ts sends *)
(* the events of the provider without the message so far, streamProxy      *)
(* (packages/agent/src/proxy.ts) puts the message together again and gives *)
(* it to the agent loop.  Both ends share the connection only; the loop    *)
(* shares the message under construction with streamProxy.  A text is      *)
(* known by the number of its deltas.                                      *)
(***************************************************************************)
EXTENDS Naturals, Sequences, SequencesExt

CONSTANTS Kind,        \* kinds of content blocks the provider sends
          Withheld,    \* those whose events toProxyEvent drops
          MaxBlocks, MaxDeltas,
          CleanCuts,   \* whether a response cut short may end like a complete one
          SlowClose    \* whether the response may stay open after its last event

VARIABLES
  served,   \* the message as the provider has it
  serving,  \* "no", "blocks", "block" or "finished": what the provider is at
  conn,     \* "asked", "open", "closed" or "broken"
  wire,     \* lines sent and not read
  half,     \* buffer: the first of them has been read in part
  partial,  \* the message under construction
  ended,    \* stream.end() was called
  answer,   \* what the stream's result was when it was resolved
  aborted   \* the signal

vars == <<served, serving, conn, wire, half, partial, ended, answer, aborted>>

Block == [kind : Kind \cup {"hole"}, text : 0..MaxDeltas]
Message == [content : Seq(Block), reason : {"stop", "error", "aborted"}]
None == [content |-> << >>, reason |-> "none"]
Hole == [kind |-> "hole", text |-> 0]

TypeOK ==
    /\ served \in Seq(Block) /\ serving \in {"no", "blocks", "block", "finished"}
    /\ conn \in {"asked", "open", "closed", "broken"} /\ half \in BOOLEAN
    /\ partial \in Message /\ answer \in Message \cup {None}
    /\ ended \in BOOLEAN /\ aborted \in BOOLEAN
    /\ half => conn # "asked"

Init ==
    /\ served = << >> /\ serving = "no" /\ conn = "asked" /\ wire = << >> /\ half = FALSE
    /\ partial = [content |-> << >>, reason |-> "stop"] /\ ended = FALSE
    /\ answer = None /\ aborted = FALSE
-----------------------------------------------------------------------------
(* The server: POST, with toProxyEvent.                                    *)
client == <<half, partial, ended, answer, aborted>>

Send(type, kind, index) ==
    wire' = IF kind \in Withheld THEN wire
            ELSE Append(wire, [type |-> type, kind |-> kind, index |-> index])

Accept ==
    /\ conn = "asked" /\ conn' = "open" /\ serving' = "blocks"
    /\ Send("start", "none", 0)
    /\ UNCHANGED <<served, client>>

StartBlock(kind) ==
    /\ conn = "open" /\ serving = "blocks" /\ Len(served) < MaxBlocks
    /\ serving' = "block" /\ served' = Append(served, [kind |-> kind, text |-> 0])
    /\ Send("block_start", kind, Len(served) + 1)
    /\ UNCHANGED <<conn, client>>

Delta ==
    /\ conn = "open" /\ serving = "block" /\ Last(served).text < MaxDeltas
    /\ served' = [served EXCEPT ![Len(served)].text = @ + 1]
    /\ Send("block_delta", Last(served).kind, Len(served))
    /\ UNCHANGED <<serving, conn, client>>

EndBlock ==
    /\ conn = "open" /\ serving = "block" /\ serving' = "blocks"
    /\ Send("block_end", Last(served).kind, Len(served))
    /\ UNCHANGED <<served, conn, client>>

(* The provider's last event, or the one that tells of an exception.       *)
LastEvent(type) ==
    /\ conn = "open"
    /\ type = "done" => serving = "blocks"
    /\ serving \in {"blocks", "block"} /\ serving' = "finished"
    /\ Send(type, "none", 0)
    /\ UNCHANGED <<served, conn, client>>

Close ==
    /\ conn = "open" /\ serving = "finished" /\ conn' = "closed"
    /\ UNCHANGED <<served, serving, wire, client>>

(* The function runs out of time (maxDuration) or the network fails.       *)
Cut ==
    /\ conn = "open" /\ (serving # "finished" \/ SlowClose) /\ serving' = "finished"
    /\ conn' \in {"broken"} \cup IF CleanCuts THEN {"closed"} ELSE {}
    /\ UNCHANGED <<served, wire, client>>
-----------------------------------------------------------------------------
server == <<served, serving>>

(* EventStream.push of a final event: only the first counts.               *)
Resolve(message) == answer' = IF answer = None /\ ~ended THEN message ELSE answer

(* The catch block of streamProxy.                                         *)
Fail(message) ==
    /\ partial' = [message EXCEPT !.reason = IF aborted THEN "aborted" ELSE "error"]
    /\ Resolve(partial') /\ ended' = TRUE

(* An error response, or no response.                                      *)
Refused ==
    /\ conn = "asked" /\ ~ended /\ conn' = "broken"
    /\ Fail(partial) /\ UNCHANGED <<server, wire, half, aborted>>

Placed(content, index, block) ==
    [i \in 1..(IF index > Len(content) THEN index ELSE Len(content)) |->
        IF i = index THEN block ELSE IF i <= Len(content) THEN content[i] ELSE Hole]

(* processProxyEvent.                                                      *)
Process(message, event) ==
    CASE event.type = "block_start" ->
            [message EXCEPT !.content = Placed(@, event.index, [kind |-> event.kind, text |-> 0])]
      [] event.type = "block_delta" -> [message EXCEPT !.content[event.index].text = @ + 1]
      [] event.type = "done" -> [message EXCEPT !.reason = "stop"]
      [] event.type = "error" -> [message EXCEPT !.reason = "error"]
      [] OTHER -> message

(* A plausible bug: what a chunk has after its last line break is lost.    *)
RejoinedNot(lines) == IF half THEN Tail(lines) ELSE lines

(* The lines from here on, the first with what was kept of it in buffer.   *)
Rejoined(lines) == lines

(* A chunk: n lines and perhaps a part of the next.                        *)
Read(n, part) ==
    LET rest == Rejoined(wire)
        lines == SubSeq(rest, 1, n) IN
    /\ conn # "asked" /\ ~ended /\ ~aborted
    /\ n <= Len(rest) /\ (n > 0 \/ (part /\ ~half)) /\ (part => n < Len(rest))
    /\ wire' = SubSeq(rest, n + 1, Len(rest)) /\ half' = part
    /\ partial' = FoldLeft(Process, partial, lines)
    /\ IF lines # << >> /\ Last(lines).type \in {"done", "error"} THEN Resolve(partial')
                                                                  ELSE UNCHANGED answer
    /\ UNCHANGED <<server, conn, ended, aborted>>

(* A plausible bug: an aborted response ends like a complete one.          *)
ReadEndQuiet ==
    /\ conn = "closed" /\ ~ended /\ (wire = << >> \/ aborted)
    /\ ended' = TRUE
    /\ UNCHANGED <<partial, answer, server, conn, wire, half, aborted>>

(* The response is at its end, also when abortHandler cancelled it.        *)
ReadEnd ==
    /\ conn = "closed" /\ ~ended /\ (wire = << >> \/ aborted)
    /\ IF aborted THEN Fail(partial) ELSE ended' = TRUE /\ UNCHANGED <<partial, answer>>
    /\ UNCHANGED <<server, conn, wire, half, aborted>>

ReadFails ==
    /\ conn = "broken" /\ ~ended
    /\ Fail(partial) /\ UNCHANGED <<server, conn, wire, half, aborted>>

(* The user: before the response, fetch rejects; later the reader is       *)
(* cancelled.  At the end of it the handler is removed.                    *)
Abort ==
    /\ ~aborted /\ aborted' = TRUE
    /\ ~SlowClose => answer = None
    /\ conn' = (IF ended THEN conn ELSE IF conn = "asked" THEN "broken" ELSE "closed")
    /\ UNCHANGED <<server, wire, half, partial, ended, answer>>

Next ==
    \/ Accept \/ (\E k \in Kind : StartBlock(k)) \/ Delta \/ EndBlock
    \/ \E type \in {"done", "error"} : LastEvent(type)
    \/ Close \/ Cut
    \/ Refused \/ (\E n \in 0..Len(wire), part \in BOOLEAN : Read(n, part))
    \/ ReadEnd \/ ReadFails \/ Abort

Spec == Init /\ [][Next]_vars
-----------------------------------------------------------------------------
(* What streamProxy puts together is the beginning of what the provider    *)
(* said, wherever chunks begin and end and whenever it is stopped; an      *)
(* answer that stopped by itself is all of it.                             *)
SaysTheSame ==
    /\ Len(partial.content) <= Len(served)
    /\ \A i \in DOMAIN partial.content :
        /\ partial.content[i].kind = served[i].kind
        /\ partial.content[i].text <= served[i].text
    /\ answer.reason = "stop" => answer.content = served

(* The contract of a stream function (packages/agent/src/types.ts): also a *)
(* failure ends the stream with a final message.  The agent loop awaits    *)
(* one, and nothing else wakes it.                                         *)
EndsWithMessage ==
    ended => answer # None

(* A message that was given to the agent as final does not change under    *)
(* it.                                                                     *)
FinalStays ==
    answer # None => partial = answer
=============================================================================
