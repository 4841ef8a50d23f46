---------------------------- MODULE SideMessages ----------------------------
(***************************************************************************)
(* Messages that no run of the agent makes: the output of commands the     *)
(* user types and the messages of extensions (recordBashResult,            *)
(* sendCustomMessage, prompt and newSession of                             *)
(* packages/coding-agent/src/core/agent-session.ts).  They come whenever   *)
(* they like, while the agent runs and its events wait to be stored.       *)
(***************************************************************************)
EXTENDS Integers, Sequences

CONSTANTS MaxSide,       \* bound on these messages
          MaxTranscript, \* bound on the length of the transcript
          MaxSessions,   \* bound on the sessions
          SlowHandlers,  \* whether one may come while events wait
          Hasty          \* whether one starts a run during a prompt, and a
                         \* new session is begun with output pending

VARIABLES transcript,  \* agent.state.messages
          stored,      \* the messages of the session file
          waiting,     \* _agentEventQueue: messages still to be stored
          run,         \* where the run is
          prompting,   \* prompt() awaits a key, a compaction, extensions
          pendingBash, \* _pendingBashMessages
          pendingNext, \* _pendingNextTurnMessages
          steering, followUp,  \* the agent's queues
          session,     \* history: the number of the session
          made         \* history: the session each message was made in

pending == <<pendingBash, pendingNext, steering, followUp>>
vars == <<transcript, stored, waiting, run, prompting, pending, session, made>>

(* A message is its kind and, from the side, its number.                   *)
Of(kind) == [kind |-> kind, id |-> 0]
Side(kind) == [kind |-> kind, id |-> Len(made) + 1]
Message == [kind : {"user", "use", "result", "answer", "error"}, id : {0}]
           \cup [kind : {"bash", "custom"}, id : 1..MaxSide]

TypeOK ==
    /\ \A s \in {transcript, stored, waiting, pendingBash, pendingNext, steering,
                 followUp} : s \in Seq(Message)
    /\ run \in {"none", "poll", "request", "tools"} /\ prompting \in BOOLEAN
    /\ session \in 1..MaxSessions /\ made \in Seq(1..MaxSessions)

Init == /\ transcript = << >> /\ stored = << >> /\ waiting = << >>
        /\ run = "none" /\ prompting = FALSE
        /\ pendingBash = << >> /\ pendingNext = << >>
        /\ steering = << >> /\ followUp = << >>
        /\ session = 1 /\ made = << >>

isStreaming == run # "none"

(* What a caller does comes after the events before it, if handlers do not *)
(* wait for anything.                                                      *)
Settled == SlowHandlers \/ waiting = << >>
-----------------------------------------------------------------------------
(* appendMessage of the agent and of the session, one after the other; and *)
(* a message of the run, which is stored when its event is handled.        *)
AppendNow(messages) == /\ transcript' = transcript \o messages
                       /\ stored' = stored \o messages

Emit(messages) == /\ transcript' = transcript \o messages
                  /\ waiting' = waiting \o messages
                  /\ UNCHANGED stored

(* _processAgentEvent.                                                     *)
Store == /\ waiting # << >> /\ stored' = Append(stored, Head(waiting))
         /\ waiting' = Tail(waiting)
         /\ UNCHANGED <<transcript, run, prompting, pending, session, made>>

RecordBashAtOnce ==  \* mutant: whether the agent runs is not asked
    /\ Len(made) < MaxSide /\ Settled /\ made' = Append(made, session)
    /\ AppendNow(<<Side("bash")>>)
    /\ UNCHANGED <<waiting, run, prompting, pending, session>>

(* recordBashResult: during a run the output has to wait.                  *)
RecordBash ==
    /\ Len(made) < MaxSide /\ Settled /\ made' = Append(made, session)
    /\ IF isStreaming
       THEN pendingBash' = Append(pendingBash, Side("bash")) /\ UNCHANGED <<transcript, stored>>
       ELSE AppendNow(<<Side("bash")>>) /\ UNCHANGED pendingBash
    /\ UNCHANGED <<waiting, run, prompting, pendingNext, steering, followUp, session>>

(* sendCustomMessage: with the next prompt, through the queues of a run,   *)
(* as the prompt of a run, or at once.                                     *)
SendCustomMessage(deliverAs, triggerTurn) ==
    LET message == <<Side("custom")>>
    IN /\ Len(made) < MaxSide /\ Settled /\ made' = Append(made, session)
       /\ IF deliverAs = "nextTurn" THEN
              /\ pendingNext' = pendingNext \o message
              /\ UNCHANGED <<transcript, stored, waiting, run, steering, followUp>>
          ELSE IF isStreaming THEN
              /\ steering' = IF deliverAs = "followUp" THEN steering ELSE steering \o message
              /\ followUp' = IF deliverAs = "followUp" THEN followUp \o message ELSE followUp
              /\ UNCHANGED <<transcript, stored, waiting, run, pendingNext>>
          ELSE /\ IF triggerTurn
                  THEN /\ Hasty \/ ~prompting
                       /\ Emit(message) /\ run' = "poll"
                  ELSE AppendNow(message) /\ UNCHANGED <<waiting, run>>
               /\ UNCHANGED <<pendingNext, steering, followUp>>
       /\ UNCHANGED <<prompting, pendingBash, session>>

PromptKeeping ==  \* mutant: what is flushed is not taken off the list
    /\ ~isStreaming /\ ~prompting /\ Settled
    /\ prompting' = TRUE /\ AppendNow(pendingBash)
    /\ UNCHANGED <<waiting, run, pending, session, made>>

(* prompt(), up to its first await: _flushPendingBashMessages.             *)
Prompt ==
    /\ ~isStreaming /\ ~prompting /\ Settled
    /\ prompting' = TRUE /\ AppendNow(pendingBash) /\ pendingBash' = << >>
    /\ UNCHANGED <<waiting, run, pendingNext, steering, followUp, session, made>>

(* The rest of it, which an agent that runs by now refuses.                *)
Send ==
    /\ prompting /\ prompting' = FALSE /\ pendingNext' = << >>
    /\ IF isStreaming THEN UNCHANGED <<transcript, stored, waiting, run>>
       ELSE Emit(<<Of("user")>> \o pendingNext) /\ run' = "poll"
    /\ UNCHANGED <<pendingBash, steering, followUp, session, made>>

(* No model or no key: prompt() throws, what was flushed stays flushed.    *)
Refuse ==
    /\ prompting /\ prompting' = FALSE
    /\ UNCHANGED <<transcript, stored, waiting, run, pending, session, made>>

(* newSession, when the agent is idle: output that waits stays.            *)
NewSession ==
    /\ ~isStreaming /\ ~prompting /\ Settled /\ (Hasty \/ pendingBash = << >>)
    /\ session < MaxSessions /\ session' = session + 1
    /\ transcript' = << >> /\ stored' = << >>
    /\ pendingNext' = << >> /\ steering' = << >> /\ followUp' = << >>
    /\ UNCHANGED <<waiting, run, prompting, pendingBash, made>>
-----------------------------------------------------------------------------
(* The loop of a run.  It takes what is steered before a request.          *)
Poll ==
    /\ run = "poll" /\ run' = "request" /\ Emit(steering) /\ steering' = << >>
    /\ UNCHANGED <<prompting, pendingBash, pendingNext, followUp, session, made>>

Use ==
    /\ run = "request" /\ run' = "tools" /\ Emit(<<Of("use")>>)
    /\ UNCHANGED <<prompting, pending, session, made>>

Result ==
    /\ run = "tools" /\ run' = "poll" /\ Emit(<<Of("result")>>)
    /\ UNCHANGED <<prompting, pending, session, made>>

(* A good answer ends the run unless something was queued.                 *)
Answer ==
    /\ run = "request"
    /\ IF steering # << >> THEN
           /\ Emit(<<Of("answer")>> \o steering)
           /\ steering' = << >> /\ run' = "request" /\ UNCHANGED followUp
       ELSE /\ Emit(<<Of("answer")>> \o followUp) /\ followUp' = << >>
            /\ run' = IF followUp = << >> THEN "none" ELSE "request"
            /\ UNCHANGED steering
    /\ UNCHANGED <<prompting, pendingBash, pendingNext, session, made>>

(* A request that fails or is aborted ends the run, the queues stay.  A    *)
(* hook that throws does too: the error that is put into the transcript    *)
(* has no event and is not stored.                                         *)
Fail ==
    /\ run = "request" /\ run' = "none" /\ Emit(<<Of("answer")>>)
    /\ UNCHANGED <<prompting, pending, session, made>>

Throw ==
    /\ isStreaming /\ run' = "none" /\ transcript' = Append(transcript, Of("error"))
    /\ UNCHANGED <<stored, waiting, prompting, pending, session, made>>

Next == \/ Store \/ RecordBash \/ Prompt \/ Send \/ Refuse \/ NewSession
        \/ \E deliverAs \in {"steer", "followUp", "nextTurn"} : \E triggerTurn \in BOOLEAN :
              SendCustomMessage(deliverAs, triggerTurn)
        \/ Poll \/ Use \/ Result \/ Answer \/ Fail \/ Throw

Bounded == Len(transcript') <= MaxTranscript

Spec == Init /\ [][Next /\ Bounded]_vars
-----------------------------------------------------------------------------
(* "defer adding to avoid breaking tool_use/tool_result ordering": nothing *)
(* from the side stands between a call and its result, neither in what is  *)
(* sent to the model nor in what a resumed session is built from.          *)
CallsKeepResults ==
    \A s \in {transcript, stored} : \A i \in DOMAIN s :
        s[i].kind = "result" => i > 1 /\ s[i - 1].kind = "use"

(* Memory and file have the same messages in the same order, but for the   *)
(* errors of runs that threw.                                              *)
StoredAsSaid == stored \o waiting = SelectSeq(transcript, LAMBDA m : m.kind # "error")

(* Each message from the side is in the transcript or still to come, once, *)
(* and in the session it was made in.                                      *)
SaidOnce ==
    \A id \in DOMAIN made :
        LET all == transcript \o pendingBash \o pendingNext \o steering \o followUp
            times == Len(SelectSeq(all, LAMBDA m : m.id = id))
        IN times = IF made[id] = session THEN 1 ELSE 0
=============================================================================
