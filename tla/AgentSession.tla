---------------------------- MODULE AgentSession ----------------------------
(***************************************************************************)
(* One AgentSession (packages/coding-agent/src/core/agent-session.ts): the *)
(* queue its agent's events wait in, what it stores of them in the session *)
(* file, automatic retry, automatic and manual compaction, new sessions,   *)
(* and the callers of prompt().                                            *)
(*                                                                         *)
(* The agent is reduced to what the session sees of it: a run sends        *)
(* requests, its messages enter the transcript as they end, and it is over *)
(* when its last answer is (module Agent has the rest).  Of the events,    *)
(* those the session acts on are kept; message_start and message_end of a  *)
(* user message are one.  Extensions may be slow: an event stays in the    *)
(* queue for as long as its handler waits.                                 *)
(***************************************************************************)
EXTENDS Integers, Sequences, FiniteSets, SequencesExt

CONSTANTS Caller,      \* the concurrent calls of prompt()
          MaxRetries,  \* settings: retry.maxRetries
          Patient      \* prompts and answers take their time (Calm, Unhasty)

ASSUME RetriesAssumption == MaxRetries \in Nat

ASSUME CallerAssumption == Caller \cap {"queue", "manual"} = {}

VARIABLES
  (* the agent                                                             *)
  run,       \* idle, request (an answer is awaited) or tool
  aborted,   \* the run's signal is aborted
  messages,  \* agent.state.messages
  queued,    \* how many steering messages wait in the agent
  (* events                                                                *)
  connected,      \* the session listens to the agent
  events,         \* _agentEventQueue, the event being handled first
  handler,        \* what the handler of that event waits for
  lastAssistant,  \* _lastAssistantMessage
  (* retry                                                                 *)
  retryAttempt,   \* _retryAttempt
  retryPromise,   \* _retryPromise is there, unresolved
  timers,         \* agent.continue() calls left to setTimeout
  (* compaction                                                            *)
  overflowRecoveryAttempted,  \* _overflowRecoveryAttempted
  controller,     \* _autoCompactionAbortController
  compacting,     \* the compactions in progress, by who runs them
  (* callers and files                                                     *)
  prompts,        \* where each call of prompt() is
  switching,      \* newSession() waits for the agent to be idle
  files,          \* the entries of each session
  file,           \* the session in use
  history         \* history: the kinds of all that was said and compacted

agentVars == <<run, aborted, messages, queued>>
eventVars == <<connected, events, handler, lastAssistant>>
retryVars == <<retryAttempt, retryPromise, timers>>
compactionVars == <<overflowRecoveryAttempted, controller, compacting>>
callerVars == <<prompts, switching>>
fileVars == <<files, file>>
vars == <<agentVars, eventVars, retryVars, compactionVars, callerVars, fileVars,
          history>>

(* Answers end a run or a turn; full is an answer whose usage is over the  *)
(* compaction threshold.  Errors are the answers with stopReason error.    *)
Answers == {"answer", "full"}
Errors == {"retryable", "fatal", "overflow", "thrown"}
Assistant == Answers \cup Errors \cup {"toolUse", "aborted", "stopped"}

(* What a run that throws leaves in the transcript, unannounced: thrown,   *)
(* or stopped if it was aborted.                                           *)
Unannounced == {"thrown", "stopped"}

(* Who runs a compaction: the event queue, a call of prompt() before it    *)
(* sends, or compact().                                                    *)
Automatic == Caller \cup {"queue"}
Compactor == Automatic \cup {"manual"}

None == [id |-> 0, kind |-> "none", of |-> 0]
NoCompaction == [step |-> "none", reason |-> "none", of |-> 0, base |-> 0, kept |-> 0]

Init == /\ run = "idle" /\ aborted = FALSE /\ messages = << >> /\ queued = 0
        /\ connected = TRUE /\ events = << >> /\ handler = "ready"
        /\ lastAssistant = None
        /\ retryAttempt = 0 /\ retryPromise = FALSE /\ timers = 0
        /\ overflowRecoveryAttempted = FALSE /\ controller = "undefined"
        /\ compacting = [k \in Compactor |-> NoCompaction]
        /\ prompts = [p \in Caller |-> "idle"] /\ switching = FALSE
        /\ files = << << >> >> /\ file = 1
        /\ history = << >>
-----------------------------------------------------------------------------
(* With Patient, a call of prompt() goes on when what was said before is   *)
(* dealt with, and a run outlasts the timers (of 100 ms at most) that were *)
(* set before it.                                                          *)
Calm == events = << >> /\ \A k \in Automatic : compacting[k] = NoCompaction
Settling == Patient => Calm /\ run = "idle" /\ timers = 0
Unhasty == Patient => timers = 0

(* Timestamps: the place of a message or a compaction in history.          *)
clock == Len(history) + 1

(* The agent says messages of these kinds, one after the other, and the    *)
(* session hears of them if it listens.                                    *)
Said(kinds) == [i \in DOMAIN kinds |->
                  [id |-> clock + i - 1, kind |-> kinds[i], of |-> file]]

Say(kinds) == /\ messages' = messages \o Said(kinds)
              /\ history' = history \o kinds

MessageEvents(kinds) ==
    [i \in DOMAIN kinds |-> [type |-> "message", message |-> Said(kinds)[i]]]

Publish(es) == events' = IF connected THEN events \o es ELSE events

(* A poll of the steering queue, one at a time.                            *)
Polled == IF queued > 0 THEN <<"user">> ELSE << >>

(* Agent._runLoop with these prompts.                                      *)
StartRun(kinds) ==
    /\ run = "idle"
    /\ Say(kinds \o Polled)
    /\ Publish(MessageEvents(kinds \o Polled))
    /\ run' = "request"
    /\ aborted' = FALSE
    /\ queued' = queued - Len(Polled)

(* _resolveRetry: the calls in waitForRetry return.                        *)
Resolve == /\ retryPromise' = FALSE
           /\ prompts' = [p \in Caller |->
                IF prompts[p] = "retry" THEN "idle" ELSE prompts[p]]

(* The run is over: _createRetryPromiseForAgentEnd runs as agent_end is    *)
(* emitted, and the caller of agent.prompt() goes on to waitForRetry().    *)
EndOfRun(mayPass) ==
    /\ run' = "idle"
    /\ aborted' = FALSE
    /\ retryPromise' = (retryPromise \/ (connected /\ mayPass))
    /\ prompts' = [p \in Caller |->
         IF prompts[p] # "running" THEN prompts[p]
         ELSE IF retryPromise' THEN "retry" ELSE "idle"]

(* The answer to a request.  When it ends the run, agent_end comes with it. *)
Respond(kind) ==
    /\ run = "request"
    /\ Unhasty
    /\ kind = "aborted" => aborted
    /\ LET said == <<kind>> \o IF kind \in Answers THEN Polled ELSE << >>
           more == kind = "toolUse" \/ Len(said) > 1
       IN /\ Say(said)
          /\ Publish(MessageEvents(said)
                     \o IF more THEN << >> ELSE <<[type |-> "agent_end"]>>)
          /\ queued' = queued - (Len(said) - 1)
          /\ IF more
             THEN /\ run' = IF kind = "toolUse" THEN "tool" ELSE "request"
                  /\ UNCHANGED <<aborted, retryPromise, prompts>>
             ELSE EndOfRun(kind = "retryable")
    /\ UNCHANGED <<connected, handler, lastAssistant, retryAttempt,
                   timers, compactionVars, switching, fileVars>>

(* A hook, the conversion of the messages or the lookup of the key throws: *)
(* the error enters the transcript, and agent_end alone is emitted.  Its   *)
(* text may be that of an error worth a retry.                             *)
RunThrows(mayPass) ==
    /\ run # "idle"
    /\ Unhasty
    /\ Say(<<IF aborted THEN "stopped" ELSE "thrown">>)
    /\ Publish(<<[type |-> "agent_end"]>>)
    /\ EndOfRun(mayPass /\ ~aborted)
    /\ UNCHANGED <<queued, connected, handler, lastAssistant, retryAttempt,
                   timers, compactionVars, switching, fileVars>>

(* The tools of the turn ran and the steering queue is polled.  (When an   *)
(* extension handles tool_call they wait for the event queue before they   *)
(* run; here they may or may not.)                                         *)
FinishTools ==
    /\ run = "tool"
    /\ Say(<<"toolResult">> \o Polled)
    /\ Publish(MessageEvents(<<"toolResult">> \o Polled))
    /\ run' = "request"
    /\ queued' = queued - Len(Polled)
    /\ UNCHANGED <<aborted, connected, handler, lastAssistant, retryVars,
                   compactionVars, callerVars, fileVars>>

(* agent.continue() left to a timer: it throws, and the error is dropped,  *)
(* while a run goes on, on an empty transcript, and after an answer when   *)
(* no message waits.                                                       *)
Continue ==
    /\ timers > 0
    /\ timers' = timers - 1
    /\ IF /\ run = "idle"
          /\ messages # << >>
          /\ Last(messages).kind \in Assistant => queued > 0
       THEN StartRun(<< >>)
       ELSE UNCHANGED <<agentVars, events, history>>
    /\ UNCHANGED <<connected, handler, lastAssistant, retryAttempt,
                   retryPromise, compactionVars, callerVars, fileVars>>
-----------------------------------------------------------------------------
(* The part of a session file the model is shown (buildSessionContext).    *)
Compactions(log) == {i \in DOMAIN log : log[i].kind = "compaction"}

Context(log) ==
    LET Told(s) == SelectSeq(s, LAMBDA e : e.kind # "compaction")
        at == CHOOSE i \in Compactions(log) : \A j \in Compactions(log) : j <= i
        keeps == {i \in 1 .. at - 1 : log[i].id = log[at].kept}
    IN IF Compactions(log) = {} THEN log
       ELSE <<[id |-> log[at].id, kind |-> "summary", of |-> log[at].of]>>
            \o Told([i \in 1 .. Len(log) |->
                 IF i > at \/ \E k \in keeps : i >= k THEN log[i] ELSE log[at]])

(* When the latest compaction of a file was made, and which.               *)
LatestCompaction(log) ==
    IF Compactions(log) = {} THEN 0
    ELSE log[CHOOSE i \in Compactions(log) : \A j \in Compactions(log) : j <= i].id

(* The failed answer is taken out of the transcript, if it is still last.  *)
DropAnswer(s) ==
    IF s # << >> /\ Last(s).kind \in Assistant THEN Front(s) ELSE s

(* estimateContextTokens: the usage of the last answer that has one.       *)
UsageAt == {i \in DOMAIN messages : messages[i].kind \in Answers \cup {"toolUse"}}

OverThreshold(m) ==
    IF m.kind \in Errors
    THEN \E i \in UsageAt : /\ \A j \in UsageAt : j <= i
                            /\ messages[i].kind = "full"
                            /\ messages[i].id > LatestCompaction(files[file])
    ELSE m.kind = "full"

(* What _checkCompaction finds.                                            *)
CompactionReason(m, skipAborted) ==
    CASE \/ skipAborted /\ m.kind = "aborted"
         \/ m.id < LatestCompaction(files[file]) -> "none"
      [] m.kind = "overflow" -> IF overflowRecoveryAttempted THEN "none"
                                                             ELSE "overflow"
      [] OTHER -> IF OverThreshold(m) THEN "threshold" ELSE "none"

CheckCompactionAgain(k, why) ==  \* mutant: the recovery is not remembered
    IF why = "none" THEN UNCHANGED <<compactionVars, messages>>
    ELSE /\ overflowRecoveryAttempted' = overflowRecoveryAttempted
         /\ messages' = IF why = "overflow" THEN DropAnswer(messages) ELSE messages
         /\ controller' = "live"
         /\ compacting' = [compacting EXCEPT
              ![k] = [NoCompaction EXCEPT !.step = "key", !.reason = why]]

(* _checkCompaction up to the first await of _runAutoCompaction.           *)
CheckCompaction(k, why) ==
    IF why = "none" THEN UNCHANGED <<compactionVars, messages>>
    ELSE /\ overflowRecoveryAttempted' = (overflowRecoveryAttempted \/ why = "overflow")
         /\ messages' = IF why = "overflow" THEN DropAnswer(messages) ELSE messages
         /\ controller' = "live"
         /\ compacting' = [compacting EXCEPT
              ![k] = [NoCompaction EXCEPT !.step = "key", !.reason = why]]
-----------------------------------------------------------------------------
ProcessMessageResets ==  \* mutant: a failed answer ends the retries too
    /\ events # << >>
    /\ handler = "ready"
    /\ Head(events).type = "message"
    /\ LET m == Head(events).message
           good == m.kind \in Assistant
       IN /\ files' = [files EXCEPT ![file] = Append(@, m)]
          /\ lastAssistant' = IF m.kind \in Assistant THEN m ELSE lastAssistant
          /\ overflowRecoveryAttempted' =
               (overflowRecoveryAttempted /\ ~good /\ m.kind # "user")
          /\ IF good /\ retryAttempt > 0
             THEN retryAttempt' = 0 /\ Resolve
             ELSE UNCHANGED <<retryAttempt, retryPromise, prompts>>
    /\ events' = Tail(events)
    /\ UNCHANGED <<agentVars, connected, handler, timers, controller, compacting,
                   switching, file, history>>

ProcessMessageUnqueued ==  \* mutant: a handler does not wait for the ones before
    \E i \in DOMAIN events :
        /\ i > 1 \/ handler = "ready"
        /\ events[i].type = "message"
        /\ files' = [files EXCEPT ![file] = Append(@, events[i].message)]
        /\ lastAssistant' = IF events[i].message.kind \in Assistant
                            THEN events[i].message ELSE lastAssistant
        /\ events' = RemoveAt(events, i)
        /\ UNCHANGED <<agentVars, connected, handler, retryVars, compactionVars,
                       callerVars, file, history>>

(* message_end: the message is stored.  A user message or an answer lets   *)
(* an overflow be recovered from again; an answer ends the retries.        *)
ProcessMessage ==
    /\ events # << >>
    /\ handler = "ready"
    /\ Head(events).type = "message"
    /\ LET m == Head(events).message
           good == m.kind \in Assistant \ Errors
       IN /\ files' = [files EXCEPT ![file] = Append(@, m)]
          /\ lastAssistant' = IF m.kind \in Assistant THEN m ELSE lastAssistant
          /\ overflowRecoveryAttempted' =
               (overflowRecoveryAttempted /\ ~good /\ m.kind # "user")
          /\ IF good /\ retryAttempt > 0
             THEN retryAttempt' = 0 /\ Resolve
             ELSE UNCHANGED <<retryAttempt, retryPromise, prompts>>
    /\ events' = Tail(events)
    /\ UNCHANGED <<agentVars, connected, handler, timers,
                   controller, compacting, switching, file, history>>

(* The handler of agent_end is done.  (_lastAssistantMessage is cleared    *)
(* when it begins; nothing reads it before it is done.)                    *)
Done == /\ events' = Tail(events)
        /\ handler' = "ready"
        /\ lastAssistant' = None

RunEnded == /\ events # << >>
            /\ handler = "ready"
            /\ Head(events).type = "agent_end"

(* What agent_end does once the retries are dealt with.                    *)
ReviewRun ==
    LET why == CompactionReason(lastAssistant, TRUE)
    IN /\ CheckCompaction("queue", why)
       /\ IF why = "none" THEN Done
          ELSE handler' = "compacting" /\ UNCHANGED <<events, lastAssistant>>

(* agent_end after a failure that may pass: _handleRetryableError, up to   *)
(* its sleep.                                                              *)
RetryLater ==
    /\ RunEnded
    /\ lastAssistant.kind = "retryable"
    /\ retryAttempt < MaxRetries
    /\ retryAttempt' = retryAttempt + 1
    /\ retryPromise' = TRUE
    /\ messages' = DropAnswer(messages)
    /\ handler' = "sleeping"
    /\ UNCHANGED <<run, aborted, queued, connected, events, lastAssistant,
                   timers, compactionVars, callerVars, fileVars, history>>

(* agent_end otherwise: no answer to look at, retries used up, or an answer *)
(* that needs no retry.                                                    *)
EndRun ==
    /\ RunEnded
    /\ lastAssistant.kind = "retryable" => retryAttempt >= MaxRetries
    /\ IF lastAssistant.kind = "retryable"
       THEN retryAttempt' = 0 /\ Resolve
       ELSE UNCHANGED <<retryAttempt, retryPromise, prompts>>
    /\ IF lastAssistant = None
       THEN Done /\ UNCHANGED <<compactionVars, messages>>
       ELSE ReviewRun
    /\ UNCHANGED <<run, aborted, queued, connected, timers,
                   switching, fileVars, history>>

(* The delay is over and continue() is left to a timer.                    *)
SleepEnds ==
    /\ handler = "sleeping"
    /\ timers' = timers + 1
    /\ Done
    /\ UNCHANGED <<agentVars, connected, retryAttempt, retryPromise,
                   compactionVars, callerVars, fileVars, history>>

(* The sleep was aborted.                                                  *)
RetryCancelled ==
    /\ handler = "cancelled"
    /\ retryAttempt' = 0
    /\ Resolve
    /\ ReviewRun
    /\ UNCHANGED <<run, aborted, queued, connected, timers,
                   switching, fileVars, history>>
-----------------------------------------------------------------------------
(* abortRetry                                                              *)
StopRetry == /\ handler' = IF handler = "sleeping" THEN "cancelled" ELSE handler
             /\ Resolve

AbortRetry ==
    /\ StopRetry
    /\ UNCHANGED <<agentVars, connected, events, lastAssistant, retryAttempt,
                   timers, compactionVars, switching, fileVars, history>>

(* The first half of abort(); the second waits for the agent to be idle.   *)
StopAll == /\ StopRetry
           /\ aborted' = (run # "idle")

Abort ==
    /\ StopAll
    /\ UNCHANGED <<run, messages, queued, connected, events, lastAssistant,
                   retryAttempt, timers, compactionVars, switching,
                   fileVars, history>>

(* newSession: stop listening, abort and, when the agent is idle, start    *)
(* over and listen again.                                                  *)
NewSession ==
    /\ ~switching
    /\ switching' = TRUE
    /\ connected' = FALSE
    /\ StopAll
    /\ UNCHANGED <<run, messages, queued, events, lastAssistant, retryAttempt,
                   timers, compactionVars, fileVars, history>>

StartSession ==
    /\ switching
    /\ run = "idle"
    /\ switching' = FALSE
    /\ connected' = TRUE
    /\ messages' = << >>
    /\ queued' = 0
    /\ files' = Append(files, << >>)
    /\ file' = Len(files) + 1
    /\ UNCHANGED <<run, aborted, events, handler, lastAssistant, retryVars,
                   compactionVars, prompts, history>>
-----------------------------------------------------------------------------
(* prompt() while a run goes on, with streamingBehavior steer.             *)
Steer ==
    /\ run # "idle"
    /\ queued' = queued + 1
    /\ UNCHANGED <<run, aborted, messages, eventVars, retryVars, compactionVars,
                   callerVars, fileVars, history>>

(* prompt() otherwise: the API key is asked for.                           *)
Prompt(p) ==
    /\ prompts[p] = "idle"
    /\ run = "idle"
    /\ prompts' = [prompts EXCEPT ![p] = "key"]
    /\ UNCHANGED <<agentVars, eventVars, retryVars, compactionVars, switching,
                   fileVars, history>>

(* There is no key: prompt() throws.                                       *)
Refuse(p) ==
    /\ prompts[p] = "key"
    /\ prompts' = [prompts EXCEPT ![p] = "idle"]
    /\ UNCHANGED <<agentVars, eventVars, retryVars, compactionVars, switching,
                   fileVars, history>>

(* The transcript's last answer, failed or not, may call for a compaction. *)
CheckFirst(p) ==
    /\ prompts[p] = "key"
    /\ Settling
    /\ LET said == SelectSeq(messages, LAMBDA m : m.kind \in Assistant)
           why == IF said = << >> THEN "none"
                  ELSE CompactionReason(Last(said), FALSE)
       IN /\ CheckCompaction(p, why)
          /\ prompts' = [prompts EXCEPT
               ![p] = IF why = "none" THEN "ready" ELSE "compacting"]
    /\ UNCHANGED <<run, aborted, queued, eventVars, retryVars, switching, fileVars,
                   history>>

(* agent.prompt(), which throws when a run was started meanwhile.          *)
Send(p) ==
    /\ prompts[p] = "ready"
    /\ Patient /\ run = "idle" => Calm
    /\ IF run = "idle"
       THEN /\ StartRun(<<"user">>)
            /\ prompts' = [prompts EXCEPT ![p] = "running"]
       ELSE /\ prompts' = [prompts EXCEPT ![p] = "idle"]
            /\ UNCHANGED <<agentVars, events, history>>
    /\ UNCHANGED <<connected, handler, lastAssistant, retryVars,
                   compactionVars, switching, fileVars>>
-----------------------------------------------------------------------------
(* compact(): stop listening, abort, wait for the agent to be idle.        *)
Compact ==
    /\ compacting["manual"].step = "none"
    /\ compacting' = [compacting EXCEPT !["manual"].step = "waiting"]
    /\ connected' = FALSE
    /\ StopAll
    /\ UNCHANGED <<run, messages, queued, events, lastAssistant, retryAttempt,
                   timers, overflowRecoveryAttempted, controller,
                   switching, fileVars, history>>

CompactIdle ==
    /\ compacting["manual"].step = "waiting"
    /\ run = "idle"
    /\ compacting' = [compacting EXCEPT !["manual"].step = "key",
                                        !["manual"].reason = "manual"]
    /\ UNCHANGED <<agentVars, eventVars, retryVars, overflowRecoveryAttempted,
                   controller, callerVars, fileVars, history>>

(* prepareCompaction reads the branch and chooses what to keep of it, then *)
(* the summary is asked for.  The signal is read from the field.           *)
Prepare(k) ==
    /\ compacting[k].step = "key"
    /\ k \in Automatic => controller # "undefined"
    /\ files[file] # << >>
    /\ Last(files[file]).kind # "compaction"
    /\ \E i \in DOMAIN files[file] :
         /\ files[file][i].kind \in Assistant \cup {"user"}
         /\ compacting' = [compacting EXCEPT
              ![k].step = "summary", ![k].of = file,
              ![k].base = LatestCompaction(files[file]), ![k].kept = files[file][i].id]
    /\ UNCHANGED <<agentVars, eventVars, retryVars, overflowRecoveryAttempted,
                   controller, callerVars, fileVars, history>>

(* The finally block, and the code that waited for the compaction.         *)
Release(k) ==
    /\ compacting' = [compacting EXCEPT ![k] = NoCompaction]
    /\ controller' = IF k \in Automatic THEN "undefined" ELSE controller
    /\ connected' = (connected \/ k = "manual")
    /\ IF k = "queue" THEN Done ELSE UNCHANGED <<events, handler, lastAssistant>>
    /\ prompts' = IF k \in Caller THEN [prompts EXCEPT ![k] = "ready"] ELSE prompts

(* No key, nothing to compact, the summary failed, abortCompaction, or the *)
(* controller is gone.                                                     *)
GiveUp(k) ==
    /\ compacting[k].step \in {"key", "summary"}
    /\ Release(k)
    /\ UNCHANGED <<agentVars, retryVars, overflowRecoveryAttempted, switching,
                   fileVars, history>>

ReloadedEarly(log, why) ==  \* mutant: the context is built before the entry is stored
    LET told == Context(Front(log))
    IN IF why = "overflow" /\ Last(told).kind \in Errors THEN Front(told) ELSE told

(* The transcript after a compaction is what the file says, without the    *)
(* answer that overflowed.                                                 *)
Reloaded(log, why) ==
    LET told == Context(log)
    IN IF why = "overflow" /\ Last(told).kind \in Errors THEN Front(told) ELSE told

(* The summary is there: the compaction is stored, the transcript becomes  *)
(* what the file now says, and after an overflow, or when messages wait,   *)
(* continue() is left to a timer.                                          *)
AppendCompaction(k) ==
    /\ compacting[k].step = "summary"
    /\ k \in Automatic => controller = "live"
    /\ LET why == compacting[k].reason
           entry == [id |-> clock, kind |-> "compaction", reason |-> why,
                     of |-> compacting[k].of, base |-> compacting[k].base,
                     kept |-> compacting[k].kept]
       IN /\ files' = [files EXCEPT ![file] = Append(@, entry)]
          /\ messages' = Reloaded(Append(files[file], entry), why)
          /\ timers' = IF why = "overflow" \/ (why = "threshold" /\ queued > 0)
                       THEN timers + 1 ELSE timers
    /\ history' = Append(history, IF compacting[k].reason = "overflow" THEN "recovery"
                                  ELSE "compaction")
    /\ Release(k)
    /\ UNCHANGED <<run, aborted, queued, retryAttempt, retryPromise,
                   overflowRecoveryAttempted, switching, file>>
-----------------------------------------------------------------------------
Next == \/ \E kind \in Assistant \ Unannounced : Respond(kind)
        \/ \E mayPass \in BOOLEAN : RunThrows(mayPass)
        \/ FinishTools
        \/ Continue
        \/ ProcessMessage
        \/ RetryLater
        \/ EndRun
        \/ SleepEnds
        \/ RetryCancelled
        \/ AbortRetry
        \/ Abort
        \/ NewSession
        \/ StartSession
        \/ Steer
        \/ \E p \in Caller : Prompt(p) \/ Refuse(p) \/ CheckFirst(p) \/ Send(p)
        \/ Compact
        \/ CompactIdle
        \/ \E k \in Compactor : Prepare(k) \/ GiveUp(k) \/ AppendCompaction(k)

(* The provider answers, tools end, timers fire, and the continuations of  *)
(* the session's own code run.                                             *)
Fairness ==
    /\ WF_vars(\E kind \in Assistant \ Unannounced : Respond(kind))
    /\ WF_vars(FinishTools)
    /\ WF_vars(Continue)
    /\ WF_vars(ProcessMessage \/ RetryLater \/ EndRun \/ SleepEnds \/ RetryCancelled)
    /\ WF_vars(StartSession)
    /\ WF_vars(CompactIdle)
    /\ \A p \in Caller : WF_vars(Refuse(p) \/ CheckFirst(p) \/ Send(p))
    /\ \A k \in Compactor : WF_vars(GiveUp(k) \/ AppendCompaction(k))

Spec == Init /\ [][Next]_vars /\ Fairness
-----------------------------------------------------------------------------
Spot == [id : Nat, kind : Assistant \cup {"user", "toolResult", "summary"}, of : Nat]

CompactionEntry == [id : Nat, kind : {"compaction"}, of : Nat, base : Nat, kept : Nat,
                    reason : {"overflow", "threshold", "manual"}]

(* Every variable has its type, and a handler waits for an event only.     *)
TypeOK ==
    /\ run \in {"idle", "request", "tool"} /\ aborted \in BOOLEAN
    /\ messages \in Seq(Spot) /\ queued \in Nat
    /\ connected \in BOOLEAN
    /\ events \in Seq([type : {"message"}, message : Spot] \cup [type : {"agent_end"}])
    /\ handler \in {"ready", "sleeping", "cancelled", "compacting"}
    /\ handler # "ready" => events # << >> /\ Head(events).type = "agent_end"
    /\ lastAssistant \in Spot \cup {None}
    /\ retryAttempt \in 0 .. MaxRetries /\ retryPromise \in BOOLEAN
    /\ timers \in Nat
    /\ overflowRecoveryAttempted \in BOOLEAN
    /\ controller \in {"undefined", "live"}
    /\ compacting \in [Compactor -> [step : {"none", "waiting", "key", "summary"},
                          reason : {"none", "overflow", "threshold", "manual"},
                          of : Nat, base : Nat, kept : Nat]]
    /\ prompts \in [Caller -> {"idle", "key", "compacting", "ready", "running", "retry"}]
    /\ switching \in BOOLEAN
    /\ files \in Seq(Seq(Spot \cup CompactionEntry)) /\ file \in DOMAIN files
    /\ history \in Seq(Assistant \cup {"user", "toolResult", "recovery", "compaction"})

(* If prompts and answers take their time (Patient): whatever the order of *)
(* failures, cancellations, sessions and compactions, the provider is      *)
(* never asked more than MaxRetries times again in a row.                  *)
NoRetryStorm ==
    \A i, j \in DOMAIN history :
        (i <= j /\ \A n \in i .. j : history[n] = "retryable") => j - i <= MaxRetries

(* On the same terms, a context that overflows again after a compaction    *)
(* for overflowing is not compacted for it once more before the user or    *)
(* the model has said something new.                                       *)
RecoveredOnce ==
    \A i, j \in DOMAIN history :
        (i < j /\ history[i] = "recovery" /\ history[j] = "recovery")
            => \E n \in i .. j : history[n] \in {"user", "aborted", "toolUse"} \cup Answers

(* Messages are stored once, in the order they were said, over all files.  *)
StoredInOrder ==
    \A f, g \in DOMAIN files : \A i \in DOMAIN files[f], j \in DOMAIN files[g] :
        /\ f < g \/ (f = g /\ i < j)
        /\ files[f][i].kind # "compaction"
        /\ files[g][j].kind # "compaction"
        => files[f][i].id < files[g][j].id

(* The transcript, what the model is shown, has only what was said in the  *)
(* session in use.                                                         *)
FreshSession == \A i \in DOMAIN messages : messages[i].of = file

(* prompt() returns.                                                       *)
PromptReturns == \A p \in Caller : (prompts[p] # "idle") ~> (prompts[p] = "idle")
=============================================================================
