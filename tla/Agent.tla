------------------------------- MODULE Agent -------------------------------
(***************************************************************************)
(* The Agent class (packages/agent/src/agent.ts) and the loop it runs      *)
(* (runLoop of packages/agent/src/agent-loop.ts).  Everything happens on   *)
(* one thread, but every await is a point where the application may call   *)
(* steer, abort, reset, prompt..., so each stretch of the loop between two *)
(* awaits that matter is an action, and each public method is an action.   *)
(*                                                                         *)
(* A run is one call of _runLoop.  It works on its own copy of the         *)
(* transcript (ctx), while listeners see the agent's (messages).  A run's  *)
(* name stands for the objects it creates: its runningPrompt promise and   *)
(* its AbortController.  What tool calls do inside one batch is the        *)
(* subject of module ToolExecution; here a batch yields one result.        *)
(***************************************************************************)
EXTENDS Naturals, Sequences, FiniteSets

CONSTANTS Runs,         \* the calls of _runLoop in a behaviour
          NoRun,        \* runningPrompt and abortController when undefined
          CallersWait   \* prompt/continue are called after waitForIdle only

ASSUME NoRunAssumption == NoRun \notin Runs
ASSUME CallersAssumption == CallersWait \in BOOLEAN

VARIABLES messages,       \* _state.messages
          isStreaming,    \* _state.isStreaming
          steeringQueue,
          followUpQueue,
          steeringMode,   \* whether a poll takes "all" or "one-at-a-time"
          followUpMode,
          runningPrompt,  \* the run whose promise waitForIdle returns
          abortController,
          aborted,        \* runs whose signal fired
          run,            \* where each run stands
          nextId,         \* names given to user messages so far
          gone,           \* user messages the application took back
          waiters,        \* promises some caller of waitForIdle awaits
          resolved        \* promises that were resolved

queues == <<steeringQueue, followUpQueue>>
modes == <<steeringMode, followUpMode>>
api == <<nextId, gone, waiters, modes>>
loop == <<runningPrompt, abortController, isStreaming, resolved>>
vars == <<messages, queues, loop, aborted, run, api>>
-----------------------------------------------------------------------------
(* kind: how a user message came in, or why an answer stopped.             *)
User(id, via) == [role |-> "user", id |-> id, kind |-> via]
Assistant(stop) == [role |-> "assistant", id |-> 0, kind |-> stop]
ToolResult == [role |-> "toolResult", id |-> 0, kind |-> "result"]

StopReason == {"stop", "toolUse", "error", "aborted"}
Message == [role : {"user", "assistant", "toolResult"}, id : Nat,
            kind : StopReason \cup {"prompt", "steer", "followUp", "append", "result"}]

(* prompts: messages of prompt() still to be announced.  poll, followUp:   *)
(* about to ask for queued messages.  turn: injecting what was pending.    *)
(* streaming: the LLM answers.  tools: a batch is executed.  ending: about *)
(* to emit agent_end.  ended: agent_end is out, "finally" is not.          *)
Active == {"prompts", "poll", "turn", "streaming", "tools", "followUp", "ending"}
PC == {"unused", "ended", "thrown", "done"} \cup Active

Mode == {"all", "one-at-a-time"}

(* from: the length of the transcript when the run took its copy.          *)
RunRecord == [pc : PC, ctx : Seq(Message), pending : Seq(Message),
              from : Nat, more : BOOLEAN, skip : BOOLEAN]

Idle == [pc |-> "unused", ctx |-> << >>, pending |-> << >>,
         from |-> 0, more |-> TRUE, skip |-> FALSE]

IsUser(m) == m.role = "user"
LastIsAssistant(s) == s # << >> /\ s[Len(s)].role = "assistant"

(* dequeueSteeringMessages, dequeueFollowUpMessages.                       *)
TakenUnchecked(queue, mode) ==  \* mutant: queue[0] of an empty queue
    IF mode = "one-at-a-time"
    THEN << IF queue = << >> THEN NoRun ELSE Head(queue) >> ELSE queue
LeftNone(queue, mode) == << >>  \* mutant: one is taken, all are dropped
Taken(queue, mode) ==
    IF mode = "one-at-a-time" /\ queue # << >> THEN << Head(queue) >> ELSE queue
Left(queue, mode) ==
    IF mode = "one-at-a-time" /\ queue # << >> THEN Tail(queue) ELSE << >>

Init == /\ messages = << >>
        /\ isStreaming = FALSE
        /\ steeringQueue = << >>
        /\ followUpQueue = << >>
        /\ steeringMode \in Mode
        /\ followUpMode \in Mode
        /\ runningPrompt = NoRun
        /\ abortController = NoRun
        /\ aborted = {}
        /\ run = [r \in Runs |-> Idle]
        /\ nextId = 1
        /\ gone = {}
        /\ waiters = {}
        /\ resolved = {}
-----------------------------------------------------------------------------
(* _runLoop up to its first await.  prompts is << >> for continue().       *)
StartRun(r, prompts, skip) ==
    /\ run[r].pc = "unused"
    /\ runningPrompt' = r
    /\ abortController' = r
    /\ isStreaming' = TRUE
    /\ run' = [run EXCEPT ![r] =
                 [pc |-> IF prompts = << >> THEN "poll" ELSE "prompts",
                  ctx |-> messages \o prompts,
                  pending |-> prompts, from |-> Len(messages),
                  more |-> TRUE, skip |-> skip]]
    /\ UNCHANGED <<resolved, aborted, messages>>

MayStart == CallersWait => runningPrompt = NoRun

Prompt(r) ==
    /\ ~isStreaming
    /\ MayStart
    /\ StartRun(r, << User(nextId, "prompt") >>, FALSE)
    /\ nextId' = nextId + 1
    /\ UNCHANGED <<queues, gone, waiters, modes>>

ContinueAnyTail(r) ==  \* mutant: the role of the last message is not looked at
    /\ ~isStreaming
    /\ MayStart
    /\ messages # << >>
    /\ StartRun(r, << >>, FALSE)
    /\ UNCHANGED <<queues, api>>

Continue(r) ==
    /\ ~isStreaming
    /\ MayStart
    /\ messages # << >>
    /\ \/ /\ LastIsAssistant(messages)
          /\ steeringQueue # << >>
          /\ StartRun(r, Taken(steeringQueue, steeringMode), TRUE)
          /\ steeringQueue' = Left(steeringQueue, steeringMode)
          /\ UNCHANGED followUpQueue
       \/ /\ LastIsAssistant(messages)
          /\ steeringQueue = << >>
          /\ followUpQueue # << >>
          /\ StartRun(r, Taken(followUpQueue, followUpMode), FALSE)
          /\ followUpQueue' = Left(followUpQueue, followUpMode)
          /\ UNCHANGED steeringQueue
       \/ /\ ~LastIsAssistant(messages)
          /\ StartRun(r, << >>, FALSE)
          /\ UNCHANGED queues
    /\ UNCHANGED api

Steer ==
    /\ steeringQueue' = Append(steeringQueue, User(nextId, "steer"))
    /\ nextId' = nextId + 1
    /\ UNCHANGED <<messages, followUpQueue, loop, aborted, run, gone, waiters, modes>>

FollowUp ==
    /\ followUpQueue' = Append(followUpQueue, User(nextId, "followUp"))
    /\ nextId' = nextId + 1
    /\ UNCHANGED <<messages, steeringQueue, loop, aborted, run, gone, waiters, modes>>

Ids(s) == {s[i].id : i \in {j \in DOMAIN s : IsUser(s[j])}}

ClearQueues(steering, followUps) ==
    /\ steeringQueue' = IF steering THEN << >> ELSE steeringQueue
    /\ followUpQueue' = IF followUps THEN << >> ELSE followUpQueue
    /\ gone' = gone \cup (IF steering THEN Ids(steeringQueue) ELSE {})
                    \cup (IF followUps THEN Ids(followUpQueue) ELSE {})
    /\ UNCHANGED <<messages, loop, aborted, run, nextId, waiters, modes>>

Abort ==
    /\ abortController # NoRun
    /\ aborted' = aborted \cup {abortController}
    /\ UNCHANGED <<messages, queues, loop, run, api>>

(* The application resets an agent it found idle through waitForIdle.      *)
Reset ==
    /\ runningPrompt = NoRun
    /\ messages' = << >>
    /\ isStreaming' = FALSE
    /\ steeringQueue' = << >>
    /\ followUpQueue' = << >>
    /\ gone' = gone \cup Ids(messages) \cup Ids(steeringQueue) \cup Ids(followUpQueue)
    /\ UNCHANGED <<runningPrompt, abortController, resolved, aborted, run,
                   nextId, waiters, modes>>

(* replaceMessages, as a retry uses it: the failed answer is taken off.    *)
DropFailure ==
    /\ ~isStreaming
    /\ LastIsAssistant(messages)
    /\ messages[Len(messages)].kind = "error"
    /\ messages' = SubSeq(messages, 1, Len(messages) - 1)
    /\ UNCHANGED <<queues, loop, aborted, run, api>>

(* appendMessage: at any time.  The web UI calls it from tools and on      *)
(* events of a running loop, whose own copy does not get the message.      *)
AppendMessage ==
    /\ messages' = Append(messages, User(nextId, "append"))
    /\ nextId' = nextId + 1
    /\ UNCHANGED <<queues, loop, aborted, run, gone, waiters, modes>>

SetSteeringMode(mode) ==
    /\ steeringMode' = mode
    /\ UNCHANGED <<messages, queues, loop, aborted, run, nextId, gone, waiters,
                   followUpMode>>

SetFollowUpMode(mode) ==
    /\ followUpMode' = mode
    /\ UNCHANGED <<messages, queues, loop, aborted, run, nextId, gone, waiters,
                   steeringMode>>

WaitForIdle ==
    /\ runningPrompt # NoRun
    /\ waiters' = waiters \cup {runningPrompt}
    /\ UNCHANGED <<messages, queues, loop, aborted, run, nextId, gone, modes>>
-----------------------------------------------------------------------------
At(r, pc) == run[r].pc = pc
Goto(r, pc) == run' = [run EXCEPT ![r].pc = pc]

(* message_end for one prompt of runAgentLoop.                             *)
EmitPrompt(r) ==
    /\ At(r, "prompts")
    /\ run[r].pending # << >>
    /\ LET rest == Tail(run[r].pending)
       IN  /\ messages' = Append(messages, Head(run[r].pending))
           /\ run' = [run EXCEPT ![r].pending = rest,
                                 ![r].pc = IF rest = << >> THEN "poll" ELSE "prompts"]
    /\ UNCHANGED <<queues, loop, aborted, api>>

(* getSteeringMessages, before the first turn and after each turn, and the *)
(* condition of the inner loop.                                            *)
PollSteering(r) ==
    /\ At(r, "poll")
    /\ LET taken == IF run[r].skip THEN << >> ELSE Taken(steeringQueue, steeringMode)
       IN  /\ steeringQueue' =
                 IF run[r].skip THEN steeringQueue ELSE Left(steeringQueue, steeringMode)
           /\ run' = [run EXCEPT ![r].pending = taken, ![r].skip = FALSE,
                        ![r].pc = IF run[r].more \/ taken # << >> THEN "turn" ELSE "followUp"]
    /\ UNCHANGED <<messages, followUpQueue, loop, aborted, api>>

InjectLast(r) ==  \* mutant: pending.pop() instead of the first
    /\ At(r, "turn")
    /\ run[r].pending # << >>
    /\ LET m == run[r].pending[Len(run[r].pending)]
       IN  /\ messages' = Append(messages, m)
           /\ run' = [run EXCEPT ![r].pending = SubSeq(@, 1, Len(@) - 1),
                                 ![r].ctx = Append(@, m)]
    /\ UNCHANGED <<queues, loop, aborted, api>>

(* One pending message is announced and pushed on the run's context.       *)
Inject(r) ==
    /\ At(r, "turn")
    /\ run[r].pending # << >>
    /\ LET m == Head(run[r].pending)
       IN  /\ messages' = Append(messages, m)
           /\ run' = [run EXCEPT ![r].pending = Tail(@), ![r].ctx = Append(@, m)]
    /\ UNCHANGED <<queues, loop, aborted, api>>

(* streamAssistantResponse: the context goes to the LLM...                 *)
Request(r) ==
    /\ At(r, "turn")
    /\ run[r].pending = << >>
    /\ Goto(r, "streaming")
    /\ UNCHANGED <<messages, queues, loop, aborted, api>>

RespondUnseen(r, stop) ==  \* mutant: the answer is not pushed on the context
    /\ At(r, "streaming")
    /\ stop = "aborted" => r \in aborted
    /\ messages' = Append(messages, Assistant(stop))
    /\ run' = [run EXCEPT ![r].more = (stop = "toolUse"),
                 ![r].pc = CASE stop = "toolUse" -> "tools"
                             [] stop = "stop"    -> "poll"
                             [] OTHER            -> "ending"]
    /\ UNCHANGED <<queues, loop, aborted, api>>

(* ... and its answer is appended; an answer that failed ends the run.     *)
Respond(r, stop) ==
    /\ At(r, "streaming")
    /\ stop = "aborted" => r \in aborted
    /\ messages' = Append(messages, Assistant(stop))
    /\ run' = [run EXCEPT ![r].ctx = Append(@, Assistant(stop)),
                          ![r].more = (stop = "toolUse"),
                 ![r].pc = CASE stop = "toolUse" -> "tools"
                             [] stop = "stop"    -> "poll"
                             [] OTHER            -> "ending"]
    /\ UNCHANGED <<queues, loop, aborted, api>>

ExecuteTools(r) ==
    /\ At(r, "tools")
    /\ messages' = Append(messages, ToolResult)
    /\ run' = [run EXCEPT ![r].ctx = Append(@, ToolResult), ![r].pc = "poll"]
    /\ UNCHANGED <<queues, loop, aborted, api>>

(* getFollowUpMessages: the outer loop turns again, or the run ends.       *)
PollFollowUp(r) ==
    /\ At(r, "followUp")
    /\ LET taken == Taken(followUpQueue, followUpMode)
       IN  /\ followUpQueue' = Left(followUpQueue, followUpMode)
           /\ run' = [run EXCEPT ![r].pending = taken, ![r].more = TRUE,
                        ![r].pc = IF taken # << >> THEN "turn" ELSE "ending"]
    /\ UNCHANGED <<messages, steeringQueue, loop, aborted, api>>

EndIsIdle(r) ==  \* mutant: agent_end already lets waitForIdle through
    /\ At(r, "ending")
    /\ isStreaming' = FALSE
    /\ runningPrompt' = NoRun
    /\ resolved' = resolved \cup {r}
    /\ Goto(r, "ended")
    /\ UNCHANGED <<messages, queues, abortController, aborted, api>>

EmitAgentEnd(r) ==
    /\ At(r, "ending")
    /\ isStreaming' = FALSE
    /\ Goto(r, "ended")
    /\ UNCHANGED <<messages, queues, runningPrompt, abortController, resolved,
                   aborted, api>>

(* What runs before the request or within the batch throws: a hook, the    *)
(* key lookup, the conversion of the context.                              *)
Throw(r) ==
    /\ At(r, "tools") \/ (At(r, "turn") /\ run[r].pending = << >>)
    /\ Goto(r, "thrown")
    /\ UNCHANGED <<messages, queues, loop, aborted, api>>

FinallyForgets ==  \* mutant: the promise is dropped, not resolved
    /\ isStreaming' = FALSE
    /\ abortController' = NoRun
    /\ runningPrompt' = NoRun
    /\ UNCHANGED resolved

(* The "finally" block: it resolves and drops whatever promise is current. *)
Finally ==
    /\ isStreaming' = FALSE
    /\ abortController' = NoRun
    /\ resolved' = resolved \cup ({runningPrompt} \ {NoRun})
    /\ runningPrompt' = NoRun

Finish(r) ==
    /\ At(r, "ended")
    /\ Finally
    /\ Goto(r, "done")
    /\ UNCHANGED <<messages, queues, aborted, api>>

CatchUnlessAborted(r) ==  \* mutant: an aborted run is left as it is
    /\ At(r, "thrown")
    /\ abortController \notin aborted
    /\ messages' = Append(messages, Assistant("error"))
    /\ Finally
    /\ Goto(r, "done")
    /\ UNCHANGED <<queues, aborted, api>>

(* The "catch" block and "finally", in one go: the failure becomes a       *)
(* message of the transcript.                                              *)
CatchAndFinish(r) ==
    /\ At(r, "thrown")
    /\ messages' = Append(messages,
           Assistant(IF abortController \in aborted THEN "aborted" ELSE "error"))
    /\ Finally
    /\ Goto(r, "done")
    /\ UNCHANGED <<queues, aborted, api>>
-----------------------------------------------------------------------------
(* A stretch of a run that the runtime, the LLM or a tool will complete.   *)
RunStep(r) == \/ EmitPrompt(r)
              \/ PollSteering(r)
              \/ Inject(r)
              \/ Request(r)
              \/ \E stop \in StopReason : Respond(r, stop)
              \/ ExecuteTools(r)
              \/ PollFollowUp(r)
              \/ EmitAgentEnd(r)
              \/ Throw(r)
              \/ Finish(r)
              \/ CatchAndFinish(r)

ApiCall == \/ \E r \in Runs : Prompt(r) \/ Continue(r)
           \/ Steer
           \/ FollowUp
           \/ \E steering, followUps \in BOOLEAN : ClearQueues(steering, followUps)
           \/ Abort
           \/ Reset
           \/ DropFailure
           \/ AppendMessage
           \/ \E mode \in Mode : SetSteeringMode(mode) \/ SetFollowUpMode(mode)
           \/ WaitForIdle

Next == ApiCall \/ \E r \in Runs : RunStep(r)

(* Promise continuations run, the LLM answers and tools come back: the     *)
(* contracts of StreamFn and of tools.                                     *)
Fairness == \A r \in Runs : WF_vars(RunStep(r))

Spec == Init /\ [][Next]_vars /\ Fairness
-----------------------------------------------------------------------------
TypeOK ==
    /\ messages \in Seq(Message)
    /\ isStreaming \in BOOLEAN
    /\ steeringQueue \in Seq(Message)
    /\ followUpQueue \in Seq(Message)
    /\ steeringMode \in Mode
    /\ followUpMode \in Mode
    /\ runningPrompt \in Runs \cup {NoRun}
    /\ abortController \in Runs \cup {NoRun}
    /\ aborted \subseteq Runs
    /\ run \in [Runs -> RunRecord]
    /\ nextId \in Nat \ {0}
    /\ gone \subseteq Nat
    /\ waiters \subseteq Runs
    /\ resolved \subseteq Runs

Live(r) == run[r].pc \notin {"unused", "done"}

(* waitForIdle (README: "Wait for completion") has nothing to wait for     *)
(* only when no loop is running.                                           *)
IdleMeansNoLoop == runningPrompt = NoRun => \A r \in Runs : ~Live(r)

(* Two loops never work on the transcript at once.                         *)
SingleLoop == \A r, s \in Runs : Live(r) /\ Live(s) => r = s

(* While a loop is running, abort() reaches that loop.                     *)
AbortReachesLoop == \A r \in Runs : Live(r) => abortController = r

(* isStreaming, which guards prompt and continue, is true while a loop can *)
(* still touch the transcript.                                             *)
StreamingWhileActive == \A r \in Runs : run[r].pc \in Active => isStreaming

(* Where the transcript holds what appendMessage added during run r.       *)
Aside(r) == {i \in DOMAIN messages : i > run[r].from /\ messages[i].kind = "append"}

(* The place in the copy of run r of what the transcript holds at i.       *)
Place(r, i) == i - Cardinality({j \in Aside(r) : j < i})

(* The LLM is sent the transcript the application sees, less only what was *)
(* appended to it on the side since the run began: nothing else is missing *)
(* from the loop's copy, doubled or out of order.                          *)
ContextIsTranscript ==
    \A r \in Runs : run[r].pc = "streaming" =>
        /\ Len(run[r].ctx) + Cardinality(Aside(r)) = Len(messages)
        /\ \A i \in DOMAIN messages \ Aside(r) : run[r].ctx[Place(r, i)] = messages[i]

(* The LLM is never asked to answer its own last word ("The last message   *)
(* in context must convert to a user or toolResult message").              *)
NeverAnswersItself ==
    \A r \in Runs : run[r].pc = "streaming" =>
        run[r].ctx # << >> /\ ~LastIsAssistant(run[r].ctx)

(* A user message is in exactly one place: the transcript, a queue, a      *)
(* run's hands, or taken back by the application.  None is lost or         *)
(* delivered twice, whatever fails.                                        *)
Occurrences(id, s) == Cardinality({i \in DOMAIN s : s[i].id = id})
InHand(id) == {r \in Runs : \E i \in DOMAIN run[r].pending : run[r].pending[i].id = id}
ExactlyOnce ==
    \A id \in 1..(nextId - 1) :
        Occurrences(id, messages) + Occurrences(id, steeringQueue)
          + Occurrences(id, followUpQueue) + Cardinality(InHand(id))
          + (IF id \in gone THEN 1 ELSE 0) = 1

(* Steering messages reach the transcript in the order they were queued,   *)
(* and so do follow-ups, however they were taken: by a poll or continue.   *)
DeliveredInOrder ==
    \A i, j \in DOMAIN messages :
        /\ i < j
        /\ messages[i].kind = messages[j].kind
        /\ messages[i].kind \in {"steer", "followUp"}
        => messages[i].id < messages[j].id

(* Whatever was steered or queued is delivered once, and in order          *)
(* (dequeueSteeringMessages, dequeueFollowUpMessages, continue).           *)
Delivered == ExactlyOnce /\ DeliveredInOrder

(* Whoever waits for the agent to be idle is woken.                        *)
WaitersWoken == \A r \in Runs : r \in waiters ~> r \in resolved

(* A run that started comes to its end.                                    *)
RunsEnd == \A r \in Runs : Live(r) ~> run[r].pc = "done"
=============================================================================
