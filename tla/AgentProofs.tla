---------------------------- MODULE AgentProofs ----------------------------
(***************************************************************************)
(* Proofs about Agent, for any number of runs and messages: its type       *)
(* invariant; and, when callers wait for the agent to be idle before they  *)
(* prompt it, that waitForIdle, abort and isStreaming speak of the one     *)
(* loop there is, and that what a loop sends to the LLM is the transcript. *)
(***************************************************************************)
EXTENDS Agent, SequenceTheorems, FiniteSetTheorems, TLAPS

LEMMA MessageTypes ==
    /\ \A id \in Nat : \A via \in {"prompt", "steer", "followUp", "append"} :
           User(id, via) \in Message
    /\ \A stop \in StopReason : Assistant(stop) \in Message
    /\ ToolResult \in Message
  BY DEF User, Assistant, ToolResult, Message, StopReason

(* A poll of a queue takes messages from it and leaves messages in it.     *)
LEMMA PollTypes ==
    ASSUME NEW S, NEW q \in Seq(S), NEW mode
    PROVE  Taken(q, mode) \in Seq(S) /\ Left(q, mode) \in Seq(S)
<1>1. CASE mode = "one-at-a-time" /\ q # << >>
  <2>1. Head(q) \in S /\ Tail(q) \in Seq(S)
    BY <1>1, HeadTailProperties
  <2>2. << Head(q) >> \in Seq(S)
    BY <2>1
  <2> QED BY <1>1, <2>1, <2>2 DEF Taken, Left
<1>2. CASE ~(mode = "one-at-a-time" /\ q # << >>)
  BY <1>2 DEF Taken, Left
<1> QED BY <1>1, <1>2

LEMMA InitTypeOK == Init => TypeOK
<1> SUFFICES ASSUME Init PROVE TypeOK
  OBVIOUS
<1>1. Idle \in RunRecord
  BY DEF Idle, RunRecord, PC, Active
<1>2. run \in [Runs -> RunRecord]
  BY <1>1 DEF Init
<1>3. << >> \in Seq(Message)
  OBVIOUS
<1>4. isStreaming \in BOOLEAN
  BY DEF Init
<1>5. nextId \in Nat \ {0}
  BY DEF Init
<1> QED BY <1>2, <1>3, <1>4, <1>5 DEF Init, TypeOK

(* What _runLoop does up to its first await keeps the types.               *)
Started(r) == /\ run' \in [Runs -> RunRecord]
              /\ isStreaming' = TRUE /\ runningPrompt' = r /\ abortController' = r
              /\ UNCHANGED <<messages, aborted, resolved>>

LEMMA StartTypes ==
    ASSUME TypeOK, NEW r \in Runs, NEW prompts \in Seq(Message), NEW skip \in BOOLEAN,
           StartRun(r, prompts, skip)
    PROVE  Started(r)
<1> DEFINE rec == [pc |-> IF prompts = << >> THEN "poll" ELSE "prompts",
                   ctx |-> messages \o prompts,
                   pending |-> prompts, from |-> Len(messages),
                   more |-> TRUE, skip |-> skip]
<1>1. messages \o prompts \in Seq(Message) /\ Len(messages) \in Nat
  BY DEF TypeOK
<1>2. rec \in RunRecord
  BY <1>1 DEF RunRecord, PC, Active
<1>3. run' = [run EXCEPT ![r] = rec]
  BY DEF StartRun
<1>4. run' \in [Runs -> RunRecord]
  BY <1>2, <1>3 DEF TypeOK
<1> QED BY <1>4 DEF StartRun, Started

LEMMA ApiTypes == TypeOK /\ ApiCall => TypeOK'
<1> SUFFICES ASSUME TypeOK, ApiCall PROVE TypeOK'
  OBVIOUS
<1> USE DEF TypeOK, queues, modes, api, loop
<1>1. ASSUME NEW r \in Runs, Prompt(r) PROVE TypeOK'
  <2>1. User(nextId, "prompt") \in Message
    BY MessageTypes
  <2>2. << User(nextId, "prompt") >> \in Seq(Message)
    BY <2>1
  <2>3. StartRun(r, << User(nextId, "prompt") >>, FALSE)
    BY <1>1 DEF Prompt
  <2>4. Started(r)
    BY <2>2, <2>3, StartTypes
  <2>5. nextId' = nextId + 1 /\ UNCHANGED <<queues, gone, waiters, modes>>
    BY <1>1 DEF Prompt
  <2> QED BY <2>4, <2>5 DEF Started
<1>2. ASSUME NEW r \in Runs, Continue(r) PROVE TypeOK'
  <2>1. /\ Taken(steeringQueue, steeringMode) \in Seq(Message)
        /\ Left(steeringQueue, steeringMode) \in Seq(Message)
        /\ Taken(followUpQueue, followUpMode) \in Seq(Message)
        /\ Left(followUpQueue, followUpMode) \in Seq(Message)
        /\ << >> \in Seq(Message)
    BY PollTypes
  <2>2. PICK prompts \in Seq(Message), skip \in BOOLEAN : StartRun(r, prompts, skip)
    BY <1>2, <2>1 DEF Continue
  <2>3. Started(r)
    BY <2>2, StartTypes
  <2>4. steeringQueue' \in Seq(Message) /\ followUpQueue' \in Seq(Message)
    BY <1>2, <2>1 DEF Continue
  <2>5. UNCHANGED api
    BY <1>2 DEF Continue
  <2> QED BY <2>3, <2>4, <2>5 DEF Started
<1>3. ASSUME Steer PROVE TypeOK'
  <2>1. User(nextId, "steer") \in Message
    BY MessageTypes
  <2> QED BY <1>3, <2>1 DEF Steer
<1>4. ASSUME FollowUp PROVE TypeOK'
  <2>1. User(nextId, "followUp") \in Message
    BY MessageTypes
  <2> QED BY <1>4, <2>1 DEF FollowUp
<1>5. \A s \in Seq(Message) : Ids(s) \subseteq Nat
  <2>1. \A m \in Message : m.id \in Nat
    BY DEF Message
  <2> QED BY <2>1 DEF Ids
<1>6. ASSUME NEW steering \in BOOLEAN, NEW followUps \in BOOLEAN,
             ClearQueues(steering, followUps)
      PROVE  TypeOK'
  <2>1. gone' \subseteq Nat
    BY <1>5, <1>6 DEF ClearQueues
  <2> QED BY <1>6, <2>1 DEF ClearQueues
<1>7. ASSUME Abort PROVE TypeOK'
  BY <1>7 DEF Abort
<1>8. ASSUME Reset PROVE TypeOK'
  <2>1. gone' \subseteq Nat
    BY <1>5, <1>8 DEF Reset
  <2>2. isStreaming' \in BOOLEAN
    BY <1>8 DEF Reset
  <2> QED BY <1>8, <2>1, <2>2 DEF Reset
<1>9. ASSUME DropFailure PROVE TypeOK'
  <2>1. SubSeq(messages, 1, Len(messages) - 1) \in Seq(Message)
    BY <1>9 DEF DropFailure, LastIsAssistant
  <2> QED BY <1>9, <2>1 DEF DropFailure
<1>10. ASSUME AppendMessage PROVE TypeOK'
  <2>1. User(nextId, "append") \in Message
    BY MessageTypes
  <2> QED BY <1>10, <2>1 DEF AppendMessage
<1>11. ASSUME NEW mode \in Mode, SetSteeringMode(mode) \/ SetFollowUpMode(mode)
       PROVE  TypeOK'
  BY <1>11 DEF SetSteeringMode, SetFollowUpMode
<1>12. ASSUME WaitForIdle PROVE TypeOK'
  BY <1>12 DEF WaitForIdle
<1> QED BY <1>1, <1>2, <1>3, <1>4, <1>6, <1>7, <1>8, <1>9, <1>10, <1>11, <1>12
        DEF ApiCall

LEMMA RunTypes == TypeOK /\ (\E r \in Runs : RunStep(r)) => TypeOK'
<1> SUFFICES ASSUME TypeOK, NEW r \in Runs, RunStep(r) PROVE TypeOK'
  OBVIOUS
<1> USE DEF TypeOK, queues, modes, api, loop, At, Goto
<1>0. /\ run[r] \in RunRecord
      /\ run[r].ctx \in Seq(Message) /\ run[r].pending \in Seq(Message)
  BY DEF RunRecord
<1>g. ASSUME NEW pc \in PC PROVE [run EXCEPT ![r].pc = pc] \in [Runs -> RunRecord]
  BY <1>0 DEF RunRecord
<1>1. ASSUME EmitPrompt(r) PROVE TypeOK'
  <2>2. Head(run[r].pending) \in Message /\ Tail(run[r].pending) \in Seq(Message)
    BY <1>0, <1>1, HeadTailProperties DEF EmitPrompt
  <2>3. messages' \in Seq(Message)
    BY <1>1, <2>2 DEF EmitPrompt
  <2>4. run' \in [Runs -> RunRecord]
    BY <1>0, <1>1, <2>2 DEF EmitPrompt, RunRecord, PC, Active
  <2> QED BY <1>1, <2>3, <2>4 DEF EmitPrompt
<1>2. ASSUME PollSteering(r) PROVE TypeOK'
  <2>1. /\ Taken(steeringQueue, steeringMode) \in Seq(Message)
        /\ Left(steeringQueue, steeringMode) \in Seq(Message)
        /\ << >> \in Seq(Message)
    BY PollTypes
  <2>2. run' \in [Runs -> RunRecord]
    BY <1>0, <1>2, <2>1 DEF PollSteering, RunRecord, PC, Active
  <2>3. steeringQueue' \in Seq(Message)
    BY <1>2, <2>1 DEF PollSteering
  <2> QED BY <1>2, <2>2, <2>3 DEF PollSteering
<1>3. ASSUME Inject(r) PROVE TypeOK'
  <2>1. Head(run[r].pending) \in Message /\ Tail(run[r].pending) \in Seq(Message)
    BY <1>0, <1>3, HeadTailProperties DEF Inject
  <2>2. /\ Append(messages, Head(run[r].pending)) \in Seq(Message)
        /\ Append(run[r].ctx, Head(run[r].pending)) \in Seq(Message)
    BY <1>0, <2>1
  <2>3. run' \in [Runs -> RunRecord]
    BY <1>0, <1>3, <2>1, <2>2 DEF Inject, RunRecord
  <2> QED BY <1>3, <2>2, <2>3 DEF Inject
<1>4. ASSUME Request(r) PROVE TypeOK'
  <2>1. "streaming" \in PC
    BY DEF PC, Active
  <2> QED BY <1>g, <1>4, <2>1 DEF Request
<1>5. ASSUME NEW stop \in StopReason, Respond(r, stop) PROVE TypeOK'
  <2>1. Assistant(stop) \in Message
    BY MessageTypes
  <2>2. /\ Append(messages, Assistant(stop)) \in Seq(Message)
        /\ Append(run[r].ctx, Assistant(stop)) \in Seq(Message)
    BY <1>0, <2>1
  <2>3. run' \in [Runs -> RunRecord]
    BY <1>0, <1>5, <2>2 DEF Respond, RunRecord, PC, Active
  <2> QED BY <1>5, <2>2, <2>3 DEF Respond
<1>6. ASSUME ExecuteTools(r) PROVE TypeOK'
  <2>1. ToolResult \in Message
    BY MessageTypes
  <2>2. /\ Append(messages, ToolResult) \in Seq(Message)
        /\ Append(run[r].ctx, ToolResult) \in Seq(Message)
    BY <1>0, <2>1
  <2>3. run' \in [Runs -> RunRecord]
    BY <1>0, <1>6, <2>2 DEF ExecuteTools, RunRecord, PC, Active
  <2> QED BY <1>6, <2>2, <2>3 DEF ExecuteTools
<1>7. ASSUME PollFollowUp(r) PROVE TypeOK'
  <2>1. /\ Taken(followUpQueue, followUpMode) \in Seq(Message)
        /\ Left(followUpQueue, followUpMode) \in Seq(Message)
    BY PollTypes
  <2>2. run' \in [Runs -> RunRecord]
    BY <1>0, <1>7, <2>1 DEF PollFollowUp, RunRecord, PC, Active
  <2>3. followUpQueue' \in Seq(Message)
    BY <1>7, <2>1 DEF PollFollowUp
  <2> QED BY <1>7, <2>2, <2>3 DEF PollFollowUp
<1>8. ASSUME EmitAgentEnd(r) PROVE TypeOK'
  <2>1. "ended" \in PC
    BY DEF PC
  <2>2. isStreaming' \in BOOLEAN
    BY <1>8 DEF EmitAgentEnd
  <2>3. run' \in [Runs -> RunRecord]
    BY <1>g, <1>8, <2>1 DEF EmitAgentEnd
  <2> QED BY <1>8, <2>2, <2>3 DEF EmitAgentEnd
<1>9. ASSUME Throw(r) PROVE TypeOK'
  <2>1. "thrown" \in PC
    BY DEF PC
  <2> QED BY <1>g, <1>9, <2>1 DEF Throw
<1>f. ASSUME Finally
      PROVE  /\ isStreaming' \in BOOLEAN /\ abortController' \in Runs \cup {NoRun}
             /\ resolved' \subseteq Runs /\ runningPrompt' \in Runs \cup {NoRun}
  <2>1. isStreaming' \in BOOLEAN
    BY <1>f DEF Finally
  <2> QED BY <1>f, <2>1 DEF Finally
<1>10. ASSUME Finish(r) PROVE TypeOK'
  <2>1. "done" \in PC
    BY DEF PC
  <2>2. run' \in [Runs -> RunRecord]
    BY <1>g, <1>10, <2>1 DEF Finish
  <2> QED BY <1>f, <1>10, <2>2 DEF Finish
<1>11. ASSUME CatchAndFinish(r) PROVE TypeOK'
  <2>1. "done" \in PC
    BY DEF PC
  <2>2. run' \in [Runs -> RunRecord]
    BY <1>g, <1>11, <2>1 DEF CatchAndFinish
  <2>3. Assistant("aborted") \in Message /\ Assistant("error") \in Message
    BY MessageTypes DEF StopReason
  <2>4. messages' \in Seq(Message)
    BY <1>11, <2>3 DEF CatchAndFinish
  <2> QED BY <1>f, <1>11, <2>2, <2>4 DEF CatchAndFinish
<1> QED BY <1>1, <1>2, <1>3, <1>4, <1>5, <1>6, <1>7, <1>8, <1>9, <1>10, <1>11
        DEF RunStep

(* The types of the agent's state, for any number of runs and messages.    *)
THEOREM TypeCorrect == Spec => []TypeOK
<1>1. TypeOK /\ [Next]_vars => TypeOK'
  <2> SUFFICES ASSUME TypeOK, [Next]_vars PROVE TypeOK'
    OBVIOUS
  <2>1. CASE Next
    BY <2>1, ApiTypes, RunTypes DEF Next
  <2>2. CASE UNCHANGED vars
    BY <2>2 DEF vars, TypeOK, queues, modes, api, loop
  <2> QED BY <2>1, <2>2
<1> QED BY <1>1, InitTypeOK, PTL DEF Spec
-----------------------------------------------------------------------------
(* The loop that runs is the one the agent knows of.                       *)
LoopInv == /\ \A r \in Runs : Live(r) => runningPrompt = r /\ abortController = r
           /\ StreamingWhileActive

(* What a step of a run does to the runs and to the agent's idea of them.  *)
LEMMA RunStepEffect ==
    ASSUME TypeOK, NEW r \in Runs, RunStep(r)
    PROVE  /\ Live(r)
           /\ \A s \in Runs \ {r} : run'[s] = run[s]
           /\ \/ run[r].pc \in Active /\ run'[r].pc \in Active /\ UNCHANGED loop
              \/ run'[r].pc \in {"ended", "thrown"} /\ UNCHANGED <<runningPrompt, abortController>>
              \/ run'[r].pc = "done"
<1> USE DEF At, Goto, Live
<1>0. run \in [Runs -> RunRecord] /\ run[r] \in RunRecord
  BY DEF TypeOK
<1>1. CASE EmitPrompt(r)
  BY <1>0, <1>1 DEF EmitPrompt, Active, RunRecord
<1>2. CASE PollSteering(r)
  BY <1>0, <1>2 DEF PollSteering, Active, RunRecord
<1>3. CASE Inject(r)
  BY <1>0, <1>3 DEF Inject, Active, RunRecord
<1>4. CASE Request(r)
  BY <1>0, <1>4 DEF Request, Active, RunRecord
<1>5. CASE \E stop \in StopReason : Respond(r, stop)
  BY <1>0, <1>5 DEF Respond, Active, RunRecord
<1>6. CASE ExecuteTools(r)
  BY <1>0, <1>6 DEF ExecuteTools, Active, RunRecord
<1>7. CASE PollFollowUp(r)
  BY <1>0, <1>7 DEF PollFollowUp, Active, RunRecord
<1>8. CASE EmitAgentEnd(r)
  BY <1>0, <1>8 DEF EmitAgentEnd, Active, RunRecord
<1>9. CASE Throw(r)
  BY <1>0, <1>9 DEF Throw, Active, RunRecord, loop
<1>10. CASE Finish(r)
  BY <1>0, <1>10 DEF Finish, Active, RunRecord
<1>11. CASE CatchAndFinish(r)
  BY <1>0, <1>11 DEF CatchAndFinish, Active, RunRecord
<1> QED BY <1>1, <1>2, <1>3, <1>4, <1>5, <1>6, <1>7, <1>8, <1>9, <1>10, <1>11
        DEF RunStep

(* A call that starts no run leaves the runs alone; it lowers isStreaming  *)
(* and touches the transcript only when no run is active, but for          *)
(* appendMessage.                                                          *)
Starts(r) == \E prompts \in Seq(Message), skip \in BOOLEAN : StartRun(r, prompts, skip)

LEMMA ApiCallEffect ==
    ASSUME TypeOK, ApiCall
    PROVE  \/ runningPrompt = NoRun /\ CallersWait /\ \E r \in Runs : Starts(r)
           \/ ~CallersWait
           \/ /\ UNCHANGED <<run, runningPrompt, abortController>>
              /\ \/ UNCHANGED <<messages, isStreaming>>
                 \/ UNCHANGED isStreaming /\ ~isStreaming
                 \/ UNCHANGED isStreaming /\ AppendMessage
                 \/ runningPrompt = NoRun
<1> USE DEF loop, MayStart
<1>1. ASSUME NEW r \in Runs, Prompt(r), CallersWait
      PROVE  runningPrompt = NoRun /\ Starts(r)
  <2>1. User(nextId, "prompt") \in Message
    BY MessageTypes DEF TypeOK
  <2>2. << User(nextId, "prompt") >> \in Seq(Message)
    BY <2>1
  <2> QED BY <1>1, <2>2 DEF Prompt, Starts
<1>2. ASSUME NEW r \in Runs, Continue(r), CallersWait
      PROVE  runningPrompt = NoRun /\ Starts(r)
  <2>1. /\ Taken(steeringQueue, steeringMode) \in Seq(Message)
        /\ Taken(followUpQueue, followUpMode) \in Seq(Message)
        /\ << >> \in Seq(Message)
    BY PollTypes DEF TypeOK
  <2> QED BY <1>2, <2>1 DEF Continue, Starts
<1>3. ASSUME Steer \/ FollowUp \/ Abort \/ WaitForIdle
      PROVE  UNCHANGED <<run, runningPrompt, abortController, messages, isStreaming>>
  BY <1>3 DEF Steer, FollowUp, Abort, WaitForIdle
<1>4. CASE \E steering, followUps \in BOOLEAN : ClearQueues(steering, followUps)
  BY <1>4 DEF ClearQueues
<1>5. CASE Reset
  BY <1>5 DEF Reset
<1>6. ASSUME DropFailure
      PROVE  UNCHANGED <<run, runningPrompt, abortController, isStreaming>> /\ ~isStreaming
  BY <1>6 DEF DropFailure
<1>8. ASSUME AppendMessage
      PROVE  UNCHANGED <<run, runningPrompt, abortController, isStreaming>>
  BY <1>8 DEF AppendMessage
<1>7. CASE \E mode \in Mode : SetSteeringMode(mode) \/ SetFollowUpMode(mode)
  BY <1>7 DEF SetSteeringMode, SetFollowUpMode
<1> QED BY <1>1, <1>2, <1>3, <1>4, <1>5, <1>6, <1>7, <1>8 DEF ApiCall

LEMMA StepLoopInv ==
    ASSUME CallersWait, TypeOK, LoopInv, [Next]_vars
    PROVE  LoopInv'
<1> USE DEF LoopInv, StreamingWhileActive, Live
<1>1. ASSUME NEW r \in Runs, RunStep(r) PROVE LoopInv'
  <2>1. Live(r) /\ \A s \in Runs \ {r} : ~Live(s) /\ run'[s] = run[s]
    BY <1>1, RunStepEffect
  <2>2. runningPrompt = r /\ abortController = r
    BY <2>1
  <2>3. \A s \in Runs \ {r} : ~Live(s)'
    BY <2>1
  <2>4. CASE run[r].pc \in Active /\ run'[r].pc \in Active /\ UNCHANGED loop
    BY <2>2, <2>3, <2>4 DEF loop, Active
  <2>5. CASE run'[r].pc \in {"ended", "thrown"} /\ UNCHANGED <<runningPrompt, abortController>>
    BY <2>2, <2>3, <2>5 DEF Active
  <2>6. CASE run'[r].pc = "done"
    BY <2>3, <2>6 DEF Active
  <2> QED BY <1>1, <2>4, <2>5, <2>6, RunStepEffect
<1>2. ASSUME runningPrompt = NoRun, NEW r \in Runs, Starts(r) PROVE LoopInv'
  <2>1. \A s \in Runs : ~Live(s)
    BY <1>2, NoRunAssumption
  <2>2. /\ runningPrompt' = r /\ abortController' = r /\ isStreaming' = TRUE
        /\ \A s \in Runs \ {r} : run'[s] = run[s]
    BY <1>2 DEF Starts, StartRun, TypeOK
  <2>3. \A s \in Runs \ {r} : ~Live(s)'
    BY <2>1, <2>2
  <2> QED BY <2>2, <2>3 DEF Active
<1>3. ASSUME UNCHANGED <<run, runningPrompt, abortController>>,
             UNCHANGED isStreaming \/ runningPrompt = NoRun
      PROVE  LoopInv'
  BY <1>3, NoRunAssumption DEF Active
<1>4. CASE ApiCall
  BY <1>2, <1>3, <1>4, ApiCallEffect
<1>5. CASE UNCHANGED vars
  BY <1>3, <1>5 DEF vars, loop
<1> QED BY <1>1, <1>4, <1>5 DEF Next

LEMMA InitLoopInv == Init => LoopInv
<1> SUFFICES ASSUME Init PROVE LoopInv
  OBVIOUS
<1>1. \A r \in Runs : run[r].pc = "unused"
  BY DEF Init, Idle
<1> QED BY <1>1 DEF LoopInv, Live, StreamingWhileActive, Active

(* When callers wait for the agent to be idle before they prompt it again: *)
(* waitForIdle has nothing to wait for only when no loop runs, there is    *)
(* one loop at a time, abort() reaches it, and isStreaming guards it.      *)
THEOREM LoopIsKnown ==
    ASSUME CallersWait
    PROVE  Spec => [](IdleMeansNoLoop /\ SingleLoop /\ AbortReachesLoop
                        /\ StreamingWhileActive)
<1>1. TypeOK /\ LoopInv /\ [Next]_vars => LoopInv'
  BY StepLoopInv
<1>2. LoopInv => /\ IdleMeansNoLoop /\ SingleLoop
                 /\ AbortReachesLoop /\ StreamingWhileActive
  BY NoRunAssumption
     DEF LoopInv, IdleMeansNoLoop, SingleLoop, AbortReachesLoop, Live
<1> QED BY <1>1, <1>2, InitLoopInv, TypeCorrect, PTL DEF Spec
-----------------------------------------------------------------------------
(* What is queued or pending did not come through appendMessage.           *)
Queueable == {m \in Message : m.kind # "append"}
PlainInv == /\ steeringQueue \in Seq(Queueable)
            /\ followUpQueue \in Seq(Queueable)
            /\ \A r \in Runs : run[r].pending \in Seq(Queueable)

LEMMA QueueableMessages ==
    /\ \A id \in Nat : \A via \in {"prompt", "steer", "followUp"} :
           User(id, via) \in Queueable
    /\ \A stop \in StopReason : Assistant(stop) \in Queueable
    /\ ToolResult \in Queueable
<1>1. /\ \A id \in Nat : \A via \in {"prompt", "steer", "followUp"} :
              User(id, via).kind # "append"
      /\ \A stop \in StopReason : Assistant(stop).kind # "append"
      /\ ToolResult.kind # "append"
  BY DEF User, Assistant, ToolResult, StopReason
<1> QED BY <1>1, MessageTypes DEF Queueable

LEMMA StepPlainInv ==
    ASSUME TypeOK, PlainInv, [Next]_vars
    PROVE  PlainInv'
<1> USE DEF PlainInv, queues, modes, api, loop, At, Goto
<1>1. /\ Taken(steeringQueue, steeringMode) \in Seq(Queueable)
      /\ Left(steeringQueue, steeringMode) \in Seq(Queueable)
      /\ Taken(followUpQueue, followUpMode) \in Seq(Queueable)
      /\ Left(followUpQueue, followUpMode) \in Seq(Queueable)
      /\ << >> \in Seq(Queueable)
  BY PollTypes
<1>2. ASSUME NEW r \in Runs, RunStep(r) PROVE PlainInv'
  <2>0. /\ run \in [Runs -> RunRecord] /\ run[r] \in RunRecord
        /\ run[r].pending \in Seq(Queueable)
    BY DEF TypeOK
  <2>1. \A q \in Runs \ {r} : run'[q] = run[q]
    BY <1>2, RunStepEffect
  <2>2. CASE EmitPrompt(r) \/ Inject(r)
    <3>1. Tail(run[r].pending) \in Seq(Queueable)
      BY <2>0, <2>2, HeadTailProperties DEF EmitPrompt, Inject
    <3>2. run'[r].pending = Tail(run[r].pending) /\ UNCHANGED queues
      BY <2>0, <2>2 DEF EmitPrompt, Inject, RunRecord
    <3> QED BY <2>1, <3>1, <3>2
  <2>3. CASE PollSteering(r)
    <3>1. /\ run'[r].pending \in Seq(Queueable)
          /\ steeringQueue' \in Seq(Queueable) /\ UNCHANGED followUpQueue
      BY <1>1, <2>0, <2>3 DEF PollSteering, RunRecord
    <3> QED BY <2>1, <3>1
  <2>4. CASE PollFollowUp(r)
    <3>1. /\ run'[r].pending \in Seq(Queueable)
          /\ followUpQueue' \in Seq(Queueable) /\ UNCHANGED steeringQueue
      BY <1>1, <2>0, <2>4 DEF PollFollowUp, RunRecord
    <3> QED BY <2>1, <3>1
  <2>5. CASE \/ Request(r) \/ (\E stop \in StopReason : Respond(r, stop))
             \/ ExecuteTools(r) \/ EmitAgentEnd(r) \/ Throw(r) \/ Finish(r)
             \/ CatchAndFinish(r)
    <3>1. CASE Request(r) \/ ExecuteTools(r) \/ EmitAgentEnd(r) \/ Throw(r)
      <4>1. UNCHANGED queues
        BY <3>1 DEF Request, ExecuteTools, EmitAgentEnd, Throw
      <4>2. run'[r].pending = run[r].pending
        <5>1. CASE Request(r)
          BY <2>0, <5>1 DEF Request, RunRecord
        <5>2. CASE ExecuteTools(r)
          BY <2>0, <5>2 DEF ExecuteTools, RunRecord
        <5>3. CASE EmitAgentEnd(r) \/ Throw(r)
          BY <2>0, <5>3 DEF EmitAgentEnd, Throw, RunRecord
        <5> QED BY <3>1, <5>1, <5>2, <5>3
      <4> QED BY <2>0, <2>1, <4>1, <4>2
    <3>2. CASE \E stop \in StopReason : Respond(r, stop)
      BY <2>0, <2>1, <3>2 DEF Respond, RunRecord
    <3>3. CASE Finish(r) \/ CatchAndFinish(r)
      BY <2>0, <2>1, <3>3 DEF Finish, CatchAndFinish, RunRecord
    <3> QED BY <2>5, <3>1, <3>2, <3>3
  <2> QED BY <1>2, <2>2, <2>3, <2>4, <2>5 DEF RunStep
<1>3. ASSUME NEW r \in Runs, NEW prompts \in Seq(Queueable), NEW skip,
             StartRun(r, prompts, skip),
             steeringQueue' \in Seq(Queueable), followUpQueue' \in Seq(Queueable)
      PROVE  PlainInv'
  BY <1>3 DEF StartRun, TypeOK
<1>4. ASSUME NEW r \in Runs, Prompt(r) PROVE PlainInv'
  <2>1. << User(nextId, "prompt") >> \in Seq(Queueable)
    BY QueueableMessages DEF TypeOK
  <2> QED BY <1>3, <1>4, <2>1 DEF Prompt
<1>5. ASSUME NEW r \in Runs, Continue(r) PROVE PlainInv'
  BY <1>1, <1>3, <1>5 DEF Continue
<1>6. CASE Steer \/ FollowUp
  <2>1. nextId \in Nat
    BY DEF TypeOK
  <2>2. User(nextId, "steer") \in Queueable /\ User(nextId, "followUp") \in Queueable
    BY <2>1, QueueableMessages
  <2>3. /\ Append(steeringQueue, User(nextId, "steer")) \in Seq(Queueable)
        /\ Append(followUpQueue, User(nextId, "followUp")) \in Seq(Queueable)
    BY <2>2
  <2> QED BY <1>6, <2>3 DEF Steer, FollowUp
<1>7. CASE \/ \E steering, followUps \in BOOLEAN : ClearQueues(steering, followUps)
           \/ Reset
  BY <1>1, <1>7 DEF ClearQueues, Reset
<1>8. CASE \/ Abort \/ WaitForIdle \/ DropFailure \/ AppendMessage
           \/ \E mode \in Mode : SetSteeringMode(mode) \/ SetFollowUpMode(mode)
  BY <1>8 DEF Abort, WaitForIdle, DropFailure, AppendMessage,
              SetSteeringMode, SetFollowUpMode
<1>9. CASE UNCHANGED vars
  BY <1>9 DEF vars
<1> QED BY <1>2, <1>4, <1>5, <1>6, <1>7, <1>8, <1>9 DEF Next, ApiCall

LEMMA InitPlainInv == Init => PlainInv
<1> SUFFICES ASSUME Init PROVE PlainInv
  OBVIOUS
<1>1. \A r \in Runs : run[r].pending = << >>
  BY DEF Init, Idle
<1>2. steeringQueue = << >> /\ followUpQueue = << >> /\ << >> \in Seq(Queueable)
  BY DEF Init
<1> QED BY <1>1, <1>2 DEF PlainInv
-----------------------------------------------------------------------------
(* Of a transcript s: where it holds what was appended on the side after   *)
(* its first n messages, how much of it is not that, and whether a copy c  *)
(* begins with the rest of it.                                             *)
Side(s, n) == {i \in DOMAIN s : i > n /\ s[i].kind = "append"}
Copied(s, n) == Len(s) - Cardinality(Side(s, n))
Moved(s, n, i) == i - Cardinality({j \in Side(s, n) : j < i})
Mirrors(c, s, n) ==
    /\ n \in 0..Len(s)
    /\ Copied(s, n) \in 0..Len(c)
    /\ \A i \in DOMAIN s \ Side(s, n) :
          Moved(s, n, i) \in 1..Copied(s, n) /\ c[Moved(s, n, i)] = s[i]

(* The copy of an active run is the transcript less what was appended on   *)
(* the side, with the prompts that are still to be announced.              *)
Unsent(r) == IF run[r].pc = "prompts" THEN run[r].pending ELSE << >>
InStep(r) ==
    /\ Mirrors(run[r].ctx, messages, run[r].from)
    /\ Len(run[r].ctx) = Copied(messages, run[r].from) + Len(Unsent(r))
    /\ \A k \in DOMAIN Unsent(r) :
          run[r].ctx[Copied(messages, run[r].from) + k] = Unsent(r)[k]
ContextInv == \A r \in Runs : run[r].pc \in Active => InStep(r)

LEMMA SideIsFinite ==
    ASSUME NEW s \in Seq(Message), NEW n \in Nat
    PROVE  /\ IsFiniteSet(Side(s, n)) /\ Cardinality(Side(s, n)) \in Nat
           /\ Copied(s, n) \in Int
<1>1. Side(s, n) \subseteq 1..Len(s) /\ Len(s) \in Nat
  BY DEF Side
<1>2. IsFiniteSet(Side(s, n))
  <2>1. IsFiniteSet(1..Len(s))
    BY <1>1, FS_Interval
  <2> QED BY <1>1, <2>1, FS_Subset
<1>3. Cardinality(Side(s, n)) \in Nat
  BY <1>2, FS_CardinalityType
<1> QED BY <1>1, <1>2, <1>3 DEF Copied

(* At first nothing was appended on the side.                              *)
LEMMA SideAtFirst ==
    ASSUME NEW s \in Seq(Message), NEW t \in Seq(Message)
    PROVE  Mirrors(s \o t, s, Len(s)) /\ Copied(s, Len(s)) = Len(s)
<1>1. Side(s, Len(s)) = {} /\ Len(s) \in Nat /\ DOMAIN s = 1..Len(s)
  BY DEF Side
<1>2. Cardinality({}) = 0
  BY FS_EmptySet
<1>3. Copied(s, Len(s)) = Len(s)
  BY <1>1, <1>2 DEF Copied
<1>4. \A i \in DOMAIN s : Moved(s, Len(s), i) = i
  <2>1. \A i : {j \in Side(s, Len(s)) : j < i} = {}
    BY <1>1
  <2> QED BY <1>1, <1>2, <2>1 DEF Moved
<1>5. Len(s \o t) >= Len(s) /\ \A i \in DOMAIN s : (s \o t)[i] = s[i]
  BY <1>1
<1> QED BY <1>1, <1>3, <1>4, <1>5 DEF Mirrors

(* What is appended on the side leaves the copy and the rest in step...    *)
LEMMA SideAdded ==
    ASSUME NEW s \in Seq(Message), NEW c \in Seq(Message), NEW n, NEW m \in Message,
           m.kind = "append", Mirrors(c, s, n)
    PROVE  /\ Mirrors(c, Append(s, m), n)
           /\ Copied(Append(s, m), n) = Copied(s, n)
<1> DEFINE t == Append(s, m)
<1>1. /\ Len(t) = Len(s) + 1 /\ DOMAIN t = 1..(Len(s) + 1) /\ DOMAIN s = 1..Len(s)
      /\ Len(s) \in Nat /\ t[Len(s) + 1] = m /\ \A i \in 1..Len(s) : t[i] = s[i]
      /\ n \in 0..Len(s) /\ n \in Nat
  BY DEF Mirrors
<1> HIDE DEF t
<1>2. Side(t, n) = Side(s, n) \cup {Len(s) + 1} /\ Len(s) + 1 \notin Side(s, n)
  BY <1>1 DEF Side
<1>3. /\ Cardinality(Side(t, n)) = Cardinality(Side(s, n)) + 1
      /\ Cardinality(Side(s, n)) \in Nat
  BY <1>1, <1>2, SideIsFinite, FS_AddElement
<1>4. Copied(t, n) = Copied(s, n)
  BY <1>1, <1>3 DEF Copied
<1>5. \A i \in DOMAIN s : {j \in Side(t, n) : j < i} = {j \in Side(s, n) : j < i}
  BY <1>1, <1>2
<1>6. \A i \in DOMAIN s : Moved(t, n, i) = Moved(s, n, i)
  BY <1>5 DEF Moved
<1>7. DOMAIN t \ Side(t, n) = DOMAIN s \ Side(s, n)
  BY <1>1, <1>2
<1> QED BY <1>1, <1>4, <1>6, <1>7 DEF Mirrors, t

(* ... and so does a message of the loop that the copy holds next.         *)
LEMMA MainAdded ==
    ASSUME NEW s \in Seq(Message), NEW c \in Seq(Message), NEW n, NEW m \in Queueable,
           Mirrors(c, s, n), NEW d \in Seq(Message), Len(d) > Copied(s, n),
           \A k \in 1..Copied(s, n) : d[k] = c[k], d[Copied(s, n) + 1] = m
    PROVE  /\ Mirrors(d, Append(s, m), n)
           /\ Copied(Append(s, m), n) = Copied(s, n) + 1
<1> DEFINE t == Append(s, m)
<1>1. /\ Len(t) = Len(s) + 1 /\ DOMAIN t = 1..(Len(s) + 1) /\ DOMAIN s = 1..Len(s)
      /\ Len(s) \in Nat /\ t[Len(s) + 1] = m /\ \A i \in 1..Len(s) : t[i] = s[i]
      /\ n \in 0..Len(s) /\ n \in Nat /\ m.kind # "append" /\ Copied(s, n) \in Nat
  BY DEF Mirrors, Queueable
<1> HIDE DEF t
<1>2. Side(t, n) = Side(s, n)
  BY <1>1 DEF Side
<1>c. Cardinality(Side(s, n)) \in Nat
  BY <1>1, SideIsFinite
<1>3. Copied(t, n) = Copied(s, n) + 1
  BY <1>1, <1>2, <1>c DEF Copied
<1>4. \A i : Moved(t, n, i) = Moved(s, n, i)
  BY <1>2 DEF Moved
<1>5. ASSUME NEW k \in DOMAIN t, k = Len(s) + 1
      PROVE  Moved(t, n, k) = Copied(s, n) + 1
  <2>1. {j \in Side(s, n) : j < k} = Side(s, n)
    BY <1>1, <1>5 DEF Side
  <2>2. Moved(s, n, k) = k - Cardinality(Side(s, n))
    BY <2>1 DEF Moved
  <2> QED BY <1>1, <1>4, <1>5, <1>c, <2>2 DEF Copied
<1>6. \A i \in DOMAIN t \ Side(t, n) : i = Len(s) + 1 \/ i \in DOMAIN s \ Side(s, n)
  BY <1>1, <1>2
<1>7. \A i \in DOMAIN s \ Side(s, n) : /\ Moved(t, n, i) \in 1..Copied(s, n)
                                        /\ c[Moved(t, n, i)] = s[i]
  BY <1>4 DEF Mirrors
<1>8. \A i \in DOMAIN t \ Side(t, n) :
          Moved(t, n, i) \in 1..Copied(t, n) /\ d[Moved(t, n, i)] = t[i]
  BY <1>1, <1>3, <1>5, <1>6, <1>7
<1> QED BY <1>1, <1>3, <1>8 DEF Mirrors, t

LEMMA EmptyTail ==
    ASSUME NEW S, NEW s \in Seq(S) PROVE s \o << >> = s
  OBVIOUS

(* A step of a run keeps its copy and the transcript together.             *)
LEMMA RunKeepsContext ==
    ASSUME TypeOK, PlainInv, ContextInv, NEW r \in Runs, RunStep(r), run'[r].pc \in Active
    PROVE  InStep(r)'
<1> USE DEF At, Goto
<1> DEFINE n == run[r].from
           ctx == run[r].ctx
<1>0. /\ run \in [Runs -> RunRecord] /\ run[r] \in RunRecord
      /\ ctx \in Seq(Message) /\ run[r].pending \in Seq(Queueable)
      /\ messages \in Seq(Message) /\ n \in Nat
  BY DEF TypeOK, RunRecord, PlainInv
<1>c. run[r].pc \in Active => InStep(r)
  BY DEF ContextInv
<1>q. Queueable \subseteq Message /\ \A m \in Queueable : m \in Message
  BY DEF Queueable
<1>1. CASE EmitPrompt(r)
  <2> DEFINE p == run[r].pending
  <2>1. /\ Head(p) = p[1] /\ Head(p) \in Queueable /\ Tail(p) \in Seq(Queueable)
        /\ Len(Tail(p)) = Len(p) - 1 /\ Len(p) \in Nat \ {0}
        /\ DOMAIN p = 1..Len(p) /\ DOMAIN Tail(p) = 1..(Len(p) - 1)
        /\ \A i \in 1..(Len(p) - 1) : Tail(p)[i] = p[i + 1]
    BY <1>0, <1>1, HeadTailProperties DEF EmitPrompt
  <2>2. /\ messages' = Append(messages, Head(p)) /\ run[r].pc = "prompts"
        /\ run'[r].ctx = ctx /\ run'[r].pending = Tail(p) /\ run'[r].from = n
        /\ run'[r].pc = IF Tail(p) = << >> THEN "poll" ELSE "prompts"
    BY <1>0, <1>1 DEF EmitPrompt, RunRecord
  <2>3. /\ Mirrors(ctx, messages, n) /\ Len(ctx) = Copied(messages, n) + Len(p)
        /\ \A k \in DOMAIN p : ctx[Copied(messages, n) + k] = p[k]
        /\ Copied(messages, n) \in Int
    BY <1>0, <1>c, <2>2, SideIsFinite DEF InStep, Unsent, Active
  <2>4. Len(ctx) > Copied(messages, n) /\ ctx[Copied(messages, n) + 1] = Head(p)
    BY <2>1, <2>3
  <2>5. /\ Mirrors(ctx, messages', n)
        /\ Copied(messages', n) = Copied(messages, n) + 1
    BY <1>0, <2>1, <2>2, <2>3, <2>4, MainAdded
  <2>6. Unsent(r)' = Tail(p)
    BY <2>1, <2>2 DEF Unsent
  <2>7. \A k \in DOMAIN Tail(p) : ctx[Copied(messages', n) + k] = Tail(p)[k]
    <3> SUFFICES ASSUME NEW k \in DOMAIN Tail(p)
                 PROVE  ctx[Copied(messages', n) + k] = Tail(p)[k]
      OBVIOUS
    <3>1. k \in 1..(Len(p) - 1) /\ k + 1 \in DOMAIN p
      BY <2>1
    <3>2. ctx[Copied(messages, n) + (k + 1)] = p[k + 1]
      BY <2>3, <3>1
    <3>3. Copied(messages', n) + k = Copied(messages, n) + (k + 1)
      BY <2>3, <2>5, <3>1
    <3> QED BY <2>1, <3>1, <3>2, <3>3
  <2>8. Len(ctx) = Copied(messages', n) + Len(Tail(p))
    <3>1. /\ Len(p) \in Int /\ Copied(messages, n) \in Int /\ Len(Tail(p)) = Len(p) - 1
          /\ Len(ctx) = Copied(messages, n) + Len(p)
      BY <2>1, <2>3
    <3>2. Copied(messages', n) = Copied(messages, n) + 1
      BY <2>5
    <3> QED BY ONLY <3>1, <3>2
  <2> QED BY <2>2, <2>5, <2>6, <2>7, <2>8 DEF InStep
<1>n. ASSUME run[r].pc \in Active, run[r].pc # "prompts"
      PROVE  /\ Mirrors(ctx, messages, n) /\ Len(ctx) = Copied(messages, n)
             /\ Copied(messages, n) \in Nat
  <2>1. Unsent(r) = << >>
    BY <1>n DEF Unsent
  <2> QED BY <1>0, <1>c, <1>n, <2>1, SideIsFinite DEF InStep, Mirrors
<1>k. ASSUME NEW m \in Queueable, run[r].pc \in Active, run[r].pc # "prompts",
             messages' = Append(messages, m), run'[r].ctx = Append(ctx, m),
             run'[r].from = n, run'[r].pc # "prompts"
      PROVE  InStep(r)'
  <2> DEFINE d == Append(ctx, m)
  <2>1. /\ Len(d) = Len(ctx) + 1 /\ d[Len(ctx) + 1] = m /\ d \in Seq(Message)
        /\ \A k \in 1..Len(ctx) : d[k] = ctx[k]
    BY <1>0, <1>q
  <2>2. /\ Mirrors(ctx, messages, n) /\ Len(ctx) = Copied(messages, n)
        /\ Copied(messages, n) \in Nat
    BY <1>k, <1>n
  <2> HIDE DEF d
  <2>a. /\ Len(d) > Copied(messages, n) /\ d[Copied(messages, n) + 1] = m
        /\ \A k \in 1..Copied(messages, n) : d[k] = ctx[k]
    BY <2>1, <2>2
  <2>3. /\ Mirrors(d, messages', n)
        /\ Copied(messages', n) = Copied(messages, n) + 1
    BY <1>0, <1>k, <2>1, <2>2, <2>a, MainAdded
  <2>4. Unsent(r)' = << >> /\ run'[r].ctx = d
    BY <1>k DEF Unsent, d
  <2> QED BY <1>k, <2>1, <2>2, <2>3, <2>4 DEF InStep
<1>s. ASSUME run[r].pc \in Active, run[r].pc # "prompts", UNCHANGED messages,
             run'[r].ctx = ctx, run'[r].from = n, run'[r].pc # "prompts"
      PROVE  InStep(r)'
  <2>1. Unsent(r)' = << >>
    BY <1>s DEF Unsent
  <2> QED BY <1>n, <1>s, <2>1 DEF InStep
<1>2. CASE PollSteering(r)
  BY <1>0, <1>s, <1>2 DEF PollSteering, Active, RunRecord
<1>3. CASE Inject(r)
  <2>1. Head(run[r].pending) \in Queueable
    BY <1>0, <1>3, HeadTailProperties DEF Inject
  <2>2. /\ messages' = Append(messages, Head(run[r].pending))
        /\ run'[r].ctx = Append(ctx, Head(run[r].pending))
        /\ run'[r].from = n /\ run[r].pc = "turn" /\ run'[r].pc = "turn"
    BY <1>0, <1>3 DEF Inject, RunRecord
  <2> QED BY <1>k, <2>1, <2>2 DEF Active
<1>4. CASE Request(r)
  BY <1>0, <1>s, <1>4 DEF Request, Active, RunRecord
<1>5. CASE \E stop \in StopReason : Respond(r, stop)
  <2>1. PICK stop \in StopReason : Respond(r, stop)
    BY <1>5
  <2>2. Assistant(stop) \in Queueable
    BY QueueableMessages
  <2>3. /\ messages' = Append(messages, Assistant(stop))
        /\ run'[r].ctx = Append(ctx, Assistant(stop))
        /\ run'[r].from = n /\ run[r].pc = "streaming"
        /\ run'[r].pc \in {"tools", "poll", "ending"}
    BY <1>0, <2>1 DEF Respond, RunRecord
  <2> QED BY <1>k, <2>2, <2>3 DEF Active
<1>6. CASE ExecuteTools(r)
  <2>1. /\ messages' = Append(messages, ToolResult)
        /\ run'[r].ctx = Append(ctx, ToolResult)
        /\ run'[r].from = n /\ run[r].pc = "tools" /\ run'[r].pc = "poll"
    BY <1>0, <1>6 DEF ExecuteTools, RunRecord
  <2> QED BY <1>k, <2>1, QueueableMessages DEF Active
<1>7. CASE PollFollowUp(r)
  BY <1>0, <1>s, <1>7 DEF PollFollowUp, Active, RunRecord
<1>8. CASE EmitAgentEnd(r) \/ Throw(r) \/ Finish(r) \/ CatchAndFinish(r)
  BY <1>0, <1>8 DEF EmitAgentEnd, Throw, Finish, CatchAndFinish, Active, RunRecord
<1> QED BY <1>1, <1>2, <1>3, <1>4, <1>5, <1>6, <1>7, <1>8 DEF RunStep

LEMMA StepContextInv ==
    ASSUME CallersWait, TypeOK, PlainInv, LoopInv, ContextInv, [Next]_vars
    PROVE  ContextInv'
<1>i. \A r \in Runs : run[r].pc \in Active => Live(r)
  BY DEF Active, Live
<1>1. ASSUME NEW r \in Runs, RunStep(r) PROVE ContextInv'
  <2>1. \A s \in Runs \ {r} : run'[s].pc \notin Active
    BY <1>i, <1>1, RunStepEffect DEF LoopInv
  <2>2. run'[r].pc \in Active => InStep(r)'
    BY <1>1, RunKeepsContext
  <2>3. ASSUME NEW s \in Runs PROVE (run[s].pc \in Active => InStep(s))'
    BY <2>1, <2>2 DEF Active
  <2> QED BY <2>3 DEF ContextInv
<1>2. ASSUME runningPrompt = NoRun, NEW r \in Runs, Starts(r) PROVE ContextInv'
  <2>1. PICK prompts \in Seq(Message), skip \in BOOLEAN : StartRun(r, prompts, skip)
    BY <1>2 DEF Starts
  <2>2. \A s \in Runs \ {r} : run'[s].pc \notin Active
    BY <1>i, <1>2, <2>1, NoRunAssumption DEF LoopInv, StartRun, TypeOK
  <2>3. messages \in Seq(Message) /\ messages' = messages
    BY <2>1 DEF StartRun, TypeOK
  <2>4. /\ run'[r].ctx = messages \o prompts /\ run'[r].pending = prompts
        /\ run'[r].pc = IF prompts = << >> THEN "poll" ELSE "prompts"
        /\ run'[r].from = Len(messages)
    BY <2>1 DEF StartRun, TypeOK
  <2>5. /\ Mirrors(messages \o prompts, messages, Len(messages))
        /\ Copied(messages, Len(messages)) = Len(messages)
    BY <2>3, SideAtFirst
  <2>6. Unsent(r)' = prompts
    BY <2>4 DEF Unsent
  <2>7. /\ Len(messages \o prompts) = Len(messages) + Len(prompts)
        /\ \A k \in DOMAIN prompts : (messages \o prompts)[Len(messages) + k] = prompts[k]
    BY <2>3
  <2>8. InStep(r)'
    BY <2>3, <2>4, <2>5, <2>6, <2>7 DEF InStep
  <2>9. ASSUME NEW s \in Runs PROVE (run[s].pc \in Active => InStep(s))'
    BY <2>2, <2>8 DEF Active
  <2> QED BY <2>9 DEF ContextInv
<1>3. ASSUME UNCHANGED run,
             \/ UNCHANGED messages
             \/ ~isStreaming
             \/ runningPrompt = NoRun
      PROVE  ContextInv'
  <2>1. CASE UNCHANGED messages
    BY <1>3, <2>1 DEF ContextInv, InStep, Unsent
  <2>2. CASE ~isStreaming \/ runningPrompt = NoRun
    <3>1. \A s \in Runs : run[s].pc \notin Active
      BY <1>i, <2>2, NoRunAssumption DEF LoopInv, StreamingWhileActive
    <3> QED BY <1>3, <3>1 DEF ContextInv, Active
  <2> QED BY <1>3, <2>1, <2>2
<1>4. ASSUME AppendMessage PROVE ContextInv'
  <2> DEFINE m == User(nextId, "append")
  <2>1. m \in Message /\ m.kind = "append"
    BY MessageTypes DEF TypeOK, User
  <2>2. messages' = Append(messages, m) /\ UNCHANGED run /\ messages \in Seq(Message)
    BY <1>4 DEF AppendMessage, TypeOK
  <2> HIDE DEF m
  <2>3. ASSUME NEW r \in Runs, run[r].pc \in Active PROVE InStep(r)'
    <3>1. run[r].ctx \in Seq(Message) /\ Mirrors(run[r].ctx, messages, run[r].from)
      BY <2>3 DEF ContextInv, InStep, TypeOK, RunRecord
    <3>2. /\ Mirrors(run[r].ctx, messages', run[r].from)
          /\ Copied(messages', run[r].from) = Copied(messages, run[r].from)
      BY <2>1, <2>2, <3>1, SideAdded
    <3>3. InStep(r) /\ Unsent(r)' = Unsent(r)
      BY <2>2, <2>3 DEF ContextInv, Unsent
    <3> QED BY <2>2, <3>2, <3>3 DEF InStep
  <2> QED BY <2>2, <2>3 DEF ContextInv
<1>5. CASE ApiCall
  BY <1>2, <1>3, <1>4, <1>5, ApiCallEffect
<1>6. CASE UNCHANGED vars
  BY <1>3, <1>6 DEF vars
<1> QED BY <1>1, <1>5, <1>6 DEF Next

LEMMA InitContextInv == Init => ContextInv
<1> SUFFICES ASSUME Init PROVE ContextInv
  OBVIOUS
<1>1. \A r \in Runs : run[r].pc = "unused"
  BY DEF Init, Idle
<1> QED BY <1>1 DEF ContextInv, Active

LEMMA InStepIsTranscript == TypeOK /\ ContextInv => ContextIsTranscript
<1> SUFFICES ASSUME TypeOK, ContextInv, NEW r \in Runs, run[r].pc = "streaming"
             PROVE  /\ Len(run[r].ctx) + Cardinality(Aside(r)) = Len(messages)
                    /\ \A i \in DOMAIN messages \ Aside(r) :
                          run[r].ctx[Place(r, i)] = messages[i]
  BY DEF ContextIsTranscript
<1>1. InStep(r) /\ Unsent(r) = << >>
  BY DEF ContextInv, Active, Unsent
<1>2. messages \in Seq(Message) /\ run[r].from \in Nat
  BY DEF TypeOK, RunRecord
<1>3. Aside(r) = Side(messages, run[r].from)
  BY DEF Aside, Side
<1>4. \A i : Place(r, i) = Moved(messages, run[r].from, i)
  BY <1>3 DEF Place, Moved
<1>c. Cardinality(Side(messages, run[r].from)) \in Nat
  BY <1>2, SideIsFinite
<1>5. Len(run[r].ctx) = Copied(messages, run[r].from)
  <2>1. Len(<< >>) = 0 /\ Copied(messages, run[r].from) \in Int
    BY <1>2, SideIsFinite
  <2> QED BY <1>1, <2>1 DEF InStep
<1>6. Len(run[r].ctx) + Cardinality(Aside(r)) = Len(messages)
  BY <1>2, <1>3, <1>5, <1>c DEF Copied
<1> QED BY <1>1, <1>3, <1>4, <1>6 DEF InStep, Mirrors

(* What a loop sends to the LLM is the transcript the application sees,    *)
(* in its order, less only what was appended on the side since the run     *)
(* began.                                                                  *)
THEOREM TranscriptIsSent == ASSUME CallersWait PROVE Spec => []ContextIsTranscript
<1>1. TypeOK /\ LoopInv /\ [Next]_vars => LoopInv'
  BY StepLoopInv
<1>2. TypeOK /\ PlainInv /\ [Next]_vars => PlainInv'
  BY StepPlainInv
<1>3. TypeOK /\ PlainInv /\ LoopInv /\ ContextInv /\ [Next]_vars => ContextInv'
  BY StepContextInv
<1> QED BY <1>1, <1>2, <1>3, InitLoopInv, InitPlainInv, InitContextInv, TypeCorrect,
           InStepIsTranscript, PTL DEF Spec
-----------------------------------------------------------------------------
(* Only user messages are ever queued or pending.                          *)
UserMessage == {m \in Message : m.role = "user"}
QueueInv == /\ steeringQueue \in Seq(UserMessage)
            /\ followUpQueue \in Seq(UserMessage)
            /\ \A r \in Runs : run[r].pending \in Seq(UserMessage)

(* A context the LLM may be asked to go on from.                           *)
Answerable(s) == s # << >> /\ ~LastIsAssistant(s)

AskInv ==
    \A r \in Runs :
        \/ run[r].pc \in {"prompts", "streaming"}
        \/ run[r].pc = "poll" /\ run[r].more
        \/ run[r].pc = "turn" /\ run[r].pending = << >>
        => Answerable(run[r].ctx)

LEMMA UserMessages ==
    /\ UserMessage \subseteq Message
    /\ \A id \in Nat : \A via \in {"prompt", "steer", "followUp", "append"} :
           User(id, via) \in UserMessage
<1>1. \A id \in Nat : \A via \in {"prompt", "steer", "followUp", "append"} :
          User(id, via).role = "user"
  BY DEF User
<1> QED BY <1>1, MessageTypes DEF UserMessage

LEMMA AnswerableAfter ==
    ASSUME NEW s \in Seq(Message), NEW t \in Seq(UserMessage), t # << >>
    PROVE  Answerable(s \o t)
<1>1. Len(s \o t) = Len(s) + Len(t) /\ Len(t) \in Nat \ {0} /\ Len(s) \in Nat
  OBVIOUS
<1>2. (s \o t)[Len(s \o t)] = t[Len(t)]
  BY <1>1
<1>3. t[Len(t)].role = "user"
  BY <1>1 DEF UserMessage
<1> QED BY <1>1, <1>2, <1>3 DEF Answerable, LastIsAssistant

LEMMA AnswerableNext ==
    ASSUME NEW s \in Seq(Message), NEW m \in Message, m.role # "assistant"
    PROVE  Answerable(Append(s, m))
<1>1. /\ Append(s, m)[Len(Append(s, m))] = m /\ Append(s, m) # << >>
  OBVIOUS
<1> QED BY <1>1 DEF Answerable, LastIsAssistant

LEMMA ApiCallAsks ==
    ASSUME TypeOK, QueueInv, AskInv, ApiCall
    PROVE  QueueInv' /\ AskInv'
<1> USE DEF queues, modes, api, loop
<1>1. /\ Taken(steeringQueue, steeringMode) \in Seq(UserMessage)
      /\ Left(steeringQueue, steeringMode) \in Seq(UserMessage)
      /\ Taken(followUpQueue, followUpMode) \in Seq(UserMessage)
      /\ Left(followUpQueue, followUpMode) \in Seq(UserMessage)
      /\ << >> \in Seq(UserMessage)
  BY PollTypes DEF QueueInv
<1>2. ASSUME NEW r \in Runs, NEW prompts \in Seq(UserMessage), NEW skip,
             StartRun(r, prompts, skip),
             prompts # << >> \/ Answerable(messages),
             steeringQueue' \in Seq(UserMessage), followUpQueue' \in Seq(UserMessage)
      PROVE  QueueInv' /\ AskInv'
  <2>1. /\ \A s \in Runs \ {r} : run'[s] = run[s]
        /\ run'[r].ctx = messages \o prompts /\ run'[r].pending = prompts
    BY <1>2 DEF StartRun, TypeOK
  <2>2. Answerable(messages \o prompts)
    <3>1. messages \in Seq(Message)
      BY DEF TypeOK
    <3>2. CASE prompts # << >>
      BY <3>1, <3>2, AnswerableAfter
    <3>3. CASE prompts = << >> /\ Answerable(messages)
      BY <3>1, <3>3, EmptyTail
    <3> QED BY <1>2, <3>2, <3>3
  <2>3. QueueInv'
    BY <1>2, <2>1 DEF QueueInv
  <2> QED BY <2>1, <2>2, <2>3 DEF AskInv
<1>3. ASSUME NEW r \in Runs, Prompt(r) PROVE QueueInv' /\ AskInv'
  <2>1. User(nextId, "prompt") \in UserMessage
    BY UserMessages DEF TypeOK
  <2>2. << User(nextId, "prompt") >> \in Seq(UserMessage)
    BY <2>1
  <2>3. /\ StartRun(r, << User(nextId, "prompt") >>, FALSE)
        /\ steeringQueue' = steeringQueue /\ followUpQueue' = followUpQueue
    BY <1>3 DEF Prompt
  <2> QED BY <1>2, <2>2, <2>3 DEF QueueInv
<1>4. ASSUME NEW r \in Runs, Continue(r) PROVE QueueInv' /\ AskInv'
  <2>1. CASE /\ steeringQueue # << >>
             /\ StartRun(r, Taken(steeringQueue, steeringMode), TRUE)
             /\ steeringQueue' = Left(steeringQueue, steeringMode)
             /\ UNCHANGED followUpQueue
    <3>1. Taken(steeringQueue, steeringMode) # << >>
      BY <2>1 DEF Taken
    <3> QED BY <1>1, <1>2, <2>1, <3>1 DEF QueueInv
  <2>2. CASE /\ followUpQueue # << >>
             /\ StartRun(r, Taken(followUpQueue, followUpMode), FALSE)
             /\ followUpQueue' = Left(followUpQueue, followUpMode)
             /\ UNCHANGED steeringQueue
    <3>1. Taken(followUpQueue, followUpMode) # << >>
      BY <2>2 DEF Taken
    <3> QED BY <1>1, <1>2, <2>2, <3>1 DEF QueueInv
  <2>3. CASE /\ Answerable(messages)
             /\ StartRun(r, << >>, FALSE)
             /\ UNCHANGED queues
    BY <1>1, <1>2, <2>3 DEF QueueInv
  <2> QED BY <1>4, <2>1, <2>2, <2>3 DEF Continue, Answerable
<1>5. ASSUME UNCHANGED run,
             steeringQueue' \in Seq(UserMessage), followUpQueue' \in Seq(UserMessage)
      PROVE  QueueInv' /\ AskInv'
  BY <1>5 DEF QueueInv, AskInv
<1>6. CASE Steer
  <2>1. User(nextId, "steer") \in UserMessage
    BY UserMessages DEF TypeOK
  <2> QED BY <1>5, <1>6, <2>1 DEF Steer, QueueInv
<1>7. CASE FollowUp
  <2>1. User(nextId, "followUp") \in UserMessage
    BY UserMessages DEF TypeOK
  <2> QED BY <1>5, <1>7, <2>1 DEF FollowUp, QueueInv
<1>8. CASE \E steering, followUps \in BOOLEAN : ClearQueues(steering, followUps)
  BY <1>1, <1>5, <1>8 DEF ClearQueues, QueueInv
<1>9. CASE Reset
  BY <1>1, <1>5, <1>9 DEF Reset
<1>10. CASE Abort \/ WaitForIdle \/ DropFailure \/ AppendMessage
  BY <1>5, <1>10 DEF Abort, WaitForIdle, DropFailure, AppendMessage, QueueInv
<1>11. CASE \E mode \in Mode : SetSteeringMode(mode) \/ SetFollowUpMode(mode)
  BY <1>5, <1>11 DEF SetSteeringMode, SetFollowUpMode, QueueInv
<1> QED BY <1>3, <1>4, <1>6, <1>7, <1>8, <1>9, <1>10, <1>11 DEF ApiCall

LEMMA RunStepAsks ==
    ASSUME TypeOK, QueueInv, AskInv, NEW r \in Runs, RunStep(r)
    PROVE  QueueInv' /\ AskInv'
<1> USE DEF At, Goto, queues
<1>0. /\ run \in [Runs -> RunRecord] /\ run[r] \in RunRecord
      /\ run[r].ctx \in Seq(Message) /\ run[r].pending \in Seq(UserMessage)
      /\ steeringQueue \in Seq(UserMessage) /\ followUpQueue \in Seq(UserMessage)
  BY DEF TypeOK, RunRecord, QueueInv
<1>a. \/ run[r].pc \in {"prompts", "streaming"}
      \/ run[r].pc = "poll" /\ run[r].more
      \/ run[r].pc = "turn" /\ run[r].pending = << >>
      => Answerable(run[r].ctx)
  BY DEF AskInv
<1>s. ASSUME steeringQueue' \in Seq(UserMessage), followUpQueue' \in Seq(UserMessage),
             run'[r].pending \in Seq(UserMessage),
             \/ run'[r].pc \in {"prompts", "streaming"}
             \/ run'[r].pc = "poll" /\ run'[r].more
             \/ run'[r].pc = "turn" /\ run'[r].pending = << >>
             => Answerable(run'[r].ctx)
      PROVE  QueueInv' /\ AskInv'
  <2>1. \A s \in Runs \ {r} : run'[s] = run[s]
    BY RunStepEffect
  <2> QED BY <1>s, <2>1 DEF QueueInv, AskInv
<1>1. CASE EmitPrompt(r)
  <2>1. Tail(run[r].pending) \in Seq(UserMessage)
    BY <1>0, <1>1, HeadTailProperties DEF EmitPrompt
  <2>2. /\ run'[r].pending = Tail(run[r].pending) /\ run'[r].ctx = run[r].ctx
        /\ UNCHANGED queues
    BY <1>0, <1>1 DEF EmitPrompt, RunRecord
  <2> QED BY <1>0, <1>a, <1>s, <1>1, <2>1, <2>2 DEF EmitPrompt
<1>2. CASE PollSteering(r)
  <2>1. /\ Taken(steeringQueue, steeringMode) \in Seq(UserMessage)
        /\ Left(steeringQueue, steeringMode) \in Seq(UserMessage)
        /\ << >> \in Seq(UserMessage)
    BY <1>0, PollTypes
  <2>2. steeringQueue' \in Seq(UserMessage) /\ UNCHANGED followUpQueue
    BY <1>0, <1>2, <2>1 DEF PollSteering
  <2>3. run'[r].pending \in Seq(UserMessage)
    BY <1>0, <1>2, <2>1 DEF PollSteering, RunRecord
  <2>4. /\ run'[r].pc = "turn" /\ run'[r].pending = << >> => run[r].more
        /\ run'[r].pc \in {"turn", "followUp"}
        /\ run'[r].ctx = run[r].ctx
    BY <1>0, <1>2 DEF PollSteering, RunRecord
  <2> QED BY <1>0, <1>a, <1>s, <1>2, <2>2, <2>3, <2>4 DEF PollSteering
<1>3. CASE Inject(r)
  <2>1. /\ Head(run[r].pending) \in UserMessage
        /\ Tail(run[r].pending) \in Seq(UserMessage)
    BY <1>0, <1>3, HeadTailProperties DEF Inject
  <2>2. Answerable(Append(run[r].ctx, Head(run[r].pending)))
    BY <1>0, <2>1, AnswerableNext DEF UserMessage
  <2>3. /\ run'[r].pending = Tail(run[r].pending)
        /\ run'[r].ctx = Append(run[r].ctx, Head(run[r].pending))
        /\ UNCHANGED queues
    BY <1>0, <1>3 DEF Inject, RunRecord
  <2> QED BY <1>0, <1>s, <2>1, <2>2, <2>3
<1>4. CASE Request(r)
  <2>1. /\ run'[r].ctx = run[r].ctx /\ run'[r].pending = run[r].pending
        /\ run[r].pc = "turn" /\ run[r].pending = << >> /\ UNCHANGED queues
    BY <1>0, <1>4 DEF Request, RunRecord
  <2> QED BY <1>0, <1>a, <1>s, <2>1
<1>5. CASE \E stop \in StopReason : Respond(r, stop)
  <2>1. PICK stop \in StopReason : Respond(r, stop)
    BY <1>5
  <2>2. /\ run'[r].more = (stop = "toolUse")
        /\ run'[r].pc = CASE stop = "toolUse" -> "tools"
                          [] stop = "stop"    -> "poll"
                          [] OTHER            -> "ending"
        /\ run'[r].pending = run[r].pending /\ UNCHANGED queues
    BY <1>0, <2>1 DEF Respond, RunRecord
  <2>3. run'[r].pc \in {"poll", "tools", "ending"}
    BY <2>2
  <2>4. run'[r].pc = "poll" => stop # "toolUse"
    BY <2>2
  <2>5. run'[r].pc = "poll" => ~run'[r].more
    BY <2>2, <2>4
  <2> QED BY <1>0, <1>s, <2>2, <2>3, <2>5
<1>6. CASE ExecuteTools(r)
  <2>1. ToolResult \in Message /\ ToolResult.role # "assistant"
    BY MessageTypes DEF ToolResult
  <2>2. Answerable(Append(run[r].ctx, ToolResult))
    BY <1>0, <2>1, AnswerableNext
  <2>3. /\ run'[r].pending = run[r].pending
        /\ run'[r].ctx = Append(run[r].ctx, ToolResult)
        /\ UNCHANGED queues
    BY <1>0, <1>6 DEF ExecuteTools, RunRecord
  <2> QED BY <1>0, <1>s, <2>2, <2>3
<1>7. CASE PollFollowUp(r)
  <2>1. /\ Taken(followUpQueue, followUpMode) \in Seq(UserMessage)
        /\ Left(followUpQueue, followUpMode) \in Seq(UserMessage)
    BY <1>0, PollTypes
  <2>2. /\ followUpQueue' \in Seq(UserMessage) /\ UNCHANGED steeringQueue
        /\ run'[r].pending \in Seq(UserMessage)
        /\ run'[r].pc = "turn" => run'[r].pending # << >>
        /\ run'[r].pc \in {"turn", "ending"}
    BY <1>0, <1>7, <2>1 DEF PollFollowUp, RunRecord
  <2> QED BY <1>0, <1>s, <2>2
<1>8. CASE EmitAgentEnd(r) \/ Throw(r) \/ Finish(r) \/ CatchAndFinish(r)
  <2>1. /\ run'[r].pending = run[r].pending
        /\ run'[r].pc \in {"ended", "thrown", "done"} /\ UNCHANGED queues
    BY <1>0, <1>8 DEF EmitAgentEnd, Throw, Finish, CatchAndFinish, RunRecord
  <2> QED BY <1>0, <1>s, <2>1
<1> QED BY <1>1, <1>2, <1>3, <1>4, <1>5, <1>6, <1>7, <1>8 DEF RunStep

LEMMA StepAsks ==
    ASSUME TypeOK, QueueInv, AskInv, [Next]_vars
    PROVE  QueueInv' /\ AskInv'
<1>1. CASE Next
  BY <1>1, ApiCallAsks, RunStepAsks DEF Next
<1>2. CASE UNCHANGED vars
  BY <1>2 DEF vars, queues, QueueInv, AskInv
<1> QED BY <1>1, <1>2

LEMMA InitAskInv == Init => QueueInv /\ AskInv
<1> SUFFICES ASSUME Init PROVE QueueInv /\ AskInv
  OBVIOUS
<1>1. \A r \in Runs : run[r].pc = "unused" /\ run[r].pending = << >>
  BY DEF Init, Idle
<1>2. AskInv
  BY <1>1 DEF AskInv
<1>3. steeringQueue = << >> /\ followUpQueue = << >> /\ << >> \in Seq(UserMessage)
  BY DEF Init
<1> QED BY <1>1, <1>2, <1>3 DEF QueueInv

(* The LLM is never asked to answer its own last word: no call of prompt,  *)
(* continue or of the queues' methods, at whatever moment, makes a loop    *)
(* send a context that is empty or ends with an assistant message.         *)
THEOREM AlwaysAnswerable == Spec => []NeverAnswersItself
<1>1. TypeOK /\ QueueInv /\ AskInv /\ [Next]_vars => (QueueInv /\ AskInv)'
  BY StepAsks
<1>2. AskInv => NeverAnswersItself
  BY Zenon DEF AskInv, NeverAnswersItself, Answerable
<1> QED BY <1>1, <1>2, InitAskInv, TypeCorrect, PTL DEF Spec
-----------------------------------------------------------------------------
(* A message has an identity when it is a user's, and no two have the same.*)
Named(s) == \A i \in DOMAIN s : s[i].id # 0 <=> IsUser(s[i])
Distinct(s) == \A i, j \in DOMAIN s : s[i].id # 0 /\ s[i].id = s[j].id => i = j
WellNamed(s) == Named(s) /\ Distinct(s)

InHands(P) == UNION {P[r] : r \in Runs}

(* The identities given so far, below n, are shared out between the        *)
(* transcript, the two queues, the hands of the runs and what is gone.     *)
Shared(M, S, F, P, G, n) ==
    /\ M \cup S \cup F \cup G \cup InHands(P) = 1..(n - 1)
    /\ M \cap S = {} /\ M \cap F = {} /\ M \cap G = {}
    /\ S \cap F = {} /\ S \cap G = {} /\ F \cap G = {}
    /\ \A r \in Runs : /\ P[r] \cap M = {} /\ P[r] \cap S = {}
                       /\ P[r] \cap F = {} /\ P[r] \cap G = {}
                       /\ \A q \in Runs \ {r} : P[r] \cap P[q] = {}

Hands == [r \in Runs |-> Ids(run[r].pending)]

OnceInv ==
    /\ WellNamed(messages) /\ WellNamed(steeringQueue) /\ WellNamed(followUpQueue)
    /\ \A r \in Runs : /\ WellNamed(run[r].pending)
                       /\ run[r].pending # << >> => run[r].pc \in {"prompts", "turn"}
    /\ Shared(Ids(messages), Ids(steeringQueue), Ids(followUpQueue), Hands, gone, nextId)

(* Messages of one queue are given in the order they came in.              *)
Queued == {"steer", "followUp"}
Ordered(s) ==
    \A i, j \in DOMAIN s :
        i < j /\ s[i].kind = s[j].kind /\ s[i].kind \in Queued => s[i].id < s[j].id
Before(s, t) ==
    \A i \in DOMAIN s, j \in DOMAIN t :
        s[i].kind = t[j].kind /\ s[i].kind \in Queued => s[i].id < t[j].id
OfKind(s, kind) == \A i \in DOMAIN s : s[i].kind = kind

OrderInv ==
    /\ Ordered(messages) /\ Ordered(steeringQueue) /\ Ordered(followUpQueue)
    /\ OfKind(steeringQueue, "steer") /\ OfKind(followUpQueue, "followUp")
    /\ Before(messages, steeringQueue) /\ Before(messages, followUpQueue)
    /\ \A r \in Runs : /\ Ordered(run[r].pending)
                       /\ Before(messages, run[r].pending)
                       /\ Before(run[r].pending, steeringQueue)
                       /\ Before(run[r].pending, followUpQueue)

(* How identities move when a message is appended or taken off.            *)
LEMMA NoNames == Ids(<< >>) = {} /\ WellNamed(<< >>)
  BY DEF Ids, WellNamed, Named, Distinct

LEMMA OneName ==
    ASSUME NEW m \in UserMessage, m.id # 0
    PROVE  Ids(<< m >>) = {m.id} /\ WellNamed(<< m >>)
<1>1. IsUser(m)
  BY DEF UserMessage, IsUser
<1> QED BY <1>1 DEF Ids, WellNamed, Named, Distinct

LEMMA NameAdded ==
    ASSUME NEW s \in Seq(Message), NEW m \in UserMessage, WellNamed(s),
           m.id # 0, m.id \notin Ids(s)
    PROVE  Ids(Append(s, m)) = Ids(s) \cup {m.id} /\ WellNamed(Append(s, m))
<1> DEFINE t == Append(s, m)
<1>1. IsUser(m) /\ m \in Message
  BY DEF UserMessage, IsUser
<1>2. /\ Len(t) = Len(s) + 1 /\ DOMAIN t = 1..(Len(s) + 1) /\ DOMAIN s = 1..Len(s)
      /\ Len(s) \in Nat /\ t[Len(s) + 1] = m /\ \A i \in 1..Len(s) : t[i] = s[i]
  BY <1>1
<1> HIDE DEF t
<1>3. Ids(t) \subseteq Ids(s) \cup {m.id}
  BY <1>1, <1>2 DEF Ids
<1>4. Ids(s) \subseteq Ids(t)
  BY <1>2 DEF Ids
<1>5. m.id \in Ids(t)
  BY <1>1, <1>2 DEF Ids
<1>6. Named(t)
  BY <1>1, <1>2 DEF WellNamed, Named
<1>7. \A i \in DOMAIN s : s[i].id # 0 => s[i].id \in Ids(s)
  BY DEF WellNamed, Named, Ids
<1>8. \A i, j \in DOMAIN s : s[i].id # 0 /\ s[i].id = s[j].id => i = j
  BY DEF WellNamed, Distinct
<1>9. Distinct(t)
  BY <1>2, <1>7, <1>8 DEF Distinct
<1> QED BY <1>3, <1>4, <1>5, <1>6, <1>9 DEF WellNamed, t

LEMMA NoNameAdded ==
    ASSUME NEW s \in Seq(Message), NEW m \in Message, WellNamed(s),
           m.id = 0, ~IsUser(m)
    PROVE  Ids(Append(s, m)) = Ids(s) /\ WellNamed(Append(s, m))
<1> DEFINE t == Append(s, m)
<1>2. /\ Len(t) = Len(s) + 1 /\ DOMAIN t = 1..(Len(s) + 1) /\ DOMAIN s = 1..Len(s)
      /\ Len(s) \in Nat /\ t[Len(s) + 1] = m /\ \A i \in 1..Len(s) : t[i] = s[i]
  OBVIOUS
<1> HIDE DEF t
<1>3. Ids(t) \subseteq Ids(s) /\ Ids(s) \subseteq Ids(t)
  BY <1>2 DEF Ids
<1>4. Named(t)
  BY <1>2 DEF WellNamed, Named
<1>5. \A i, j \in DOMAIN s : s[i].id # 0 /\ s[i].id = s[j].id => i = j
  BY DEF WellNamed, Distinct
<1>6. Distinct(t)
  BY <1>2, <1>5 DEF Distinct
<1> QED BY <1>3, <1>4, <1>6 DEF WellNamed, t

LEMMA HeadName ==
    ASSUME NEW s \in Seq(UserMessage), WellNamed(s), s # << >>
    PROVE  /\ Head(s).id # 0 /\ Head(s).id \notin Ids(Tail(s))
           /\ Ids(s) = {Head(s).id} \cup Ids(Tail(s)) /\ WellNamed(Tail(s))
<1> DEFINE t == Tail(s)
<1>1. /\ Len(s) \in Nat \ {0} /\ DOMAIN s = 1..Len(s) /\ DOMAIN t = 1..(Len(s) - 1)
      /\ Head(s) = s[1] /\ \A i \in 1..(Len(s) - 1) : t[i] = s[i + 1]
  BY HeadTailProperties
<1> HIDE DEF t
<1>2. \A i \in DOMAIN s : IsUser(s[i])
  BY DEF UserMessage, IsUser
<1>3. \A i \in DOMAIN s : s[i].id # 0
  BY <1>2 DEF WellNamed, Named
<1>4. \A i, j \in DOMAIN s : s[i].id = s[j].id => i = j
  BY <1>3 DEF WellNamed, Distinct
<1>5. \A i \in DOMAIN t : i + 1 \in DOMAIN s /\ i + 1 # 1 /\ t[i] = s[i + 1]
  BY <1>1
<1>6. \A i \in DOMAIN t : IsUser(t[i]) /\ t[i].id # 0 /\ t[i].id # s[1].id
  BY <1>1, <1>2, <1>3, <1>4, <1>5
<1>7. Ids(t) = {t[i].id : i \in DOMAIN t}
  BY <1>6 DEF Ids
<1>8. Ids(s) = {s[i].id : i \in DOMAIN s}
  BY <1>2 DEF Ids
<1>9. \A i \in DOMAIN s : i = 1 \/ (i - 1 \in DOMAIN t /\ s[i] = t[i - 1])
  BY <1>1
<1>10. Ids(s) \subseteq {s[1].id} \cup Ids(t)
  BY <1>7, <1>8, <1>9
<1>11. Ids(t) \subseteq Ids(s) /\ s[1].id \in Ids(s)
  BY <1>1, <1>5, <1>7, <1>8
<1>12. s[1].id \notin Ids(t)
  BY <1>6, <1>7
<1>13. Named(t)
  BY <1>6 DEF Named
<1>14. \A i, j \in DOMAIN t : t[i].id = t[j].id => i + 1 = j + 1
  BY <1>4, <1>5
<1>15. \A i, j \in DOMAIN t : i + 1 = j + 1 => i = j
  BY <1>1
<1>16. Distinct(t)
  BY <1>14, <1>15 DEF Distinct
<1>17. s[1].id # 0
  BY <1>1, <1>3
<1> QED BY <1>1, <1>10, <1>11, <1>12, <1>13, <1>16, <1>17 DEF WellNamed, t

LEMMA LastDropped ==
    ASSUME NEW s \in Seq(Message), WellNamed(s), s # << >>, ~IsUser(s[Len(s)])
    PROVE  LET t == SubSeq(s, 1, Len(s) - 1)
           IN  Ids(t) = Ids(s) /\ WellNamed(t)
<1> DEFINE t == SubSeq(s, 1, Len(s) - 1)
<1>1. /\ Len(s) \in Nat \ {0} /\ DOMAIN s = 1..Len(s) /\ DOMAIN t = 1..(Len(s) - 1)
      /\ \A i \in 1..(Len(s) - 1) : t[i] = s[i]
  OBVIOUS
<1> HIDE DEF t
<1>2. Ids(t) \subseteq Ids(s)
  BY <1>1 DEF Ids
<1>3. \A i \in DOMAIN s : IsUser(s[i]) => i \in DOMAIN t
  BY <1>1
<1>4. Ids(s) \subseteq Ids(t)
  BY <1>1, <1>3 DEF Ids
<1>5. Named(t)
  BY <1>1 DEF WellNamed, Named
<1>6. \A i, j \in DOMAIN s : s[i].id # 0 /\ s[i].id = s[j].id => i = j
  BY DEF WellNamed, Distinct
<1>7. Distinct(t)
  BY <1>1, <1>6 DEF Distinct
<1> QED BY <1>2, <1>4, <1>5, <1>7 DEF WellNamed, t

(* What a poll takes from a queue and what it leaves are what was queued.  *)
LEMMA TakenNames ==
    ASSUME NEW q \in Seq(UserMessage), NEW mode, WellNamed(q)
    PROVE  /\ WellNamed(Taken(q, mode)) /\ WellNamed(Left(q, mode))
           /\ Ids(q) = Ids(Taken(q, mode)) \cup Ids(Left(q, mode))
           /\ Ids(Taken(q, mode)) \cap Ids(Left(q, mode)) = {}
<1>1. CASE mode = "one-at-a-time" /\ q # << >>
  <2>1. Taken(q, mode) = << Head(q) >> /\ Left(q, mode) = Tail(q)
    BY <1>1 DEF Taken, Left
  <2>2. Head(q) \in UserMessage
    BY <1>1, HeadTailProperties
  <2>3. /\ Head(q).id # 0 /\ Head(q).id \notin Ids(Tail(q))
        /\ Ids(q) = {Head(q).id} \cup Ids(Tail(q)) /\ WellNamed(Tail(q))
    BY <1>1, HeadName
  <2>4. Ids(<< Head(q) >>) = {Head(q).id} /\ WellNamed(<< Head(q) >>)
    BY <2>2, <2>3, OneName
  <2> QED BY <2>1, <2>3, <2>4
<1>2. CASE ~(mode = "one-at-a-time" /\ q # << >>)
  <2>1. Taken(q, mode) = q /\ Left(q, mode) = << >>
    BY <1>2 DEF Taken, Left
  <2> QED BY <2>1, NoNames
<1> QED BY <1>1, <1>2

LEMMA InOneHand ==
    ASSUME NEW P, NEW id
    PROVE  id \in InHands(P) <=> \E r \in Runs : id \in P[r]
  BY DEF InHands

(* How the identities are shared out after one of these moves.             *)
LEMMA SharedNew ==
    ASSUME NEW M, NEW S, NEW F, NEW P \in [Runs -> SUBSET Nat], NEW G,
           NEW n \in Nat \ {0}, Shared(M, S, F, P, G, n)
    PROVE  /\ n \notin M /\ n \notin S /\ n \notin F
           /\ Shared(M \cup {n}, S, F, P, G, n + 1)
           /\ Shared(M, S \cup {n}, F, P, G, n + 1)
           /\ Shared(M, S, F \cup {n}, P, G, n + 1)
           /\ \A r \in Runs : Shared(M, S, F, [P EXCEPT ![r] = @ \cup {n}], G, n + 1)
<1>1. 1..(n + 1 - 1) = 1..(n - 1) \cup {n} /\ n \notin 1..(n - 1)
  OBVIOUS
<1>2. /\ n \notin M /\ n \notin S /\ n \notin F /\ n \notin G
      /\ \A r \in Runs : n \notin P[r]
  BY <1>1, InOneHand DEF Shared
<1>3. ASSUME NEW r \in Runs
      PROVE  Shared(M, S, F, [P EXCEPT ![r] = @ \cup {n}], G, n + 1)
  <2> DEFINE Q == [P EXCEPT ![r] = @ \cup {n}]
  <2>1. Q[r] = P[r] \cup {n} /\ \A q \in Runs \ {r} : Q[q] = P[q]
    OBVIOUS
  <2> HIDE DEF Q
  <2>2. InHands(Q) = InHands(P) \cup {n}
    BY <2>1, InOneHand
  <2>3. M \cup S \cup F \cup G \cup InHands(Q) = 1..(n + 1 - 1)
    BY <1>1, <2>2 DEF Shared
  <2>4. \A q \in Runs : /\ Q[q] \cap M = {} /\ Q[q] \cap S = {}
                        /\ Q[q] \cap F = {} /\ Q[q] \cap G = {}
    BY <1>2, <2>1 DEF Shared
  <2>5. \A q, p \in Runs : q # p => Q[q] \cap Q[p] = {}
    BY <1>2, <2>1 DEF Shared
  <2>6. Shared(M, S, F, Q, G, n + 1)
    BY <2>3, <2>4, <2>5 DEF Shared
  <2> QED BY <2>6 DEF Q
<1>4. Shared(M \cup {n}, S, F, P, G, n + 1)
  BY <1>1, <1>2 DEF Shared
<1>5. Shared(M, S \cup {n}, F, P, G, n + 1)
  BY <1>1, <1>2 DEF Shared
<1>6. Shared(M, S, F \cup {n}, P, G, n + 1)
  BY <1>1, <1>2 DEF Shared
<1> QED BY <1>2, <1>3, <1>4, <1>5, <1>6

LEMMA SharedTaken ==
    ASSUME NEW M, NEW S, NEW F, NEW P \in [Runs -> SUBSET Nat], NEW G, NEW n,
           Shared(M, S, F, P, G, n), NEW r \in Runs, P[r] = {},
           NEW T \in SUBSET Nat, NEW L, T \cap L = {}
    PROVE  /\ S = T \cup L => Shared(M, L, F, [P EXCEPT ![r] = T], G, n)
           /\ F = T \cup L => Shared(M, S, L, [P EXCEPT ![r] = T], G, n)
<1> DEFINE Q == [P EXCEPT ![r] = T]
<1>1. Q[r] = T /\ \A q \in Runs \ {r} : Q[q] = P[q]
  OBVIOUS
<1> HIDE DEF Q
<1>2. InHands(Q) = InHands(P) \cup T
  BY <1>1, InOneHand
<1>3. ASSUME S = T \cup L PROVE Shared(M, L, F, Q, G, n)
  <2>1. M \cup L \cup F \cup G \cup InHands(Q) = 1..(n - 1)
    BY <1>2, <1>3 DEF Shared
  <2>2. \A q \in Runs : /\ Q[q] \cap M = {} /\ Q[q] \cap L = {}
                        /\ Q[q] \cap F = {} /\ Q[q] \cap G = {}
    BY <1>1, <1>3 DEF Shared
  <2>3. \A q, p \in Runs : q # p => Q[q] \cap Q[p] = {}
    BY <1>1, <1>3 DEF Shared
  <2>4. M \cap L = {} /\ L \cap F = {} /\ L \cap G = {}
    BY <1>3 DEF Shared
  <2> QED BY <2>1, <2>2, <2>3, <2>4 DEF Shared
<1>4. ASSUME F = T \cup L PROVE Shared(M, S, L, Q, G, n)
  <2>1. M \cup S \cup L \cup G \cup InHands(Q) = 1..(n - 1)
    BY <1>2, <1>4 DEF Shared
  <2>2. \A q \in Runs : /\ Q[q] \cap M = {} /\ Q[q] \cap S = {}
                        /\ Q[q] \cap L = {} /\ Q[q] \cap G = {}
    BY <1>1, <1>4 DEF Shared
  <2>3. \A q, p \in Runs : q # p => Q[q] \cap Q[p] = {}
    BY <1>1, <1>4 DEF Shared
  <2>4. M \cap L = {} /\ S \cap L = {} /\ L \cap G = {}
    BY <1>4 DEF Shared
  <2> QED BY <2>1, <2>2, <2>3, <2>4 DEF Shared
<1> QED BY <1>3, <1>4 DEF Q

LEMMA SharedDelivered ==
    ASSUME NEW M, NEW S, NEW F, NEW P \in [Runs -> SUBSET Nat], NEW G, NEW n,
           Shared(M, S, F, P, G, n), NEW r \in Runs,
           NEW id \in Nat, NEW T \in SUBSET Nat, P[r] = {id} \cup T, id \notin T
    PROVE  Shared(M \cup {id}, S, F, [P EXCEPT ![r] = T], G, n)
<1> DEFINE Q == [P EXCEPT ![r] = T]
<1>1. Q[r] = T /\ \A q \in Runs \ {r} : Q[q] = P[q]
  OBVIOUS
<1> HIDE DEF Q
<1>2. InHands(P) = InHands(Q) \cup {id}
  BY <1>1, InOneHand
<1>3. M \cup {id} \cup S \cup F \cup G \cup InHands(Q) = 1..(n - 1)
  BY <1>2 DEF Shared
<1>4. id \notin S /\ id \notin F /\ id \notin G /\ \A q \in Runs : id \notin Q[q]
  BY <1>1 DEF Shared
<1>5. \A q \in Runs : /\ Q[q] \cap (M \cup {id}) = {} /\ Q[q] \cap S = {}
                      /\ Q[q] \cap F = {} /\ Q[q] \cap G = {}
  BY <1>1, <1>4 DEF Shared
<1>6. \A q, p \in Runs : q # p => Q[q] \cap Q[p] = {}
  BY <1>1 DEF Shared
<1> QED BY <1>3, <1>4, <1>5, <1>6 DEF Shared, Q

LEMMA SharedGone ==
    ASSUME NEW M, NEW S, NEW F, NEW P, NEW G, NEW n, Shared(M, S, F, P, G, n)
    PROVE  /\ Shared({}, S, F, P, G \cup M, n)
           /\ Shared(M, {}, F, P, G \cup S, n)
           /\ Shared(M, S, {}, P, G \cup F, n)
  BY DEF Shared
-----------------------------------------------------------------------------
(* Each identity stays in one place, whatever the application calls...     *)
LEMMA HandsChange ==
    ASSUME TypeOK, NEW r \in Runs, \A s \in Runs \ {r} : run'[s] = run[s]
    PROVE  /\ Hands \in [Runs -> SUBSET Nat]
           /\ Hands' = [Hands EXCEPT ![r] = Ids(run'[r].pending)]
<1>1. \A s \in Seq(Message) : Ids(s) \in SUBSET Nat
  <2>1. \A m \in Message : m.id \in Nat
    BY DEF Message
  <2> QED BY <2>1 DEF Ids
<1>2. \A s \in Runs : run[s].pending \in Seq(Message)
  BY DEF TypeOK, RunRecord
<1>3. Hands \in [Runs -> SUBSET Nat]
  BY <1>1, <1>2 DEF Hands
<1>4. Hands' = [Hands EXCEPT ![r] = Ids(run'[r].pending)]
  BY <1>3 DEF Hands
<1> QED BY <1>3, <1>4

LEMMA UserNames ==
    \A id \in Nat \ {0} : \A via \in {"prompt", "steer", "followUp", "append"} :
        User(id, via) \in UserMessage /\ User(id, via).id = id /\ User(id, via).id # 0
  BY UserMessages DEF User

LEMMA ApiCallOnce ==
    ASSUME TypeOK, QueueInv, OnceInv, ApiCall
    PROVE  OnceInv'
<1> USE DEF queues, modes, api, loop
<1>0. /\ nextId \in Nat \ {0} /\ messages \in Seq(Message)
      /\ steeringQueue \in Seq(UserMessage) /\ followUpQueue \in Seq(UserMessage)
      /\ UserMessage \subseteq Message
      /\ steeringQueue \in Seq(Message) /\ followUpQueue \in Seq(Message)
  BY UserMessages DEF TypeOK, QueueInv
<1>i. /\ WellNamed(messages) /\ WellNamed(steeringQueue) /\ WellNamed(followUpQueue)
      /\ Shared(Ids(messages), Ids(steeringQueue), Ids(followUpQueue), Hands, gone, nextId)
  BY DEF OnceInv
<1>h. Hands \in [Runs -> SUBSET Nat]
  <2>1. \A s \in Runs : run[s].pending \in Seq(Message)
    BY DEF TypeOK, RunRecord
  <2>2. \A m \in Message : m.id \in Nat
    BY DEF Message
  <2> QED BY <2>1, <2>2 DEF Hands, Ids
<1>n. /\ nextId \notin Ids(messages) /\ nextId \notin Ids(steeringQueue)
      /\ nextId \notin Ids(followUpQueue)
      /\ Shared(Ids(messages) \cup {nextId}, Ids(steeringQueue), Ids(followUpQueue),
                Hands, gone, nextId + 1)
      /\ Shared(Ids(messages), Ids(steeringQueue) \cup {nextId}, Ids(followUpQueue),
                Hands, gone, nextId + 1)
      /\ Shared(Ids(messages), Ids(steeringQueue), Ids(followUpQueue) \cup {nextId},
                Hands, gone, nextId + 1)
      /\ \A r \in Runs :
             Shared(Ids(messages), Ids(steeringQueue), Ids(followUpQueue),
                    [Hands EXCEPT ![r] = @ \cup {nextId}], gone, nextId + 1)
  <2> DEFINE M == Ids(messages)
             S == Ids(steeringQueue)
             F == Ids(followUpQueue)
  <2>1. Shared(M, S, F, Hands, gone, nextId)
    BY <1>i
  <2> HIDE DEF M, S, F
  <2>2. /\ nextId \notin M /\ nextId \notin S /\ nextId \notin F
        /\ Shared(M \cup {nextId}, S, F, Hands, gone, nextId + 1)
        /\ Shared(M, S \cup {nextId}, F, Hands, gone, nextId + 1)
        /\ Shared(M, S, F \cup {nextId}, Hands, gone, nextId + 1)
    BY <1>0, <1>h, <2>1, SharedNew
  <2>3. \A r \in Runs :
            Shared(M, S, F, [Hands EXCEPT ![r] = @ \cup {nextId}], gone, nextId + 1)
    BY <1>0, <1>h, <2>1, SharedNew
  <2> QED BY <2>2, <2>3 DEF M, S, F
<1>1. ASSUME NEW r \in Runs, NEW prompts \in Seq(UserMessage), NEW skip,
             StartRun(r, prompts, skip), WellNamed(prompts),
             WellNamed(steeringQueue)', WellNamed(followUpQueue)',
             Shared(Ids(messages), Ids(steeringQueue'), Ids(followUpQueue'),
                    [Hands EXCEPT ![r] = Ids(prompts)], gone', nextId')
      PROVE  OnceInv'
  <2>1. /\ \A s \in Runs \ {r} : run'[s] = run[s]
        /\ run'[r].pending = prompts
        /\ run'[r].pc = IF prompts = << >> THEN "poll" ELSE "prompts"
        /\ messages' = messages
    BY <1>1 DEF StartRun, TypeOK
  <2>2. Hands' = [Hands EXCEPT ![r] = Ids(prompts)]
    BY <2>1, HandsChange
  <2>3. \A s \in Runs : /\ WellNamed(run'[s].pending)
                        /\ run'[s].pending # << >> => run'[s].pc \in {"prompts", "turn"}
    BY <1>1, <2>1 DEF OnceInv
  <2> QED BY <1>1, <1>i, <2>1, <2>2, <2>3 DEF OnceInv
<1>2. ASSUME NEW r \in Runs, run[r].pc = "unused"
      PROVE  Hands[r] = {}
  <2>1. run[r].pending = << >>
    BY <1>2 DEF OnceInv
  <2> QED BY <2>1, NoNames DEF Hands
<1>3. ASSUME NEW r \in Runs, Prompt(r) PROVE OnceInv'
  <2> DEFINE m == User(nextId, "prompt")
  <2>1. m \in UserMessage /\ m.id = nextId /\ m.id # 0
    BY <1>0, UserNames
  <2>2. Ids(<< m >>) = {nextId} /\ WellNamed(<< m >>) /\ << m >> \in Seq(UserMessage)
    BY <2>1, OneName
  <2>3. /\ StartRun(r, << m >>, FALSE) /\ nextId' = nextId + 1
        /\ UNCHANGED <<steeringQueue, followUpQueue, gone>>
    BY <1>3 DEF Prompt
  <2> HIDE DEF m
  <2>4. Hands[r] = {}
    BY <1>2, <2>3 DEF StartRun
  <2>5. [Hands EXCEPT ![r] = @ \cup {nextId}] = [Hands EXCEPT ![r] = Ids(<< m >>)]
    BY <2>2, <2>4
  <2>6. Shared(Ids(messages), Ids(steeringQueue), Ids(followUpQueue),
               [Hands EXCEPT ![r] = Ids(<< m >>)], gone, nextId + 1)
    BY <1>n, <2>5
  <2>7. /\ Ids(steeringQueue') = Ids(steeringQueue) /\ Ids(followUpQueue') = Ids(followUpQueue)
        /\ WellNamed(steeringQueue)' /\ WellNamed(followUpQueue)'
        /\ gone' = gone
    BY <1>i, <2>3
  <2> QED BY <1>1, <2>2, <2>3, <2>6, <2>7
<1>4. ASSUME NEW r \in Runs, Continue(r) PROVE OnceInv'
  <2> DEFINE TS == Taken(steeringQueue, steeringMode)
             LS == Left(steeringQueue, steeringMode)
             TF == Taken(followUpQueue, followUpMode)
             LF == Left(followUpQueue, followUpMode)
  <2>1. /\ TS \in Seq(UserMessage) /\ LS \in Seq(UserMessage)
        /\ TF \in Seq(UserMessage) /\ LF \in Seq(UserMessage)
        /\ << >> \in Seq(UserMessage)
    BY <1>0, PollTypes
  <2>2. /\ WellNamed(TS) /\ WellNamed(LS) /\ WellNamed(TF) /\ WellNamed(LF)
        /\ Ids(steeringQueue) = Ids(TS) \cup Ids(LS) /\ Ids(TS) \cap Ids(LS) = {}
        /\ Ids(followUpQueue) = Ids(TF) \cup Ids(LF) /\ Ids(TF) \cap Ids(LF) = {}
    BY <1>0, <1>i, TakenNames
  <2>3. run[r].pc = "unused" /\ gone' = gone /\ nextId' = nextId
    BY <1>4 DEF Continue, StartRun
  <2>4. Hands[r] = {}
    BY <1>2, <2>3
  <2>5. Ids(TS) \in SUBSET Nat /\ Ids(TF) \in SUBSET Nat
    <3>1. \A k \in UserMessage : k.id \in Nat
      BY DEF UserMessage, Message
    <3> QED BY <2>1, <3>1 DEF Ids
  <2>6. /\ Shared(Ids(messages), Ids(LS), Ids(followUpQueue),
                  [Hands EXCEPT ![r] = Ids(TS)], gone, nextId)
        /\ Shared(Ids(messages), Ids(steeringQueue), Ids(LF),
                  [Hands EXCEPT ![r] = Ids(TF)], gone, nextId)
    BY <1>i, <1>h, <2>2, <2>4, <2>5, SharedTaken
  <2>7. [Hands EXCEPT ![r] = Ids(<< >>)] = Hands
    BY <1>h, <2>4, NoNames
  <2>c. \/ StartRun(r, TS, TRUE) /\ steeringQueue' = LS /\ followUpQueue' = followUpQueue
        \/ StartRun(r, TF, FALSE) /\ steeringQueue' = steeringQueue /\ followUpQueue' = LF
        \/ /\ StartRun(r, << >>, FALSE)
           /\ steeringQueue' = steeringQueue /\ followUpQueue' = followUpQueue
    BY <1>4 DEF Continue
  <2> HIDE DEF TS, LS, TF, LF
  <2>8. CASE StartRun(r, TS, TRUE) /\ steeringQueue' = LS /\ followUpQueue' = followUpQueue
    BY <1>1, <1>i, <2>1, <2>2, <2>3, <2>6, <2>8
  <2>9. CASE StartRun(r, TF, FALSE) /\ steeringQueue' = steeringQueue /\ followUpQueue' = LF
    BY <1>1, <1>i, <2>1, <2>2, <2>3, <2>6, <2>9
  <2>10. CASE /\ StartRun(r, << >>, FALSE)
              /\ steeringQueue' = steeringQueue /\ followUpQueue' = followUpQueue
    BY <1>1, <1>i, <2>1, <2>3, <2>7, <2>10, NoNames
  <2> QED BY <2>c, <2>8, <2>9, <2>10
<1>5. ASSUME UNCHANGED run, WellNamed(messages)',
             WellNamed(steeringQueue)', WellNamed(followUpQueue)',
             Shared(Ids(messages'), Ids(steeringQueue'), Ids(followUpQueue'),
                    Hands, gone', nextId')
      PROVE  OnceInv'
  BY <1>5 DEF OnceInv, Hands
<1>6. CASE Steer
  <2> DEFINE m == User(nextId, "steer")
  <2>1. m \in UserMessage /\ m.id = nextId /\ m.id # 0
    BY <1>0, UserNames
  <2>2. /\ steeringQueue' = Append(steeringQueue, m) /\ nextId' = nextId + 1
        /\ UNCHANGED <<run, messages, followUpQueue, gone>>
    BY <1>6 DEF Steer
  <2> HIDE DEF m
  <2>3. Ids(steeringQueue') = Ids(steeringQueue) \cup {nextId} /\ WellNamed(steeringQueue)'
    BY <1>0, <1>i, <1>n, <2>1, <2>2, NameAdded
  <2> QED BY <1>5, <1>i, <1>n, <2>2, <2>3
<1>7. CASE FollowUp
  <2> DEFINE m == User(nextId, "followUp")
  <2>1. m \in UserMessage /\ m.id = nextId /\ m.id # 0
    BY <1>0, UserNames
  <2>2. /\ followUpQueue' = Append(followUpQueue, m) /\ nextId' = nextId + 1
        /\ UNCHANGED <<run, messages, steeringQueue, gone>>
    BY <1>7 DEF FollowUp
  <2> HIDE DEF m
  <2>3. Ids(followUpQueue') = Ids(followUpQueue) \cup {nextId} /\ WellNamed(followUpQueue)'
    BY <1>0, <1>i, <1>n, <2>1, <2>2, NameAdded
  <2> QED BY <1>5, <1>i, <1>n, <2>2, <2>3
<1>8. ASSUME NEW steering \in BOOLEAN, NEW followUps \in BOOLEAN,
             ClearQueues(steering, followUps)
      PROVE  OnceInv'
  <2> DEFINE SQ == IF steering THEN {} ELSE Ids(steeringQueue)
             FQ == IF followUps THEN {} ELSE Ids(followUpQueue)
             GS == IF steering THEN Ids(steeringQueue) ELSE {}
             GF == IF followUps THEN Ids(followUpQueue) ELSE {}
  <2>1. Shared(Ids(messages), SQ, Ids(followUpQueue), Hands, gone \cup GS, nextId)
    <3>1. gone \cup {} = gone
      OBVIOUS
    <3> QED BY <1>i, <3>1, SharedGone
  <2>2. Shared(Ids(messages), SQ, FQ, Hands, gone \cup GS \cup GF, nextId)
    <3>1. gone \cup GS \cup {} = gone \cup GS
      OBVIOUS
    <3> HIDE DEF SQ, GS
    <3> QED BY <2>1, <3>1, SharedGone
  <2>3. /\ Ids(steeringQueue') = SQ /\ WellNamed(steeringQueue)'
        /\ Ids(followUpQueue') = FQ /\ WellNamed(followUpQueue)'
    BY <1>8, <1>i, NoNames DEF ClearQueues
  <2>4. /\ gone' = gone \cup GS \cup GF
        /\ UNCHANGED <<run, messages, nextId>>
    BY <1>8 DEF ClearQueues
  <2> HIDE DEF SQ, FQ, GS, GF
  <2> QED BY <1>5, <1>i, <2>2, <2>3, <2>4
<1>9. CASE Reset
  <2>1. Shared({}, Ids(steeringQueue), Ids(followUpQueue), Hands, gone \cup Ids(messages), nextId)
    BY <1>i, SharedGone
  <2>2. Shared({}, {}, Ids(followUpQueue), Hands,
               gone \cup Ids(messages) \cup Ids(steeringQueue), nextId)
    BY <2>1, SharedGone
  <2>3. Shared({}, {}, {}, Hands,
               gone \cup Ids(messages) \cup Ids(steeringQueue) \cup Ids(followUpQueue), nextId)
    BY <2>2, SharedGone
  <2>4. /\ messages' = << >> /\ steeringQueue' = << >> /\ followUpQueue' = << >>
        /\ gone' = gone \cup Ids(messages) \cup Ids(steeringQueue) \cup Ids(followUpQueue)
        /\ UNCHANGED <<run, nextId>>
    BY <1>9 DEF Reset
  <2> QED BY <1>5, <2>3, <2>4, NoNames
<1>10. CASE DropFailure
  <2>1. /\ messages # << >> /\ ~IsUser(messages[Len(messages)])
        /\ messages' = SubSeq(messages, 1, Len(messages) - 1)
        /\ UNCHANGED <<run, steeringQueue, followUpQueue, gone, nextId>>
    BY <1>10 DEF DropFailure, LastIsAssistant, IsUser
  <2>2. Ids(messages') = Ids(messages) /\ WellNamed(messages)'
    BY <1>0, <1>i, <2>1, LastDropped
  <2> QED BY <1>5, <1>i, <2>1, <2>2
<1>11. CASE AppendMessage
  <2> DEFINE m == User(nextId, "append")
  <2>1. m \in UserMessage /\ m.id = nextId /\ m.id # 0
    BY <1>0, UserNames
  <2>2. /\ messages' = Append(messages, m) /\ nextId' = nextId + 1
        /\ UNCHANGED <<run, steeringQueue, followUpQueue, gone>>
    BY <1>11 DEF AppendMessage
  <2> HIDE DEF m
  <2>3. Ids(messages') = Ids(messages) \cup {nextId} /\ WellNamed(messages)'
    BY <1>0, <1>i, <1>n, <2>1, <2>2, NameAdded
  <2> QED BY <1>5, <1>i, <1>n, <2>2, <2>3
<1>12. CASE \/ Abort \/ WaitForIdle
            \/ \E mode \in Mode : SetSteeringMode(mode) \/ SetFollowUpMode(mode)
  <2>1. UNCHANGED <<run, messages, steeringQueue, followUpQueue, gone, nextId>>
    BY <1>12 DEF Abort, WaitForIdle, SetSteeringMode, SetFollowUpMode
  <2> QED BY <1>5, <1>i, <2>1
<1> QED BY <1>3, <1>4, <1>6, <1>7, <1>8, <1>9, <1>10, <1>11, <1>12 DEF ApiCall

(* ... and whatever a loop does.                                           *)
LEMMA OtherNames ==
    /\ \A stop \in StopReason :
           Assistant(stop) \in Message /\ Assistant(stop).id = 0 /\ ~IsUser(Assistant(stop))
    /\ ToolResult \in Message /\ ToolResult.id = 0 /\ ~IsUser(ToolResult)
  BY MessageTypes DEF Assistant, ToolResult, IsUser

LEMMA RunStepOnce ==
    ASSUME TypeOK, QueueInv, OnceInv, NEW r \in Runs, RunStep(r)
    PROVE  OnceInv'
<1> USE DEF At, Goto, queues, api, loop
<1>0. /\ run \in [Runs -> RunRecord] /\ run[r] \in RunRecord
      /\ messages \in Seq(Message) /\ run[r].pending \in Seq(UserMessage)
      /\ steeringQueue \in Seq(UserMessage) /\ followUpQueue \in Seq(UserMessage)
  BY DEF TypeOK, QueueInv
<1>i. /\ WellNamed(messages) /\ WellNamed(steeringQueue) /\ WellNamed(followUpQueue)
      /\ WellNamed(run[r].pending)
      /\ run[r].pending # << >> => run[r].pc \in {"prompts", "turn"}
      /\ Shared(Ids(messages), Ids(steeringQueue), Ids(followUpQueue), Hands, gone, nextId)
  BY DEF OnceInv
<1>o. \A s \in Runs \ {r} : run'[s] = run[s]
  BY RunStepEffect
<1>h. /\ Hands \in [Runs -> SUBSET Nat] /\ Hands[r] = Ids(run[r].pending)
      /\ Hands' = [Hands EXCEPT ![r] = Ids(run'[r].pending)]
  BY <1>o, HandsChange DEF Hands
<1>n. \A s \in Seq(UserMessage) : Ids(s) \in SUBSET Nat
  <2>1. \A k \in UserMessage : k.id \in Nat
    BY DEF UserMessage, Message
  <2> QED BY <2>1 DEF Ids
<1>1. ASSUME WellNamed(messages)', WellNamed(steeringQueue)', WellNamed(followUpQueue)',
             WellNamed(run'[r].pending),
             run'[r].pending # << >> => run'[r].pc \in {"prompts", "turn"},
             Shared(Ids(messages'), Ids(steeringQueue'), Ids(followUpQueue'),
                    [Hands EXCEPT ![r] = Ids(run'[r].pending)], gone', nextId')
      PROVE  OnceInv'
  BY <1>1, <1>o, <1>h DEF OnceInv
<1>2. ASSUME run[r].pending # << >>,
             messages' = Append(messages, Head(run[r].pending)),
             run'[r].pending = Tail(run[r].pending),
             run'[r].pending # << >> => run'[r].pc \in {"prompts", "turn"},
             UNCHANGED <<queues, gone, nextId>>
      PROVE  OnceInv'
  <2> DEFINE p == run[r].pending
  <2>0. p \in Seq(UserMessage) /\ p # << >> /\ WellNamed(p)
    BY <1>0, <1>i, <1>2
  <2>1. Head(p) \in UserMessage /\ Tail(p) \in Seq(UserMessage)
    BY <2>0, HeadTailProperties
  <2>2. /\ Head(p).id # 0 /\ Head(p).id \notin Ids(Tail(p))
        /\ Ids(p) = {Head(p).id} \cup Ids(Tail(p)) /\ WellNamed(Tail(p))
    BY <2>0, HeadName
  <2>3. Head(p).id \in Nat /\ Ids(Tail(p)) \in SUBSET Nat
    BY <1>n, <2>1 DEF UserMessage, Message
  <2>4. Head(p).id \notin Ids(messages)
    BY <1>i, <1>h, <2>2 DEF Shared
  <2>5. Ids(messages') = Ids(messages) \cup {Head(p).id} /\ WellNamed(messages)'
    BY <1>0, <1>i, <1>2, <2>1, <2>2, <2>4, NameAdded
  <2>6. Shared(Ids(messages) \cup {Head(p).id}, Ids(steeringQueue), Ids(followUpQueue),
               [Hands EXCEPT ![r] = Ids(Tail(p))], gone, nextId)
    BY <1>i, <1>h, <2>2, <2>3, SharedDelivered
  <2> QED BY <1>1, <1>2, <1>i, <2>2, <2>5, <2>6
<1>3. ASSUME run[r].pending = << >>, NEW mode,
             \/ /\ steeringQueue' = Left(steeringQueue, mode)
                /\ run'[r].pending = Taken(steeringQueue, mode)
                /\ UNCHANGED followUpQueue
             \/ /\ followUpQueue' = Left(followUpQueue, mode)
                /\ run'[r].pending = Taken(followUpQueue, mode)
                /\ UNCHANGED steeringQueue,
             run'[r].pending # << >> => run'[r].pc \in {"prompts", "turn"},
             UNCHANGED <<messages, gone, nextId>>
      PROVE  OnceInv'
  <2>1. Hands[r] = {}
    BY <1>3, <1>h, NoNames
  <2>2. CASE /\ steeringQueue' = Left(steeringQueue, mode)
             /\ run'[r].pending = Taken(steeringQueue, mode)
             /\ UNCHANGED followUpQueue
    <3> DEFINE T == Taken(steeringQueue, mode)
               L == Left(steeringQueue, mode)
    <3>1. /\ WellNamed(T) /\ WellNamed(L)
          /\ Ids(steeringQueue) = Ids(T) \cup Ids(L) /\ Ids(T) \cap Ids(L) = {}
      BY <1>0, <1>i, TakenNames
    <3>2. Ids(T) \in SUBSET Nat
      BY <1>0, <1>n, PollTypes
    <3>3. Shared(Ids(messages), Ids(L), Ids(followUpQueue),
                 [Hands EXCEPT ![r] = Ids(T)], gone, nextId)
      BY <1>i, <1>h, <2>1, <3>1, <3>2, SharedTaken
    <3> HIDE DEF T, L
    <3>4. steeringQueue' = L /\ run'[r].pending = T /\ UNCHANGED followUpQueue
      BY <2>2 DEF T, L
    <3> QED BY <1>1, <1>3, <1>i, <3>1, <3>3, <3>4
  <2>3. CASE /\ followUpQueue' = Left(followUpQueue, mode)
             /\ run'[r].pending = Taken(followUpQueue, mode)
             /\ UNCHANGED steeringQueue
    <3> DEFINE T == Taken(followUpQueue, mode)
               L == Left(followUpQueue, mode)
    <3>1. /\ WellNamed(T) /\ WellNamed(L)
          /\ Ids(followUpQueue) = Ids(T) \cup Ids(L) /\ Ids(T) \cap Ids(L) = {}
      BY <1>0, <1>i, TakenNames
    <3>2. Ids(T) \in SUBSET Nat
      BY <1>0, <1>n, PollTypes
    <3>3. Shared(Ids(messages), Ids(steeringQueue), Ids(L),
                 [Hands EXCEPT ![r] = Ids(T)], gone, nextId)
      BY <1>i, <1>h, <2>1, <3>1, <3>2, SharedTaken
    <3> HIDE DEF T, L
    <3>4. followUpQueue' = L /\ run'[r].pending = T /\ UNCHANGED steeringQueue
      BY <2>3 DEF T, L
    <3> QED BY <1>1, <1>3, <1>i, <3>1, <3>3, <3>4
  <2> QED BY <1>3, <2>2, <2>3
<1>4. ASSUME run[r].pending = << >>, run'[r].pending = << >>,
             \/ UNCHANGED messages
             \/ \E m \in Message : /\ m.id = 0 /\ ~IsUser(m)
                                   /\ messages' = Append(messages, m),
             UNCHANGED <<queues, gone, nextId>>
      PROVE  OnceInv'
  <2>1. Ids(messages') = Ids(messages) /\ WellNamed(messages)'
    BY <1>0, <1>4, <1>i, NoNameAdded
  <2>2. [Hands EXCEPT ![r] = Ids(run'[r].pending)] = Hands
    BY <1>4, <1>h
  <2> QED BY <1>1, <1>4, <1>i, <2>1, <2>2
<1>5. CASE EmitPrompt(r)
  BY <1>0, <1>2, <1>5 DEF EmitPrompt, RunRecord
<1>6. CASE PollSteering(r)
  <2>1. run[r].pending = << >> /\ UNCHANGED <<messages, followUpQueue, gone, nextId>>
    BY <1>i, <1>6 DEF PollSteering
  <2>2. run'[r].pending # << >> => run'[r].pc = "turn"
    BY <1>0, <1>6 DEF PollSteering, RunRecord
  <2>3. CASE ~run[r].skip
    <3>1. /\ steeringQueue' = Left(steeringQueue, steeringMode)
          /\ run'[r].pending = Taken(steeringQueue, steeringMode)
      BY <1>0, <1>6, <2>3 DEF PollSteering, RunRecord
    <3> QED BY <1>3, <2>1, <2>2, <3>1
  <2>4. CASE run[r].skip
    <3>1. steeringQueue' = steeringQueue /\ run'[r].pending = << >>
      BY <1>0, <1>6, <2>4 DEF PollSteering, RunRecord
    <3> QED BY <1>4, <2>1, <3>1
  <2> QED BY <2>3, <2>4
<1>7. CASE Inject(r)
  BY <1>0, <1>2, <1>7 DEF Inject, RunRecord
<1>8. CASE \E stop \in StopReason : Respond(r, stop)
  <2>1. PICK stop \in StopReason : Respond(r, stop)
    BY <1>8
  <2>2. /\ messages' = Append(messages, Assistant(stop))
        /\ run[r].pending = << >> /\ run'[r].pending = run[r].pending
        /\ UNCHANGED <<queues, gone, nextId>>
    BY <1>0, <1>i, <2>1 DEF Respond, RunRecord
  <2> QED BY <1>4, <2>2, OtherNames
<1>9. CASE ExecuteTools(r)
  <2>1. /\ messages' = Append(messages, ToolResult)
        /\ run[r].pending = << >> /\ run'[r].pending = run[r].pending
        /\ UNCHANGED <<queues, gone, nextId>>
    BY <1>0, <1>i, <1>9 DEF ExecuteTools, RunRecord
  <2> QED BY <1>4, <2>1, OtherNames
<1>10. CASE PollFollowUp(r)
  <2>1. run[r].pending = << >> /\ UNCHANGED <<messages, steeringQueue, gone, nextId>>
    BY <1>i, <1>10 DEF PollFollowUp
  <2>2. /\ run'[r].pending # << >> => run'[r].pc = "turn"
        /\ followUpQueue' = Left(followUpQueue, followUpMode)
        /\ run'[r].pending = Taken(followUpQueue, followUpMode)
    BY <1>0, <1>10 DEF PollFollowUp, RunRecord
  <2> QED BY <1>3, <2>1, <2>2
<1>11. CASE Request(r) \/ EmitAgentEnd(r) \/ Throw(r) \/ Finish(r)
  <2>1. /\ run[r].pending = << >> /\ run'[r].pending = run[r].pending
        /\ UNCHANGED <<messages, queues, gone, nextId>>
    BY <1>0, <1>i, <1>11 DEF Request, EmitAgentEnd, Throw, Finish, RunRecord
  <2> QED BY <1>4, <2>1
<1>12. CASE CatchAndFinish(r)
  <2>1. PICK stop \in StopReason : messages' = Append(messages, Assistant(stop))
    BY <1>12 DEF CatchAndFinish, StopReason
  <2>2. /\ run[r].pending = << >> /\ run'[r].pending = run[r].pending
        /\ UNCHANGED <<queues, gone, nextId>>
    BY <1>0, <1>i, <1>12 DEF CatchAndFinish, RunRecord
  <2> QED BY <1>4, <2>1, <2>2, OtherNames
<1> QED BY <1>5, <1>6, <1>7, <1>8, <1>9, <1>10, <1>11, <1>12 DEF RunStep

LEMMA InitOnceInv == Init => OnceInv
<1> SUFFICES ASSUME Init PROVE OnceInv
  OBVIOUS
<1>1. \A r \in Runs : run[r].pending = << >>
  BY DEF Init, Idle
<1>2. \A r \in Runs : Hands[r] = {}
  BY <1>1, NoNames DEF Hands
<1>3. InHands(Hands) = {}
  BY <1>2, InOneHand
<1>4. Shared({}, {}, {}, Hands, {}, 1)
  BY <1>2, <1>3 DEF Shared
<1> QED BY <1>1, <1>4, NoNames DEF Init, OnceInv

(* An identity that is in one place is there once.                         *)
LEMMA OccursOnce ==
    ASSUME NEW s \in Seq(Message), WellNamed(s), NEW id \in Nat \ {0}
    PROVE  Occurrences(id, s) = IF id \in Ids(s) THEN 1 ELSE 0
<1>1. CASE id \in Ids(s)
  <2>1. PICK i \in DOMAIN s : s[i].id = id
    BY <1>1 DEF Ids
  <2>2. \A j \in DOMAIN s : s[j].id = id => j = i
    BY <2>1 DEF WellNamed, Distinct
  <2>3. {j \in DOMAIN s : s[j].id = id} = {i}
    BY <2>1, <2>2
  <2> QED BY <1>1, <2>3, FS_Singleton DEF Occurrences
<1>2. CASE id \notin Ids(s)
  <2>1. {j \in DOMAIN s : s[j].id = id} = {}
    BY <1>2 DEF WellNamed, Named, Ids
  <2> QED BY <1>2, <2>1, FS_EmptySet DEF Occurrences
<1> QED BY <1>1, <1>2

LEMMA HeldOnce ==
    ASSUME TypeOK, OnceInv, NEW id \in Nat \ {0}
    PROVE  Cardinality(InHand(id)) = IF id \in InHands(Hands) THEN 1 ELSE 0
<1>1. ASSUME NEW r \in Runs
      PROVE  r \in InHand(id) <=> id \in Hands[r]
  <2>1. WellNamed(run[r].pending)
    BY DEF OnceInv
  <2>2. Hands[r] = Ids(run[r].pending)
    BY DEF Hands
  <2> QED BY <2>1, <2>2 DEF InHand, WellNamed, Named, Ids
<1>2. InHand(id) \subseteq Runs
  BY DEF InHand
<1>3. CASE id \in InHands(Hands)
  <2>1. PICK r \in Runs : id \in Hands[r]
    BY <1>3, InOneHand
  <2>2. \A q \in Runs \ {r} : id \notin Hands[q]
    BY <2>1 DEF OnceInv, Shared
  <2>3. InHand(id) = {r}
    BY <1>1, <1>2, <2>1, <2>2
  <2> QED BY <1>3, <2>3, FS_Singleton
<1>4. CASE id \notin InHands(Hands)
  <2>1. InHand(id) = {}
    BY <1>1, <1>2, <1>4, InOneHand
  <2> QED BY <1>4, <2>1, FS_EmptySet
<1> QED BY <1>3, <1>4

LEMMA OnceIsExactlyOnce == TypeOK /\ OnceInv => ExactlyOnce
<1> SUFFICES ASSUME TypeOK, OnceInv, NEW id \in 1..(nextId - 1)
             PROVE  Occurrences(id, messages) + Occurrences(id, steeringQueue)
                      + Occurrences(id, followUpQueue) + Cardinality(InHand(id))
                      + (IF id \in gone THEN 1 ELSE 0) = 1
  BY DEF ExactlyOnce
<1> DEFINE M == Ids(messages)
           S == Ids(steeringQueue)
           F == Ids(followUpQueue)
           H == InHands(Hands)
<1>1. id \in Nat \ {0}
  BY DEF TypeOK
<1>2. /\ Occurrences(id, messages) = IF id \in M THEN 1 ELSE 0
      /\ Occurrences(id, steeringQueue) = IF id \in S THEN 1 ELSE 0
      /\ Occurrences(id, followUpQueue) = IF id \in F THEN 1 ELSE 0
      /\ Cardinality(InHand(id)) = IF id \in H THEN 1 ELSE 0
  BY <1>1, OccursOnce, HeldOnce DEF TypeOK, OnceInv
<1>3. /\ id \in M \/ id \in S \/ id \in F \/ id \in H \/ id \in gone
      /\ id \in M => id \notin S /\ id \notin F /\ id \notin gone
      /\ id \in S => id \notin F /\ id \notin gone
      /\ id \in F => id \notin gone
  BY DEF OnceInv, Shared
<1>4. id \in H => id \notin M /\ id \notin S /\ id \notin F /\ id \notin gone
  <2>1. \A r \in Runs : id \in Hands[r] =>
            id \notin M /\ id \notin S /\ id \notin F /\ id \notin gone
    BY DEF OnceInv, Shared
  <2> QED BY <2>1, InOneHand
<1> HIDE DEF M, S, F, H
<1> QED BY <1>2, <1>3, <1>4

LEMMA OnceAlways == Spec => []OnceInv
<1>1. TypeOK /\ QueueInv /\ AskInv /\ [Next]_vars => (QueueInv /\ AskInv)'
  BY StepAsks
<1>2. TypeOK /\ QueueInv /\ OnceInv /\ [Next]_vars => OnceInv'
  <2> SUFFICES ASSUME TypeOK, QueueInv, OnceInv, [Next]_vars PROVE OnceInv'
    OBVIOUS
  <2>1. CASE Next
    BY <2>1, ApiCallOnce, RunStepOnce DEF Next
  <2>2. CASE UNCHANGED vars
    BY <2>2 DEF vars, queues, api, OnceInv, Hands
  <2> QED BY <2>1, <2>2
<1> QED BY <1>1, <1>2, InitAskInv, InitOnceInv, TypeCorrect, PTL DEF Spec

(* However prompts, polls, continue, clears, resets and failures fall,     *)
(* even when prompt is called on a loop that is still ending: every user   *)
(* message is in exactly one place, none is lost and none delivered twice. *)
THEOREM NothingLost == Spec => []ExactlyOnce
<1> QED BY OnceIsExactlyOnce, OnceAlways, TypeCorrect, PTL
-----------------------------------------------------------------------------
(* How the order of arrival passes from a queue, by a run's hands, to the  *)
(* transcript.                                                             *)
LEMMA NoOrder ==
    /\ Ordered(<< >>)
    /\ \A s : Before(<< >>, s) /\ Before(s, << >>)
    /\ \A kind : OfKind(<< >>, kind)
  BY DEF Ordered, Before, OfKind

LEMMA KindsApart ==
    ASSUME NEW s, NEW t, OfKind(s, "steer"), OfKind(t, "followUp")
    PROVE  Before(s, t) /\ Before(t, s)
  BY DEF OfKind, Before

(* m may follow what is in s.                                              *)
Follows(m, s) ==
    \A i \in DOMAIN s : s[i].kind = m.kind /\ m.kind \in Queued => s[i].id < m.id
(* m may precede what is in t.                                             *)
Precedes(m, t) ==
    \A j \in DOMAIN t : m.kind = t[j].kind /\ m.kind \in Queued => m.id < t[j].id

LEMMA OrderAdded ==
    ASSUME NEW s \in Seq(Message), NEW m \in Message
    PROVE  /\ Ordered(s) /\ Follows(m, s) => Ordered(Append(s, m))
           /\ \A t : Before(s, t) /\ Precedes(m, t) => Before(Append(s, m), t)
           /\ \A t : Before(t, s) /\ Follows(m, t) => Before(t, Append(s, m))
           /\ \A kind : OfKind(s, kind) /\ m.kind = kind => OfKind(Append(s, m), kind)
<1> DEFINE u == Append(s, m)
<1>1. /\ Len(s) \in Nat /\ DOMAIN u = 1..(Len(s) + 1) /\ DOMAIN s = 1..Len(s)
      /\ u[Len(s) + 1] = m /\ \A i \in 1..Len(s) : u[i] = s[i]
  OBVIOUS
<1> HIDE DEF u
<1>2. ASSUME Ordered(s), Follows(m, s) PROVE Ordered(u)
  <2> SUFFICES ASSUME NEW i \in DOMAIN u, NEW j \in DOMAIN u,
                      i < j, u[i].kind = u[j].kind, u[i].kind \in Queued
               PROVE  u[i].id < u[j].id
    BY DEF Ordered
  <2>1. i \in DOMAIN s /\ u[i] = s[i]
    BY <1>1
  <2>2. CASE j \in DOMAIN s
    BY <1>1, <1>2, <2>1, <2>2 DEF Ordered
  <2>3. CASE j = Len(s) + 1
    BY <1>1, <1>2, <2>1, <2>3 DEF Follows
  <2> QED BY <1>1, <2>2, <2>3
<1>3. ASSUME NEW t, Before(s, t), Precedes(m, t) PROVE Before(u, t)
  <2> SUFFICES ASSUME NEW i \in DOMAIN u, NEW j \in DOMAIN t,
                      u[i].kind = t[j].kind, u[i].kind \in Queued
               PROVE  u[i].id < t[j].id
    BY DEF Before
  <2>1. CASE i \in DOMAIN s
    BY <1>1, <1>3, <2>1 DEF Before
  <2>2. CASE i = Len(s) + 1
    BY <1>1, <1>3, <2>2 DEF Precedes
  <2> QED BY <1>1, <2>1, <2>2
<1>4. ASSUME NEW t, Before(t, s), Follows(m, t) PROVE Before(t, u)
  <2> SUFFICES ASSUME NEW i \in DOMAIN t, NEW j \in DOMAIN u,
                      t[i].kind = u[j].kind, t[i].kind \in Queued
               PROVE  t[i].id < u[j].id
    BY DEF Before
  <2>1. CASE j \in DOMAIN s
    BY <1>1, <1>4, <2>1 DEF Before
  <2>2. CASE j = Len(s) + 1
    BY <1>1, <1>4, <2>2 DEF Follows
  <2> QED BY <1>1, <2>1, <2>2
<1>5. ASSUME NEW kind, OfKind(s, kind), m.kind = kind PROVE OfKind(u, kind)
  BY <1>1, <1>5 DEF OfKind
<1> QED BY <1>2, <1>3, <1>4, <1>5 DEF u

LEMMA HeadOrder ==
    ASSUME NEW s \in Seq(Message), s # << >>
    PROVE  /\ Ordered(s) => Ordered(Tail(s)) /\ Precedes(Head(s), Tail(s))
           /\ \A t : Before(s, t) => Before(Tail(s), t) /\ Precedes(Head(s), t)
           /\ \A t : Before(t, s) => Before(t, Tail(s)) /\ Follows(Head(s), t)
           /\ \A kind : OfKind(s, kind) => OfKind(Tail(s), kind) /\ Head(s).kind = kind
<1> DEFINE u == Tail(s)
<1>1. /\ Len(s) \in Nat \ {0} /\ DOMAIN s = 1..Len(s) /\ DOMAIN u = 1..(Len(s) - 1)
      /\ Head(s) = s[1] /\ \A i \in 1..(Len(s) - 1) : u[i] = s[i + 1]
  BY HeadTailProperties
<1>2. \A i \in DOMAIN u : i + 1 \in DOMAIN s /\ u[i] = s[i + 1] /\ 1 < i + 1
  BY <1>1
<1>3. 1 \in DOMAIN s
  BY <1>1
<1> HIDE DEF u
<1>4. ASSUME Ordered(s) PROVE Ordered(u) /\ Precedes(s[1], u)
  <2>1. \A i, j \in DOMAIN u : i < j => i + 1 < j + 1
    BY <1>1
  <2>2. Ordered(u)
    BY <1>2, <1>4, <2>1 DEF Ordered
  <2>3. Precedes(s[1], u)
    BY <1>2, <1>3, <1>4 DEF Ordered, Precedes
  <2> QED BY <2>2, <2>3
<1>5. ASSUME NEW t, Before(s, t) PROVE Before(u, t) /\ Precedes(s[1], t)
  BY <1>2, <1>3, <1>5 DEF Before, Precedes
<1>6. ASSUME NEW t, Before(t, s) PROVE Before(t, u) /\ Follows(s[1], t)
  BY <1>2, <1>3, <1>6 DEF Before, Follows
<1>7. ASSUME NEW kind, OfKind(s, kind) PROVE OfKind(u, kind) /\ s[1].kind = kind
  BY <1>2, <1>3, <1>7 DEF OfKind
<1> QED BY <1>1, <1>4, <1>5, <1>6, <1>7 DEF u

LEMMA TakenOrder ==
    ASSUME NEW q \in Seq(Message), NEW mode, Ordered(q)
    PROVE  LET taken == Taken(q, mode)
               left  == Left(q, mode)
           IN  /\ Ordered(taken) /\ Ordered(left) /\ Before(taken, left)
               /\ \A t : Before(t, q) => Before(t, taken) /\ Before(t, left)
               /\ \A kind : OfKind(q, kind) => OfKind(taken, kind) /\ OfKind(left, kind)
<1>1. CASE mode = "one-at-a-time" /\ q # << >>
  <2>1. Taken(q, mode) = << Head(q) >> /\ Left(q, mode) = Tail(q)
    BY <1>1 DEF Taken, Left
  <2>2. Ordered(Tail(q)) /\ Precedes(Head(q), Tail(q))
    BY <1>1, HeadOrder
  <2>3. Ordered(<< Head(q) >>)
    BY DEF Ordered
  <2>4. Before(<< Head(q) >>, Tail(q))
    BY <2>2 DEF Before, Precedes
  <2>5. ASSUME NEW t, Before(t, q) PROVE Before(t, << Head(q) >>) /\ Before(t, Tail(q))
    <3>1. Before(t, Tail(q)) /\ Follows(Head(q), t)
      BY <1>1, <2>5, HeadOrder
    <3> QED BY <3>1 DEF Before, Follows
  <2>6. ASSUME NEW kind, OfKind(q, kind)
        PROVE  OfKind(<< Head(q) >>, kind) /\ OfKind(Tail(q), kind)
    <3>1. OfKind(Tail(q), kind) /\ Head(q).kind = kind
      BY <1>1, <2>6, HeadOrder
    <3> QED BY <3>1 DEF OfKind
  <2> QED BY <2>1, <2>2, <2>3, <2>4, <2>5, <2>6
<1>2. CASE ~(mode = "one-at-a-time" /\ q # << >>)
  <2>1. Taken(q, mode) = q /\ Left(q, mode) = << >>
    BY <1>2 DEF Taken, Left
  <2> QED BY <2>1, NoOrder
<1> QED BY <1>1, <1>2

LEMMA OrderDropped ==
    ASSUME NEW s \in Seq(Message), s # << >>
    PROVE  LET u == SubSeq(s, 1, Len(s) - 1)
           IN  /\ Ordered(s) => Ordered(u)
               /\ \A t : Before(s, t) => Before(u, t)
<1> DEFINE u == SubSeq(s, 1, Len(s) - 1)
<1>1. /\ Len(s) \in Nat \ {0} /\ DOMAIN s = 1..Len(s) /\ DOMAIN u = 1..(Len(s) - 1)
      /\ \A i \in 1..(Len(s) - 1) : u[i] = s[i]
  OBVIOUS
<1> HIDE DEF u
<1>2. \A i \in DOMAIN u : i \in DOMAIN s /\ u[i] = s[i]
  BY <1>1
<1>3. Ordered(s) => Ordered(u)
  BY <1>2 DEF Ordered
<1>4. \A t : Before(s, t) => Before(u, t)
  BY <1>2 DEF Before
<1> QED BY <1>3, <1>4 DEF u

(* A message that comes in is named after all the others.                  *)
LEMMA NewIsLast ==
    ASSUME TypeOK, OnceInv, NEW m, m.id = nextId
    PROVE  /\ Follows(m, messages)
           /\ Follows(m, steeringQueue) /\ Follows(m, followUpQueue)
           /\ \A r \in Runs : Follows(m, run[r].pending)
<1>1. ASSUME NEW s \in Seq(Message), WellNamed(s), Ids(s) \subseteq 1..(nextId - 1)
      PROVE  Follows(m, s)
  <2>1. \A i \in DOMAIN s : s[i].id = 0 \/ s[i].id \in Ids(s)
    BY <1>1 DEF WellNamed, Named, Ids
  <2>2. nextId \in Nat \ {0}
    BY DEF TypeOK
  <2>3. \A i \in DOMAIN s : s[i].id < nextId
    BY <1>1, <2>1, <2>2
  <2> QED BY <2>3 DEF Follows
<1>2. /\ Ids(messages) \subseteq 1..(nextId - 1)
      /\ Ids(steeringQueue) \subseteq 1..(nextId - 1)
      /\ Ids(followUpQueue) \subseteq 1..(nextId - 1)
      /\ InHands(Hands) \subseteq 1..(nextId - 1)
  BY DEF OnceInv, Shared
<1>3. \A r \in Runs : Ids(run[r].pending) \subseteq 1..(nextId - 1)
  BY <1>2, InOneHand DEF Hands
<1>4. \A r \in Runs : run[r].pending \in Seq(Message)
  BY DEF TypeOK, RunRecord
<1> QED BY <1>1, <1>2, <1>3, <1>4 DEF TypeOK, OnceInv

LEMMA ApiCallOrders ==
    ASSUME TypeOK, OnceInv, OrderInv, ApiCall
    PROVE  OrderInv'
<1> USE DEF queues, modes, api, loop
<1>0. /\ nextId \in Nat \ {0} /\ messages \in Seq(Message)
      /\ steeringQueue \in Seq(Message) /\ followUpQueue \in Seq(Message)
  BY DEF TypeOK
<1>i. /\ Ordered(messages) /\ Ordered(steeringQueue) /\ Ordered(followUpQueue)
      /\ OfKind(steeringQueue, "steer") /\ OfKind(followUpQueue, "followUp")
      /\ Before(messages, steeringQueue) /\ Before(messages, followUpQueue)
      /\ \A r \in Runs : /\ Ordered(run[r].pending)
                         /\ Before(messages, run[r].pending)
                         /\ Before(run[r].pending, steeringQueue)
                         /\ Before(run[r].pending, followUpQueue)
  BY DEF OrderInv
<1>1. ASSUME NEW r \in Runs, NEW prompts, NEW skip, StartRun(r, prompts, skip),
             Ordered(steeringQueue'), Ordered(followUpQueue'),
             OfKind(steeringQueue', "steer"), OfKind(followUpQueue', "followUp"),
             \A t : Before(t, steeringQueue) => Before(t, steeringQueue'),
             \A t : Before(t, followUpQueue) => Before(t, followUpQueue'),
             Ordered(prompts), Before(messages, prompts),
             Before(prompts, steeringQueue'), Before(prompts, followUpQueue')
      PROVE  OrderInv'
  <2>1. /\ \A s \in Runs \ {r} : run'[s] = run[s]
        /\ run'[r].pending = prompts /\ messages' = messages
    BY <1>1 DEF StartRun, TypeOK
  <2>2. \A s \in Runs : /\ Ordered(run'[s].pending)
                        /\ Before(messages', run'[s].pending)
                        /\ Before(run'[s].pending, steeringQueue')
                        /\ Before(run'[s].pending, followUpQueue')
    BY <1>1, <1>i, <2>1
  <2> QED BY <1>1, <1>i, <2>1, <2>2 DEF OrderInv
<1>2. ASSUME NEW r \in Runs, Prompt(r) PROVE OrderInv'
  <2> DEFINE m == User(nextId, "prompt")
  <2>1. m.kind \notin Queued
    BY DEF User, Queued
  <2>2. /\ StartRun(r, << m >>, FALSE)
        /\ UNCHANGED <<steeringQueue, followUpQueue>>
    BY <1>2 DEF Prompt
  <2> HIDE DEF m
  <2>3. Ordered(<< m >>)
    BY DEF Ordered
  <2>4. \A t : Before(<< m >>, t)
    BY <2>1 DEF Before
  <2>5. \A t : Before(t, << m >>)
    BY <2>1 DEF Before
  <2> QED BY <1>1, <1>i, <2>2, <2>3, <2>4, <2>5
<1>3. ASSUME NEW r \in Runs, Continue(r) PROVE OrderInv'
  <2> DEFINE TS == Taken(steeringQueue, steeringMode)
             LS == Left(steeringQueue, steeringMode)
             TF == Taken(followUpQueue, followUpMode)
             LF == Left(followUpQueue, followUpMode)
  <2>1. /\ Ordered(TS) /\ Ordered(LS) /\ Before(TS, LS)
        /\ \A t : Before(t, steeringQueue) => Before(t, TS) /\ Before(t, LS)
        /\ OfKind(TS, "steer") /\ OfKind(LS, "steer")
    BY <1>0, <1>i, TakenOrder
  <2>2. /\ Ordered(TF) /\ Ordered(LF) /\ Before(TF, LF)
        /\ \A t : Before(t, followUpQueue) => Before(t, TF) /\ Before(t, LF)
        /\ OfKind(TF, "followUp") /\ OfKind(LF, "followUp")
    BY <1>0, <1>i, TakenOrder
  <2>3. \/ StartRun(r, TS, TRUE) /\ steeringQueue' = LS /\ followUpQueue' = followUpQueue
        \/ StartRun(r, TF, FALSE) /\ steeringQueue' = steeringQueue /\ followUpQueue' = LF
        \/ /\ StartRun(r, << >>, FALSE)
           /\ steeringQueue' = steeringQueue /\ followUpQueue' = followUpQueue
    BY <1>3 DEF Continue
  <2> HIDE DEF TS, LS, TF, LF
  <2>4. Before(TS, followUpQueue) /\ Before(TF, steeringQueue)
    BY <1>i, <2>1, <2>2, KindsApart
  <2>5. CASE StartRun(r, TS, TRUE) /\ steeringQueue' = LS /\ followUpQueue' = followUpQueue
    BY <1>1, <1>i, <2>1, <2>4, <2>5
  <2>6. CASE StartRun(r, TF, FALSE) /\ steeringQueue' = steeringQueue /\ followUpQueue' = LF
    BY <1>1, <1>i, <2>2, <2>4, <2>6
  <2>7. CASE /\ StartRun(r, << >>, FALSE)
             /\ steeringQueue' = steeringQueue /\ followUpQueue' = followUpQueue
    BY <1>1, <1>i, <2>7, NoOrder
  <2> QED BY <2>3, <2>5, <2>6, <2>7
<1>4. ASSUME UNCHANGED run,
             Ordered(messages'), Ordered(steeringQueue'), Ordered(followUpQueue'),
             OfKind(steeringQueue', "steer"), OfKind(followUpQueue', "followUp"),
             Before(messages', steeringQueue'), Before(messages', followUpQueue'),
             \A r \in Runs : /\ Before(messages', run[r].pending)
                             /\ Before(run[r].pending, steeringQueue')
                             /\ Before(run[r].pending, followUpQueue')
      PROVE  OrderInv'
  BY <1>4, <1>i DEF OrderInv
<1>5. CASE Steer
  <2> DEFINE m == User(nextId, "steer")
  <2>1. m \in Message /\ m.id = nextId /\ m.kind = "steer"
    BY <1>0, MessageTypes DEF User
  <2>2. /\ steeringQueue' = Append(steeringQueue, m)
        /\ UNCHANGED <<run, messages, followUpQueue>>
    BY <1>5 DEF Steer
  <2> HIDE DEF m
  <2>3. /\ Follows(m, messages) /\ Follows(m, steeringQueue)
        /\ \A r \in Runs : Follows(m, run[r].pending)
    BY <2>1, NewIsLast
  <2>4. /\ Ordered(steeringQueue') /\ OfKind(steeringQueue', "steer")
        /\ Before(messages, steeringQueue')
        /\ \A r \in Runs : Before(run[r].pending, steeringQueue')
    BY <1>0, <1>i, <2>1, <2>2, <2>3, OrderAdded
  <2> QED BY <1>4, <1>i, <2>2, <2>4
<1>6. CASE FollowUp
  <2> DEFINE m == User(nextId, "followUp")
  <2>1. m \in Message /\ m.id = nextId /\ m.kind = "followUp"
    BY <1>0, MessageTypes DEF User
  <2>2. /\ followUpQueue' = Append(followUpQueue, m)
        /\ UNCHANGED <<run, messages, steeringQueue>>
    BY <1>6 DEF FollowUp
  <2> HIDE DEF m
  <2>3. /\ Follows(m, messages) /\ Follows(m, followUpQueue)
        /\ \A r \in Runs : Follows(m, run[r].pending)
    BY <2>1, NewIsLast
  <2>4. /\ Ordered(followUpQueue') /\ OfKind(followUpQueue', "followUp")
        /\ Before(messages, followUpQueue')
        /\ \A r \in Runs : Before(run[r].pending, followUpQueue')
    BY <1>0, <1>i, <2>1, <2>2, <2>3, OrderAdded
  <2> QED BY <1>4, <1>i, <2>2, <2>4
<1>7. CASE \/ Reset
           \/ \E steering, followUps \in BOOLEAN : ClearQueues(steering, followUps)
  <2>1. /\ UNCHANGED run /\ messages' \in {messages, << >>}
        /\ steeringQueue' \in {steeringQueue, << >>}
        /\ followUpQueue' \in {followUpQueue, << >>}
    BY <1>7 DEF Reset, ClearQueues
  <2>2. /\ Ordered(messages') /\ Ordered(steeringQueue') /\ Ordered(followUpQueue')
        /\ OfKind(steeringQueue', "steer") /\ OfKind(followUpQueue', "followUp")
    BY <1>i, <2>1, NoOrder
  <2>3. Before(messages', steeringQueue') /\ Before(messages', followUpQueue')
    BY <1>i, <2>1, NoOrder
  <2>4. \A r \in Runs : /\ Before(messages', run[r].pending)
                        /\ Before(run[r].pending, steeringQueue')
                        /\ Before(run[r].pending, followUpQueue')
    BY <1>i, <2>1, NoOrder
  <2> QED BY <1>4, <2>1, <2>2, <2>3, <2>4
<1>8. CASE DropFailure
  <2>1. /\ messages # << >> /\ messages' = SubSeq(messages, 1, Len(messages) - 1)
        /\ UNCHANGED <<run, steeringQueue, followUpQueue>>
    BY <1>8 DEF DropFailure, LastIsAssistant
  <2>2. Ordered(messages') /\ \A t : Before(messages, t) => Before(messages', t)
    BY <1>0, <1>i, <2>1, OrderDropped
  <2> QED BY <1>4, <1>i, <2>1, <2>2
<1>9. CASE AppendMessage
  <2> DEFINE m == User(nextId, "append")
  <2>1. m \in Message /\ m.kind \notin Queued
    BY <1>0, MessageTypes DEF User, Queued
  <2>2. messages' = Append(messages, m) /\ UNCHANGED <<run, steeringQueue, followUpQueue>>
    BY <1>9 DEF AppendMessage
  <2> HIDE DEF m
  <2>3. Follows(m, messages) /\ \A t : Precedes(m, t)
    BY <2>1 DEF Follows, Precedes
  <2>4. Ordered(messages') /\ \A t : Before(messages, t) => Before(messages', t)
    BY <1>0, <1>i, <2>1, <2>2, <2>3, OrderAdded
  <2> QED BY <1>4, <1>i, <2>2, <2>4
<1>10. CASE \/ Abort \/ WaitForIdle
            \/ \E mode \in Mode : SetSteeringMode(mode) \/ SetFollowUpMode(mode)
  <2>1. UNCHANGED <<run, messages, steeringQueue, followUpQueue>>
    BY <1>10 DEF Abort, WaitForIdle, SetSteeringMode, SetFollowUpMode
  <2> QED BY <1>4, <1>i, <2>1
<1> QED BY <1>2, <1>3, <1>5, <1>6, <1>7, <1>8, <1>9, <1>10 DEF ApiCall

LEMMA RunStepOrders ==
    ASSUME CallersWait, TypeOK, LoopInv, OnceInv, OrderInv, NEW r \in Runs, RunStep(r)
    PROVE  OrderInv'
<1> USE DEF At, Goto, queues, api, loop
<1>0. /\ run \in [Runs -> RunRecord] /\ run[r] \in RunRecord
      /\ messages \in Seq(Message) /\ run[r].pending \in Seq(Message)
      /\ steeringQueue \in Seq(Message) /\ followUpQueue \in Seq(Message)
  BY DEF TypeOK, RunRecord
<1>i. /\ Ordered(messages) /\ Ordered(steeringQueue) /\ Ordered(followUpQueue)
      /\ OfKind(steeringQueue, "steer") /\ OfKind(followUpQueue, "followUp")
      /\ Before(messages, steeringQueue) /\ Before(messages, followUpQueue)
      /\ \A s \in Runs : /\ Ordered(run[s].pending)
                         /\ Before(messages, run[s].pending)
                         /\ Before(run[s].pending, steeringQueue)
                         /\ Before(run[s].pending, followUpQueue)
  BY DEF OrderInv
<1>p. run[r].pending # << >> => run[r].pc \in {"prompts", "turn"}
  BY DEF OnceInv
<1>o. \A s \in Runs \ {r} : run'[s] = run[s] /\ run[s].pending = << >>
  <2>1. Live(r) /\ \A s \in Runs \ {r} : run'[s] = run[s]
    BY RunStepEffect
  <2>2. \A s \in Runs \ {r} : ~Live(s)
    BY <2>1 DEF LoopInv
  <2>3. \A s \in Runs \ {r} : run[s].pending = << >>
    BY <2>2 DEF Live, OnceInv
  <2> QED BY <2>1, <2>3
<1>1. ASSUME Ordered(messages'), Ordered(steeringQueue'), Ordered(followUpQueue'),
             OfKind(steeringQueue', "steer"), OfKind(followUpQueue', "followUp"),
             Before(messages', steeringQueue'), Before(messages', followUpQueue'),
             Ordered(run'[r].pending), Before(messages', run'[r].pending),
             Before(run'[r].pending, steeringQueue'),
             Before(run'[r].pending, followUpQueue')
      PROVE  OrderInv'
  <2>1. \A s \in Runs : /\ Ordered(run'[s].pending)
                        /\ Before(messages', run'[s].pending)
                        /\ Before(run'[s].pending, steeringQueue')
                        /\ Before(run'[s].pending, followUpQueue')
    BY <1>1, <1>o, NoOrder
  <2> QED BY <1>1, <2>1 DEF OrderInv
<1>2. ASSUME run[r].pending # << >>,
             messages' = Append(messages, Head(run[r].pending)),
             run'[r].pending = Tail(run[r].pending),
             UNCHANGED <<steeringQueue, followUpQueue>>
      PROVE  OrderInv'
  <2> DEFINE p == run[r].pending
             m == Head(p)
             rest == Tail(p)
  <2>0. /\ p \in Seq(Message) /\ p # << >> /\ Ordered(p) /\ Before(messages, p)
        /\ Before(p, steeringQueue) /\ Before(p, followUpQueue)
    BY <1>0, <1>2, <1>i
  <2>1. m \in Message
    BY <2>0, HeadTailProperties
  <2>2. /\ Ordered(rest) /\ Precedes(m, rest)
        /\ Before(messages, rest) /\ Follows(m, messages)
        /\ Before(rest, steeringQueue) /\ Precedes(m, steeringQueue)
        /\ Before(rest, followUpQueue) /\ Precedes(m, followUpQueue)
    BY <2>0, HeadOrder
  <2>3. messages' = Append(messages, m) /\ run'[r].pending = rest
    BY <1>2
  <2> HIDE DEF p, m, rest
  <2>4. /\ Ordered(messages') /\ Before(messages', rest)
        /\ Before(messages', steeringQueue) /\ Before(messages', followUpQueue)
    BY <1>0, <1>i, <2>1, <2>2, <2>3, OrderAdded
  <2> QED BY <1>1, <1>2, <1>i, <2>2, <2>3, <2>4
<1>3. ASSUME NEW mode,
             steeringQueue' = Left(steeringQueue, mode),
             run'[r].pending = Taken(steeringQueue, mode),
             UNCHANGED <<messages, followUpQueue>>
      PROVE  OrderInv'
  <2> DEFINE T == Taken(steeringQueue, mode)
             L == Left(steeringQueue, mode)
  <2>1. /\ Ordered(T) /\ Ordered(L) /\ Before(T, L)
        /\ Before(messages, T) /\ Before(messages, L)
        /\ OfKind(T, "steer") /\ OfKind(L, "steer")
    BY <1>0, <1>i, TakenOrder
  <2>2. steeringQueue' = L /\ run'[r].pending = T
    BY <1>3
  <2> HIDE DEF T, L
  <2>3. Before(T, followUpQueue)
    BY <1>i, <2>1, KindsApart
  <2> QED BY <1>1, <1>3, <1>i, <2>1, <2>2, <2>3
<1>4. ASSUME NEW mode,
             followUpQueue' = Left(followUpQueue, mode),
             run'[r].pending = Taken(followUpQueue, mode),
             UNCHANGED <<messages, steeringQueue>>
      PROVE  OrderInv'
  <2> DEFINE T == Taken(followUpQueue, mode)
             L == Left(followUpQueue, mode)
  <2>1. /\ Ordered(T) /\ Ordered(L) /\ Before(T, L)
        /\ Before(messages, T) /\ Before(messages, L)
        /\ OfKind(T, "followUp") /\ OfKind(L, "followUp")
    BY <1>0, <1>i, TakenOrder
  <2>2. followUpQueue' = L /\ run'[r].pending = T
    BY <1>4
  <2> HIDE DEF T, L
  <2>3. Before(T, steeringQueue)
    BY <1>i, <2>1, KindsApart
  <2> QED BY <1>1, <1>4, <1>i, <2>1, <2>2, <2>3
<1>5. ASSUME run'[r].pending = << >>,
             \/ UNCHANGED messages
             \/ \E m \in Message : m.kind \notin Queued /\ messages' = Append(messages, m),
             UNCHANGED <<steeringQueue, followUpQueue>>
      PROVE  OrderInv'
  <2>1. /\ Ordered(messages')
        /\ Before(messages', steeringQueue) /\ Before(messages', followUpQueue)
    <3>1. CASE UNCHANGED messages
      BY <1>i, <3>1
    <3>2. ASSUME NEW m \in Message, m.kind \notin Queued, messages' = Append(messages, m)
          PROVE  /\ Ordered(messages')
                 /\ Before(messages', steeringQueue) /\ Before(messages', followUpQueue)
      <4>1. Follows(m, messages) /\ \A t : Precedes(m, t)
        BY <3>2 DEF Follows, Precedes
      <4> QED BY <1>0, <1>i, <3>2, <4>1, OrderAdded
    <3> QED BY <1>5, <3>1, <3>2
  <2> QED BY <1>1, <1>5, <1>i, <2>1, NoOrder
<1>m. /\ \A stop \in StopReason : Assistant(stop) \in Message /\ Assistant(stop).kind \notin Queued
      /\ ToolResult \in Message /\ ToolResult.kind \notin Queued
  BY MessageTypes DEF Assistant, ToolResult, StopReason, Queued
<1>6. CASE EmitPrompt(r)
  BY <1>0, <1>2, <1>6 DEF EmitPrompt, RunRecord
<1>7. CASE PollSteering(r)
  <2>1. UNCHANGED <<messages, followUpQueue>>
    BY <1>7 DEF PollSteering
  <2>2. CASE ~run[r].skip
    <3>1. /\ steeringQueue' = Left(steeringQueue, steeringMode)
          /\ run'[r].pending = Taken(steeringQueue, steeringMode)
      BY <1>0, <1>7, <2>2 DEF PollSteering, RunRecord
    <3> QED BY <1>3, <2>1, <3>1
  <2>3. CASE run[r].skip
    <3>1. steeringQueue' = steeringQueue /\ run'[r].pending = << >>
      BY <1>0, <1>7, <2>3 DEF PollSteering, RunRecord
    <3> QED BY <1>5, <2>1, <3>1
  <2> QED BY <2>2, <2>3
<1>8. CASE Inject(r)
  BY <1>0, <1>2, <1>8 DEF Inject, RunRecord
<1>9. CASE \E stop \in StopReason : Respond(r, stop)
  <2>1. PICK stop \in StopReason : Respond(r, stop)
    BY <1>9
  <2>2. /\ messages' = Append(messages, Assistant(stop)) /\ run'[r].pending = << >>
        /\ UNCHANGED <<steeringQueue, followUpQueue>>
    BY <1>0, <1>p, <2>1 DEF Respond, RunRecord
  <2> QED BY <1>5, <1>m, <2>2
<1>10. CASE ExecuteTools(r)
  <2>1. /\ messages' = Append(messages, ToolResult) /\ run'[r].pending = << >>
        /\ UNCHANGED <<steeringQueue, followUpQueue>>
    BY <1>0, <1>p, <1>10 DEF ExecuteTools, RunRecord
  <2> QED BY <1>5, <1>m, <2>1
<1>11. CASE PollFollowUp(r)
  <2>1. /\ followUpQueue' = Left(followUpQueue, followUpMode)
        /\ run'[r].pending = Taken(followUpQueue, followUpMode)
        /\ UNCHANGED <<messages, steeringQueue>>
    BY <1>0, <1>11 DEF PollFollowUp, RunRecord
  <2> QED BY <1>4, <2>1
<1>12. CASE Request(r) \/ EmitAgentEnd(r) \/ Throw(r) \/ Finish(r)
  <2>1. run'[r].pending = << >> /\ UNCHANGED <<messages, steeringQueue, followUpQueue>>
    BY <1>0, <1>p, <1>12 DEF Request, EmitAgentEnd, Throw, Finish, RunRecord
  <2> QED BY <1>5, <2>1
<1>13. CASE CatchAndFinish(r)
  <2>1. PICK stop \in StopReason : messages' = Append(messages, Assistant(stop))
    BY <1>13 DEF CatchAndFinish, StopReason
  <2>2. run'[r].pending = << >> /\ UNCHANGED <<steeringQueue, followUpQueue>>
    BY <1>0, <1>p, <1>13 DEF CatchAndFinish, RunRecord
  <2> QED BY <1>5, <1>m, <2>1, <2>2
<1> QED BY <1>6, <1>7, <1>8, <1>9, <1>10, <1>11, <1>12, <1>13 DEF RunStep

LEMMA InitOrderInv == Init => OrderInv
<1> SUFFICES ASSUME Init PROVE OrderInv
  OBVIOUS
<1>1. \A r \in Runs : run[r].pending = << >>
  BY DEF Init, Idle
<1> QED BY <1>1, NoOrder DEF Init, OrderInv

(* When callers wait for the agent to be idle before they prompt it again: *)
(* a message that was steered or queued is delivered once, and messages of *)
(* one queue reach the transcript in the order they came in, whichever     *)
(* poll or continue takes them, in whichever mode.                         *)
THEOREM AllDelivered == ASSUME CallersWait PROVE Spec => []Delivered
<1>1. TypeOK /\ LoopInv /\ [Next]_vars => LoopInv'
  BY StepLoopInv
<1>2. TypeOK /\ LoopInv /\ OnceInv /\ OrderInv /\ [Next]_vars => OrderInv'
  <2> SUFFICES ASSUME TypeOK, LoopInv, OnceInv, OrderInv, [Next]_vars PROVE OrderInv'
    OBVIOUS
  <2>1. CASE Next
    BY <2>1, ApiCallOrders, RunStepOrders DEF Next
  <2>2. CASE UNCHANGED vars
    BY <2>2 DEF vars, queues, OrderInv
  <2> QED BY <2>1, <2>2
<1>3. OrderInv => DeliveredInOrder
  BY DEF OrderInv, Ordered, Queued, DeliveredInOrder
<1>4. ExactlyOnce /\ DeliveredInOrder => Delivered
  BY DEF Delivered
<1> QED BY <1>1, <1>2, <1>3, <1>4, InitLoopInv, InitOrderInv, TypeCorrect, OnceAlways,
           NothingLost, PTL DEF Spec
=============================================================================
