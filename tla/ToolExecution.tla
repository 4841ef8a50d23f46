--------------------------- MODULE ToolExecution ---------------------------
(***************************************************************************)
(* One batch of tool calls: executeToolCallsSequential and                 *)
(* executeToolCallsParallel of packages/agent/src/agent-loop.ts, with what *)
(* the Agent's event handler (agent.ts, _processLoopEvent) keeps about     *)
(* them.  Calls are numbered in the order the assistant message has them.  *)
(* In parallel mode the tools run beside the loop, which waits for them    *)
(* one after the other.                                                    *)
(***************************************************************************)
EXTENDS Integers, Sequences, FiniteSets

CONSTANTS N,          \* the tool calls of the assistant message
          MaxUpdates  \* bound on the partial results of one call

VARIABLES mode,      \* config.toolExecution
          pc,        \* where the loop over the batch stands
          upcoming,  \* the next call to start
          current,   \* the call the loop works on
          phase,     \* how far the loop has come with each call
          tool,      \* what each call's tool is doing
          refused,   \* history: the calls that were not executed
          launched,  \* the prepared calls were started (parallel mode)
          runnable,  \* prepared calls still to be finalized (parallel mode)
          pendingToolCalls,  \* _state.pendingToolCalls
          results,   \* calls in the order of their result messages
          updates    \* partial results each call has emitted

vars == <<mode, pc, upcoming, current, phase, tool, refused, launched, runnable,
          pendingToolCalls, results, updates>>

Call == 1..N

(* next: about to start a call.  preparing: beforeToolCall is awaited.     *)
(* immediate: the call was refused.  running: a sequential call is         *)
(* awaited.  collecting: parallel calls are awaited in turn.  finalizing:  *)
(* afterToolCall is awaited.  reporting: tool_execution_end is out, the    *)
(* result message is not.  threw: the batch failed, failed: the run ended. *)
Place == {"next", "preparing", "immediate", "running", "collecting",
          "finalizing", "reporting", "done", "threw", "failed"}

Phase == {"waiting", "started", "prepared", "ended", "answered"}

Init == /\ mode \in {"sequential", "parallel"}
        /\ pc = "next"
        /\ upcoming = 1
        /\ current = 1
        /\ phase = [c \in Call |-> "waiting"]
        /\ tool = [c \in Call |-> "idle"]
        /\ refused = {}
        /\ launched = FALSE
        /\ runnable = << >>
        /\ pendingToolCalls = {}
        /\ results = << >>
        /\ updates = [c \in Call |-> 0]
-----------------------------------------------------------------------------
(* tool_execution_start of the next call.                                  *)
Start ==
    /\ pc = "next"
    /\ upcoming <= N
    /\ pc' = "preparing"
    /\ current' = upcoming
    /\ upcoming' = upcoming + 1
    /\ phase' = [phase EXCEPT ![upcoming] = "started"]
    /\ pendingToolCalls' = pendingToolCalls \cup {upcoming}
    /\ UNCHANGED <<mode, tool, refused, launched, runnable, results, updates>>

(* prepareToolCall: the tool is unknown, its arguments are invalid, the    *)
(* hook blocks it or throws...                                             *)
Refuse ==
    /\ pc = "preparing"
    /\ pc' = "immediate"
    /\ refused' = refused \cup {current}
    /\ UNCHANGED <<mode, upcoming, current, phase, tool, launched, runnable,
                   pendingToolCalls, results, updates>>

(* ... or it may run: at once in sequential mode, later in parallel mode.  *)
Accept ==
    /\ pc = "preparing"
    /\ phase' = [phase EXCEPT ![current] = "prepared"]
    /\ \/ /\ mode = "parallel"
          /\ runnable' = Append(runnable, current)
          /\ pc' = "next"
          /\ UNCHANGED tool
       \/ /\ mode = "sequential"
          /\ tool' = [tool EXCEPT ![current] = "running"]
          /\ pc' = "running"
          /\ UNCHANGED runnable
    /\ UNCHANGED <<mode, upcoming, current, refused, launched, pendingToolCalls,
                   results, updates>>

LaunchFirst ==  \* mutant: only the first prepared call is started
    /\ pc = "next"
    /\ upcoming > N
    /\ launched' = TRUE
    /\ tool' = [c \in Call |->
                  IF runnable # << >> /\ c = Head(runnable) THEN "running" ELSE tool[c]]
    /\ pc' = IF runnable = << >> THEN "done" ELSE "collecting"
    /\ UNCHANGED <<mode, upcoming, current, phase, refused, runnable,
                   pendingToolCalls, results, updates>>

(* Every call was looked at: the prepared ones are started together.       *)
Launch ==
    /\ pc = "next"
    /\ upcoming > N
    /\ launched' = TRUE
    /\ tool' = [c \in Call |-> IF phase[c] = "prepared" THEN "running" ELSE tool[c]]
    /\ pc' = IF runnable = << >> THEN "done" ELSE "collecting"
    /\ UNCHANGED <<mode, upcoming, current, phase, refused, runnable,
                   pendingToolCalls, results, updates>>

(* A running tool emits a partial result, and eventually settles; its      *)
(* failure is a result as well.                                            *)
Update(c) ==
    /\ tool[c] = "running"
    /\ updates[c] < MaxUpdates
    /\ updates' = [updates EXCEPT ![c] = @ + 1]
    /\ UNCHANGED <<mode, pc, upcoming, current, phase, tool, refused, launched,
                   runnable, pendingToolCalls, results>>

Settle(c) ==
    /\ tool[c] = "running"
    /\ tool' = [tool EXCEPT ![c] = "settled"]
    /\ UNCHANGED <<mode, pc, upcoming, current, phase, refused, launched, runnable,
                   pendingToolCalls, results, updates>>

CollectUnsettled ==  \* mutant: the execution is not awaited
    /\ \/ pc = "running" /\ UNCHANGED <<current, runnable>>
       \/ pc = "collecting" /\ current' = Head(runnable) /\ runnable' = Tail(runnable)
    /\ pc' = "finalizing"
    /\ UNCHANGED <<mode, upcoming, phase, tool, refused, launched,
                   pendingToolCalls, results, updates>>

(* The loop has awaited the execution of its call: the sequential one, or  *)
(* the first of the parallel ones that is not finalized.                   *)
Collect ==
    /\ \/ /\ pc = "running"
          /\ tool[current] = "settled"
          /\ UNCHANGED <<current, runnable>>
       \/ /\ pc = "collecting"
          /\ tool[Head(runnable)] = "settled"
          /\ current' = Head(runnable)
          /\ runnable' = Tail(runnable)
    /\ pc' = "finalizing"
    /\ UNCHANGED <<mode, upcoming, phase, tool, refused, launched,
                   pendingToolCalls, results, updates>>

(* emitToolCallOutcome: tool_execution_end...                              *)
EmitEnd ==
    /\ pc \in {"immediate", "finalizing"}
    /\ pc' = "reporting"
    /\ phase' = [phase EXCEPT ![current] = "ended"]
    /\ pendingToolCalls' = pendingToolCalls \ {current}
    /\ UNCHANGED <<mode, upcoming, current, tool, refused, launched, runnable,
                   results, updates>>

ResultEndsBatch ==  \* mutant: the loop stops at a refused call
    /\ pc = "reporting"
    /\ phase' = [phase EXCEPT ![current] = "answered"]
    /\ results' = Append(results, current)
    /\ pc' = IF runnable = << >> THEN "done" ELSE "collecting"
    /\ UNCHANGED <<mode, upcoming, current, tool, refused, launched, runnable,
                   pendingToolCalls, updates>>

(* ... then the result message, and on to the next call.                   *)
EmitResult ==
    /\ pc = "reporting"
    /\ phase' = [phase EXCEPT ![current] = "answered"]
    /\ results' = Append(results, current)
    /\ pc' = IF ~launched THEN "next"
             ELSE IF runnable = << >> THEN "done" ELSE "collecting"
    /\ UNCHANGED <<mode, upcoming, current, tool, refused, launched, runnable,
                   pendingToolCalls, updates>>

(* afterToolCall is not guarded: what it throws fails the whole batch, and *)
(* the run's "finally" forgets the pending calls.                          *)
AfterThrows ==
    /\ pc = "finalizing"
    /\ pc' = "threw"
    /\ UNCHANGED <<mode, upcoming, current, phase, tool, refused, launched, runnable,
                   pendingToolCalls, results, updates>>

Fail ==
    /\ pc = "threw"
    /\ pc' = "failed"
    /\ pendingToolCalls' = {}
    /\ UNCHANGED <<mode, upcoming, current, phase, tool, refused, launched, runnable,
                   results, updates>>
-----------------------------------------------------------------------------
Loop == \/ Start \/ Refuse \/ Accept \/ Launch \/ Collect
        \/ EmitEnd \/ EmitResult \/ AfterThrows \/ Fail

Next == Loop \/ \E c \in Call : Update(c) \/ Settle(c)

(* Promise continuations run, hooks return and tools settle.               *)
Fairness == WF_vars(Loop) /\ \A c \in Call : WF_vars(Settle(c))

Spec == Init /\ [][Next]_vars /\ Fairness
-----------------------------------------------------------------------------
TypeOK ==
    /\ mode \in {"sequential", "parallel"}
    /\ pc \in Place
    /\ upcoming \in 1..(N + 1)
    /\ current \in Call
    /\ phase \in [Call -> Phase]
    /\ tool \in [Call -> {"idle", "running", "settled"}]
    /\ refused \subseteq Call
    /\ launched \in BOOLEAN
    /\ runnable \in Seq(Call)
    /\ pendingToolCalls \subseteq Call
    /\ results \in Seq(Call)
    /\ updates \in [Call -> 0..MaxUpdates]

InProgress(c) == phase[c] \in {"started", "prepared"}

(* What the UI shows as pending are the calls that have started and not    *)
(* ended.                                                                  *)
PendingIsInProgress ==
    pc # "failed" => pendingToolCalls = {c \in Call : InProgress(c)}

(* Sequential mode: "each tool call is prepared, executed, and finalized   *)
(* before the next one starts" (types.ts).                                 *)
OneAtATime ==
    mode = "sequential" => \A c, d \in Call :
        c < d /\ phase[d] # "waiting" => phase[c] = "answered"

(* Each call of a batch that went through has one result message.          *)
AnsweredOnce ==
    /\ \A i, j \in DOMAIN results : i # j => results[i] # results[j]
    /\ pc = "done" => {results[i] : i \in DOMAIN results} = Call

(* When the batch is over none of its tools is at work, unless a hook      *)
(* threw on a call while others of a parallel batch were running.          *)
NothingRunsOn ==
    pc = "done" \/ (pc = "failed" /\ mode = "sequential") =>
        \A c \in Call : tool[c] # "running"

(* The order the code keeps: that of the source in sequential mode; in     *)
(* parallel mode the refused calls are answered as they are looked at,     *)
(* before any other runs, then the executed ones, in source order each.    *)
(* types.ts:33 and README.md:104 of packages/agent promise more of         *)
(* parallel mode: "Final tool results are still emitted in assistant       *)
(* source order".  Without the second disjunct this does not hold: a call  *)
(* that is refused overtakes one that is executed.                         *)
ExecutedInOrder ==
    \A i, j \in DOMAIN results : i < j =>
        \/ results[i] < results[j]
        \/ mode = "parallel" /\ results[i] \in refused /\ results[j] \notin refused

(* One result for each call, in the order the code keeps, and no tool at   *)
(* work when the batch is over (executeToolCalls).                         *)
BatchIsWhole == AnsweredOnce /\ NothingRunsOn /\ ExecutedInOrder

(* Whatever the tools and the hooks answer, the batch comes to its end.    *)
BatchEnds == <>(pc \in {"done", "failed"})
=============================================================================
