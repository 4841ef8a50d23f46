------------------------------- MODULE MCLoop -------------------------------
(* Small instances of the parts whose work must come to an end: an         *)
(* EventStream with one reader, the runs of an Agent, a batch of tools, a  *)
(* host and the agent it drives in RPC mode.                               *)
(* A behaviour is about one of them (part); the others stand still.        *)
EXTENDS EventStream, FiniteSets

CONSTANTS MaxSent,       \* bound on the events pushed in one behaviour
          Runs, NoRun, CallersWait,
          MaxMessages,   \* bound on the user messages of a behaviour
          MaxTranscript, \* bound on the length of the transcript
          MaxToolTurns,  \* bound on the tool calls of a transcript
          MaxWaiters,    \* bound on the promises waited for
          N, MaxUpdates, MaxCalls

VARIABLES part,
          messages, isStreaming, steeringQueue, followUpQueue, steeringMode,
          followUpMode, runningPrompt, abortController, aborted, run, nextId,
          gone, waiters, wakened,
          mode, place, upcoming, current, phase, tool, refused, launched,
          runnable, pendingToolCalls, results, updates,
          calls, pending, listener, collected, asked, input, output, up, working,
          asking, questions, starting, going, retrying, shutdown, failed, lost

A == INSTANCE Agent WITH resolved <- wakened
T == INSTANCE ToolExecution WITH pc <- place
R == INSTANCE Rpc WITH run <- going, gone <- lost

agent == <<messages, isStreaming, steeringQueue, followUpQueue, steeringMode,
           followUpMode, runningPrompt, abortController, aborted, run, nextId,
           gone, waiters, wakened>>
tools == <<mode, place, upcoming, current, phase, tool, refused, launched,
           runnable, pendingToolCalls, results, updates>>
rpc == <<calls, pending, listener, collected, asked, input, output, up, working,
         asking, questions, starting, going, retrying, shutdown, failed, lost>>
all == <<part, vars, agent, tools, rpc>>

MCInit == /\ part \in {"stream", "agent", "tools", "rpc"}
          /\ Init
          /\ A!Init
          /\ steeringMode = "one-at-a-time" /\ followUpMode = "all"
          /\ T!Init /\ R!Init
          /\ part # "tools" => mode = "sequential"

StreamNext == /\ part = "stream"
              /\ Next
              /\ Len(sent') <= MaxSent
              /\ UNCHANGED <<part, agent, tools, rpc>>

ToolTurns(s) == Cardinality({i \in DOMAIN s : s[i].kind = "toolUse"})

AgentNext == /\ part = "agent"
             /\ A!Next
             /\ nextId' <= MaxMessages + 1
             /\ Len(messages') <= MaxTranscript
             /\ ToolTurns(messages') <= MaxToolTurns
             /\ Cardinality(waiters') <= MaxWaiters
             /\ UNCHANGED <<part, vars, steeringMode, followUpMode, tools, rpc>>

ToolsNext == /\ part = "tools"
             /\ T!Next
             /\ UNCHANGED <<part, vars, agent, rpc>>

(* Bounds: the process ends while nothing is collected, and shuts down for  *)
(* a command; one question; who collects gives up on a failed prompt; a    *)
(* call times out that threw, or when all that came is read.               *)
Few == /\ ~up' => listener' = 0 /\ (up => pending # {})
       /\ pending' # pending /\ output' = output =>
              IF up THEN pending \ pending' \subseteq lost ELSE output = << >>
       /\ shutdown = "no" /\ shutdown' # "no" => working # {}
       /\ Cardinality(questions') <= 1
       /\ listener' # listener /\ collected' = collected => listener \in failed \cup {0}

RpcNext == /\ part = "rpc"
           /\ R!Next /\ Few
           /\ UNCHANGED <<part, vars, agent, tools>>

MCNext == StreamNext \/ AgentNext \/ ToolsNext \/ RpcNext

(* The fairness of each part, for the one the behaviour is about.          *)
MCFairness ==
    /\ \A r \in Readers : WF_all(part = "stream" /\ Reader(r) /\ UNCHANGED <<part, agent, tools, rpc>>)
    /\ \A r \in Runs : WF_all(part = "agent" /\ A!RunStep(r) /\ UNCHANGED <<part, vars, tools, rpc>>)
    /\ WF_all(part = "tools" /\ T!Loop /\ UNCHANGED <<part, vars, agent, rpc>>)
    /\ \A c \in T!Call :
          WF_all(part = "tools" /\ T!Settle(c) /\ UNCHANGED <<part, vars, agent, rpc>>)
    /\ WF_all(part = "rpc" /\ R!Read /\ UNCHANGED <<part, vars, agent, tools>>)
    /\ WF_all(part = "rpc" /\ R!Receive /\ UNCHANGED <<part, vars, agent, tools>>)
    /\ \A i \in 1..MaxCalls :
          /\ WF_all(part = "rpc" /\ R!HostAnswers(i) /\ UNCHANGED <<part, vars, agent, tools>>)
          /\ WF_all(part = "rpc" /\ R!Handle(i) /\ UNCHANGED <<part, vars, agent, tools>>)

MCSpec == MCInit /\ [][MCNext]_all /\ MCFairness
-----------------------------------------------------------------------------
(* Module Agent: a run that started comes to its end, and whoever waits    *)
(* for the agent to be idle is woken (_runLoop, catch and finally).        *)
RunsEnd == A!RunsEnd /\ A!WaitersWoken

(* Module Rpc: who waits for an answer will get one, unless the command    *)
(* threw; and promptAndWait returns the events of its own run.             *)
RpcPairs == [][part = "rpc" => R!CollectedIsRun /\ R!NoneForgotten']_all

(* What was begun ends: a batch of tools, a command of RPC mode that asks  *)
(* the host something.                                                     *)
BeginningsEnd == (part = "tools" => T!BatchEnds) /\ (part = "rpc" => R!CommandsEnd)
=============================================================================
