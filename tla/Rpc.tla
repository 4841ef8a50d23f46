-------------------------------- MODULE Rpc --------------------------------
(***************************************************************************)
(* RPC mode: the agent in a process of its own (packages/coding-agent/src/ *)
(* modes/rpc/rpc-mode.ts), driven by lines of JSON over its stdin and      *)
(* stdout by an RpcClient (rpc-client.ts) in the process of a host.        *)
(*                                                                         *)
(* Lines arrive in order; commands are begun in this order and end in any. *)
(* While one goes on an extension may ask the host something, once.  The   *)
(* host collects the events of one prompt after the other; it begins when  *)
(* it knows that nothing runs (events tell, and the answer to get_state    *)
(* comes after all of them), and sends no other prompt before the start.   *)
(* The process is not started again.                                       *)
(***************************************************************************)
EXTENDS Naturals, Sequences, FiniteSets, SequencesExt

CONSTANT MaxCalls  \* bound on the commands sent

VARIABLES
  (* the client                                                            *)
  calls,      \* the kinds of the commands sent
  pending,    \* calls whose promise is not settled
  listener,   \* the prompt whose events are collected, 0 for none
  collected,  \* the events handed to it so far
  asked,      \* questions the host has read and not answered
  (* the pipes                                                             *)
  input, output,
  (* the process of the agent                                              *)
  up,
  working, asking,  \* commands that were begun, and wait for an answer
  questions,  \* commands an extension has asked about
  starting,   \* prompts on their way to the agent
  run,        \* the prompt of the current run, 0 for none
  retrying,   \* the prompt whose failed run is repeated after a delay
  shutdown,   \* shutdownRequested, and what came of it
  (* history                                                               *)
  failed,     \* prompts that got no run, or another one
  gone        \* commands that will get no answer

client == <<calls, pending, listener, collected, asked>>
pipes == <<input, output>>
commands == <<working, asking, questions>>
runs == <<starting, run, retrying>>
vars == <<client, pipes, up, commands, runs, shutdown, failed, gone>>

Kind == {"prompt", "get_state", "slow"}  \* slow: that awaits something

Line(type, i) == [type |-> type, id |-> i]  \* 0 for no id
Say(type, i) == output' = Append(output, Line(type, i))
Said(types, lines) == SelectSeq(lines, LAMBDA l : l.type \in types)

TypeOK ==
    /\ calls \in Seq(Kind) /\ up \in BOOLEAN
    /\ \A S \in {pending, asked, working, asking, questions, starting, failed, gone} :
           S \subseteq DOMAIN calls
    /\ {listener, run, retrying} \subseteq {0} \cup DOMAIN calls
    /\ shutdown \in {"no", "requested", "leaving"}

Init ==
    /\ calls = << >> /\ pending = {} /\ listener = 0 /\ collected = << >> /\ asked = {}
    /\ input = << >> /\ output = << >> /\ up = TRUE
    /\ working = {} /\ asking = {} /\ questions = {}
    /\ starting = {} /\ run = 0 /\ retrying = 0
    /\ shutdown = "no" /\ failed = {} /\ gone = {}
-----------------------------------------------------------------------------
(* The client.                                                             *)
Send(kind) ==
    /\ up /\ Len(calls) < MaxCalls
    /\ calls' = Append(calls, kind) /\ pending' = pending \cup {Len(calls) + 1}
    /\ input' = Append(input, Line(kind, Len(calls) + 1))

Call == /\ \E kind \in Kind :
               /\ Send(kind)
               /\ kind = "prompt" /\ listener # 0 => Said({"start"}, collected) # << >>
        /\ UNCHANGED <<listener, collected, asked, output, up, commands, runs, shutdown,
                       failed, gone>>

AtRest == /\ starting = {} /\ run = 0 /\ retrying = 0
          /\ Said({"prompt"}, input) = << >> /\ Said({"start", "end"}, output) = << >>

PromptAndCollect ==  \* mutant: the events are collected once the prompt is answered
    /\ listener = 0 /\ pending = {} /\ calls # << >> /\ Last(calls) = "prompt"
    /\ listener' = Len(calls) /\ collected' = << >>
    /\ UNCHANGED <<calls, pending, asked, pipes, up, commands, runs, shutdown, failed, gone>>

PromptAndWait ==
    /\ listener = 0 /\ AtRest /\ Send("prompt")
    /\ listener' = Len(calls') /\ collected' = << >>
    /\ UNCHANGED <<asked, output, up, commands, runs, shutdown, failed, gone>>

(* handleLine: a response is for the call with its id.  All else goes to   *)
(* the listener, whose promise is resolved at the end of a run.            *)
Settles(l) == l.type = "response" /\ l.id \in pending

Receive ==
    /\ output # << >> /\ output' = Tail(output)
    /\ LET l == Head(output)
       IN /\ pending' = IF Settles(l) THEN pending \ {l.id} ELSE pending
          /\ asked' = IF l.type = "ask" THEN asked \cup {l.id} ELSE asked
          /\ IF Settles(l) \/ listener = 0 THEN UNCHANGED <<listener, collected>>
             ELSE /\ collected' = Append(collected, l)
                  /\ listener' = IF l.type = "end" THEN 0 ELSE listener
    /\ UNCHANGED <<calls, input, up, commands, runs, shutdown, failed, gone>>

HostAnswers(i) ==
    /\ i \in asked /\ asked' = asked \ {i}
    /\ input' = IF up THEN Append(input, Line("answer", i)) ELSE input
    /\ UNCHANGED <<calls, pending, listener, collected, output, up, commands, runs,
                   shutdown, failed, gone>>

(* After 30 seconds without a response, which only what awaits something   *)
(* can take; and after 60 without the end.                                 *)
TimeOut(i) ==
    /\ i \in pending
    /\ calls[i] = "slow" \/ ~up
    /\ pending' = pending \ {i}
    /\ UNCHANGED <<calls, listener, collected, asked, pipes, up, commands, runs, shutdown,
                   failed, gone>>

GiveUp ==
    /\ listener # 0 /\ listener' = 0
    /\ UNCHANGED <<calls, pending, collected, asked, pipes, up, commands, runs, shutdown,
                   failed, gone>>
-----------------------------------------------------------------------------
(* The process.  What it has begun ends with it.                           *)
Ends ==
    /\ up /\ up' = FALSE
    /\ input' = << >> /\ working' = {} /\ asking' = {}
    /\ starting' = {} /\ run' = 0 /\ retrying' = 0
    /\ gone' = gone \cup working \cup asking \cup {input[k].id : k \in DOMAIN input}
    /\ UNCHANGED <<calls, listener, collected, questions, shutdown, failed>>

Stop == Ends /\ output' = << >> /\ asked' = {} /\ UNCHANGED pending

Exit == Ends /\ shutdown = "leaving" /\ UNCHANGED <<pending, asked, output>>

Crash == Ends /\ UNCHANGED <<pending, asked, output>>

RequestShutdown ==
    /\ up /\ shutdown = "no" /\ shutdown' = "requested"
    /\ UNCHANGED <<client, pipes, up, commands, runs, failed, gone>>

CheckShutdown == shutdown' = IF shutdown = "requested" THEN "leaving" ELSE shutdown

(* handleInputLine: a question's answer, a command that is answered at     *)
(* once, one that awaits something.                                        *)
ReadLine ==
    /\ up /\ input # << >> /\ input' = Tail(input)
    /\ UNCHANGED <<client, up, questions, run, retrying>>

ReadAnswer ==
    /\ ReadLine
    /\ LET i == Head(input).id
       IN /\ Head(input).type = "answer" /\ asking' = asking \ {i}
          /\ working' = IF i \in asking THEN working \cup {i} ELSE working
    /\ UNCHANGED <<output, starting, shutdown, failed, gone>>

ReadState ==
    /\ ReadLine /\ Head(input).type = "get_state"
    /\ Say("response", Head(input).id) /\ CheckShutdown
    /\ UNCHANGED <<working, asking, starting, failed, gone>>

(* The prompt is not awaited: it is answered at once, and if it fails      *)
(* there is another response.                                              *)
ReadPrompt ==
    /\ ReadLine /\ Head(input).type = "prompt"
    /\ starting' = starting \cup {Head(input).id}
    /\ Say("response", Head(input).id) /\ CheckShutdown
    /\ UNCHANGED <<working, asking, failed, gone>>

ReadSlowAlone ==  \* mutant: one command after the other
    /\ ReadLine /\ Head(input).type = "slow" /\ working \cup asking = {}
    /\ working' = {Head(input).id}
    /\ UNCHANGED <<output, asking, starting, shutdown, failed, gone>>

ReadSlowInstead ==  \* mutant: one command at a time is remembered
    /\ ReadLine /\ Head(input).type = "slow" /\ working' = {Head(input).id}
    /\ UNCHANGED <<output, asking, starting, shutdown, failed, gone>>

ReadSlow ==
    /\ ReadLine /\ Head(input).type = "slow"
    /\ working' = working \cup {Head(input).id}
    /\ UNCHANGED <<output, asking, starting, shutdown, failed, gone>>

Read == ReadAnswer \/ ReadState \/ ReadPrompt \/ ReadSlow

(* A command ends, or throws: then the response has no id.                 *)
Succeed(i) ==
    /\ i \in working /\ working' = working \ {i}
    /\ Say("response", i) /\ CheckShutdown
    /\ UNCHANGED <<client, input, up, asking, questions, runs, failed, gone>>

Throw(i) ==
    /\ i \in working /\ working' = working \ {i}
    /\ Say("response", 0) /\ gone' = gone \cup {i}
    /\ UNCHANGED <<client, input, up, asking, questions, runs, shutdown, failed>>

(* createDialogPromise: a question, and its own timeout or abort.          *)
Ask(i) ==
    /\ i \in working \ questions /\ questions' = questions \cup {i}
    /\ working' = working \ {i} /\ asking' = asking \cup {i} /\ Say("ask", i)
    /\ UNCHANGED <<client, input, up, runs, shutdown, failed, gone>>

DialogEnds(i) ==
    /\ i \in asking /\ asking' = asking \ {i} /\ working' = working \cup {i}
    /\ UNCHANGED <<client, pipes, up, questions, runs, shutdown, failed, gone>>

(* What the host sees of the session's prompt() and runs.                  *)
StartRun(i) ==
    /\ i \in starting /\ run = 0
    /\ starting' = starting \ {i} /\ run' = i /\ Say("start", i)
    /\ UNCHANGED <<client, input, up, commands, retrying, shutdown, failed, gone>>

(* There is no key, the agent runs by now; or an extension takes it.       *)
PromptFails(i) ==
    /\ i \in starting /\ starting' = starting \ {i} /\ failed' = failed \cup {i}
    /\ Say("response", i) \/ UNCHANGED output
    /\ UNCHANGED <<client, input, up, commands, run, retrying, shutdown, gone>>

EndRun ==
    /\ run # 0 /\ run' = 0 /\ Say("end", run)
    /\ \/ UNCHANGED <<retrying, failed>>
       \/ run \notin failed /\ retrying' = run /\ failed' = failed \cup {run}
    /\ UNCHANGED <<client, input, up, commands, starting, shutdown, gone>>

RunAgain ==
    /\ retrying # 0 /\ retrying' = 0
    /\ IF run = 0 THEN run' = retrying /\ Say("start", retrying)
       ELSE UNCHANGED <<run, output>>
    /\ UNCHANGED <<client, input, up, commands, starting, shutdown, failed, gone>>

Next ==
    \/ Call \/ PromptAndWait \/ Receive \/ GiveUp \/ Stop \/ Exit \/ Crash
    \/ RequestShutdown \/ Read \/ EndRun \/ RunAgain
    \/ \E i \in 1..MaxCalls : \/ HostAnswers(i) \/ TimeOut(i) \/ Succeed(i) \/ Throw(i)
                              \/ Ask(i) \/ DialogEnds(i) \/ StartRun(i) \/ PromptFails(i)

Handle(i) == Succeed(i) \/ Throw(i)

(* Lines are read, the host answers, and what a command awaits comes.      *)
Fairness ==
    /\ WF_vars(Read) /\ WF_vars(Receive)
    /\ \A i \in 1..MaxCalls : WF_vars(HostAnswers(i)) /\ WF_vars(Handle(i))

Spec == Init /\ [][Next]_vars /\ Fairness
-----------------------------------------------------------------------------
(* Nobody waits in vain: a call that waits is on its way, in work, or its  *)
(* answer is, but for those the process took with it and those that threw. *)
NoneForgotten ==
    \A i \in pending :
        \/ i \in gone \cup working \cup asking
        \/ \E k \in DOMAIN input : input[k].id = i /\ input[k].type # "answer"
        \/ Line("response", i) \in Range(output)
        \/ ~up

(* "Send prompt and wait for completion, returning all events"             *)
(* (rpc-client.ts:431): the run of this prompt, from its start to its end, *)
(* and of no other.  A prompt that is repeated after a failure ends with   *)
(* the first attempt.                                                      *)
Collects == listener # 0 /\ listener' = 0 /\ Len(collected') > Len(collected)
CollectedIsRun ==
    Collects /\ listener \notin failed =>
        Said({"start", "end"}, collected')
            = <<Line("start", listener), Line("end", listener)>>

(* A command that was begun ends, also if it asks the host something: the  *)
(* answer is read while commands go on.                                    *)
CommandsEnd ==
    \A i \in 1..MaxCalls : i \in working \cup asking ~> i \notin working \cup asking
=============================================================================
