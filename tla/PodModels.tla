------------------------------ MODULE PodModels ------------------------------
(***************************************************************************)
(* The models on one GPU pod: pi start, pi stop and pi pods setup          *)
(* (packages/pods/src/commands/models.ts, pods.ts, config.ts).  Every      *)
(* command is a process of its own: it reads pods.json, works over ssh,    *)
(* reads pods.json again and writes it.  A start then watches the log of   *)
(* the model, for minutes, while other commands come and go.               *)
(***************************************************************************)
EXTENDS Integers, Sequences, FiniteSets

CONSTANTS Name,        \* of models
          Gpus,        \* how many GPUs the pod has
          MaxCommands

VARIABLES models,   \* pod.models in pods.json
          command,  \* the commands, in the order they were given
          script,   \* the port in /tmp/model_run_<name>.sh
          process,  \* the runners on the pod; the place of one is its pid
          odd       \* history: what of note has happened

vars == <<models, command, script, process, odd>>

Gpu == 1..Gpus
FirstPort == 8001
NoModel == [port |-> 0, gpu |-> {}, pid |-> 0]
Ssh == {"upload", "launch", "save", "kill", "forget"}
Running == {pid \in DOMAIN process : process[pid].state \in {"starting", "up"}}

Line == {"complete", "out of memory", "exited"}

Entry == [port : Nat, gpu : SUBSET Gpu, pid : Nat]
Command == [kind : {"start", "stop", "stopAll"}, name : Name, step : Ssh \cup {"watch", "over"},
            port : Nat, gpu : SUBSET Gpu, pids : SUBSET Nat, pid : Nat, failed : BOOLEAN,
            heard : Seq(Line)]
Runner == [name : Name, said : Seq(Line), state : {"starting", "up", "failing", "gone"}, port : Nat]

TypeOK ==
    /\ models \in [Name -> Entry] /\ command \in Seq(Command)
    /\ script \in [Name -> Nat] /\ process \in Seq(Runner)
    /\ odd \subseteq {"two starts", "same name", "ssh", "setup", "removed"}

Init == /\ models = [n \in Name |-> NoModel] /\ command = << >>
        /\ script = [n \in Name |-> 0] /\ process = << >> /\ odd = {}
-----------------------------------------------------------------------------
(* The lowest port that no model has; the GPUs that the fewest models have, *)
(* the first ones if there are several.                                    *)
NextPortByCount == FirstPort + Cardinality({n \in Name : models[n] # NoModel})  \* mutant

NextPort == CHOOSE p \in FirstPort..(FirstPort + Cardinality(Name)) :
                /\ \A n \in Name : models[n].port # p
                /\ \A q \in FirstPort..(p - 1) : \E n \in Name : models[n].port = q

Usage(g) == Cardinality({n \in Name : g \in models[n].gpu})

SelectFirst(count) == 1..count  \* mutant: whoever has them

SelectGpus(count) ==
    LET before(g, h) == Usage(g) < Usage(h) \/ (Usage(g) = Usage(h) /\ g < h)
    IN {g \in Gpu : Cardinality({h \in Gpu : before(h, g)}) < count}

(* Commands that a new one, on these names, overlaps.                      *)
Active == {c \in DOMAIN command : command[c].step \in Ssh}
NamesOf(kind, n) == IF kind = "stopAll" THEN Name ELSE {n}

Begin(kind, n, step, port, gpu, pids) ==
    /\ Len(command) < MaxCommands
    /\ command' = Append(command, [kind |-> kind, name |-> n, step |-> step, port |-> port,
                                   gpu |-> gpu, pids |-> pids, pid |-> 0,
                                   failed |-> FALSE, heard |-> << >>])
    /\ odd' = odd \cup
         (IF kind = "start" /\ \E c \in Active : command[c].kind = "start"
          THEN {"two starts"} ELSE {}) \cup
         (IF \E c \in Active : NamesOf(command[c].kind, command[c].name) \cap NamesOf(kind, n) # {}
          THEN {"same name"} ELSE {})
    /\ UNCHANGED <<models, script, process>>

BeginStartAnyway(n) ==  \* mutant: there may be a model of that name
    \E gpu \in {SelectGpus(count) : count \in 1..(Gpus - 1)} \cup {Gpu, {}} :
        Begin("start", n, "upload", NextPort, gpu, {})

(* startModel: some GPUs, or those that --vllm arguments name.             *)
BeginStart(n) ==
    /\ models[n] = NoModel
    /\ \E gpu \in {SelectGpus(count) : count \in 1..(Gpus - 1)} \cup {Gpu, {}} :
           Begin("start", n, "upload", NextPort, gpu, {})

BeginStop(n) ==
    models[n] # NoModel /\ Begin("stop", n, "kill", 0, {}, {models[n].pid})

BeginStopAll(n) ==
    /\ n = CHOOSE m \in Name : TRUE
    /\ \E m \in Name : models[m] # NoModel
    /\ Begin("stopAll", n, "kill", 0, {}, {models[m].pid : m \in Name} \ {0})

Step(c, to) == command' = [command EXCEPT ![c].step = to]

(* The process of a command ends, and with it what it knew.                *)
Over(c, failed) ==
    command' = [command EXCEPT ![c].step = "over", ![c].failed = failed, ![c].heard = << >>,
                               ![c].port = 0, ![c].gpu = {}, ![c].pids = {}]

(* The script is written, or ssh fails, which nobody looks at.             *)
Upload(c) ==
    /\ command[c].step = "upload" /\ Step(c, "launch")
    /\ \/ script' = [script EXCEPT ![command[c].name] = command[c].port] /\ UNCHANGED odd
       \/ odd' = odd \cup {"ssh"} /\ UNCHANGED script
    /\ UNCHANGED <<models, process>>

Launched(c) ==
    process' = Append(process, [name |-> command[c].name, said |-> << >>,
                                state |-> "starting", port |-> script[command[c].name]])

(* The log of a model is that of its name: an earlier start that watches   *)
(* it, or an earlier runner that has not ended yet, is still there.        *)
LogInUse(n) ==
    \/ \E d \in DOMAIN command : command[d].step = "watch" /\ command[d].name = n
    \/ \E p \in DOMAIN process : process[p].state # "gone" /\ process[p].name = n

(* The runner is started and tells its pid.  If ssh fails there is no pid, *)
(* and maybe a runner.                                                     *)
Launch(c) ==
    /\ command[c].step = "launch"
    /\ \/ /\ Launched(c)
          /\ command' = [command EXCEPT ![c].step = "save", ![c].pid = Len(process')]
          /\ odd' = odd \cup (IF LogInUse(command[c].name) THEN {"same name"} ELSE {})
       \/ /\ Launched(c) \/ UNCHANGED process
          /\ Over(c, FALSE) /\ odd' = odd \cup {"ssh"}
    /\ UNCHANGED <<models, script>>

EntryOf(c) == [port |-> command[c].port, gpu |-> command[c].gpu, pid |-> command[c].pid]

(* pods.json is read again, the model is added, and its log is watched.    *)
Save(c) ==
    /\ command[c].step = "save"
    /\ models' = [models EXCEPT ![command[c].name] = EntryOf(c)]
    /\ command' = [command EXCEPT ![c].step = "watch",
                                  ![c].heard = process[command[c].pid].said]
    /\ UNCHANGED <<script, process, odd>>

(* The log stream is over: a model that failed is taken out of pods.json.  *)
EndsWatch(c, failed) ==
    /\ Over(c, failed)
    /\ IF failed THEN /\ models' = [models EXCEPT ![command[c].name] = NoModel]
                      /\ odd' = odd \cup {"removed"}
       ELSE UNCHANGED <<models, odd>>

HearQuiet(c) ==  \* mutant: the model is not taken out when memory ran out
    /\ command[c].step = "watch" /\ command[c].heard # << >>
    /\ LET line == Head(command[c].heard)
       IN IF line = "out of memory"
          THEN /\ command' = [command EXCEPT ![c].heard = Tail(@), ![c].failed = TRUE]
               /\ UNCHANGED <<models, odd>>
          ELSE IF command[c].failed THEN Over(c, TRUE) /\ UNCHANGED <<models, odd>>
          ELSE EndsWatch(c, line = "exited")
    /\ UNCHANGED <<script, process>>

(* processOutput: one line of the log.                                     *)
Hear(c) ==
    /\ command[c].step = "watch" /\ command[c].heard # << >>
    /\ LET line == Head(command[c].heard)
       IN IF line = "out of memory"
          THEN /\ command' = [command EXCEPT ![c].heard = Tail(@), ![c].failed = TRUE]
               /\ UNCHANGED <<models, odd>>
          ELSE EndsWatch(c, command[c].failed \/ line = "exited")
    /\ UNCHANGED <<script, process>>

(* Control-C, or the connection is lost.                                   *)
Interrupt(c) ==
    /\ command[c].step = "watch" /\ EndsWatch(c, command[c].failed)
    /\ UNCHANGED <<script, process>>

(* Those who watch a name see the lines of all its runners.                *)
Told(commands, names, line) ==
    [c \in DOMAIN commands |->
        IF commands[c].step = "watch" /\ commands[c].name \in names
        THEN [commands[c] EXCEPT !.heard = Append(@, line)] ELSE commands[c]]

(* stopModel, stopAllModels: the runners are killed, of which some have    *)
(* time for a last line, or ssh fails...                                   *)
Kill(c) ==
    /\ command[c].step = "kill"
    /\ \/ LET killed == {p \in command[c].pids : process[p].state # "gone"}
          IN \E last \in SUBSET killed :
              /\ process' = [p \in DOMAIN process |->
                     IF p \in killed
                     THEN [process[p] EXCEPT !.state = "gone",
                              !.said = IF p \in last THEN Append(@, "exited") ELSE @]
                     ELSE process[p]]
              /\ command' = Told([command EXCEPT ![c].step = "forget"],
                                 {process[p].name : p \in last}, "exited")
              /\ UNCHANGED odd
       \/ odd' = odd \cup {"ssh"} /\ Step(c, "forget") /\ UNCHANGED process
    /\ UNCHANGED <<models, script>>

(* ... and their entries go in either case.                                *)
Forget(c) ==
    /\ command[c].step = "forget" /\ Over(c, FALSE)
    /\ models' = [n \in Name |-> IF n \in NamesOf(command[c].kind, command[c].name)
                                 THEN NoModel ELSE models[n]]
    /\ odd' = odd \cup {"removed"}
    /\ UNCHANGED <<script, process>>

(* setupPod for a pod that is there: addPod puts an empty one in its place. *)
Setup ==
    /\ "setup" \notin odd /\ \E n \in Name : models[n] # NoModel
    /\ models' = [n \in Name |-> NoModel] /\ odd' = odd \cup {"setup", "removed"}
    /\ UNCHANGED <<command, script, process>>

(* A runner writes a line.                                                 *)
Say(p, state, line) ==
    /\ process' = [process EXCEPT ![p].state = state, ![p].said = Append(@, line)]
    /\ command' = Told(command, {process[p].name}, line)
    /\ UNCHANGED <<models, script, odd>>

Up(p) == process[p].state = "starting" /\ Say(p, "up", "complete")
RunsOut(p) == process[p].state = "starting" /\ Say(p, "failing", "out of memory")
Exit(p) == process[p].state \in {"starting", "up", "failing"} /\ Say(p, "gone", "exited")

Next ==
    \/ \E n \in Name : BeginStart(n) \/ BeginStop(n) \/ BeginStopAll(n)
    \/ \E c \in DOMAIN command :
           \/ Upload(c) \/ Launch(c) \/ Save(c) \/ Hear(c) \/ Interrupt(c)
           \/ Kill(c) \/ Forget(c)
    \/ Setup
    \/ \E p \in DOMAIN process : Up(p) \/ RunsOut(p) \/ Exit(p)

Spec == Init /\ [][Next]_vars
-----------------------------------------------------------------------------
(* What the properties rest on.  Always: a pid is that of one start, whose *)
(* name its entry has, unless it failed...                                 *)
CommandInv(c) ==
    /\ c.step \in {"upload", "launch", "save", "watch"} => c.kind = "start"
    /\ c.step \in {"kill", "forget"} => c.kind # "start"
    /\ c.step \in {"save", "watch"} \/ c.failed => c.pid # 0
    /\ c.failed => c.step \in {"watch", "over"}
    /\ c.pid # 0 => /\ c.kind = "start" /\ c.step \in {"save", "watch", "over"}
                    /\ c.pid \in DOMAIN process /\ process[c.pid].name = c.name
    /\ c.pids \subseteq DOMAIN process

EntryInv(n) ==
    models[n] # NoModel =>
        \E c \in DOMAIN command :
            /\ command[c].name = n /\ models[n].pid = command[c].pid /\ command[c].pid # 0
            /\ command[c].step \in {"watch", "over"}
            /\ ~(command[c].step = "over" /\ command[c].failed)

Ended(p) == process[p].state = "gone"
OutOfMemory(p) == process[p].state \in {"failing", "gone"}
TellsOf(lines, p) ==
    \A i \in DOMAIN lines : /\ lines[i] = "exited" => Ended(p)
                            /\ lines[i] = "out of memory" => OutOfMemory(p)

PidsInv ==
    /\ \A c \in DOMAIN command : CommandInv(command[c])
    /\ \A c, d \in DOMAIN command : command[c].pid = command[d].pid /\ command[c].pid # 0 => c = d
    /\ \A n \in Name : EntryInv(n)
    /\ \A p \in DOMAIN process : TellsOf(process[p].said, p)

(* ...; as long as names are not shared and ssh works: a start hears its   *)
(* own runner only, and a stop ends what it takes out; ...                 *)
Alone == odd \cap {"same name", "ssh", "setup"} = {}

Apart(c, d) ==
    NamesOf(command[c].kind, command[c].name) \cap NamesOf(command[d].kind, command[d].name) = {}

HearsOwn(c) ==
    /\ command[c].step \in {"save", "watch"} =>
           \A q \in DOMAIN process : ~Ended(q) /\ process[q].name = command[c].name => q = command[c].pid
    /\ command[c].step = "watch" =>
           /\ TellsOf(command[c].heard, command[c].pid)
           /\ command[c].failed => OutOfMemory(command[c].pid)

StopsThem(c) ==
    /\ command[c].step \in {"kill", "forget"} =>
           \A n \in NamesOf(command[c].kind, command[c].name) :
               models[n] = NoModel \/ models[n].pid \in command[c].pids
    /\ command[c].step = "forget" => \A p \in command[c].pids : Ended(p)

KnownInv ==
    Alone => /\ \A c, d \in Active : c # d => Apart(c, d)
             /\ \A c \in DOMAIN command : HearsOwn(c) /\ StopsThem(c)

(* ...; if starts also come one at a time: the port of a start is free     *)
(* until it is saved, ...                                                  *)
Starting == {c \in Active : command[c].kind = "start"}
OneStart == "two starts" \notin odd => \A c, d \in Starting : c = d

PortInv(c) ==
    /\ command[c].port # 0
    /\ \A n \in Name : models[n].port # command[c].port
    /\ command[c].step = "launch" => script[command[c].name] = command[c].port
    /\ command[c].step = "save" => process[command[c].pid].port = command[c].port

PortsInv ==
    Alone /\ "two starts" \notin odd =>
        /\ \A c \in Starting : PortInv(c)
        /\ \A n, m \in Name : models[n].port = models[m].port /\ models[n] # NoModel => n = m
        /\ \A n \in Name : models[n] # NoModel =>
               models[n].port # 0 /\ process[models[n].pid].port = models[n].port

(* ... and if nothing is removed, its GPUs are still those with the fewest *)
(* models.                                                                 *)
UsageWith(gpu, g) == Usage(g) + (IF g \in gpu THEN 1 ELSE 0)
Spread(gpu) == \A g, h \in Gpu : UsageWith(gpu, g) <= UsageWith(gpu, h) + 1

SpreadInv ==
    odd \cap {"two starts", "removed"} = {} =>
        /\ Spread({})
        /\ \A c \in Starting : models[command[c].name] = NoModel /\ Spread(command[c].gpu)

(* "Every model has a port of its own", and its entry tells which: unless  *)
(* two starts were under way at a time, or ssh failed.                     *)
PortsHold ==
    odd \cap {"two starts", "same name", "ssh", "setup"} = {} =>
        /\ \A p, q \in Running : process[p].port = process[q].port => p = q
        /\ \A n \in Name : models[n] # NoModel =>
               process[models[n].pid].port = models[n].port

(* A model that runs can be stopped: it is in pods.json, or about to be.   *)
(* That holds for starts of several models at a time, as pods.json is read *)
(* again before it is written.                                             *)
RunningIsKnown ==
    odd \cap {"same name", "ssh", "setup"} = {} =>
        \A p \in Running : \/ \E n \in Name : models[n].pid = p
                           \/ \E c \in DOMAIN command : /\ command[c].step = "save"
                                                        /\ command[c].pid = p

(* A start that has reported a failure has left no entry.                  *)
FailedIsForgotten ==
    \A c \in DOMAIN command : command[c].step = "over" /\ command[c].failed =>
        \A n \in Name : models[n].pid # command[c].pid

(* "pi automatically assigns them to different GPUs": while models are     *)
(* only added, one by one, no GPU has two more than another.               *)
GpusAreSpread ==
    odd \cap {"two starts", "removed"} = {} => \A g, h \in Gpu : Usage(g) <= Usage(h) + 1

(* All of that together is inductive.                                      *)
PodsInv == /\ TypeOK /\ PidsInv /\ OneStart
           /\ KnownInv /\ RunningIsKnown /\ PortsInv /\ SpreadInv
=============================================================================
