----------------------------- MODULE Artifacts ------------------------------
(***************************************************************************)
(* The artifacts of the web UI (packages/web-ui): files that live in the   *)
(* panel only (artifacts.ts).  They are written by calls of the artifacts  *)
(* tool, several of which may run at a time, and by the programs of the    *)
(* JavaScript tool, whose sandbox sends messages to the page (Artifacts-   *)
(* RuntimeProvider.ts).  What is stored of them is the transcript: results *)
(* of the tool and "artifact" messages, from which the panel is filled     *)
(* again when a session is loaded (reconstructFromMessages).               *)
(* A command takes effect at once; it is recorded when its result enters   *)
(* the transcript, for a page only after it had time to run.               *)
(***************************************************************************)
EXTENDS Naturals, Sequences, SequencesExt

CONSTANTS File,
          Page,        \* files that are HTML
          Command,     \* what the model may ask of the artifacts tool
          Written,     \* what programs may write
          Parallel,    \* toolExecution of the agent
          MaxCalls,    \* bound on the calls of an answer
          MaxHanging   \* bound on commands that are not recorded

VARIABLES
  artifacts,  \* _artifacts
  active,     \* _activeFilename
  recorded,   \* what the operations of the transcript come to, one by one
  calls,      \* the calls of an answer, and how far they are; none when all are told
  hanging,    \* commands that are not recorded yet, in the order of their effect
  astray      \* files that a session loaded now may have otherwise

vars == <<artifacts, active, recorded, calls, hanging, astray>>

Nothing == <<"nothing">> \* what is in no file
NoFile == "no file"
Run == [command |-> "run", file |-> NoFile, content |-> << >>, old |-> << >>]

(* content is new_str for an update.                                       *)
Commands == [command : {"create", "rewrite", "update", "delete", "get"},
             file : File, content : Seq({"a", "b"}), old : Seq({"a", "b"})]

TypeOK ==
    /\ \A f \in File : /\ artifacts[f] \in Seq({"a", "b"}) \cup {Nothing}
                       /\ recorded[f] \in Seq({"a", "b"}) \cup {Nothing}
    /\ active \in File \cup {NoFile} /\ astray \subseteq File
    /\ \A i \in DOMAIN calls : /\ calls[i].state \in {"todo", "on", "done", "told"}
                               /\ calls[i].op = Run \/ calls[i].op \in Commands
    /\ \A i \in DOMAIN hanging : /\ hanging[i].op \in Commands
                                 /\ hanging[i].call \in {0} \cup DOMAIN calls
                                 /\ hanging[i].waits \in BOOLEAN

Init == /\ artifacts = [f \in File |-> Nothing] /\ active = NoFile
        /\ recorded = artifacts /\ calls = << >> /\ hanging = << >> /\ astray = {}

There == {f \in File : artifacts[f] # Nothing}
-----------------------------------------------------------------------------
(* executeCommand: which commands are carried out; the others come back as *)
(* a text that begins with "Error:".                                       *)
Accepted(op) ==
    \/ op.command = "create" /\ op.content # << >> /\ op.file \notin There
    \/ op.command = "rewrite" /\ op.content # << >> /\ op.file \in There
    \/ /\ op.command = "update" /\ op.file \in There /\ op.old # << >>
       /\ op.old \in SubSeqs(artifacts[op.file])
    \/ op.command = "delete" /\ op.file \in There

Edited(content, op) ==
    IF op.old = << >> THEN op.content \o content
    ELSE ReplaceFirstSubSeq(op.content, op.old, content)

(* What the command makes of its file.                                     *)
Carried(op) == CASE op.command \in {"create", "rewrite"} -> op.content
                 [] op.command = "update" -> Edited(artifacts[op.file], op)
                 [] op.command = "delete" -> Nothing

(* A plausible bug: the tab of a file stays open when the file is deleted. *)
ExecuteKeepingTab(op) ==
    IF ~Accepted(op) THEN UNCHANGED <<artifacts, active>>
    ELSE /\ artifacts' = [artifacts EXCEPT ![op.file] = Carried(op)]
         /\ active' = IF op.command = "delete" THEN active ELSE op.file

(* createArtifact, updateArtifact, rewriteArtifact and deleteArtifact: the *)
(* file is shown; when the one shown is deleted, another is.               *)
Execute(op) ==
    IF ~Accepted(op) THEN UNCHANGED <<artifacts, active>>
    ELSE /\ artifacts' = [artifacts EXCEPT ![op.file] = Carried(op)]
         /\ \/ op.command # "delete" /\ active' = op.file
            \/ op.command = "delete" /\ active # op.file /\ UNCHANGED active
            \/ /\ op.command = "delete" /\ active = op.file
               /\ active' \in IF There = {op.file} THEN {NoFile} ELSE There \ {op.file}

(* Commands that reconstructFromMessages takes for what they are not: a    *)
(* refusal is a result like another, and a file without text is none.      *)
Misread(op) ==
    \/ op.command = "create" /\ op.file \in There /\ op.content # << >>
    \/ op.command = "rewrite" /\ op.file \notin There /\ op.content # << >>
    \/ op.command = "update" /\ op.old = << >> /\ op.content # << >>
    \/ op.command = "update" /\ Accepted(op) /\ Carried(op) = << >>

(* waitForHtmlExecution: a page that was written runs for a while.         *)
Waits(op) == Accepted(op) /\ op.file \in Page /\ op.command # "delete"

(* A command as it waits to be recorded: whether it makes its file anew,   *)
(* and whether the transcript will tell otherwise.                         *)
Entry(op, call) ==
    [op |-> op, call |-> call, waits |-> Waits(op),
     anew |-> op.command = "delete" \/ (Accepted(op) /\ op.command # "update"),
     misread |-> Misread(op)]
-----------------------------------------------------------------------------
(* A plausible bug: results are replayed whatever the command was.         *)
ReplayedAll(op) ==
    CASE op.command = "delete" -> Nothing
      [] op.command = "update" ->
            IF recorded[op.file] \in {Nothing, << >>} THEN recorded[op.file]
            ELSE Edited(recorded[op.file], op)
      [] OTHER -> op.content

(* reconstructFromMessages 2) and 3): what a result or a message makes of  *)
(* its file.  A result marked as an error is left out.                     *)
Replayed(op) ==
    CASE op.command \in {"create", "rewrite"} ->
            IF op.content # << >> THEN op.content ELSE recorded[op.file]
      [] op.command = "update" ->
            IF recorded[op.file] \in {Nothing, << >>} THEN recorded[op.file]
            ELSE Edited(recorded[op.file], op)
      [] op.command = "delete" -> Nothing
      [] op.command \in {"get"} -> recorded[op.file]

(* A result or message is appended to the transcript, before the commands  *)
(* in earlier and later: the earlier ones will be replayed after it.       *)
Record(it, earlier, later) ==
    LET f == it.op.file IN
    /\ recorded' = [recorded EXCEPT ![f] = Replayed(it.op)]
    /\ hanging' = [j \in DOMAIN earlier |->
                      [earlier[j] EXCEPT !.misread = @ \/ earlier[j].op.file = f]] \o later
    /\ astray' = IF it.misread THEN astray \cup {f}
                 ELSE IF it.anew THEN astray \ {f} ELSE astray

RecordNth(k) ==
    Record(hanging[k], SubSeq(hanging, 1, k - 1), SubSeq(hanging, k + 1, Len(hanging)))
-----------------------------------------------------------------------------
(* An answer with calls of the artifacts tool and of the JavaScript tool.  *)
(* Calls whose arguments are not valid have no effect and an error as      *)
(* their result, which is not replayed; they are left out.                 *)
Answer ==
    /\ calls = << >> /\ Len(hanging) + MaxCalls <= MaxHanging
    /\ \E k \in 1..MaxCalls : \E ops \in [1..k -> Command \cup {Run}] :
        calls' = [i \in 1..k |-> [op |-> ops[i], state |-> "todo"]]
    /\ UNCHANGED <<artifacts, active, recorded, hanging, astray>>

(* executeToolCallsParallel starts every call before it awaits one.        *)
Starting == Parallel /\ \E i \in DOMAIN calls : calls[i].state = "todo"

Goes(i, state) == calls' = [calls EXCEPT ![i].state = state]

(* A call is executed: the artifacts tool does what it does before it      *)
(* waits for anything.                                                     *)
Start(i) ==
    /\ calls[i].state = "todo"
    /\ \A j \in 1..(i - 1) : IF Parallel THEN calls[j].state # "todo" ELSE calls[j].state = "told"
    /\ LET op == calls[i].op
       IN IF op = Run
          THEN Goes(i, "on") /\ UNCHANGED <<artifacts, active, hanging>>
          ELSE /\ Execute(op) /\ hanging' = Append(hanging, Entry(op, i))
               /\ Goes(i, IF Waits(op) THEN "on" ELSE "done")
    /\ UNCHANGED <<recorded, astray>>

(* createOrUpdate and delete, with what is told of them.  The command is   *)
(* executed and the message appended in one go, unless a page has to run.  *)
Write(op, told) ==
    /\ ~Starting /\ Len(hanging) < MaxHanging
    /\ \E i \in DOMAIN calls : calls[i].state = "on" /\ calls[i].op = Run
    /\ Execute(op)
    /\ IF Waits(op)
       THEN hanging' = Append(hanging, told) /\ UNCHANGED <<recorded, astray>>
       ELSE Record(told, hanging, << >>)
    /\ UNCHANGED calls

(* What a program writes to: one that is there is written anew.            *)
Upsert(op) == [op EXCEPT !.command = IF op.file \in There THEN "rewrite" ELSE "create"]

(* A plausible bug: the message "update" is replayed as the tool's update, *)
(* for which it has no old_str.                                            *)
WriteToldAsUpdate(op) ==
    LET it == IF op.command = "delete" THEN op ELSE Upsert(op)
    IN Write(it, IF it.command = "rewrite" THEN [Entry(it, 0) EXCEPT !.op.command = "get"]
                 ELSE Entry(it, 0))

(* ArtifactsRuntimeProvider.handleMessage: the provider does not see when  *)
(* the command was refused, and tells of it all the same.                  *)
HandleMessage(op) ==
    LET it == IF op.command = "delete" THEN op ELSE Upsert(op)
    IN Write(it, Entry(it, 0))

(* A page had its time; the timers go off in the order they were set.  A   *)
(* program's command is recorded, a call of the tool has its result.       *)
Elapse(k) ==
    /\ ~Starting /\ hanging[k].waits /\ \A j \in 1..(k - 1) : ~hanging[j].waits
    /\ IF hanging[k].call = 0
       THEN RecordNth(k) /\ UNCHANGED calls
       ELSE /\ Goes(hanging[k].call, "done")
            /\ hanging' = [hanging EXCEPT ![k].waits = FALSE]
            /\ UNCHANGED <<recorded, astray>>
    /\ UNCHANGED <<artifacts, active>>

(* The sandbox of a program is complete, fails, times out or is aborted;   *)
(* what it did not wait for goes on.                                       *)
Finish(i) ==
    /\ ~Starting /\ calls[i].state = "on" /\ calls[i].op = Run
    /\ Goes(i, "done")
    /\ UNCHANGED <<artifacts, active, recorded, hanging, astray>>

(* The results of an answer enter the transcript in the order of its calls.*)
Tell(i) ==
    /\ ~Starting /\ calls[i].state = "done"
    /\ \A j \in 1..(i - 1) : calls[j].state = "told"
    /\ IF i = Len(calls) THEN calls' = << >> ELSE Goes(i, "told")
    /\ IF calls[i].op = Run THEN UNCHANGED <<recorded, hanging, astray>>
       ELSE \E k \in DOMAIN hanging : hanging[k].call = i /\ RecordNth(k)
    /\ UNCHANGED <<artifacts, active>>
-----------------------------------------------------------------------------
(* The files that the transcript tells of; those without text are not made.*)
Reconstructed == [f \in File |-> IF recorded[f] = << >> THEN Nothing ELSE recorded[f]]

(* setAgent of the ChatPanel: a session is loaded into an empty panel.     *)
Load ==
    /\ calls = << >> /\ hanging = << >>
    /\ artifacts' = Reconstructed
    /\ active' \in IF \A f \in File : artifacts'[f] = Nothing THEN {NoFile}
                   ELSE {f \in File : artifacts'[f] # Nothing}
    /\ astray' = {}
    /\ UNCHANGED <<recorded, calls, hanging>>

Next ==
    \/ Answer \/ Load
    \/ \E i \in DOMAIN calls : Start(i) \/ Finish(i) \/ Tell(i)
    \/ \E op \in Written : HandleMessage(op)
    \/ \E k \in DOMAIN hanging : Elapse(k)

Spec == Init /\ [][Next]_vars
-----------------------------------------------------------------------------
(* reconstructFromMessages: when everything about a file is recorded, a    *)
(* session loaded now has it as the panel has, however the calls and the   *)
(* programs that wrote it ran; but for files that are astray.              *)
ReloadAgrees ==
    \A f \in File \ astray :
        (\A k \in DOMAIN hanging : hanging[k].op.file # f)
            => Reconstructed[f] = artifacts[f]

(* showArtifact: the tab that is open is of a file that is there, and one  *)
(* is open whenever there is a file.                                       *)
OpenTabExists == IF There = {} THEN active = NoFile ELSE active \in There
=============================================================================
