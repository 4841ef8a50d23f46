-------------------------- MODULE InteractiveMode --------------------------
(***************************************************************************)
(* What becomes of the messages typed in interactive mode, and what Escape *)
(* does (packages/coding-agent/src/modes/interactive/interactive-mode.ts), *)
(* over what the mode sees of its AgentSession: runs, retries after a      *)
(* delay, compactions, branch summaries.                                   *)
(*                                                                         *)
(* A text is the sequence of the messages joined in it.  The main loop     *)
(* awaits one input at a time and hands it to prompt(); while the agent    *)
(* runs messages go to its queues, while it compacts to a queue of the     *)
(* mode.  Keys are at hand (no refresh), events are handled at once, a     *)
(* run takes longer than the 100 ms of a timer, and queues are delivered   *)
(* one at a time.                                                          *)
(***************************************************************************)
EXTENDS Integers, Sequences, SequencesExt

CONSTANTS MaxTyped,    \* bound on the messages typed
          MaxRetries,  \* settings: retry.maxRetries
          Hasty        \* whether the user acts when nobody is prepared for it

VARIABLES
  (* the mode                                                              *)
  editor,       \* the text in the editor
  queue,        \* compactionQueuedMessages
  onEscape,     \* defaultEditor.onEscape, by what it does
  retryEscape,  \* retryEscapeHandler
  autoEscape,   \* autoCompactionEscapeHandler
  original,     \* originalOnEscape of a command that waits
  loading,      \* loadingAnimation is there
  main,         \* where the main loop is, and the text it carries
  flush,        \* the prompts of flushCompactionQueue, and where they are
  (* the agent and its session                                             *)
  run,          \* none, streaming or aborting
  steering, followUp,  \* the agent's queues
  unanswered,   \* the transcript does not end with an answer
  attempt,      \* _retryAttempt
  sleeping,     \* a retry is delayed
  timers,       \* agent.continue() calls left to setTimeout
  compacting,   \* the compaction or summary in progress
  (* history                                                               *)
  typed,        \* how many messages were typed
  arrived       \* how often each reached the agent, or /new dropped it

handlers == <<onEscape, retryEscape, autoEscape, original, loading>>
queues == <<queue, steering, followUp>>
retries == <<attempt, sleeping, timers>>
vars == <<editor, main, flush, run, unanswered, compacting, typed, arrived,
          handlers, queues, retries>>

Handler == {"main", "abortRetry", "abortCompaction", "abortSummary"}
Auto == {"threshold", "overflow", "prompt"}
Text == Seq(1..MaxTyped)

TypeOK ==
    /\ editor \in Text /\ steering \in Seq(Text) /\ followUp \in Seq(Text)
    /\ queue \in Seq([text : Text, mode : {"steer", "followUp"}])
    /\ onEscape \in Handler
    /\ {retryEscape, autoEscape, original} \subseteq Handler \cup {"none"}
    /\ main.at \in {"input", "sending", "compacting", "sent", "agent", "retry"}
    /\ main.text \in Text
    /\ \A i \in DOMAIN flush : /\ flush[i].at \in {"sending", "compacting", "sent"}
                               /\ flush[i].text \in Text
    /\ run \in {"none", "streaming", "aborting"}
    /\ attempt \in 0..MaxRetries /\ timers \in Nat
    /\ compacting \in Auto \cup {"none", "manual", "summary"}
    /\ {loading, unanswered, sleeping} \subseteq BOOLEAN

Input == [at |-> "input", text |-> << >>]

Init ==
    /\ editor = << >> /\ queue = << >> /\ steering = << >> /\ followUp = << >>
    /\ onEscape = "main" /\ retryEscape = "none" /\ autoEscape = "none"
    /\ original = "none" /\ loading = FALSE /\ main = Input /\ flush = << >>
    /\ run = "none" /\ unanswered = FALSE /\ attempt = 0 /\ sleeping = FALSE
    /\ timers = 0 /\ compacting = "none"
    /\ typed = 0 /\ arrived = [id \in 1..MaxTyped |-> 0]
-----------------------------------------------------------------------------
Occurs(id, text) == Len(SelectSeq(text, LAMBDA x : x = id))
Arrives(text) == arrived' = [id \in 1..MaxTyped |-> arrived[id] + Occurs(id, text)]

Texts(mode) ==
    LET chosen == SelectSeq(queue, LAMBDA m : m.mode = mode)
    IN [i \in DOMAIN chosen |-> chosen[i].text]

(* clearAllQueues: the session's queues, then the mode's own.              *)
AllQueued == FlattenSeq(steering \o Texts("steer") \o followUp \o Texts("followUp"))

Back == IF main.at \in {"agent", "retry"} THEN Input ELSE main


(* A run or a retry gives Escape back to whom it belonged (agent_start,    *)
(* auto_retry_end); a retry or a compaction takes it.                      *)
GiveBack(now) ==
    /\ onEscape' = IF retryEscape = "none" THEN now ELSE retryEscape
    /\ retryEscape' = "none"

AgentStart ==
    /\ run' = "streaming" /\ loading' = TRUE /\ unanswered' = TRUE
    /\ GiveBack(onEscape) /\ UNCHANGED <<autoEscape, original>>

(* What _checkCompaction makes of the end of a run: a compaction (kind),   *)
(* which takes Escape from whoever has it by then, or nothing.             *)
Check(kind, has) ==
    IF kind = "none" THEN onEscape' = has /\ UNCHANGED <<autoEscape, compacting>>
    ELSE /\ compacting' = kind
         /\ autoEscape' = has /\ onEscape' = "abortCompaction"

(* A key that is at hand comes before anything else does.                  *)
Quiet ==
    /\ main.at \notin {"sending", "sent"}
    /\ \A i \in DOMAIN flush : flush[i].at = "compacting"
-----------------------------------------------------------------------------
(* The user.                                                               *)
Type ==
    /\ typed < MaxTyped /\ typed' = typed + 1 /\ editor' = Append(editor, typed + 1)
    /\ UNCHANGED <<main, flush, run, unanswered, compacting, arrived, handlers,
                   queues, retries>>

(* Somebody is there for what is submitted: the main loop, the agent, or   *)
(* the queue of a compaction that comes to be sent: not of the one a       *)
(* prompt() waits for, which queues as well, but whose flush then competes *)
(* with that prompt.                                                       *)
Listening(mode) ==
    \/ compacting \in {"threshold", "overflow", "manual"}
    \/ run # "none" /\ compacting = "none"
    \/ /\ main.at = "input" /\ compacting = "none" /\ ~sleeping /\ timers = 0
       /\ mode = "steer"

QueueCompactionMessage(m) == queue' = Append(queue, m) /\ UNCHANGED steering

(* onSubmit and handleFollowUp: Enter, or Alt+Enter, which at rest does    *)
(* not empty the editor.                                                   *)
Submit(mode) ==
    /\ Quiet /\ editor # << >>
    /\ Hasty \/ Listening(mode)
    /\ IF compacting # "none" THEN
           /\ QueueCompactionMessage([text |-> editor, mode |-> mode])
           /\ UNCHANGED <<followUp, main>>
       ELSE IF run # "none" THEN
           /\ steering' = IF mode = "steer" THEN Append(steering, editor) ELSE steering
           /\ followUp' = IF mode = "steer" THEN followUp ELSE Append(followUp, editor)
           /\ UNCHANGED <<queue, main>>
       ELSE /\ main' = IF main.at = "input" THEN [at |-> "sending", text |-> editor]
                       ELSE main
            /\ UNCHANGED queues
    /\ editor' = IF mode = "followUp" /\ compacting = "none" /\ run = "none" THEN editor
                 ELSE << >>
    /\ UNCHANGED <<flush, run, unanswered, compacting, typed, arrived, handlers, retries>>

(* restoreQueuedMessagesToEditor.                                          *)
Restore ==
    /\ editor' = AllQueued \o editor
    /\ queue' = << >> /\ steering' = << >> /\ followUp' = << >>

Dequeue ==
    /\ Quiet /\ AllQueued # << >> /\ Restore
    /\ UNCHANGED <<main, flush, run, unanswered, compacting, typed, arrived,
                   handlers, retries>>

EscapeRun ==
    /\ Quiet /\ onEscape = "main" /\ loading /\ Restore
    /\ run' = IF run = "none" THEN run ELSE "aborting"
    /\ UNCHANGED <<main, flush, unanswered, compacting, typed, arrived, handlers,
                   retries>>

(* The delay is cut short, and the failure treated like any other.         *)
EscapeRetry ==
    /\ Quiet /\ onEscape = "abortRetry" /\ sleeping
    /\ sleeping' = FALSE /\ attempt' = 0 /\ main' = Back
    /\ retryEscape' = "none"
    /\ \E kind \in {"none", "threshold"} :
           Check(kind, IF retryEscape = "none" THEN onEscape ELSE retryEscape)
    /\ UNCHANGED <<editor, flush, run, unanswered, typed, arrived, original, loading,
                   queues, timers>>

(* /compact and /new end what is going on, the delay before a retry too:   *)
(* auto_retry_end gives Escape back even if the command has it by now.     *)
Compact ==
    /\ Quiet /\ compacting = "none" /\ timers = 0 /\ (Hasty \/ ~sleeping)
    /\ compacting' = "manual" /\ loading' = FALSE
    /\ original' = onEscape /\ GiveBack("abortCompaction")
    /\ run' = "none" /\ main' = Back
    /\ unanswered' = (unanswered /\ run = "none")
    /\ sleeping' = FALSE /\ attempt' = IF sleeping THEN 0 ELSE attempt
    /\ UNCHANGED <<editor, flush, typed, arrived, autoEscape, queues, timers>>

NewSession ==
    /\ Quiet /\ compacting = "none" /\ timers = 0 /\ (Hasty \/ ~sleeping)
    /\ loading' = FALSE /\ GiveBack(onEscape)
    /\ run' = "none" /\ main' = Back /\ unanswered' = FALSE
    /\ sleeping' = FALSE /\ attempt' = IF sleeping THEN 0 ELSE attempt
    /\ Arrives(AllQueued) /\ queue' = << >> /\ steering' = << >> /\ followUp' = << >>
    /\ UNCHANGED <<editor, flush, compacting, typed, autoEscape, original, timers>>

(* /tree with a summary.                                                   *)
Summarize ==
    /\ Quiet /\ compacting = "none" /\ timers = 0
    /\ Hasty \/ (~sleeping /\ run = "none")
    /\ compacting' = "summary" /\ original' = onEscape /\ onEscape' = "abortSummary"
    /\ UNCHANGED <<editor, main, flush, run, unanswered, typed, arrived, retryEscape,
                   autoEscape, loading, queues, retries>>
-----------------------------------------------------------------------------
(* prompt(), of the main loop or of a flush: it may compact first, which   *)
(* the mode shows like any other automatic compaction.  The agent refuses  *)
(* a prompt while it runs: the text of the main loop is lost but for an    *)
(* error.                                                                  *)
MainCompacts ==
    /\ main.at = "sending" /\ run = "none" /\ compacting = "none"
    /\ main' = [main EXCEPT !.at = "compacting"] /\ Check("prompt", onEscape)
    /\ UNCHANGED <<editor, flush, run, unanswered, typed, arrived, retryEscape,
                   original, loading, queues, retries>>

MainSends ==
    /\ main.at \in {"sending", "sent"}
    /\ IF run = "none" THEN
           /\ Arrives(main.text) /\ AgentStart
           /\ main' = [at |-> "agent", text |-> << >>]
       ELSE main' = Input /\ UNCHANGED <<arrived, run, unanswered, handlers>>
    /\ UNCHANGED <<editor, flush, compacting, typed, queues, retries>>

FlushCompacts(i) ==
    /\ flush[i].at = "sending" /\ run = "none" /\ compacting = "none"
    /\ flush' = [flush EXCEPT ![i].at = "compacting"] /\ Check("prompt", onEscape)
    /\ UNCHANGED <<editor, main, run, unanswered, typed, arrived, retryEscape,
                   original, loading, queues, retries>>

(* The promise of a flush: refused, it clears the agent's queues and puts  *)
(* everything back, over what has been queued since (restoreQueue).        *)
FlushSends(i) ==
    /\ flush[i].at \in {"sending", "sent"} /\ flush' = RemoveAt(flush, i)
    /\ IF run = "none" THEN Arrives(flush[i].text) /\ AgentStart /\ UNCHANGED queues
       ELSE /\ queue' = flush[i].all /\ steering' = << >> /\ followUp' = << >>
            /\ UNCHANGED <<arrived, run, unanswered, handlers>>
    /\ UNCHANGED <<editor, main, compacting, typed, retries>>
-----------------------------------------------------------------------------
(* The run: what is steered goes first, follow-ups when it would end.      *)
Deliver ==
    /\ run = "streaming"
    /\ IF steering # << >> THEN
           Arrives(Head(steering)) /\ steering' = Tail(steering) /\ UNCHANGED followUp
       ELSE /\ followUp # << >> /\ Arrives(Head(followUp))
            /\ followUp' = Tail(followUp) /\ UNCHANGED steering
    /\ UNCHANGED <<editor, main, flush, run, unanswered, compacting, typed, handlers,
                   queue, retries>>

(* A good message after failures: prompt() returns while the run goes on.  *)
Recover ==
    /\ run = "streaming" /\ attempt > 0 /\ attempt' = 0
    /\ main' = IF main.at = "retry" THEN Input ELSE main
    /\ UNCHANGED <<editor, flush, run, unanswered, compacting, typed, arrived, handlers,
                   queues, sleeping, timers>>

Ends == /\ Quiet /\ run # "none" /\ compacting = "none" /\ timers = 0
        /\ run' = "none" /\ loading' = FALSE
        /\ UNCHANGED <<editor, flush, typed, arrived, original, queues, timers>>

FromAgent == IF main.at = "agent" THEN Input ELSE main

EndAnswered ==
    /\ Ends /\ run = "streaming" /\ attempt = 0 /\ steering = << >> /\ followUp = << >>
    /\ unanswered' = FALSE /\ main' = FromAgent
    /\ \E kind \in {"none", "threshold"} : Check(kind, onEscape)
    /\ UNCHANGED <<retryEscape, attempt, sleeping>>

EndAborted ==
    /\ Ends /\ run = "aborting"
    /\ unanswered' = FALSE /\ main' = Back /\ attempt' = 0
    /\ UNCHANGED <<onEscape, retryEscape, autoEscape, compacting, sleeping>>

(* An error that no retry helps; a caller that waits for one waits on.     *)
EndFailed ==
    /\ Ends /\ run = "streaming" /\ main' = FromAgent
    /\ \E kind \in {"none", "threshold", "overflow"} :
           Check(kind, onEscape) /\ unanswered' = (kind = "overflow")
    /\ UNCHANGED <<retryEscape, attempt, sleeping>>

(* _handleRetryableError.                                                  *)
EndRetryable ==
    /\ Ends /\ run = "streaming"
    /\ IF attempt < MaxRetries THEN
           /\ attempt' = attempt + 1 /\ sleeping' = TRUE /\ unanswered' = TRUE
           /\ main' = IF main.at = "agent" THEN [Input EXCEPT !.at = "retry"] ELSE main
           /\ retryEscape' = onEscape /\ onEscape' = "abortRetry"
           /\ UNCHANGED <<autoEscape, compacting>>
       ELSE /\ attempt' = 0 /\ unanswered' = FALSE /\ main' = Back
            /\ \E kind \in {"none", "threshold"} :
                   Check(kind, IF retryEscape = "none" THEN onEscape ELSE retryEscape)
            /\ retryEscape' = "none" /\ UNCHANGED sleeping

Wake ==
    /\ Quiet /\ sleeping /\ sleeping' = FALSE /\ timers' = timers + 1
    /\ UNCHANGED <<editor, main, flush, run, unanswered, compacting, typed, arrived,
                   handlers, queues, attempt>>

(* agent.continue(): the conversation as it stands, or what is queued.     *)
Continue ==
    /\ Quiet /\ timers > 0 /\ timers' = timers - 1
    /\ IF run # "none" \/ (~unanswered /\ steering = << >> /\ followUp = << >>) THEN
           UNCHANGED <<run, unanswered, arrived, handlers, steering, followUp>>
       ELSE /\ AgentStart
            /\ IF unanswered THEN UNCHANGED <<arrived, steering, followUp>>
               ELSE IF steering # << >> THEN
                   /\ Arrives(Head(steering)) /\ steering' = Tail(steering)
                   /\ UNCHANGED followUp
               ELSE /\ Arrives(Head(followUp)) /\ followUp' = Tail(followUp)
                    /\ UNCHANGED steering
    /\ UNCHANGED <<editor, main, flush, compacting, typed, queue, attempt, sleeping>>
-----------------------------------------------------------------------------
(* The prompts that waited for the compaction go on.                       *)
Resumed == [i \in DOMAIN flush |-> IF flush[i].at = "compacting"
                                   THEN [flush[i] EXCEPT !.at = "sent"] ELSE flush[i]]

(* The prompt of a flush; its own check finds nothing newer than a         *)
(* compaction that was done.                                               *)
FirstQueued(done) == [at |-> IF done THEN "sent" ELSE "sending",
                      text |-> Head(queue).text, all |-> queue]

FlushAll(done, willRetry) ==  \* mutant: the first is sent, and queued like the others
    IF queue = << >> THEN UNCHANGED queues /\ flush' = Resumed
    ELSE LET Of(mode) == SelectSeq(queue, LAMBDA m : m.mode = mode)
         IN /\ queue' = << >>
            /\ steering' = steering \o [i \in DOMAIN Of("steer") |-> Of("steer")[i].text]
            /\ followUp' =
                   followUp \o [i \in DOMAIN Of("followUp") |-> Of("followUp")[i].text]
            /\ flush' = IF willRetry THEN Resumed ELSE Append(Resumed, FirstQueued(done))

(* flushCompactionQueue: for a run that is to be repeated, all goes to the *)
(* agent's queues; otherwise the first is a prompt.                        *)
Flush(done, willRetry) ==
    IF queue = << >> THEN UNCHANGED queues /\ flush' = Resumed
    ELSE LET sent == IF willRetry THEN queue ELSE Tail(queue)
             Of(mode) == SelectSeq(sent, LAMBDA m : m.mode = mode)
         IN /\ queue' = << >>
            /\ steering' = steering \o [i \in DOMAIN Of("steer") |-> Of("steer")[i].text]
            /\ followUp' =
                   followUp \o [i \in DOMAIN Of("followUp") |-> Of("followUp")[i].text]
            /\ flush' = IF willRetry THEN Resumed ELSE Append(Resumed, FirstQueued(done))

(* The end of _runAutoCompaction: a repeated run, or one for what waits.   *)
AutoEnds(done) ==
    /\ Quiet /\ compacting \in Auto
    /\ compacting' = "none" /\ autoEscape' = "none"
    /\ onEscape' = IF autoEscape = "none" THEN onEscape ELSE autoEscape
    /\ Flush(done, done /\ compacting = "overflow")
    /\ timers' = IF done /\ (compacting = "overflow" \/ steering' # << >> \/ followUp' # << >>)
                 THEN timers + 1 ELSE timers
    /\ main' = IF main.at = "compacting" THEN [main EXCEPT !.at = "sent"] ELSE main
    /\ UNCHANGED <<editor, run, unanswered, typed, arrived, retryEscape, original,
                   loading, attempt, sleeping>>

ManualEnds(done) ==
    /\ Quiet /\ compacting = "manual" /\ compacting' = "none"
    /\ onEscape' = original /\ original' = "none" /\ Flush(done, FALSE)
    /\ UNCHANGED <<editor, main, run, unanswered, typed, arrived, retryEscape,
                   autoEscape, loading, retries>>

(* Nothing is flushed here; the transcript may end anywhere.               *)
SummaryEnds ==
    /\ Quiet /\ compacting = "summary" /\ compacting' = "none"
    /\ onEscape' = original /\ original' = "none" /\ unanswered' \in BOOLEAN
    /\ UNCHANGED <<editor, main, flush, run, typed, arrived, retryEscape, autoEscape,
                   loading, queues, retries>>
-----------------------------------------------------------------------------
User == \/ Type \/ Dequeue \/ EscapeRun \/ EscapeRetry \/ Compact \/ NewSession
        \/ Summarize \/ \E mode \in {"steer", "followUp"} : Submit(mode)

Program == \/ MainCompacts \/ MainSends \/ Deliver \/ Recover
           \/ \E i \in DOMAIN flush : FlushCompacts(i) \/ FlushSends(i)
           \/ EndAnswered \/ EndAborted \/ EndFailed \/ EndRetryable \/ Wake
           \/ Continue \/ SummaryEnds
           \/ \E done \in BOOLEAN : AutoEnds(done) \/ ManualEnds(done)

Next == User \/ Program

Spec == Init /\ [][Next]_vars
-----------------------------------------------------------------------------
Held == editor \o AllQueued \o main.text \o FlattenSeq([i \in DOMAIN flush |-> flush[i].text])

(* "Submit messages while the agent is working" (README.md): each message  *)
(* that was typed is in the editor, in a queue or on its way to the agent, *)
(* or it got there.                                                        *)
NothingTypedIsLost == \A id \in 1..typed : arrived[id] + Occurs(id, Held) > 0

(* None is in two of these places, or gets there twice.                    *)
NothingSentTwice == \A id \in 1..typed : arrived[id] + Occurs(id, Held) < 2

(* "Messages submitted during compaction are queued and delivered after    *)
(* compaction completes" (CHANGELOG.md): they leave the mode's queue, and  *)
(* do not come back.  It is not so of those submitted while a prompt()     *)
(* compacts (Hasty): of that prompt and the one of the flush, one is       *)
(* refused.                                                                *)
QueueIsSent == compacting = "none" => queue = << >>

(* "(esc to cancel)", as each of these is shown: Escape ends what is going *)
(* on, and belongs to the editor when nothing is.                          *)
EscapeCancels ==
    /\ compacting \in Auto \cup {"manual"} => onEscape = "abortCompaction"
    /\ compacting = "summary" => onEscape = "abortSummary"
    /\ compacting = "none" /\ timers = 0 =>
          onEscape = IF sleeping THEN "abortRetry" ELSE "main"
    /\ compacting = "none" /\ run = "streaming" => loading
=============================================================================
