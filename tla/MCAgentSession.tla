--------------------------- MODULE MCAgentSession ---------------------------
(* Small instances of AgentSession.                                        *)
EXTENDS AgentSession, TLC

CONSTANTS Kinds,        \* the kinds of answers there are
          MaxHistory,   \* bound on the messages and compactions
          MaxFiles,     \* bound on the sessions
          MaxEvents,    \* bound on the event queue
          MaxQueued,    \* bound on the steering messages that wait
          MaxCompacts   \* bound on the calls of compact()

VARIABLES compacts,  \* how often compact() was called
          hurried    \* compact() or newSession() did not wait for all to settle

(* A call of prompt() waits for its key while compact() or newSession() is *)
(* in progress.                                                            *)
Unhurried ==
    \A p \in Caller : prompts[p] = "key" /\ prompts'[p] \in {"ready", "compacting"} =>
        ~switching /\ compacting["manual"] = NoCompaction

Settled == /\ run = "idle"
           /\ events = << >>
           /\ timers = 0
           /\ \A k \in Compactor : compacting[k] = NoCompaction
           /\ \A p \in Caller : prompts[p] \in {"idle", "retry"}

(* What is kept begins with the last message there is.                     *)
KeepsLast(k) ==
    compacting[k].step = "key" /\ compacting'[k].step = "summary" =>
        \A i \in DOMAIN files[file] :
            files[file][i].kind \in Assistant \cup {"user"}
                => files[file][i].id <= compacting'[k].kept

MCNext == /\ Next
          /\ LET compact == /\ compacting["manual"].step = "none"
                            /\ compacting'["manual"].step = "waiting"
             IN /\ compacts' = IF compact THEN compacts + 1 ELSE compacts
                /\ hurried' = (\/ hurried
                               \/ /\ ~Settled
                                  /\ compact \/ (switching' /\ ~switching))
          /\ \A i \in DOMAIN history' : history'[i] \in Assistant => history'[i] \in Kinds
          /\ Len(history') <= MaxHistory
          /\ Len(files') <= MaxFiles
          /\ Len(events') <= MaxEvents
          /\ queued' <= MaxQueued
          /\ compacts' <= MaxCompacts
          /\ Patient => Unhurried
          /\ \A k \in Compactor : KeepsLast(k)

MCInit == Init /\ compacts = 0 /\ hurried = FALSE

MCSpec == MCInit /\ [][MCNext]_<<vars, compacts, hurried>> /\ Fairness

(* When everything has settled, resuming the session from its file shows   *)
(* the model what the transcript in memory does, failed answers aside:     *)
(* through retries, compactions, steering and aborts, if compact() and     *)
(* newSession() were called on a settled session.                          *)
ReloadAgrees ==
    LET Kept(s) == SelectSeq(s, LAMBDA m : m.kind \notin Errors \cup {"stopped"})
    IN Settled /\ connected /\ ~hurried => Kept(messages) = Kept(Context(files[file]))
=============================================================================
