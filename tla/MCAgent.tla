------------------------------ MODULE MCAgent ------------------------------
(* Small instances of Agent: a few user messages and tool turns.           *)
EXTENDS Agent, TLC

CONSTANTS MaxMessages,   \* bound on the user messages of a behaviour
          MaxTranscript, \* bound on the length of the transcript
          MaxToolTurns,  \* bound on the tool calls of a transcript
          ModesFixed,    \* the queue modes stay what they were at first
          MaxWaiters     \* bound on the promises waited for

ToolTurns(s) == Cardinality({i \in DOMAIN s : s[i].kind = "toolUse"})

MCNext == /\ Next
          /\ nextId' <= MaxMessages + 1
          /\ Len(messages') <= MaxTranscript
          /\ ToolTurns(messages') <= MaxToolTurns
          /\ Cardinality(waiters') <= MaxWaiters
          /\ ModesFixed => UNCHANGED modes

(* The runs are interchangeable.                                           *)
RunSymmetry == Permutations(Runs)

MCInit == /\ Init
          /\ ModesFixed => steeringMode = "one-at-a-time" /\ followUpMode = "all"

MCSpec == MCInit /\ [][MCNext]_vars /\ Fairness
=============================================================================
