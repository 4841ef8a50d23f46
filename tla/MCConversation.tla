--------------------------- MODULE MCConversation ---------------------------
(* Small instances of the parts that decide what a conversation is: a few  *)
(* entries in a few session files; a branch that is compacted from time to *)
(* time; a tree and the ways through it; and what of a transcript a        *)
(* provider is sent.  A behaviour is about one of them (part).             *)
EXTENDS SessionManager, FiniteSets

CONSTANTS MaxEntries,  \* bound on the ids given to entries
          MaxLines,    \* bound on the length of a file
          KeepRecentTokens, Sizes,
          MaxLength    \* bound on the branch

VARIABLES part, path, covered,
          entries, leaf, shown, controller, going, editorText,
          transcript, model, running

K == INSTANCE Compaction

Nav == INSTANCE Branches WITH
    Kind <- {"user", "assistant"}, MaxEntries <- 5, Budget <- 3, Hasty <- FALSE,
    messages <- shown

Sent == INSTANCE TransformMessages WITH
    Model <- {"claude", "gpt"}, MaxMessages <- 7, MaxCalls <- 2,
    messages <- transcript

branch == <<path, covered>>
tree == <<entries, leaf, shown, controller, going, editorText>>
sent == <<transcript, model, running>>
all == <<part, vars, branch, tree, sent>>

MCInit == /\ part \in {"session", "compaction", "tree", "request"}
          /\ Init
          /\ part # "session" => torn = {}
          /\ K!Init /\ Nav!Init /\ Sent!Init
          /\ part # "request" => model = "claude"

SessionNext == /\ part = "session"
               /\ Next
               /\ nextId' <= MaxEntries + 1
               /\ \A f \in DOMAIN disk' : Len(disk'[f]) <= MaxLines
               /\ UNCHANGED <<part, branch, tree, sent>>

(* A branch begins with what the user says, or with an entry the LLM does  *)
(* not see.                                                                *)
CompactionNext == /\ part = "compaction"
                  /\ K!Next
                  /\ path' # << >> => path'[1].kind \in {"user", "note"}
                  /\ UNCHANGED <<part, vars, tree, sent>>

TreeNext == /\ part = "tree"
            /\ Nav!Next
            /\ UNCHANGED <<part, vars, branch, sent>>

RequestNext == /\ part = "request"
               /\ Sent!Next
               /\ UNCHANGED <<part, vars, branch, tree>>

MCNext == SessionNext \/ CompactionNext \/ TreeNext \/ RequestNext

MCSpec == MCInit /\ [][MCNext]_all

FileSymmetry == Permutations(Files)
-----------------------------------------------------------------------------
(* prepareCompaction: a tool result comes with its call; what was said     *)
(* since the compaction before last is kept or summarised, and never both; *)
(* the context only shrinks to a tail.                                     *)
CompactionKeeps ==
    K!ResultsFollowCalls /\ K!NothingRecentForgotten /\ K!NothingTwice
KeepsTail == part = "compaction" => K!KeepsTail
ContextIsTail == [][KeepsTail]_all

(* navigateTree: with a summary nothing is lost on the way or told beside  *)
(* what is shown, and the agent goes on with what a reload would give.     *)
NavigationKeeps ==
    [][part = "tree" => /\ Nav!LeftIsTold /\ Nav!NothingToldTwice
                        /\ Nav!TranscriptIsContext']_all

(* transformMessages: whatever became of the transcript, a request is one  *)
(* the provider takes, and holds all that was said.                        *)
RequestIsWhole == part = "request" => Sent!RequestIsAccepted /\ Sent!NothingLeftOut

(* The fields keep their types: labels, above all, name entries that are   *)
(* there, and what a compaction kept is on its branch.                     *)
TypesOK == CASE part = "session"    -> TypeOK
             [] part = "compaction" -> K!TypeOK
             [] part = "tree"       -> Nav!TypeOK
             [] part = "request"    -> Sent!TypeOK
=============================================================================
