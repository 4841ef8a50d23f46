----------------------------- MODULE Compaction -----------------------------
(***************************************************************************)
(* Repeated compaction of a conversation (packages/coding-agent/src/core/  *)
(* compaction/compaction.ts): the branch from the root to the leaf grows,  *)
(* and from time to time a compaction entry is put on it, with a summary   *)
(* of what goes and the first entry that stays.  An entry is named by its  *)
(* place on the branch.  What a summary says is abstracted to the entries  *)
(* it was made from, directly or through the summary before it.            *)
(***************************************************************************)
EXTENDS Naturals, Sequences, FiniteSets, FiniteSetsExt

CONSTANTS KeepRecentTokens,
          Sizes,             \* token estimates of messages
          MaxLength          \* bound on the branch

VARIABLES path,     \* pathEntries
          covered   \* history: the entries the latest summary accounts for

vars == <<path, covered>>

(* custom: a custom message or a branch summary, which the LLM sees.       *)
(* note: an entry it does not see.  ref: the assistant message a tool      *)
(* result answers, or the first entry a compaction keeps.                  *)
MessageKind == {"user", "bash", "assistant", "toolUse", "toolResult"}
Kind == MessageKind \cup {"custom", "note", "compaction"}
Entry == [kind : Kind, size : Sizes \cup {0}, ref : Nat]

IsMessage(i) == path[i].kind \in MessageKind
Seen(i) == IsMessage(i) \/ path[i].kind = "custom"
SeenIn(from, to) == {i \in from..to : Seen(i)}

(* getLatestCompactionEntry, as prepareCompaction has it: 0 if there is none. *)
Compactions == {i \in DOMAIN path : path[i].kind = "compaction"}
LastCompaction == Max(Compactions \cup {0})

Init == path = << >> /\ covered = {}
-----------------------------------------------------------------------------
CutAnywhere(start) == SeenIn(start, Len(path))  \* mutant: tool results are cut points

(* findValidCutPoints.                                                     *)
CutPoints(start) == {i \in SeenIn(start, Len(path)) : path[i].kind # "toolResult"}

(* findCutPoint: walking backwards, the message that uses up the budget;   *)
(* the first cut point from there; the entries just before that no message *)
(* separates from it.                                                      *)
Tokens(from) ==
    MapThenSumSet(LAMBDA i : path[i].size, {i \in from..Len(path) : IsMessage(i)})

CutIndex(start) ==
    LET cuts == CutPoints(start)
        over == {i \in start..Len(path) : IsMessage(i) /\ Tokens(i) >= KeepRecentTokens}
        after == {c \in cuts : over # {} /\ c >= Max(over)}
    IN  IF cuts = {} THEN start ELSE Min(IF after = {} THEN cuts ELSE after)

FirstKept(start) ==
    LET cut == CutIndex(start)
    IN  Min({i \in start..cut : \A j \in i..(cut - 1) : ~IsMessage(j)})

(* findTurnStartIndex: 0 if there is none.                                 *)
TurnStart(start, index) ==
    Max({i \in start..index : path[i].kind \in {"user", "bash", "custom"}} \cup {0})

IsSplitTurn(start) ==
    path[FirstKept(start)].kind # "user" /\ TurnStart(start, FirstKept(start)) # 0

HistoryEndInclusive(start) ==  \* mutant: off by one
    IF IsSplitTurn(start) THEN TurnStart(start, FirstKept(start)) ELSE FirstKept(start) + 1

HistoryEnd(start) ==
    IF IsSplitTurn(start) THEN TurnStart(start, FirstKept(start)) ELSE FirstKept(start)
MessagesToSummarize(start) == SeenIn(start, HistoryEnd(start) - 1)

PrefixForgotten(start) == {}  \* mutant: the prefix of a split turn is dropped
TurnPrefixMessages(start) == SeenIn(HistoryEnd(start), FirstKept(start) - 1)

(* compact: the summary before is built upon only when there is history.   *)
Summarized(start) ==
    MessagesToSummarize(start) \cup TurnPrefixMessages(start)
      \cup (IF TurnPrefixMessages(start) # {} /\ MessagesToSummarize(start) = {}
            THEN {} ELSE covered)

CompactFromRoot ==  \* mutant: the last compaction is not looked for
    /\ path # << >>
    /\ path[Len(path)].kind # "compaction"
    /\ path' = Append(path, [kind |-> "compaction", size |-> 0, ref |-> FirstKept(1)])
    /\ covered' = Summarized(1)

Compact ==
    /\ path # << >>
    /\ path[Len(path)].kind # "compaction"
    /\ LET start == LastCompaction + 1
       IN  /\ path' = Append(path, [kind |-> "compaction", size |-> 0,
                                    ref |-> FirstKept(start)])
           /\ covered' = Summarized(start)
-----------------------------------------------------------------------------
(* How the agent session grows the branch.  Tool results follow the        *)
(* assistant message that asked for them, with nothing the LLM sees in     *)
(* between.                                                                *)
Grow(kind, size, ref) ==
    /\ path' = Append(path, [kind |-> kind, size |-> size, ref |-> ref])
    /\ UNCHANGED covered

LastSeen == Max(SeenIn(1, Len(path)) \cup {0})

AppendMessage ==
    \E kind \in MessageKind \ {"toolResult"}, size \in Sizes : Grow(kind, size, 0)

AppendToolResult ==
    /\ LastSeen > LastCompaction
    /\ path[LastSeen].kind \in {"toolUse", "toolResult"}
    /\ \E size \in Sizes :
           Grow("toolResult", size,
                Max({i \in DOMAIN path : path[i].kind = "toolUse"}))

AppendCustomMessage == Grow("custom", 0, 0)
AppendNote == Grow("note", 0, 0)

Next == /\ Len(path) < MaxLength
        /\ \/ AppendMessage
           \/ AppendToolResult
           \/ AppendCustomMessage
           \/ AppendNote
           \/ Compact

Spec == Init /\ [][Next]_vars
-----------------------------------------------------------------------------
TypeOK == /\ path \in Seq(Entry)
          /\ \A i \in DOMAIN path : path[i].ref < i
          /\ covered \subseteq DOMAIN path

(* buildSessionContext, of the session manager: besides the last summary,  *)
(* the LLM sees these entries.                                             *)
Context ==
    IF LastCompaction = 0 THEN SeenIn(1, Len(path))
    ELSE SeenIn(path[LastCompaction].ref, Len(path))

(* "Never cut at tool results (they must follow their tool call)": a       *)
(* result the LLM sees comes with the call it answers.                     *)
ResultsFollowCalls ==
    \A i \in Context : path[i].kind = "toolResult" => path[i].ref \in Context

(* What was said since the compaction before the last one is in front of   *)
(* the LLM or went into its summary.                                       *)
NothingRecentForgotten ==
    SeenIn(Max((Compactions \ {LastCompaction}) \cup {0}) + 1, Len(path))
        \subseteq Context \cup covered

(* The LLM is not told twice: what it sees is not in the summary as well.  *)
NothingTwice == covered \cap Context = {}

(* A compaction keeps a tail of the context, and never brings back what an *)
(* earlier one had taken away.                                             *)
KeepsTail == Compact => \E i \in 1..Len(path) : Context' = {j \in Context : j >= i}
ContextIsTail == [][KeepsTail]_vars

(* "Compaction summarizes older messages while keeping recent ones"        *)
(* (README.md): every message is kept or accounted for in the summary.     *)
NothingForgotten == SeenIn(1, Len(path)) \subseteq Context \cup covered
=============================================================================
