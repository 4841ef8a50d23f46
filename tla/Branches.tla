------------------------------ MODULE Branches ------------------------------
(***************************************************************************)
(* Going to another place of the session tree with or without a summary of *)
(* what is left (AgentSession.navigateTree in packages/coding-agent/src/   *)
(* core/agent-session.ts, and core/compaction/branch-summarization.ts).    *)
(*                                                                         *)
(* An entry is named by its place in the file.  What a summary says is     *)
(* abstracted to covers, the messages it was made from.  One navigation    *)
(* goes on at a time.                                                      *)
(***************************************************************************)
EXTENDS Integers, Sequences, FiniteSets, SequencesExt, FiniteSetsExt

CONSTANTS Kind,       \* of the entries that are said or noted, of those below
          MaxEntries, \* bound on the tree
          Budget,     \* tokens of a branch that fit the summary's request
          Hasty       \* whether entries come while a branch is summarised

Message == {"user", "assistant", "custom"}
Told == Message \cup {"compaction", "summary"}  \* what the LLM is shown

VARIABLES
  entries,     \* SessionManager.fileEntries
  leaf,        \* SessionManager.leafId, 0 for null
  messages,    \* agent.state.messages, as entries
  controller,  \* _branchSummaryAbortController is set
  going,       \* the navigation in progress
  editorText   \* the entry whose text navigateTree has just returned

vars == <<entries, leaf, messages, controller, going, editorText>>

Nowhere == [target |-> 0, summarize |-> FALSE, left |-> {}]

TypeOK ==
    /\ \A i \in DOMAIN entries :
           /\ entries[i].parent \in 0..(i - 1) /\ entries[i].kind \in Told \cup {"note"}
           /\ entries[i].covers \subseteq 1..(i - 1) /\ entries[i].kept \in 0..(i - 1)
    /\ leaf \in 0..Len(entries) /\ editorText \in 0..Len(entries)
    /\ Range(messages) \subseteq DOMAIN entries
    /\ controller \in BOOLEAN
    /\ going.target \in 0..Len(entries) /\ going.left \subseteq DOMAIN entries

Init == /\ entries = << >> /\ leaf = 0 /\ messages = << >>
        /\ controller = FALSE /\ going = Nowhere /\ editorText = 0
-----------------------------------------------------------------------------
InOrder(S) == SetToSortSeq(S, <)

(* getBranch: an entry and those above it.                                 *)
Branch(id) ==
    LET up[i \in 0..id] == IF i = 0 THEN {} ELSE {i} \cup up[entries[i].parent]
    IN up[id]

OfKind(S, kinds) == {i \in S : entries[i].kind \in kinds}

(* buildSessionContext: the last compaction, what it kept, what followed.  *)
Context(id) ==
    LET path == Branch(id)
        compactions == OfKind(path, {"compaction"})
        last == Max(compactions)
    IN IF compactions = {} THEN InOrder(OfKind(path, Told))
       ELSE <<last>> \o InOrder(OfKind({i \in path : i >= entries[last].kept /\ i # last},
                                       Told \ {"compaction"}))

Covered(S) == OfKind(S, Message) \cup UNION {entries[i].covers : i \in S}

(* collectEntriesForBranchSummary: from the old leaf up to where the two   *)
(* branches meet.                                                          *)
MeetAtRoot(target) ==  \* mutant: the highest common entry instead of the deepest
    IF Branch(leaf) \cap Branch(target) = {} THEN 0
    ELSE Min(Branch(leaf) \cap Branch(target))

Meet(target) == Max({0} \cup (Branch(leaf) \cap Branch(target)))

ToCompaction(target) ==  \* mutant: stops at a compaction, as docs/tree.md has it
    {i \in Branch(leaf) : i > Max(OfKind(Branch(leaf), {"compaction"}) \cup {Meet(target)})}

Left(target) == {i \in Branch(leaf) : i > Meet(target)}

(* prepareBranchEntries: the newest that fit, and a summary that is next   *)
(* when there is some room.                                                *)
Size(i) == IF entries[i].kind \in Message THEN 1 ELSE 2
SizeOf(S) == 2 * Cardinality(S) - Cardinality(OfKind(S, Message))
Newer(S, i) == {j \in S : j > i}
Prepared(left) ==
    LET said == OfKind(left, Told)
        Fits(i) == SizeOf(Newer(said, i)) + Size(i) <= Budget
        Squeezed(i) == entries[i].kind \notin Message /\ 10 * SizeOf(Newer(said, i)) < 9 * Budget
    IN {i \in said : /\ \A j \in Newer(said, i) : Fits(j)
                     /\ Fits(i) \/ Squeezed(i)}
-----------------------------------------------------------------------------
Entry(parent, kind, covers, kept) ==
    [parent |-> parent, kind |-> kind, covers |-> covers, kept |-> kept]

Add(entry) == /\ Len(entries) < MaxEntries
              /\ entries' = Append(entries, entry) /\ leaf' = Len(entries) + 1

Quiet == going = Nowhere

(* What is said, and entries the LLM does not see.                         *)
Say == /\ Quiet \/ Hasty
       /\ \E kind \in Kind :
              /\ Add(Entry(leaf, kind, {}, 0))
              /\ messages' = IF kind \in Message THEN Append(messages, Len(entries) + 1)
                             ELSE messages
       /\ editorText' = 0 /\ UNCHANGED <<controller, going>>

(* A compaction keeps the end of the branch; its summary tells what the    *)
(* last one told, and what was said between the two.                       *)
Compact ==
    /\ Quiet
    /\ LET last == Max(OfKind(Range(messages), {"compaction"}) \cup {0})
           since == {i \in Range(messages) : i > last}
           told == IF last = 0 THEN {} ELSE entries[last].covers
       IN \E kept \in OfKind(since, Message) :
              Add(Entry(leaf, "compaction",
                        told \cup Covered({i \in since : i < kept}), kept))
    /\ messages' = Context(leaf)'
    /\ editorText' = 0 /\ UNCHANGED <<controller, going>>

(* navigateTree up to its first await; with nothing left there is nothing  *)
(* to summarise.                                                           *)
Begin(target, summarize) ==
    /\ Quiet /\ target # leaf
    /\ controller' = TRUE
    /\ going' = [target |-> target, left |-> Left(target),
                 summarize |-> summarize /\ Left(target) # {}]
    /\ editorText' = 0 /\ UNCHANGED <<entries, leaf, messages>>

(* An extension says no, or there is no key for the summary.               *)
Refused == /\ ~Quiet /\ going' = Nowhere
           /\ editorText' = 0 /\ UNCHANGED <<entries, leaf, messages, controller>>

(* The summary is aborted, or fails.                                       *)
GivenUp == /\ ~Quiet /\ going.summarize
           /\ going' = Nowhere /\ controller' = FALSE
           /\ editorText' = 0 /\ UNCHANGED <<entries, leaf, messages>>

(* The rest of navigateTree.                                               *)
ToEditor == entries[going.target].kind \in {"user", "custom"}

NewLeaf == IF ToEditor THEN entries[going.target].parent ELSE going.target

Arrive ==
    /\ ~Quiet /\ going' = Nowhere /\ controller' = FALSE
    /\ IF going.summarize THEN
           Add(Entry(NewLeaf, "summary", Covered(Prepared(going.left)), 0))
       ELSE leaf' = NewLeaf /\ UNCHANGED entries
    /\ messages' = Context(leaf)'
    /\ editorText' = IF ToEditor THEN going.target ELSE 0

Next == \/ Say \/ Compact \/ Refused \/ GivenUp \/ Arrive
        \/ \E target \in DOMAIN entries, summarize \in BOOLEAN : Begin(target, summarize)

Spec == Init /\ [][Next]_vars
-----------------------------------------------------------------------------
Summarized == going # Nowhere /\ going' = Nowhere /\ Len(entries') > Len(entries)

(* "Path from old leaf back to common ancestor" (docs/tree.md): after a    *)
(* navigation with a summary the LLM is shown or told all that it was      *)
(* before, but what is in the editor now and what was older than the       *)
(* oldest message that fit the request.                                    *)
LeftIsTold ==
    Summarized =>
        \A i \in Covered(Range(messages)) :
            \/ i \in Covered(Range(messages))'
            \/ i = editorText'
            \/ /\ SizeOf(OfKind(going.left, Told)) > Budget
               /\ \A j \in Prepared(going.left) : i < j

(* Nothing is shown and told too, but for what an earlier summary, which   *)
(* is left now, had told already.                                          *)
NothingToldTwice ==
    Summarized /\ OfKind(going.left, {"compaction", "summary"}) = {} =>
        OfKind(Range(messages), Message)' \cap entries'[leaf'].covers = {}

(* What the agent goes on with is what a reload of the session would give. *)
TranscriptIsContext == messages = Context(leaf)

(* "Whether compaction or branch summarization is currently running"       *)
(* (agent-session.ts:738), which holds back what is typed: isCompacting    *)
(* says so only then.                                                      *)
CompactingMeansBusy == controller => going # Nowhere
=============================================================================
