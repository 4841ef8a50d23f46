--------------------------- MODULE SessionManager ---------------------------
(***************************************************************************)
(* SessionManager (packages/coding-agent/src/core/session-manager.ts): a   *)
(* conversation is a tree of entries, held in memory and appended to a     *)
(* file.  The file is created only with the first answer of the assistant, *)
(* when everything so far is written to it, line after line.  One process  *)
(* owns the session; it may die between any two lines, and another one     *)
(* opens what is on disk.                                                  *)
(***************************************************************************)
EXTENDS Naturals, Sequences, SequencesExt, TLC

CONSTANTS Files,       \* names of session files
          Plain        \* the plain entries that are appended

ASSUME PlainAssumption == Plain \subseteq {"user", "assistant", "custom"}

VARIABLES fileEntries,  \* the entries of the session, header first
          leafId,       \* where the next entry is attached, 0 for null
          labelsById,   \* the labelled entries, in the order of the map
          flushed,
          sessionFile,
          disk,         \* the lines of each file that exists
          up,           \* the process is alive
          nextId,       \* ids given to entries so far
          torn          \* history: files whose first flush was cut short, or
                        \* the copy they come from

memory == <<fileEntries, leafId, labelsById, flushed, sessionFile>>
vars == <<memory, disk, up, nextId, torn>>

(* custom stands for every entry the LLM never sees; unlabel is a label    *)
(* entry without a label.  ref: the labelled entry, the first kept entry   *)
(* of a compaction, the branch point of a summary.                         *)
LabelType == {"label", "unlabel"}
EntryType == {"user", "assistant", "custom", "compaction", "summary"} \cup LabelType
Entry == [type : EntryType \cup {"session"}, id : Nat, parent : Nat, ref : Nat]

Header == [type |-> "session", id |-> 0, parent |-> 0, ref |-> 0]
NewEntry(type, id, parent, ref) ==
    [type |-> type, id |-> id, parent |-> parent, ref |-> ref]

IsEntry(e) == e.type # "session"
IsLabel(e) == e.type \in LabelType
HasAssistant(es) == \E i \in DOMAIN es : es[i].type = "assistant"
Ids(es) == {es[i].id : i \in {j \in DOMAIN es : IsEntry(es[j])}}
Lookup(es, id) == es[CHOOSE i \in DOMAIN es : es[i].id = id]
Tree(es) == {es[i] : i \in {j \in DOMAIN es : IsEntry(es[j])}}

(* What of s is in S, in its order.                                        *)
Only(s, S) ==
    LET only[i \in 0..Len(s)] ==
            IF i = 0 THEN << >>
            ELSE IF s[i] \in S THEN Append(only[i - 1], s[i])
            ELSE only[i - 1]
    IN  only[Len(s)]
-----------------------------------------------------------------------------
(* loadEntriesFromFile and _buildIndex.                                    *)
Loaded(lines) == IF lines # << >> /\ ~IsEntry(Head(lines)) THEN lines ELSE << >>

LastEntryId(es) == LET entries == Only(es, Tree(es))
                   IN  IF entries = << >> THEN 0 ELSE Last(entries).id

Labelled(labels, id) ==
    IF \E i \in DOMAIN labels : labels[i] = id THEN labels ELSE Append(labels, id)
Unlabelled(labels, id) == Only(labels, ToSet(labels) \ {id})
Relabelled(labels, e) == CASE e.type = "label"   -> Labelled(labels, e.ref)
                           [] e.type = "unlabel" -> Unlabelled(labels, e.ref)
                           [] OTHER              -> labels
LabelsOf(es) ==
    LET labels[i \in 0..Len(es)] ==
            IF i = 0 THEN << >> ELSE Relabelled(labels[i - 1], es[i])
    IN  labels[Len(es)]

(* getBranch: from the root to an entry.                                   *)
Branch(es, leaf) ==
    LET to[id \in 0..leaf] ==
            IF id \in Ids(es)
            THEN LET e == Lookup(es, id) IN Append(to[e.parent], e)
            ELSE << >>
    IN  to[leaf]

(* buildSessionContext: the entries the LLM sees of a branch, a compaction *)
(* standing for its summary.                                               *)
Seen(e) == e.type \in {"user", "assistant", "summary"}
Shown(s) == Only(s, {e \in ToSet(s) : Seen(e)})
ContextOf(branch) ==
    LET compactions == {i \in DOMAIN branch : branch[i].type = "compaction"}
        last == CHOOSE i \in compactions : \A j \in compactions : j <= i
        kept == {i \in 1..(last - 1) :
                   \E j \in 1..i : branch[j].id = branch[last].ref}
        first == CHOOSE i \in kept : \A j \in kept : i <= j
    IN  IF compactions = {} THEN Shown(branch)
        ELSE << branch[last] >>
               \o Shown(SubSeq(branch, IF kept = {} THEN last ELSE first, last))
               \o Shown(SubSeq(branch, last + 1, Len(branch)))
Context(es, leaf) == ContextOf(Branch(es, leaf))
-----------------------------------------------------------------------------
Start(f) == /\ fileEntries' = << Header >>
            /\ leafId' = 0
            /\ labelsById' = << >>
            /\ sessionFile' = f

Adopt(es, f) == /\ fileEntries' = es
                /\ leafId' = LastEntryId(es)
                /\ labelsById' = LabelsOf(es)
                /\ sessionFile' = f

(* Some files may exist already, with nothing in them.                     *)
Init == /\ torn \in SUBSET Files
        /\ disk = [f \in torn |-> << >>]
        /\ fileEntries = << Header >>
        /\ leafId = 0
        /\ labelsById = << >>
        /\ flushed = FALSE
        /\ sessionFile \in Files \ torn
        /\ up = TRUE
        /\ nextId = 1

LinesFlushedOnce(es) ==  \* mutant: after a reload nothing needs to be written
    IF HasAssistant(es) /\ ~flushed THEN es ELSE << >>

LinesAlways(es) ==  \* mutant: the file does not wait for the first answer
    IF flushed THEN << Last(es) >> ELSE es

(* _persist: the lines to write once es has got its last entry.            *)
Lines(es) == IF ~HasAssistant(es) THEN << >>
             ELSE IF flushed THEN << Last(es) >> ELSE es

Stored(f) == IF f \in DOMAIN disk THEN disk[f] ELSE << >>
Saved(f, lines) == [g \in DOMAIN disk \cup {f} |-> IF g = f THEN lines ELSE disk[g]]
Written(f, lines) == IF lines = << >> THEN disk ELSE Saved(f, Stored(f) \o lines)

(* _appendEntry: the new entry becomes the leaf and is persisted.          *)
AppendEntry(type, parent, ref) ==
    LET e == NewEntry(type, nextId, parent, ref)
        es == Append(fileEntries, e)
    IN  /\ up
        /\ fileEntries' = es
        /\ leafId' = e.id
        /\ nextId' = nextId + 1
        /\ disk' = Written(sessionFile, Lines(es))
        /\ flushed' = HasAssistant(es)
        /\ UNCHANGED <<sessionFile, up, torn>>

(* appendMessage, appendCustomEntry and the other plain entries.           *)
AppendPlain(type) ==
    /\ AppendEntry(type, leafId, 0)
    /\ UNCHANGED labelsById

(* appendCompaction, as its callers use it: what is kept begins on the     *)
(* branch, after its last compaction.                                      *)
AppendCompaction(kept) ==
    /\ \E i \in DOMAIN Branch(fileEntries, leafId) :
           /\ Branch(fileEntries, leafId)[i].id = kept
           /\ \A j \in i..Len(Branch(fileEntries, leafId)) :
                  Branch(fileEntries, leafId)[j].type # "compaction"
    /\ AppendEntry("compaction", leafId, kept)
    /\ UNCHANGED labelsById

AppendLabelChange(target, type) ==
    /\ target \in Ids(fileEntries)
    /\ AppendEntry(type, leafId, target)
    /\ labelsById' = IF type = "label" THEN Labelled(labelsById, target)
                     ELSE Unlabelled(labelsById, target)

(* branch and resetLeaf: only the leaf moves.                              *)
MoveLeaf(id) ==
    /\ up
    /\ id \in Ids(fileEntries) \cup {0}
    /\ leafId' = id
    /\ UNCHANGED <<fileEntries, labelsById, flushed, sessionFile, disk, up, nextId, torn>>

BranchWithSummary(from) ==
    /\ from \in Ids(fileEntries) \cup {0}
    /\ AppendEntry("summary", from, from)
    /\ UNCHANGED labelsById

(* The process dies when only some of the lines of an append are written,  *)
(* and what it had in memory is gone.                                      *)
CrashAppending(type) ==
    LET lines == Lines(Append(fileEntries, NewEntry(type, nextId, leafId, 0)))
    IN  /\ up
        /\ \E n \in 0..Len(lines) :
               /\ disk' = Written(sessionFile, SubSeq(lines, 1, n))
               /\ torn' = IF n \in 1..(Len(lines) - 1) THEN torn \cup {sessionFile} ELSE torn
        /\ up' = FALSE
        /\ nextId' = nextId + 1
        /\ Start(sessionFile)
        /\ flushed' = FALSE

(* createBranchedSession: the label entries of a branch are replaced by    *)
(* new ones, chained after its last entry, for its labels.                 *)
WithoutLabels(branch) == Only(branch, {e \in Tree(branch) : ~IsLabel(e)})
LabelsOnAll(branch) == labelsById  \* mutant: those of other branches come along

LabelsOn(branch) == Only(labelsById, Ids(WithoutLabels(branch)))

LabelsRewrittenNone(branch) == << >>  \* mutant: the labels are only filtered out

LabelsUnattached(branch) ==  \* mutant: the first one has no parent
    LET labels == LabelsOn(branch)
    IN  [i \in DOMAIN labels |->
           NewEntry("label", nextId + i - 1, IF i = 1 THEN 0 ELSE nextId + i - 2, labels[i])]

LabelsRewritten(branch) ==
    LET labels == LabelsOn(branch)
    IN  [i \in DOMAIN labels |->
           NewEntry("label", nextId + i - 1,
                    IF i = 1 THEN LastEntryId(WithoutLabels(branch)) ELSE nextId + i - 2,
                    labels[i])]

ForkInPlace(leaf, f) ==  \* mutant: the session's own file is rewritten
    LET branch == Branch(fileEntries, leaf)
        es == << Header >> \o WithoutLabels(branch) \o LabelsRewritten(branch)
    IN  /\ up
        /\ leaf \in Ids(fileEntries)
        /\ Adopt(es, sessionFile)
        /\ nextId' = nextId + Len(LabelsRewritten(branch))
        /\ disk' = IF HasAssistant(es) THEN Saved(sessionFile, es) ELSE disk
        /\ flushed' = HasAssistant(es)
        /\ UNCHANGED <<up, torn>>

ForkWritesAtOnce(leaf, f) ==  \* mutant: the file does not wait for an answer
    LET branch == Branch(fileEntries, leaf)
        es == << Header >> \o WithoutLabels(branch) \o LabelsRewritten(branch)
    IN  /\ up
        /\ leaf \in Ids(fileEntries)
        /\ Adopt(es, f)
        /\ nextId' = nextId + Len(LabelsRewritten(branch))
        /\ disk' = Saved(f, es)
        /\ flushed' = TRUE
        /\ UNCHANGED <<up, torn>>

CreateBranchedSession(leaf, f) ==
    LET branch == Branch(fileEntries, leaf)
        es == << Header >> \o WithoutLabels(branch) \o LabelsRewritten(branch)
    IN  /\ up
        /\ leaf \in Ids(fileEntries)
        /\ Adopt(es, f)
        /\ nextId' = nextId + Len(LabelsRewritten(branch))
        /\ disk' = IF HasAssistant(es) THEN Saved(f, es) ELSE disk
        /\ flushed' = HasAssistant(es)
        /\ UNCHANGED <<up, torn>>

NewSession(f) ==
    /\ Start(f)
    /\ flushed' = FALSE
    /\ up' = TRUE
    /\ UNCHANGED <<disk, nextId, torn>>

(* setSessionFile: to resume a session, in this process or in a new one.   *)
(* A file that is missing is created later, one without a header now.      *)
Open(f) ==
    /\ \/ /\ f \notin DOMAIN disk
          /\ Start(f)
          /\ flushed' = FALSE
          /\ UNCHANGED disk
       \/ /\ f \in DOMAIN disk
          /\ Loaded(disk[f]) # << >>
          /\ Adopt(Loaded(disk[f]), f)
          /\ flushed' = TRUE
          /\ UNCHANGED disk
       \/ /\ f \in DOMAIN disk
          /\ Loaded(disk[f]) = << >>
          /\ Start(f)
          /\ flushed' = TRUE
          /\ disk' = Saved(f, << Header >>)
    /\ up' = TRUE
    /\ UNCHANGED <<nextId, torn>>

(* forkFrom: a session file is copied under a new header, and opened.      *)
CopyOf(es) == << Header >> \o Only(es, Tree(es))

ForkFrom(source, f) ==
    /\ source \in DOMAIN disk
    /\ Loaded(disk[source]) # << >>
    /\ LET es == CopyOf(Loaded(disk[source]))
       IN  /\ disk' = Saved(f, es)
           /\ Adopt(es, f)
    /\ torn' = IF source \in torn THEN torn \cup {f} ELSE torn
    /\ flushed' = TRUE
    /\ up' = TRUE
    /\ UNCHANGED nextId

(* The copy is written line after line too: the process dies when only     *)
(* some of the lines are there.                                            *)
CrashForking(source, f) ==
    /\ source \in DOMAIN disk
    /\ Loaded(disk[source]) # << >>
    /\ LET es == CopyOf(Loaded(disk[source]))
       IN  \E n \in 1..Len(es) :
               /\ disk' = Saved(f, SubSeq(es, 1, n))
               /\ torn' = IF n < Len(es) \/ source \in torn THEN torn \cup {f} ELSE torn
    /\ up' = FALSE
    /\ Start(sessionFile)
    /\ flushed' = FALSE
    /\ UNCHANGED nextId
-----------------------------------------------------------------------------
(* New files get names no file has.                                        *)
Fresh == Files \ (DOMAIN disk \cup {sessionFile})

Next == \/ \E type \in Plain :
               AppendPlain(type) \/ CrashAppending(type)
        \/ \E id \in Ids(fileEntries) : AppendCompaction(id)
        \/ \E id \in Ids(fileEntries), type \in LabelType : AppendLabelChange(id, type)
        \/ \E id \in Ids(fileEntries) \cup {0} : MoveLeaf(id) \/ BranchWithSummary(id)
        \/ \E id \in Ids(fileEntries), f \in Fresh : CreateBranchedSession(id, f)
        \/ \E f \in Fresh : NewSession(f)
        \/ \E f \in Files : Open(f)
        \/ \E source \in Files, f \in Fresh :
               ForkFrom(source, f) \/ CrashForking(source, f)

Spec == Init /\ [][Next]_vars
-----------------------------------------------------------------------------
TypeOK ==
    /\ fileEntries \in Seq(Entry)
    /\ leafId \in Ids(fileEntries) \cup {0}
    /\ labelsById \in Seq(Ids(fileEntries))
    /\ flushed \in BOOLEAN
    /\ sessionFile \in Files
    /\ DOMAIN disk \subseteq Files
    /\ \A f \in DOMAIN disk : disk[f] \in Seq(Entry)
    /\ up \in BOOLEAN
    /\ nextId \in Nat \ {0}
    /\ torn \subseteq Files

(* Once the assistant has answered, whoever opened the file now would      *)
(* rebuild the same tree and the same labels, whatever the history of the  *)
(* file: crashes in the middle of writing, empty files, forks.             *)
Durable ==
    up /\ HasAssistant(fileEntries) =>
        /\ sessionFile \in DOMAIN disk
        /\ Tree(Loaded(disk[sessionFile])) = Tree(fileEntries)
        /\ ToSet(LabelsOf(Loaded(disk[sessionFile]))) = ToSet(labelsById)

(* "exactly one header and no duplicate IDs"                               *)
(* (test/session-manager/tree-traversal.test.ts), in every file whose      *)
(* first flush or copy was not cut short.                                  *)
OneHeader ==
    \A f \in DOMAIN disk \ torn : \A i, j \in DOMAIN disk[f] :
        i # j => disk[f][i].id # disk[f][j].id

(* No file for a conversation the assistant never answered.                *)
FileNeedsAnswer == \A f \in DOMAIN disk \ torn : HasAssistant(disk[f])

(* Every session file has one header and waits for the first answer, but   *)
(* those whose first flush or copy was cut short.                          *)
FilesAreWhole == OneHeader /\ FileNeedsAnswer

Grows == \A f \in DOMAIN disk : f \in DOMAIN disk' /\ IsPrefix(disk[f], disk'[f])

(* What a session file holds is never altered: forks and new sessions      *)
(* leave the files of other sessions alone, and a session's own file only  *)
(* grows.                                                                  *)
AppendOnly == [][Grows]_vars

Forked(leaf) == sessionFile' # sessionFile /\ CreateBranchedSession(leaf, sessionFile')

(* "Create a new session file containing only the path from root to the    *)
(* specified leaf": the forked session goes on with the context of that    *)
(* leaf.                                                                   *)
ForkKeepsPath ==
    [][\A leaf \in Ids(fileEntries) : Forked(leaf) =>
           Context(fileEntries', leafId') = Context(fileEntries, leaf)]_vars

(* ... which the code achieves when nothing was said on top of a label.    *)
NothingOnLabels(branch) ==
    \A i \in DOMAIN branch : i < Len(branch) /\ IsLabel(branch[i]) => IsLabel(branch[i + 1])
KeepsContext(leaf) ==
    NothingOnLabels(Branch(fileEntries, leaf)) =>
        Context(fileEntries', leafId') = Context(fileEntries, leaf)

(* The entries of a forked session keep the labels they had.               *)
KeepsLabels(leaf) ==
    ToSet(labelsById') =
        ToSet(labelsById) \cap Ids(WithoutLabels(Branch(fileEntries, leaf)))

ForkKeeps ==
    \A leaf \in Ids(fileEntries) : Forked(leaf) => KeepsContext(leaf) /\ KeepsLabels(leaf)

(* createBranchedSession: a fork goes on with the context of the branch it *)
(* was made from, and with its labels.                                     *)
ForkKeepsAll == [][ForkKeeps]_vars
=============================================================================
