------------------------------ MODULE FileTools ------------------------------
(***************************************************************************)
(* The tools that change a file: edit (packages/coding-agent/src/core/     *)
(* tools/edit.ts, edit-diff.ts) and write (write.ts).  A call reads, waits *)
(* and writes; it may be aborted at any await, and the tools of one        *)
(* message run beside each other.  A text is a sequence of characters; the *)
(* fuzzy match is that of quotes and of spaces at the end of a line.       *)
(***************************************************************************)
EXTENDS Integers, Sequences, SequencesExt

CONSTANTS Content,  \* what may be in the file
          Old, New, \* arguments of a call
          Alone     \* nobody else changes the file during a call

VARIABLES file,     \* the text, or None if there is no file
          tool, old, new,
          step,     \* where the call is
          raw,      \* rawContent
          aborted, told,
          before,   \* history: the file when the call began
          late      \* history: the abort or failure came during the write

vars == <<file, tool, old, new, step, raw, aborted, told, before, late>>

None == <<"no file">>
CR == "cr"
LF == "lf"
BOM == "bom"

TypeOK ==
    /\ tool \in {"none", "edit", "write"}
    /\ file = None \/ \A i \in DOMAIN file : file[i] # "no file"
    /\ step \in {"idle", "access", "read", "write", "over"}
    /\ {aborted, late} \subseteq BOOLEAN
    /\ told \in {"nothing", "ok", "error", "aborted"}

Init == /\ file \in Content \cup {None} /\ tool = "none" /\ old = << >> /\ new = << >>
        /\ step = "idle" /\ raw = << >> /\ aborted = FALSE /\ told = "nothing"
        /\ before = file /\ late = FALSE
-----------------------------------------------------------------------------
(* Line endings and the byte order mark.                                   *)
Kept(s, at) ==
    LET order == SelectSeq([i \in DOMAIN s |-> i], LAMBDA i : i \in at)
    IN [k \in DOMAIN order |-> s[order[k]]]

Mapped(s, from, to) == [i \in DOMAIN s |-> IF s[i] = from THEN to ELSE s[i]]

normalizeToLF(s) ==
    Mapped(Kept(s, {i \in DOMAIN s : ~(s[i] = CR /\ i < Len(s) /\ s[i + 1] = LF)}), CR, LF)

UsesCRLF(s) ==
    \E i \in DOMAIN s : /\ s[i] = LF /\ i > 1 /\ s[i - 1] = CR
                        /\ \A j \in 1..(i - 1) : s[j] # LF

RestoredNot(s, crlf) == s  \* mutant: the line endings of the file are not restored

Restored(s, crlf) ==
    IF crlf THEN FlattenSeq([i \in DOMAIN s |-> IF s[i] = LF THEN <<CR, LF>> ELSE <<s[i]>>])
    ELSE s

Bom(s) == IF s # << >> /\ s[1] = BOM THEN <<BOM>> ELSE << >>
Text(s) == IF Bom(s) = << >> THEN s ELSE Tail(s)

(* normalizeForFuzzyMatch: spaces at the end of a line go, quotes are      *)
(* straight.                                                               *)
Fuzzy(s) ==
    LET trailing(i) == /\ s[i] = "space"
                       /\ \A j \in i..Len(s) : \/ s[j] = "space"
                                               \/ \E k \in i..j : s[k] = LF
    IN Mapped(Kept(s, {i \in DOMAIN s : ~trailing(i)}), "curly", "quote")

(* Where o stands in s, and how often split() would find it.               *)
Hits(s, o) == {i \in 1..(Len(s) - Len(o) + 1) : SubSeq(s, i, i + Len(o) - 1) = o}
Least(S) == CHOOSE i \in S : \A j \in S : i <= j

Count(s, o) ==
    LET from[i \in 1..(Len(s) + 1)] ==
            LET ahead == {h \in Hits(s, o) : h >= i}
            IN IF ahead = {} THEN 0 ELSE 1 + from[Least(ahead) + Len(o)]
    IN IF o = << >> THEN Len(s) - 1 ELSE from[1]

OccurrencesExact(s, o) == Count(s, o)  \* mutant: counted in the text as it is

Occurrences(s, o) == Count(Fuzzy(s), Fuzzy(o))

(* fuzzyFindText: the text that is changed, and what is looked for in it.  *)
Searched(s, o) == IF Hits(s, o) # {} THEN s ELSE Fuzzy(s)
Sought(s, o) == IF Hits(s, o) # {} THEN o ELSE Fuzzy(o)

(* What edit makes of a text, or None if it refuses: not found, found more *)
(* than once, or no change.                                                *)
Edited(content, o, n) ==
    LET text == normalizeToLF(Text(content))
        base == Searched(text, normalizeToLF(o))
        sought == Sought(text, normalizeToLF(o))
        at == Least(Hits(base, sought))
        edited == SubSeq(base, 1, at - 1) \o normalizeToLF(n)
                     \o SubSeq(base, at + Len(sought), Len(base))
    IN IF \/ Hits(base, sought) = {}
          \/ Occurrences(text, normalizeToLF(o)) > 1
          \/ base = edited
       THEN None ELSE Bom(content) \o Restored(edited, UsesCRLF(Text(content)))
-----------------------------------------------------------------------------
Begin ==
    /\ step = "idle" /\ step' = "access" /\ tool' \in {"edit", "write"}
    /\ old' \in (IF tool' = "edit" THEN Old ELSE {<< >>}) /\ new' \in New
    /\ UNCHANGED <<file, raw, aborted, told, before, late>>

End(answer) == step' = "over" /\ told' = IF aborted THEN told ELSE answer

(* edit: the file is there, or not...                                      *)
Access ==
    /\ step = "access" /\ tool = "edit"
    /\ IF file = None THEN End("error") ELSE
       IF aborted THEN step' = "over" /\ UNCHANGED told
       ELSE step' = "read" /\ UNCHANGED told
    /\ UNCHANGED <<file, tool, old, new, raw, aborted, before, late>>

ReadOn ==  \* mutant: the abort is not looked at before the file is written
    /\ step = "read" /\ raw' = file
    /\ IF file = None \/ Edited(file, old, new) = None
       THEN End("error") ELSE step' = "write" /\ UNCHANGED told
    /\ UNCHANGED <<file, tool, old, new, aborted, before, late>>

(* ... it is read, and what is to be written is made of it at once.        *)
Read ==
    /\ step = "read" /\ raw' = file
    /\ IF aborted THEN step' = "over" /\ UNCHANGED told ELSE
       IF file = None \/ Edited(file, old, new) = None
       THEN End("error") ELSE step' = "write" /\ UNCHANGED told
    /\ UNCHANGED <<file, tool, old, new, aborted, before, late>>

(* write: the directory has been made.                                     *)
MakeDirectory ==
    /\ step = "access" /\ tool = "write"
    /\ step' = IF aborted THEN "over" ELSE "write"
    /\ UNCHANGED <<file, tool, old, new, raw, aborted, told, before, late>>

Write ==
    /\ step = "write" /\ End("ok")
    /\ file' = IF tool = "edit" THEN Edited(raw, old, new) ELSE new
    /\ UNCHANGED <<tool, old, new, raw, aborted, before, late>>

(* Any of the operations on files may fail; a write that fails may have    *)
(* emptied the file.                                                       *)
Fail ==
    /\ step \in {"access", "read", "write"} /\ End("error")
    /\ file' \in {file} \cup (IF step = "write" THEN {<< >>} ELSE {})
    /\ late' = (late \/ step = "write")
    /\ UNCHANGED <<tool, old, new, raw, aborted, before>>

(* onAbort: the answer is given at once, while the call goes on.           *)
Abort ==
    /\ step \in {"access", "read", "write"} /\ ~aborted
    /\ aborted' = TRUE /\ told' = "aborted" /\ late' = (step = "write")
    /\ UNCHANGED <<file, tool, old, new, step, raw, before>>

(* The user, or another call.                                              *)
Change ==
    /\ step = "idle" \/ (~Alone /\ step \in {"access", "read", "write"})
    /\ file' \in Content /\ before' = IF step = "idle" THEN file' ELSE before
    /\ UNCHANGED <<tool, old, new, step, raw, aborted, told, late>>

Next == Begin \/ Access \/ Read \/ MakeDirectory \/ Write \/ Fail \/ Abort \/ Change

Spec == Init /\ [][Next]_vars
-----------------------------------------------------------------------------
(* What was answered with an error or aborted changed nothing, unless it   *)
(* was writing already.                                                    *)
FailuresKeepFile ==
    step = "over" /\ told \in {"error", "aborted"} /\ ~late => file = before

OneEnding(s) ==
    \/ \A i \in DOMAIN s : s[i] # CR
    \/ \A i \in DOMAIN s : /\ s[i] = CR => i < Len(s) /\ s[i + 1] = LF
                           /\ s[i] = LF => i > 1 /\ s[i - 1] = CR

(* "Precise, surgical edits": in a file with one kind of line endings, an  *)
(* edit whose text is there as it was given replaces that text, with the   *)
(* endings of the file, and leaves every other byte as it was.             *)
EditIsSurgical ==
    told = "ok" /\ tool = "edit" /\ OneEnding(before)
    /\ Hits(normalizeToLF(Text(before)), normalizeToLF(old)) # {} =>
        \E i \in 0..Len(before), j \in 0..Len(before) :
           /\ i <= j
           /\ normalizeToLF(SubSeq(before, i + 1, j)) = normalizeToLF(old)
           /\ file = SubSeq(before, 1, i) \o Restored(normalizeToLF(new), UsesCRLF(Text(before)))
                        \o SubSeq(before, j + 1, Len(before))

(* "The text must be unique": no edit picks one of two places that do not  *)
(* overlap, not even if they look alike only.                              *)
EditIsUnique ==
    told = "ok" /\ tool = "edit" /\ Fuzzy(normalizeToLF(old)) # << >> =>
        LET o == Fuzzy(normalizeToLF(old))
            places == Hits(Fuzzy(normalizeToLF(Text(before))), o)
        IN ~\E i, j \in places : i + Len(o) <= j
=============================================================================
