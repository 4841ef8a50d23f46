------------------------------- MODULE Editor -------------------------------
(***************************************************************************)
(* The prompt editor (packages/tui/src/components/editor.ts with           *)
(* kill-ring.ts and undo-stack.ts): typing and large pastes, kills and     *)
(* yanks, undo, the history of prompts, submission.  The text is one       *)
(* sequence, lines separated by Newline, so a line and a column are one    *)
(* position.  A large paste is a marker in the text and its content in     *)
(* pastes; both name the paste by a number that is never used again, which *)
(* the program does not have: it tells markers apart by id only.           *)
(* Not modelled: wrapping (moving goes anywhere), completion menus, and    *)
(* editing inside a marker whose id is no longer in pastes.                *)
(***************************************************************************)
EXTENDS Integers, Sequences, SequencesExt

CONSTANTS Word,       \* characters of words
          MaxLen,     \* bound on the length of the text
          MaxUndo,    \* bound on the undo stack
          MaxKills,   \* bound on the entries of the kill ring
          MaxPastes   \* bound on large pastes

Space == <<"space">>
Newline == <<"newline">>
Char == {<<"char", w>> : w \in Word} \cup {Space}

VARIABLES
  text, cursor,        \* state: the text, and how much of it is before the cursor
  undoStack,           \* snapshots of both
  killRing,            \* what was killed, the latest last
  lastAction,          \* "kill", "yank", "type-word" or "none"
  history,             \* submitted prompts, the latest first
  historyIndex,        \* 0 when not browsing (-1 in the program)
  pastes,              \* pastes: the paste each id stands for, or None
  pasteCounter,        \* the last id given to a paste
  pasted,              \* large pastes so far
  killedBefore         \* markers in the kill ring from before a submission

vars == <<text, cursor, undoStack, killRing, lastAction, history, historyIndex,
          pastes, pasteCounter, pasted, killedBefore>>

None == 0
Marker(id, paste) == <<"paste", id, paste>>
Content(paste) == <<"content", paste>>
IsMarker(c) == c[1] = "paste"

(* The cursor is in the text, whichever snapshot it comes from.            *)
TypeOK ==
    /\ cursor \in 0..Len(text)
    /\ lastAction \in {"kill", "yank", "type-word", "none"}
    /\ historyIndex \in 0..Len(history)
    /\ pasteCounter \in 0..MaxPastes /\ pastes \in [1..MaxPastes -> 0..MaxPastes]
    /\ \A i \in DOMAIN undoStack : undoStack[i].cursor \in 0..Len(undoStack[i].text)
    /\ \A i \in DOMAIN killRing : killRing[i] # << >>

Init ==
    /\ text = << >> /\ cursor = 0 /\ undoStack = << >> /\ killRing = << >>
    /\ lastAction = "none" /\ history = << >> /\ historyIndex = 0
    /\ pastes = [id \in 1..MaxPastes |-> None] /\ pasteCounter = 0 /\ pasted = 0
    /\ killedBefore = {}
-----------------------------------------------------------------------------
Before(t, i) == SubSeq(t, 1, i)
After(t, i) == SubSeq(t, i + 1, Len(t))
Cut(t, i, j) == Before(t, i) \o After(t, j)
Insert(t, i, s) == Before(t, i) \o s \o After(t, i)

LineStart == CHOOSE i \in 0..cursor :
    /\ i = 0 \/ text[i] = Newline
    /\ \A j \in i + 1..cursor : text[j] # Newline
LineEnd == CHOOSE i \in cursor..Len(text) :
    /\ i = Len(text) \/ text[i + 1] = Newline
    /\ \A j \in cursor + 1..i : text[j] # Newline

(* Where a word starts before the cursor, or ends after it, on its line:   *)
(* past the blanks, then a paste or a run of characters.                   *)
OneWord(s) == \E n \in 0..Len(s) :
    /\ \A k \in 1..n : s[k] = Space
    /\ \/ n = Len(s)
       \/ n + 1 = Len(s)
       \/ \A k \in n + 1..Len(s) : s[k] # Space /\ ~IsMarker(s[k])
WordStart == CHOOSE i \in LineStart..cursor :
    /\ OneWord(Reverse(SubSeq(text, i + 1, cursor)))
    /\ \A j \in LineStart..i - 1 : ~OneWord(Reverse(SubSeq(text, j + 1, cursor)))
WordEnd == CHOOSE i \in cursor..LineEnd :
    /\ OneWord(SubSeq(text, cursor + 1, i))
    /\ \A j \in i + 1..LineEnd : ~OneWord(SubSeq(text, cursor + 1, j))

(* pushUndoSnapshot.                                                       *)
Snapshot == /\ Len(undoStack) < MaxUndo
            /\ undoStack' = Append(undoStack, [text |-> text, cursor |-> cursor])

Put(t, i) == Len(t) <= MaxLen /\ text' = t /\ cursor' = i

(* An edit that leaves history browsing and is one step of undo.           *)
Edit(t, i, action) ==
    /\ Snapshot /\ Put(t, i) /\ lastAction' = action /\ historyIndex' = 0
    /\ UNCHANGED history
-----------------------------------------------------------------------------
(* insertCharacter: words coalesce into one step of undo, a blank starts   *)
(* one.                                                                    *)
Type(c) ==
    /\ IF c = Space \/ lastAction # "type-word" THEN Snapshot ELSE UNCHANGED undoStack
    /\ Put(Insert(text, cursor, <<c>>), cursor + 1)
    /\ lastAction' = "type-word" /\ historyIndex' = 0
    /\ UNCHANGED <<killRing, history, pastes, pasteCounter, pasted, killedBefore>>

(* addNewLine, insertTextAtCursor and a small paste.                       *)
InsertText(s) ==
    /\ Edit(Insert(text, cursor, s), cursor + Len(s), "none")
    /\ UNCHANGED <<killRing, pastes, pasteCounter, pasted, killedBefore>>

(* handlePaste, of more than ten lines or a thousand characters.           *)
PasteLarge ==
    LET id == pasteCounter + 1 IN
    /\ pasted < MaxPastes
    /\ pasted' = pasted + 1 /\ pasteCounter' = id
    /\ pastes' = [pastes EXCEPT ![id] = pasted + 1]
    /\ Edit(Insert(text, cursor, <<Marker(id, pasted + 1)>>), cursor + 1, "none")
    /\ UNCHANGED <<killRing, killedBefore>>

(* handleBackspace and handleForwardDelete; at the ends nothing but the    *)
(* last action changes.                                                    *)
Delete(i, j) ==
    /\ IF 0 <= i /\ j <= Len(text)
       THEN Edit(Cut(text, i, j), i, "none")
       ELSE /\ lastAction' = "none" /\ historyIndex' = 0
            /\ UNCHANGED <<text, cursor, undoStack, history>>
    /\ UNCHANGED <<killRing, pastes, pasteCounter, pasted, killedBefore>>

Pushed(s, prepend) ==
    IF lastAction = "kill" /\ killRing # << >>
    THEN Append(Front(killRing), IF prepend THEN s \o Last(killRing) ELSE Last(killRing) \o s)
    ELSE Append(killRing, s)

(* Kills of the text from i to j, before the cursor (prepend) or after it. *)
Kill(i, j, prepend) ==
    LET killed == SubSeq(text, i + 1, j) IN
    /\ IF 0 <= i /\ i < j /\ j <= Len(text)
       THEN /\ Edit(Cut(text, i, j), i, "kill")
            /\ killRing' = Pushed(killed, prepend) /\ Len(killRing') <= MaxKills
       ELSE /\ historyIndex' = 0
            /\ UNCHANGED <<text, cursor, undoStack, killRing, lastAction, history>>
    /\ UNCHANGED <<pastes, pasteCounter, pasted, killedBefore>>

(* At the edge of a line a kill takes the line break.                      *)
DeleteToStartOfLine == Kill(IF cursor > LineStart THEN LineStart ELSE cursor - 1, cursor, TRUE)
DeleteToEndOfLine == Kill(cursor, IF cursor < LineEnd THEN LineEnd ELSE cursor + 1, FALSE)
DeleteWordBackwards == Kill(IF cursor > LineStart THEN WordStart ELSE cursor - 1, cursor, TRUE)
DeleteWordForward == Kill(cursor, IF cursor < LineEnd THEN WordEnd ELSE cursor + 1, FALSE)

Yank ==
    /\ killRing # << >>
    /\ Edit(Insert(text, cursor, Last(killRing)), cursor + Len(Last(killRing)), "yank")
    /\ UNCHANGED <<killRing, pastes, pasteCounter, pasted, killedBefore>>

(* yankPop: takes as many characters as the last kill has for what yank    *)
(* inserted, and inserts the one before.                                   *)
YankPop ==
    LET from == cursor - Len(Last(killRing))
        rotated == <<Last(killRing)>> \o Front(killRing)
    IN /\ lastAction = "yank" /\ Len(killRing) > 1
       /\ killRing' = rotated
       /\ Edit(Insert(Cut(text, from, cursor), from, Last(rotated)), from + Len(Last(rotated)), "yank")
       /\ UNCHANGED <<pastes, pasteCounter, pasted, killedBefore>>

Undo ==
    /\ historyIndex' = 0
    /\ IF undoStack = << >>
       THEN UNCHANGED <<text, cursor, undoStack, lastAction>>
       ELSE /\ text' = Last(undoStack).text /\ cursor' = Last(undoStack).cursor
            /\ undoStack' = Front(undoStack) /\ lastAction' = "none"
    /\ UNCHANGED <<killRing, history, pastes, pasteCounter, pasted, killedBefore>>

(* A plausible bug: yanking or typing goes on where the cursor moved.      *)
MoveAndGoOn(i) ==
    /\ cursor' = i
    /\ UNCHANGED <<text, undoStack, killRing, lastAction, history, historyIndex, pastes,
                   pasteCounter, pasted, killedBefore>>

(* The movements of the cursor, taken together.                            *)
Move(i) ==
    /\ cursor' = i /\ lastAction' = "none"
    /\ UNCHANGED <<text, undoStack, killRing, history, historyIndex, pastes, pasteCounter,
                   pasted, killedBefore>>

(* navigateHistory, from an empty editor or the edge of a recalled prompt. *)
NavigateHistory(d) ==
    LET i == historyIndex + d IN
    /\ (text = << >> /\ d = 1) \/ historyIndex > 0
    /\ lastAction' = "none"
    /\ IF history = << >> \/ i \notin 0..Len(history)
       THEN UNCHANGED <<text, cursor, undoStack, historyIndex>>
       ELSE /\ IF historyIndex = 0 THEN Snapshot ELSE UNCHANGED undoStack
            /\ historyIndex' = i
            /\ text' = (IF i = 0 THEN << >> ELSE history[i]) /\ cursor' = Len(text')
    /\ UNCHANGED <<killRing, history, pastes, pasteCounter, pasted, killedBefore>>

(* setText, by the application.                                            *)
SetText(t) ==
    /\ IF t # text THEN Snapshot ELSE UNCHANGED undoStack
    /\ text' = t /\ cursor' = Len(t) /\ lastAction' = "none" /\ historyIndex' = 0
    /\ UNCHANGED <<killRing, history, pastes, pasteCounter, pasted, killedBefore>>

(* expandPasteMarkers, by id; and what is submitted, without the blanks    *)
(* around it.                                                              *)
Expand(t) == [i \in DOMAIN t |->
    IF IsMarker(t[i]) /\ t[i][2] \in 1..MaxPastes /\ pastes[t[i][2]] # None
    THEN Content(pastes[t[i][2]]) ELSE t[i]]
Blank(c) == c \in {Space, Newline}
Trimmed(t) ==
    IF \A i \in DOMAIN t : Blank(t[i]) THEN << >>
    ELSE SubSeq(t, SelectInSeq(t, LAMBDA c : ~Blank(c)), SelectLastInSeq(t, LAMBDA c : ~Blank(c)))

(* addToHistory, which the application calls for what it accepts.          *)
Remembered(t) ==
    IF t = << >> \/ (history # << >> /\ history[1] = t) THEN history ELSE <<t>> \o history

Markers(s) == {s[i] : i \in {k \in DOMAIN s : IsMarker(s[k])}}

(* A plausible bug: a submission can be undone.                            *)
SubmitKeepsUndo(accepted) ==
    /\ text' = << >> /\ cursor' = 0 /\ lastAction' = "none" /\ historyIndex' = 0
    /\ pastes' = [id \in DOMAIN pastes |-> None] /\ pasteCounter' = 0
    /\ killedBefore' = UNION {Markers(killRing[i]) : i \in DOMAIN killRing}
    /\ UNCHANGED <<undoStack, killRing, history, pasted>>

(* submitValue.                                                            *)
Submit(accepted) ==
    /\ history' = IF accepted THEN Remembered(Trimmed(Expand(text))) ELSE history
    /\ Len(history') <= 1
    /\ text' = << >> /\ cursor' = 0 /\ undoStack' = << >> /\ lastAction' = "none"
    /\ historyIndex' = 0
    /\ pastes' = [id \in DOMAIN pastes |-> None] /\ pasteCounter' = 0
    /\ killedBefore' = UNION {Markers(killRing[i]) : i \in DOMAIN killRing}
    /\ UNCHANGED <<killRing, pasted>>

Next ==
    \/ \E c \in Char : Type(c)
    \/ \E s \in {<<Newline>>} \cup {<<c>> : c \in Char} : InsertText(s)
    \/ PasteLarge
    \/ Delete(cursor - 1, cursor) \/ Delete(cursor, cursor + 1)
    \/ DeleteToStartOfLine \/ DeleteToEndOfLine
    \/ DeleteWordBackwards \/ DeleteWordForward
    \/ Yank \/ YankPop
    \/ Undo
    \/ \E i \in 0..Len(text) : Move(i)
    \/ \E d \in {-1, 1} : NavigateHistory(d)
    \/ SetText(<< >>)
    \/ \E accepted \in BOOLEAN : Submit(accepted)

Spec == Init /\ [][Next]_vars
-----------------------------------------------------------------------------
(* After a yank the cursor stands right behind what the kill ring says was *)
(* yanked: what yankPop takes away is that and nothing the user wrote,     *)
(* whatever lines it spans and however often the ring was turned.          *)
YankedIsBeforeCursor ==
    lastAction = "yank" =>
        /\ Len(Last(killRing)) <= cursor
        /\ SubSeq(text, cursor - Len(Last(killRing)) + 1, cursor) = Last(killRing)

(* While a word is typed, one undo takes exactly the word and the blank    *)
(* before it: the text is the last snapshot with a run of characters put   *)
(* in at its cursor, no blank but the first.                               *)
TypedIsUndone ==
    lastAction = "type-word" =>
        /\ undoStack # << >>
        /\ LET s == Last(undoStack) IN
               /\ s.cursor < cursor
               /\ Cut(text, s.cursor, cursor) = s.text
               /\ \A i \in s.cursor + 2..cursor : text[i][1] = "char"

(* A marker in the text, or in a text that undo brings back, stands for    *)
(* what was pasted when it was made.                                       *)
MarkersExpand ==
    \A t \in {text} \cup {undoStack[i].text : i \in DOMAIN undoStack} :
        \A c \in Markers(t) : pastes[c[2]] = c[3]

(* The same when no kill from before a submission is yanked.               *)
OwnMarkersExpand ==
    \A t \in {text} \cup {undoStack[i].text : i \in DOMAIN undoStack} :
        \A c \in Markers(t) \ killedBefore : pastes[c[2]] = c[3]
=============================================================================
