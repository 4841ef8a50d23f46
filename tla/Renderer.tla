------------------------------ MODULE Renderer ------------------------------
(***************************************************************************)
(* The differential rendering of the terminal UI (packages/tui/src/tui.ts, *)
(* TUI.doRender), with the terminal it writes to.  The renderer does not   *)
(* see the screen: it keeps the lines it wrote last, the row its cursor    *)
(* was left in and the largest number of lines ever written, moves the     *)
(* cursor by differences of rows and writes the lines that have changed.   *)
(*                                                                         *)
(* Rows count from 0, as in the code.  A line is a model value: width,     *)
(* styles and images are left out.                                         *)
(***************************************************************************)
EXTENDS Integers, Sequences, SequencesExt, FiniteSetsExt

CONSTANTS Line,      \* the lines components render
          Blank,     \* an empty line
          Overlaid,  \* a line an overlay covers
          Heights,   \* the heights a terminal may have
          MaxLines   \* bound: lines of content

VARIABLES
  screen,              \* the terminal: a line for every row in sight
  cursor,              \* the row its cursor is in
  previousLines, hardwareCursorRow, maxLinesRendered, previousViewportTop,
  previousHeight,      \* fields of TUI, previousWidth with previousHeight
  clearOnShrink,
  stopped,
  shown                \* history: the screen has been rendered as it is now

term == <<screen, cursor>>
fields == <<previousLines, hardwareCursorRow, maxLinesRendered, previousViewportTop,
            previousHeight>>
vars == <<screen, cursor, previousLines, hardwareCursorRow, maxLinesRendered,
          previousViewportTop, previousHeight, clearOnShrink, stopped, shown>>

Height == Cardinality(DOMAIN screen)
Larger(a, b) == IF a > b THEN a ELSE b
Smaller(a, b) == IF a < b THEN a ELSE b

Never == 0     \* previousHeight before the first render
Forced == -1   \* and after requestRender(true)
NoRow == -1

EmptyScreen(h) == [r \in 0 .. h - 1 |-> Blank]

(* A program starts with the cursor below what the shell has left.         *)
Init ==
    /\ \E h \in Heights : screen = EmptyScreen(h) /\ cursor \in 0 .. h - 1
    /\ previousLines = << >>
    /\ hardwareCursorRow = 0
    /\ maxLinesRendered = 0
    /\ previousViewportTop = 0
    /\ previousHeight = Never
    /\ clearOnShrink \in BOOLEAN
    /\ stopped = FALSE
    /\ shown = FALSE
-----------------------------------------------------------------------------
(* What the terminal does.  A move stops at the first and the last row, a  *)
(* line feed in the last row scrolls.                                      *)
Terminal == [screen |-> screen, cursor |-> cursor]
LastRow == Height - 1

Move(t, n) == [t EXCEPT !.cursor = Larger(0, Smaller(LastRow, @ + n))]

LineFeed(t) ==
    IF t.cursor < LastRow THEN [t EXCEPT !.cursor = @ + 1]
    ELSE [t EXCEPT !.screen = [r \in 0 .. LastRow |->
                                 IF r < LastRow THEN t.screen[r + 1] ELSE Blank]]

LineFeeds(t, n) == FoldLeft(LAMBDA u, i : LineFeed(u), t, [i \in 1 .. n |-> i])

Put(t, line) == [t EXCEPT !.screen[t.cursor] = line]

(* Lines written from the row of the cursor on, a line feed between two.   *)
PutLines(t, lines) ==
    IF lines = << >> THEN t
    ELSE FoldLeft(LAMBDA u, line : Put(LineFeed(u), line), Put(t, Head(lines)), Tail(lines))

Wiped == [screen |-> EmptyScreen(Height), cursor |-> 0]
-----------------------------------------------------------------------------
(* compositeOverlays: an overlay covers a row of the viewport; the content *)
(* is padded to all that was ever rendered.                                *)
Composite(content, overlay) ==
    IF overlay = NoRow THEN content
    ELSE LET working == Larger(maxLinesRendered, Larger(Len(content), overlay + 1))
             covered == Larger(0, working - Height) + overlay + 1
         IN [i \in 1 .. working |-> CASE i = covered -> Overlaid
                                      [] i # covered /\ i <= Len(content) -> content[i]
                                      [] OTHER -> Blank]

(* positionHardwareCursor: from the row the cursor is thought to be in.    *)
Position(t, from, row, total) ==
    IF row = NoRow \/ total = 0 THEN [term |-> t, row |-> from]
    ELSE LET target == Larger(0, Smaller(row, total - 1))
         IN [term |-> Move(t, target - from), row |-> target]

(* A plausible bug: the row is kept that the cursor had before.            *)
FinishUnplaced(t, at, lines, row, max) ==
    LET placed == Position(t, at, row, Len(lines))
    IN /\ screen' = placed.term.screen
       /\ cursor' = placed.term.cursor
       /\ hardwareCursorRow' = at
       /\ maxLinesRendered' = max
       /\ previousViewportTop' = Larger(0, max - Height)
       /\ previousLines' = lines
       /\ previousHeight' = Height
       /\ shown' = TRUE
       /\ UNCHANGED <<clearOnShrink, stopped>>

(* What every strategy ends with: the terminal is t, its cursor in the row *)
(* `at', before it is moved to where the component with focus wants it.    *)
Finish(t, at, lines, row, max) ==
    LET placed == Position(t, at, row, Len(lines))
    IN /\ screen' = placed.term.screen
       /\ cursor' = placed.term.cursor
       /\ hardwareCursorRow' = placed.row
       /\ maxLinesRendered' = max
       /\ previousViewportTop' = Larger(0, max - Height)
       /\ previousLines' = lines
       /\ previousHeight' = Height
       /\ shown' = TRUE
       /\ UNCHANGED <<clearOnShrink, stopped>>

FullRender(clear, lines, row) ==
    Finish(PutLines(IF clear THEN Wiped ELSE Terminal, lines),
           Larger(0, Len(lines) - 1), lines, row,
           IF clear THEN Len(lines) ELSE Larger(maxLinesRendered, Len(lines)))

(* The rows whose line is not what it was; a row that has no line differs  *)
(* from one that has an empty line.                                        *)
Changed(lines) ==
    {i \in 0 .. Larger(Len(lines), Len(previousLines)) - 1 :
        \/ i >= Len(lines) \/ i >= Len(previousLines)
        \/ lines[i + 1] # previousLines[i + 1]}

Resized == previousHeight # Never /\ previousHeight # Height
Shrunk(lines, overlay) == clearOnShrink /\ Len(lines) < maxLinesRendered /\ overlay = NoRow

(* Nothing has changed: only the cursor is placed.                         *)
RenderNothing(lines, row) == Finish(Terminal, hardwareCursorRow, lines, row, maxLinesRendered)

(* Lines were taken away at the end and nothing else has changed: they are *)
(* cleared one by one.                                                     *)
ClearDeleted(lines, row) ==
    LET viewportTop == Larger(0, maxLinesRendered - Height)
        target == Larger(0, Len(lines) - 1)
        extra == Len(previousLines) - Len(lines)
        there == Move(Terminal, (target - viewportTop) - (hardwareCursorRow - previousViewportTop))
        cleared == FoldLeft(LAMBDA u, i : Put(Move(u, 1), Blank), there, [i \in 1 .. extra |-> i])
    IN Finish(Move(cleared, -extra), target, lines, row, maxLinesRendered)

(* The lines from the first to the last that has changed are written over  *)
(* the old ones, scrolling first when they lie below the screen, and what  *)
(* is left of the old ones below is cleared.                               *)
RenderChanged(lines, row, first, last) ==
    LET appends == Len(lines) > Len(previousLines) /\ first = Len(previousLines) /\ first > 0
        viewportTop == Larger(0, maxLinesRendered - Height)
        bottom == previousViewportTop + Height - 1
        from == IF appends THEN first - 1 ELSE first
        scroll == Larger(0, from - bottom)
        screenRow == Larger(0, Smaller(LastRow, hardwareCursorRow - previousViewportTop))
        below == IF scroll > 0 THEN LineFeeds(Move(Terminal, LastRow - screenRow), scroll)
                 ELSE Terminal
        at == IF scroll > 0 THEN from ELSE hardwareCursorRow
        moved == Move(below, (from - viewportTop) - (at - previousViewportTop))
        start == IF appends THEN LineFeed(moved) ELSE moved
        end == Smaller(last, Len(lines) - 1)
        written == PutLines(start, SubSeq(lines, first + 1, end + 1))
        extra == Larger(0, Len(previousLines) - Len(lines))
        atEnd == IF extra > 0 THEN Move(written, Len(lines) - 1 - end) ELSE written
        cleared == FoldLeft(LAMBDA u, i : Put(LineFeed(u), Blank), atEnd, [i \in 1 .. extra |-> i])
    IN Finish(Move(cleared, -extra),
              IF extra > 0 THEN Larger(end, Len(lines) - 1) ELSE end,
              lines, row, Larger(maxLinesRendered, Len(lines)))

(* doRender: the first strategy that applies.                              *)
Render(content, overlay, row) ==
    LET lines == Composite(content, overlay)
        changed == Changed(lines)
        first == Min(changed)
    IN /\ ~stopped
       /\ row \in {NoRow} \cup (Larger(0, Len(lines) - Height) .. Len(lines) - 1)
       /\ CASE previousLines = << >> /\ ~Resized -> FullRender(FALSE, lines, row)
            [] Resized -> FullRender(TRUE, lines, row)
            [] Shrunk(lines, overlay) -> FullRender(TRUE, lines, row)
            [] changed = {} -> RenderNothing(lines, row)
            [] first >= Len(lines) ->
                 IF Len(previousLines) - Len(lines) > Height
                 THEN FullRender(TRUE, lines, row)
                 ELSE ClearDeleted(lines, row)
            [] first < Larger(0, Len(previousLines) - Height) -> FullRender(TRUE, lines, row)
            [] OTHER -> RenderChanged(lines, row, first, Max(changed))
-----------------------------------------------------------------------------
(* requestRender(true): what is known of the screen is forgotten.          *)
Forget ==
    /\ previousLines' = << >>
    /\ previousHeight' = Forced
    /\ hardwareCursorRow' = 0
    /\ maxLinesRendered' = 0
    /\ previousViewportTop' = 0
    /\ shown' = FALSE

ForceRender == ~stopped /\ Forget /\ UNCHANGED <<term, clearOnShrink, stopped>>

SetClearOnShrink(enabled) ==
    /\ clearOnShrink' = enabled
    /\ UNCHANGED <<term, fields, stopped, shown>>

(* The window is resized: the terminal rearranges its rows as it likes.    *)
(* (The first render comes at once with start(), and one resize is rendered*)
(* before the next.)                                                       *)
Scrambled(h) ==
    /\ \E line \in Line : screen' = [r \in 0 .. h - 1 |-> line]
    /\ cursor' \in 0 .. h - 1

Resize(h) ==
    /\ ~stopped
    /\ previousHeight \in {Height, Forced}
    /\ h # Height
    /\ Scrambled(h)
    /\ shown' = FALSE
    /\ UNCHANGED <<fields, clearOnShrink, stopped>>

(* stop(): the cursor is left below the content.                           *)
Stop ==
    /\ ~stopped
    /\ stopped' = TRUE
    /\ LET after == IF previousLines = << >> THEN Terminal
                    ELSE LineFeed(Move(Terminal, Len(previousLines) - hardwareCursorRow))
       IN screen' = after.screen /\ cursor' = after.cursor
    /\ UNCHANGED <<fields, clearOnShrink, shown>>

(* start() and requestRender(true), after a suspension or an external      *)
(* editor has used the terminal.                                           *)
Start ==
    /\ stopped
    /\ stopped' = FALSE
    /\ Scrambled(Height)
    /\ Forget
    /\ UNCHANGED clearOnShrink
-----------------------------------------------------------------------------
Contents == UNION {[1 .. n -> Line \cup {Blank}] : n \in 0 .. MaxLines}

Next ==
    \/ \E content \in Contents, overlay \in {NoRow} \cup (0 .. LastRow),
          row \in NoRow .. MaxLines - 1 : Render(content, overlay, row)
    \/ ForceRender
    \/ \E enabled \in BOOLEAN : SetClearOnShrink(enabled)
    \/ \E h \in Heights : Resize(h)
    \/ Stop
    \/ Start

Spec == Init /\ [][Next]_vars
-----------------------------------------------------------------------------
TypeOK ==
    /\ cursor \in DOMAIN screen /\ Height \in Heights
    /\ Len(previousLines) <= MaxLines + Max(Heights)
    /\ hardwareCursorRow \in 0 .. Larger(0, Larger(Len(previousLines), maxLinesRendered) - 1)
    /\ shown => maxLinesRendered >= Len(previousLines)

(* The row of the content that is in the first row of the screen, if the   *)
(* cursor is where the renderer thinks it is.                              *)
Top == hardwareCursorRow - cursor

(* After a render the screen shows the content, down to its last line, and *)
(* nothing of what was there before below it.                              *)
ScreenIsContent ==
    shown /\ ~stopped =>
      /\ \A r \in 0 .. LastRow :
            /\ r + Top \in 0 .. Len(previousLines) - 1 => screen[r] = previousLines[r + Top + 1]
            /\ r + Top >= Len(previousLines) => screen[r] = Blank
      /\ previousLines # << >> => Len(previousLines) - 1 - Top \in 0 .. LastRow
=============================================================================
