------------------------------ MODULE Overlays ------------------------------
(***************************************************************************)
(* Who has the keyboard (packages/tui/src/tui.ts: setFocus, showOverlay    *)
(* and its handle, hideOverlay, handleInput).  Overlays are stacked over   *)
(* the base components; each remembers who had the focus when it was       *)
(* shown, and gives it back.  An overlay may be shown without taking the   *)
(* focus, be hidden for a while, or show only in a wide terminal.          *)
(***************************************************************************)
EXTENDS Naturals, Sequences, SequencesExt

CONSTANTS Base,     \* the components below: the editor, a selector
          Overlay,  \* the components that are shown as overlays
          Nobody    \* no component has the focus

VARIABLES
  overlayStack, \* the overlays that are shown, in the order they were
  focused,      \* focusedComponent
  wide          \* the terminal is wide

vars == <<overlayStack, focused, wide>>

Entry == [component : Overlay, preFocus : Base \cup Overlay \cup {Nobody},
          hidden : BOOLEAN, nonCapturing : BOOLEAN, wideOnly : BOOLEAN]

Init == overlayStack = << >> /\ focused \in Base \cup {Nobody} /\ wide \in BOOLEAN
-----------------------------------------------------------------------------
(* isOverlayVisible, here of an entry.                                     *)
Visible(e) == ~e.hidden /\ (e.wideOnly => wide)

Of(c, stack) == SelectInSeq(stack, LAMBDA e : e.component = c)
IsShown(c) == Of(c, overlayStack) # 0

(* getTopmostVisibleOverlay: only those that take the focus.               *)
TopmostVisible(stack) ==
    LET i == SelectLastInSeq(stack, LAMBDA e : ~e.nonCapturing /\ Visible(e))
    IN IF i = 0 THEN Nobody ELSE stack[i].component

(* Where the focus goes when an overlay gives it up.                       *)
Successor(stack, e) ==
    IF TopmostVisible(stack) = Nobody THEN e.preFocus ELSE TopmostVisible(stack)

(* setFocus, by the application.                                           *)
SetFocus(c) ==
    /\ c \in Base \cup {Nobody}
    /\ focused' = c
    /\ UNCHANGED <<overlayStack, wide>>

ShowOverlay(c, nonCapturing, wideOnly) ==
    LET e == [component |-> c, preFocus |-> focused, hidden |-> FALSE,
              nonCapturing |-> nonCapturing, wideOnly |-> wideOnly]
    IN /\ ~IsShown(c)
       /\ overlayStack' = Append(overlayStack, e)
       /\ focused' = IF ~nonCapturing /\ Visible(e) THEN c ELSE focused
       /\ UNCHANGED wide

(* A plausible bug: the lowest entry does not give the focus back.         *)
HideTopOnly(c) ==
    LET i == Of(c, overlayStack)
        left == RemoveAt(overlayStack, i)
    IN /\ IsShown(c)
       /\ overlayStack' = left
       /\ focused' = IF focused = c /\ i > 1 THEN Successor(left, overlayStack[i]) ELSE focused
       /\ UNCHANGED wide

(* The handle's hide(), or for the last entry hideOverlay().               *)
Hide(c) ==
    LET i == Of(c, overlayStack)
        left == RemoveAt(overlayStack, i)
    IN /\ IsShown(c)
       /\ overlayStack' = left
       /\ focused' = IF focused = c THEN Successor(left, overlayStack[i]) ELSE focused
       /\ UNCHANGED wide

(* setHidden(true): the entry itself is not visible any more.              *)
SetHidden(c) ==
    LET i == Of(c, overlayStack)
    IN /\ IsShown(c) /\ ~overlayStack[i].hidden
       /\ overlayStack' = [overlayStack EXCEPT ![i].hidden = TRUE]
       /\ focused' = IF focused = c THEN Successor(overlayStack', overlayStack[i]) ELSE focused
       /\ UNCHANGED wide

(* setHidden(false).                                                       *)
SetShown(c) ==
    LET i == Of(c, overlayStack)
    IN /\ IsShown(c) /\ overlayStack[i].hidden
       /\ overlayStack' = [overlayStack EXCEPT ![i].hidden = FALSE]
       /\ focused' = IF ~overlayStack[i].nonCapturing /\ Visible(overlayStack'[i])
                     THEN c ELSE focused
       /\ UNCHANGED wide

(* The handle's focus() and unfocus().                                     *)
Focus(c) ==
    /\ IsShown(c) /\ Visible(overlayStack[Of(c, overlayStack)])
    /\ focused' = c
    /\ UNCHANGED <<overlayStack, wide>>

Unfocus(c) ==
    LET e == overlayStack[Of(c, overlayStack)]
        top == TopmostVisible(overlayStack)
    IN /\ IsShown(c)
       /\ focused = c
       /\ focused' = IF top \notin {Nobody, c} THEN top ELSE e.preFocus
       /\ UNCHANGED <<overlayStack, wide>>

(* The terminal becomes wider or narrower.                                 *)
Resize == wide' = ~wide /\ UNCHANGED <<overlayStack, focused>>

(* Who gets the next key: a focused overlay that is not visible any more   *)
(* gives up the focus first.                                               *)
Receiver ==
    LET i == Of(focused, overlayStack)
    IN IF i # 0 /\ ~Visible(overlayStack[i])
       THEN Successor(overlayStack, overlayStack[i]) ELSE focused

HandleInput == focused' = Receiver /\ UNCHANGED <<overlayStack, wide>>

Next ==
    \/ \E c \in Base \cup {Nobody} : SetFocus(c)
    \/ \E c \in Overlay : \/ \E n, w \in BOOLEAN : ShowOverlay(c, n, w)
                          \/ Hide(c) \/ SetHidden(c) \/ SetShown(c)
                          \/ Focus(c) \/ Unfocus(c)
    \/ Resize
    \/ HandleInput

Spec == Init /\ [][Next]_vars
-----------------------------------------------------------------------------
TypeOK ==
    /\ overlayStack \in Seq(Entry) /\ wide \in BOOLEAN
    /\ focused \in Base \cup Overlay \cup {Nobody}
    /\ \A i, j \in DOMAIN overlayStack :
        overlayStack[i].component = overlayStack[j].component => i = j

(* No key goes to an overlay that was taken away: it would not give up the *)
(* focus again, and the user would type into nothing.                      *)
NoGhost == Receiver \in Overlay => IsShown(Receiver)
=============================================================================
