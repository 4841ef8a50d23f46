---------------------------- MODULE StdinBuffer ----------------------------
(***************************************************************************)
(* How the bytes of a terminal become keys again                           *)
(* (packages/tui/src/stdin-buffer.ts), and what the terminal               *)
(* (packages/tui/src/terminal.ts) passes on.                               *)
(*                                                                         *)
(* Bytes come in pieces cut anywhere.  A token is a byte or a run of bytes *)
(* of one meaning: "start" and "end" are the 200~ and 201~ of the paste    *)
(* markers, "mouse" is <b;x;y of an SGR mouse event, "flags" the ?n of the *)
(* answer about the keyboard, "st" the backslash of a string terminator.   *)
(***************************************************************************)
EXTENDS Integers, Sequences, SequencesExt, FiniteSetsExt

CONSTANTS Key,           \* what the user or the terminal may send
          MaxKeys,       \* bound on it
          SlowTerminal   \* whether the timer may fire inside a key

VARIABLES typed,     \* history: what was sent
          wire,      \* its tokens that did not arrive yet
          buffer,    \* buffer
          timeout,   \* timeout is set
          pasteMode, pasteBuffer,
          kitty,     \* _kittyProtocolActive
          handled    \* history: what the input handler got

vars == <<typed, wire, buffer, timeout, pasteMode, pasteBuffer, kitty, handled>>

Token == {"esc", "[", "O", "]", "P", "_", "M", "a", "~", "mouse", "flags", "u",
          "bel", "st", "start", "end"}

Start == <<"esc", "[", "start">>
End == <<"esc", "[", "end">>

(* A key is a sequence of tokens, or text that is pasted.                  *)
Data(tokens) == [type |-> "data", value |-> tokens]
Paste(text) == [type |-> "paste", value |-> text]
Sent(key) == IF key.type = "paste" THEN Start \o key.value \o End ELSE key.value

TypeOK ==
    /\ typed \in Seq(Key) /\ wire \in Seq(Token) /\ buffer \in Seq(Token)
    /\ pasteBuffer \in Seq(Token) /\ {timeout, pasteMode, kitty} \subseteq BOOLEAN
    /\ handled \in Seq(Seq(Token))

Init == /\ typed = << >> /\ wire = << >> /\ buffer = << >> /\ timeout = FALSE
        /\ pasteMode = FALSE /\ pasteBuffer = << >> /\ kitty = FALSE
        /\ handled = << >>
-----------------------------------------------------------------------------
(* The bytes 0x40 to 0x7E end a control sequence; ~ ends the markers.      *)
FinalByte == {"[", "O", "]", "P", "_", "M", "a", "~", "u", "st", "start", "end"}

CsiCompleteShort(s) ==  \* mutant: the bracket itself is taken for the final byte
    Last(s) \in FinalByte /\ (Len(s) > 2 /\ s[3] = "mouse" => Len(s) = 4)

CsiComplete(s) ==
    /\ Len(s) >= 3 /\ Last(s) \in FinalByte
    /\ s[3] = "mouse" => s = <<"esc", "[", "mouse", "M">>

(* isCompleteSequence, of what begins with ESC.                            *)
Complete(s) ==
    /\ Len(s) > 1
    /\ CASE s[2] = "[" -> IF Len(s) > 2 /\ s[3] = "M" THEN Len(s) >= 6 ELSE CsiComplete(s)
         [] s[2] = "]" -> Last(s) = "bel" \/ IsSuffix(<<"esc", "st">>, s)
         [] s[2] \in {"P", "_"} -> IsSuffix(<<"esc", "st">>, s)
         [] s[2] = "O" -> Len(s) >= 3
         [] OTHER -> TRUE

(* extractCompleteSequences.                                               *)
Extract(s) ==
    LET from[i \in 1..(Len(s) + 1)] ==
            LET ends == IF i > Len(s) THEN {}
                        ELSE IF s[i] # "esc" THEN {i}
                        ELSE {n \in i..Len(s) : Complete(SubSeq(s, i, n))}
                first == Min(ends)
                rest == from[first + 1]
            IN IF ends = {} THEN [sequences |-> << >>, remainder |-> SubSeq(s, i, Len(s))]
               ELSE [rest EXCEPT !.sequences = <<Data(SubSeq(s, i, first))>> \o @]
    IN from[1]

At(s, marker) == {i \in 1..(Len(s) - 2) : SubSeq(s, i, i + 2) = marker}
Before(s, i) == SubSeq(s, 1, i - 1)
After(s, i) == SubSeq(s, i + 3, Len(s))

(* process, of a buffer that was extended: what stands before a paste is   *)
(* taken apart, what follows it processed anew.                            *)
Process(b, mode, pasted) ==
    LET text == IF mode THEN pasted \o b ELSE b
        from[i \in 1..(Len(text) + 1), inPaste \in BOOLEAN] ==
            LET left == SubSeq(text, i, Len(text))
                marks == At(left, IF inPaste THEN End ELSE Start)
                m == Min(marks)
                early == IF inPaste THEN <<Paste(Before(left, m))>>
                         ELSE Extract(Before(left, m)).sequences
                rest == from[i + m + 2, ~inPaste]
            IN IF marks # {} THEN [rest EXCEPT !.events = early \o @]
               ELSE IF inPaste
               THEN [events |-> << >>, buffer |-> << >>, mode |-> TRUE, pasted |-> left]
               ELSE [events |-> Extract(left).sequences, buffer |-> Extract(left).remainder,
                     mode |-> FALSE, pasted |-> << >>]
    IN from[1, mode]
-----------------------------------------------------------------------------
Kitty == <<"esc", "[", "flags", "u">>

(* The listeners of ProcessTerminal: the first answer about the keyboard   *)
(* is kept from the input handler, pastes get their markers back.          *)
Handle(events) ==
    LET answer == {i \in DOMAIN events : events[i] = Data(Kitty)}
        kept == IF ~kitty /\ answer # {} THEN RemoveAt(events, Min(answer)) ELSE events
    IN /\ kitty' = (kitty \/ answer # {})
       /\ handled' = handled \o [i \in DOMAIN kept |-> Sent(kept[i])]

(* A key is pressed.  After Escape alone nothing follows within the 10 ms  *)
(* of the timer: it would be the beginning of another sequence.            *)
Type(key) ==
    /\ Len(typed) < MaxKeys
    /\ typed # << >> /\ Last(typed) = Data(<<"esc">>) => wire = << >> /\ buffer = << >>
    /\ typed' = Append(typed, key) /\ wire' = wire \o Sent(key)
    /\ UNCHANGED <<buffer, timeout, pasteMode, pasteBuffer, kitty, handled>>

(* A piece of what was sent arrives.                                       *)
Arrive(n) ==
    /\ n <= Len(wire) /\ wire' = SubSeq(wire, n + 1, Len(wire))
    /\ LET done == Process(buffer \o SubSeq(wire, 1, n), pasteMode, pasteBuffer)
       IN /\ buffer' = done.buffer /\ timeout' = (done.buffer # << >>)
          /\ pasteMode' = done.mode /\ pasteBuffer' = done.pasted
          /\ Handle(done.events)
    /\ UNCHANGED typed

(* The timer: what is there is taken to be whole.  A terminal that sends   *)
(* the bytes of a key together leaves it nothing but Escape.               *)
Flush ==
    /\ timeout /\ (SlowTerminal \/ wire = << >>)
    /\ timeout' = FALSE /\ buffer' = << >> /\ Handle(<<Data(buffer)>>)
    /\ UNCHANGED <<typed, wire, pasteMode, pasteBuffer>>

Next == \/ \E key \in Key : Type(key)
        \/ \E n \in 1..Len(wire) : Arrive(n)
        \/ Flush

Spec == Init /\ [][Next]_vars
-----------------------------------------------------------------------------
(* The keys in order, without the first answer about the keyboard, which   *)
(* no component is to see.                                                 *)
Keys ==
    LET sent == [i \in DOMAIN typed |-> Sent(typed[i])]
    IN IF Contains(sent, Kitty) THEN RemoveFirst(sent, Kitty) ELSE sent

(* "This ensures components receive single events" (terminal.ts): however  *)
(* the bytes are cut, what the input handler gets are the keys, each whole *)
(* and in order; when all has arrived and no timer runs, none is missing.  *)
KeysAreWhole ==
    /\ IsPrefix(handled, Keys)
    /\ wire = << >> /\ ~timeout => handled = Keys
=============================================================================
