----------------------------- MODULE BashOutput -----------------------------
(***************************************************************************)
(* What becomes of the output of a shell command: the bash tool            *)
(* (packages/coding-agent/src/core/tools/bash.ts) and the executor of      *)
(* commands the user types (core/bash-executor.ts), with truncateTail      *)
(* (core/tools/truncate.ts).                                               *)
(*                                                                         *)
(* Output comes in pieces of any size.  Only the last of them are kept;    *)
(* once there is more than the limit, everything goes to a file as well.   *)
(* A character is a byte, "cr" one that the executor takes out.            *)
(***************************************************************************)
EXTENDS Integers, Sequences, SequencesExt, FiniteSetsExt

CONSTANTS MaxBytes, MaxLines,  \* DEFAULT_MAX_BYTES, DEFAULT_MAX_LINES
          MaxPiece,   \* the most a pipe gives at once
          MaxOutput   \* bound on the output of a command

VARIABLES kind,      \* who runs the command: tool or executor
          printed,   \* history: what the command has printed
          chunks,    \* chunks, outputChunks
          file,      \* what is in the temporary file
          aborted,   \* signal.aborted
          timedOut,  \* timedOut
          result     \* what the promise is settled with

vars == <<kind, printed, chunks, file, aborted, timedOut, result>>

Char == {"x", "nl", "cr"}
NoFile == <<"none">>
Pending == [how |-> "pending"]

(* What a pipe gives at once.                                              *)
Piece == UNION {[1..n -> Char] : n \in 1..MaxPiece}

TypeOK ==
    /\ kind \in {"tool", "executor"} /\ printed \in Seq(Char)
    /\ chunks \in Seq(Seq(Char)) /\ file \in {NoFile} \cup Seq(Char)
    /\ {aborted, timedOut} \subseteq BOOLEAN
    /\ result # Pending =>
          /\ result.how \in {"done", "failed", "aborted", "timeout"}
          /\ result.shown \in Seq(Char) /\ {result.cut, result.named} \subseteq BOOLEAN

Init == /\ kind \in {"tool", "executor"}
        /\ printed = << >> /\ chunks = << >> /\ file = NoFile
        /\ aborted = FALSE /\ timedOut = FALSE /\ result = Pending
-----------------------------------------------------------------------------
(* truncateTail: the most of the last lines that are within both limits,   *)
(* or else the end of the last line.                                       *)
LinesOf(text) == 1 + Len(SelectSeq(text, LAMBDA c : c = "nl"))
Fits(text) == Len(text) <= MaxBytes /\ LinesOf(text) <= MaxLines
From(text, i) == SubSeq(text, i, Len(text))

TruncateTail(text) ==
    LET starts == {i \in 1..(Len(text) + 1) : i = 1 \/ text[i - 1] = "nl"}
        within == {i \in starts : Fits(From(text, i))}
    IN IF within = {} THEN From(text, Len(text) - MaxBytes + 1)
       ELSE From(text, Min(within))

Bytes(pieces) == Len(FlattenSeq(pieces))

TrimmedToLimit(pieces) ==  \* mutant: no more is kept than is shown
    LET enough == {i \in DOMAIN pieces : Bytes(From(pieces, i)) <= MaxBytes}
    IN From(pieces, IF enough = {} THEN Len(pieces) ELSE Min(enough))

(* The oldest pieces go while there is more than twice the limit, the last *)
(* one stays.                                                              *)
Trimmed(pieces) ==
    LET enough == {i \in DOMAIN pieces : Bytes(From(pieces, i)) <= 2 * MaxBytes}
    IN From(pieces, IF enough = {} THEN Len(pieces) ELSE Min(enough))

(* What is kept of a piece: the executor removes carriage returns.         *)
Kept(text) == IF kind = "tool" THEN text ELSE SelectSeq(text, LAMBDA c : c # "cr")

WrittenFromNow(piece) ==  \* mutant: the file begins with the piece at hand
    IF file # NoFile \/ Len(printed) + Len(piece) > MaxBytes
    THEN (IF file = NoFile THEN << >> ELSE file) \o Kept(piece)
    ELSE NoFile

(* The file: begun when the limit is passed, with all that came before.    *)
Written(piece) ==
    IF file # NoFile \/ Len(printed) + Len(piece) > MaxBytes
    THEN (IF file = NoFile THEN FlattenSeq(chunks) ELSE file) \o Kept(piece)
    ELSE NoFile

(* handleData, onData.                                                     *)
Data(piece) ==
    /\ result = Pending /\ Len(printed) + Len(piece) <= MaxOutput
    /\ printed' = printed \o piece /\ file' = Written(piece)
    /\ chunks' = Trimmed(Append(chunks, Kept(piece)))
    /\ UNCHANGED <<kind, aborted, timedOut, result>>

(* Both kill the processes, which may print on until the pipes are closed. *)
Abort == /\ result = Pending /\ ~aborted /\ aborted' = TRUE
         /\ UNCHANGED <<kind, printed, chunks, file, timedOut, result>>

Timeout == /\ kind = "tool" /\ result = Pending /\ ~timedOut /\ timedOut' = TRUE
           /\ UNCHANGED <<kind, printed, chunks, file, aborted, result>>

(* A result with the tail of what is kept, that says whether it is all and *)
(* names the file; and one with all that is kept.                          *)
Tail_(how) ==
    LET text == FlattenSeq(chunks)
    IN [how |-> how, cut |-> ~Fits(text), shown |-> TruncateTail(text),
        named |-> file # NoFile /\ (kind = "executor" \/ ~Fits(text))]

All(how) == [how |-> how, cut |-> FALSE, shown |-> FlattenSeq(chunks), named |-> FALSE]

(* The process is over and its pipes are closed: an abort counts before a  *)
(* timeout, a timeout before the code.  A code other than 0 makes the tool *)
(* throw, with the same text.                                              *)
Close(code) ==
    /\ result = Pending
    /\ result' = CASE aborted /\ kind = "executor" -> Tail_("aborted")
                   [] aborted /\ kind = "tool" -> All("aborted")
                   [] ~aborted /\ timedOut -> All("timeout")
                   [] OTHER -> Tail_(IF code = 0 \/ kind = "executor" THEN "done"
                                     ELSE "failed")
    /\ UNCHANGED <<kind, printed, chunks, file, aborted, timedOut>>

Next == \/ \E piece \in Piece : Data(piece)
        \/ Abort \/ Timeout
        \/ \E code \in {0, 1} : Close(code)

Spec == Init /\ [][Next]_vars
-----------------------------------------------------------------------------
Output == Kept(printed)
IsTail == result # Pending /\ (kind = "executor" \/ result.how \in {"done", "failed"})

(* "full output is saved to a temp file" (description of the tool): the    *)
(* file has everything the command printed, from the first byte on.        *)
FileIsWhole == file # NoFile => file = Output

(* "Output is truncated to last 2000 lines or 50KB": what is shown is the  *)
(* end of the whole output, not of what happened to be kept, and it says   *)
(* so if there was more.  A file is named whenever bytes are missing.      *)
ShownIsTail ==
    IsTail => /\ result.shown = TruncateTail(Output)
              /\ result.cut = ~Fits(Output)
              /\ Len(Output) > MaxBytes => result.named

(* A command that was stopped shows at least as much.                      *)
StoppedShowsEnd == result # Pending /\ ~IsTail => IsSuffix(TruncateTail(Output), result.shown)
=============================================================================
