------------------------- MODULE TransformMessages -------------------------
(***************************************************************************)
(* What of a transcript a provider is sent                                 *)
(* (packages/ai/src/providers/transform-messages.ts), for a transcript as  *)
(* it grows: answered by one model after another, given up in the middle   *)
(* of its tool calls by a hook that throws, by a process that dies or by   *)
(* going back to an earlier entry, and gone on with.                       *)
(*                                                                         *)
(* Of an answer only its tool calls are told apart.  A call is named by    *)
(* the model that made it, in the form this model gives its ids, the       *)
(* message and its place there; normalizeToolCallId gives it another form. *)
(***************************************************************************)
EXTENDS Integers, Sequences, SequencesExt

CONSTANTS Model,       \* the models in use
          MaxMessages, \* bound on the transcript
          MaxCalls     \* bound on the calls of an answer

VARIABLES messages,  \* the transcript
          model,     \* the model that is asked
          running    \* whether a run is under way

vars == <<messages, model, running>>

User == [role |-> "user", by |-> "", calls |-> << >>, failed |-> FALSE]
Answer(by, calls, failed) ==
    [role |-> "assistant", by |-> by, calls |-> calls, failed |-> failed]
Result(id) == [role |-> "toolResult", by |-> "", calls |-> <<id>>, failed |-> FALSE]
(* A result that was made up is marked for the properties.                 *)
NoResult(id) == [Result(id) EXCEPT !.by = "nobody"]

Calls(n) == [c \in 1..n |-> [form |-> model, at |-> Len(messages) + 1, place |-> c]]

TypeOK ==
    /\ model \in Model /\ running \in BOOLEAN
    /\ \A i \in DOMAIN messages :
           /\ messages[i].role \in {"user", "assistant", "toolResult"}
           /\ messages[i].role = "assistant" => messages[i].by \in Model
           /\ \A c \in DOMAIN messages[i].calls : messages[i].calls[c].at <= i

Init == messages = << >> /\ model \in Model /\ running = FALSE
-----------------------------------------------------------------------------
(* First pass: ids of calls that another model made, and of their results. *)
Normalized(id) == [id EXCEPT !.form = model]

Renamed(ids, m) ==
    IF m.role = "assistant" /\ m.by # model THEN ids \cup Range(m.calls) ELSE ids

ResultKept(m, ids) == m  \* mutant: results keep the id their call had

ResultOf(m, ids) == IF m.calls[1] \in ids THEN Result(Normalized(m.calls[1])) ELSE m

Transformed(m, ids) ==
    CASE m.role = "toolResult" -> ResultOf(m, ids)
      [] m.role = "assistant" /\ m.by # model ->
             [m EXCEPT !.calls = [c \in DOMAIN m.calls |-> Normalized(m.calls[c])]]
      [] OTHER -> m

FirstPass ==
    FoldLeft(LAMBDA s, m : [out |-> Append(s.out, Transformed(m, s.ids)),
                            ids |-> Renamed(s.ids, m)],
             [out |-> << >>, ids |-> {}], messages).out

(* Second pass: what comes after calls without a result is preceded by     *)
(* results for them, and failed answers are left out.                      *)
MissingResults(s) ==
    LET missing == SelectSeq(s.pending, LAMBDA id : id \notin s.have)
    IN [c \in DOMAIN missing |-> NoResult(missing[c])]

Sent(s, m) == [s EXCEPT !.out = Append(@, m)]
Flushed(s) == [out |-> s.out \o MissingResults(s), pending |-> << >>, have |-> {}]

UserSent(s, m) == Sent(s, m)  \* mutant: only an answer is preceded by what is missing

UserPassed(s, m) == Sent(Flushed(s), m)

AnswerSent(s, m) ==  \* mutant: failed answers are sent
    [Sent(Flushed(s), m) EXCEPT !.pending = m.calls]

AnswerPassed(s, m) ==
    IF m.failed THEN Flushed(s) ELSE [Sent(Flushed(s), m) EXCEPT !.pending = m.calls]

Pass(s, m) ==
    CASE m.role = "toolResult" -> [Sent(s, m) EXCEPT !.have = @ \cup {m.calls[1]}]
      [] m.role = "user" -> UserPassed(s, m)
      [] m.role = "assistant" -> AnswerPassed(s, m)

SecondPass(sent) ==
    FoldLeft(Pass, [out |-> << >>, pending |-> << >>, have |-> {}], sent).out

Request == SecondPass(FirstPass)
-----------------------------------------------------------------------------
(* The transcript.                                                         *)
LastTurn == SelectLastInSeq(messages, LAMBDA m : m.role # "toolResult")

(* Calls the run goes on to execute.                                       *)
Open ==
    IF ~running \/ messages[LastTurn].failed THEN {}
    ELSE Range(messages[LastTurn].calls)
         \ {messages[i].calls[1] : i \in (LastTurn + 1)..Len(messages)}

Add(m) == Len(messages) < MaxMessages /\ messages' = Append(messages, m)

Prompt == ~running /\ running' = TRUE /\ Add(User) /\ UNCHANGED model

Steer == /\ running /\ Open = {} /\ Last(messages) # User /\ Add(User)
         /\ UNCHANGED <<model, running>>

Respond ==
    /\ running /\ Open = {}
    /\ \E n \in 0..MaxCalls, failed \in BOOLEAN :
           /\ Add(Answer(model, Calls(n), failed))
           /\ running' = (n > 0 /\ ~failed)
    /\ UNCHANGED model

Execute == /\ \E id \in Open : Add(Result(id))
           /\ UNCHANGED <<model, running>>

BatchThrows ==
    /\ Open # {} /\ running' = FALSE
    /\ Add(Answer(model, << >>, TRUE)) /\ UNCHANGED model

(* A failed answer is taken off, and the request repeated.                 *)
Retry ==
    /\ ~running /\ messages # << >> /\ Last(messages).failed
    /\ Len(messages) > 1 /\ messages[Len(messages) - 1].role # "assistant"
    /\ running' = TRUE /\ messages' = Front(messages) /\ UNCHANGED model
    /\ Open' = {}

GoBack ==
    /\ \E k \in 0..(Len(messages) - 1) : messages' = SubSeq(messages, 1, k)
    /\ running' = FALSE /\ UNCHANGED model

SetModel == ~running /\ model' \in Model \ {model} /\ UNCHANGED <<messages, running>>

Next == \/ Prompt \/ Steer \/ Respond \/ Execute \/ BatchThrows \/ Retry \/ GoBack
        \/ SetModel

Spec == Init /\ [][Next]_vars
-----------------------------------------------------------------------------
(* Providers refuse a call without a result right after it, and a result   *)
(* without its call ("satisfies API requirements", transform-messages.ts). *)
Accepted(out) ==
    \A i \in DOMAIN out :
        /\ out[i].role = "assistant" =>
               LET n == Len(out[i].calls)
               IN /\ i + n <= Len(out)
                  /\ \A j \in (i + 1)..(i + n) : out[j].role = "toolResult"
                  /\ {out[j].calls[1] : j \in (i + 1)..(i + n)} = Range(out[i].calls)
        /\ out[i].role = "toolResult" =>
               \E j \in 1..(i - 1) : /\ out[j].role = "assistant"
                                     /\ i - j <= Len(out[j].calls)

(* Whatever became of the transcript, a request is one the provider takes, *)
(* with ids in the form its model gives them.                              *)
RequestIsAccepted ==
    running /\ Open = {} =>
        /\ Accepted(Request)
        /\ \A i \in DOMAIN Request : \A c \in DOMAIN Request[i].calls :
               Request[i].calls[c].form = model

(* It holds all that was said but the answers that failed, in order.       *)
Sense(m) == [role |-> m.role, calls |-> [c \in DOMAIN m.calls |-> Normalized(m.calls[c])]]
NothingLeftOut ==
    running /\ Open = {} =>
        LET sent == SelectSeq(Request, LAMBDA m : m.by # "nobody")
            good == SelectSeq(messages, LAMBDA m : ~m.failed)
        IN [i \in DOMAIN sent |-> Sense(sent[i])] = [i \in DOMAIN good |-> Sense(good[i])]
=============================================================================
