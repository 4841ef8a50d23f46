---------------------------- MODULE EventStream ----------------------------
(***************************************************************************)
(* EventStream of packages/ai/src/utils/event-stream.ts: the push-based    *)
(* async iterable through which a provider hands its events to the agent   *)
(* loop.  A producer calls push and end; readers run "for await" over it.  *)
(*                                                                         *)
(* Between the moment push resolves a waiting reader's promise and the     *)
(* moment that reader's generator resumes, the producer may push again:    *)
(* "resumed" and "ended" are those windows.                                *)
(***************************************************************************)
EXTENDS Naturals, Sequences

CONSTANTS Events,   \* the events a producer pushes
          Final,    \* those for which isComplete answers true
          Readers,  \* the async iterators over the stream
          NoEvent   \* what a reader holds when it holds no event

ASSUME FinalAssumption == Final \subseteq Events
ASSUME NoEventAssumption == NoEvent \notin Events

VARIABLES queue,     \* events pushed while no reader waited
          waiting,   \* readers whose promise is unresolved, oldest first
          done,      \* no further event is accepted
          resolved,  \* the final result promise is resolved
          pc,        \* where each reader's generator stands
          box,       \* the event a resolved promise carries to its reader
          sent,      \* history: events the stream accepted
          received   \* history: events given to readers

vars == <<queue, waiting, done, resolved, pc, box, sent, received>>

ReaderState == {"next", "blocked", "resumed", "ended", "returned"}

Init == /\ queue = << >>
        /\ waiting = << >>
        /\ done = FALSE
        /\ resolved = FALSE
        /\ pc = [r \in Readers |-> "next"]
        /\ box = [r \in Readers |-> NoEvent]
        /\ sent = << >>
        /\ received = << >>
-----------------------------------------------------------------------------
(* Mutants of the operations, each the code with one plausible slip.       *)
PushAfterDone(e) ==         \* "if (this.done) return" is missing
    /\ waiting = << >>
    /\ done' = (done \/ e \in Final)
    /\ resolved' = (resolved \/ done')
    /\ sent' = Append(sent, e)
    /\ queue' = Append(queue, e)
    /\ UNCHANGED <<waiting, pc, box, received>>

EndForgetsWaiters(withResult) ==  \* waiting readers are not told
    /\ done' = TRUE
    /\ resolved' = (resolved \/ withResult)
    /\ UNCHANGED <<queue, waiting, pc, box, sent, received>>

EndDropsQueue(withResult) ==      \* what is still queued is thrown away
    /\ done' = TRUE
    /\ resolved' = (resolved \/ withResult)
    /\ queue' = << >>
    /\ waiting' = << >>
    /\ pc' = [r \in Readers |-> IF pc[r] = "blocked" THEN "ended" ELSE pc[r]]
    /\ UNCHANGED <<box, sent, received>>

-----------------------------------------------------------------------------
(* push: dropped once done; otherwise the oldest waiter gets the event, or *)
(* it is queued.                                                           *)
Push(e) ==
    /\ ~done
    /\ done' = (e \in Final)
    /\ resolved' = (resolved \/ e \in Final)
    /\ sent' = Append(sent, e)
    /\ \/ /\ waiting # << >>
          /\ waiting' = Tail(waiting)
          /\ pc' = [pc EXCEPT ![Head(waiting)] = "resumed"]
          /\ box' = [box EXCEPT ![Head(waiting)] = e]
          /\ UNCHANGED <<queue, received>>
       \/ /\ waiting = << >>
          /\ queue' = Append(queue, e)
          /\ UNCHANGED <<waiting, pc, box, received>>

(* end: with or without a result; every waiter is told there is no more.   *)
End(withResult) ==
    /\ done' = TRUE
    /\ resolved' = (resolved \/ withResult)
    /\ waiting' = << >>
    /\ pc' = [r \in Readers |-> IF pc[r] = "blocked" THEN "ended" ELSE pc[r]]
    /\ UNCHANGED <<queue, box, sent, received>>

(* One turn of the generator: yield what is queued, return when the stream *)
(* is done, or register a waiter.                                          *)
TakeQueued(r) ==
    /\ pc[r] = "next"
    /\ queue # << >>
    /\ queue' = Tail(queue)
    /\ received' = Append(received, Head(queue))
    /\ UNCHANGED <<waiting, done, resolved, pc, box, sent>>

Return(r) ==
    /\ pc[r] = "next"
    /\ queue = << >>
    /\ done
    /\ pc' = [pc EXCEPT ![r] = "returned"]
    /\ UNCHANGED <<queue, waiting, done, resolved, box, sent, received>>

Wait(r) ==
    /\ pc[r] = "next"
    /\ queue = << >>
    /\ ~done
    /\ waiting' = Append(waiting, r)
    /\ pc' = [pc EXCEPT ![r] = "blocked"]
    /\ UNCHANGED <<queue, done, resolved, box, sent, received>>

(* The promise a reader awaited has been resolved and its generator runs.  *)
Resume(r) ==
    \/ /\ pc[r] = "resumed"
       /\ received' = Append(received, box[r])
       /\ box' = [box EXCEPT ![r] = NoEvent]
       /\ pc' = [pc EXCEPT ![r] = "next"]
       /\ UNCHANGED <<queue, waiting, done, resolved, sent>>
    \/ /\ pc[r] = "ended"
       /\ pc' = [pc EXCEPT ![r] = "returned"]
       /\ UNCHANGED <<queue, waiting, done, resolved, box, sent, received>>

Reader(r) == TakeQueued(r) \/ Return(r) \/ Wait(r) \/ Resume(r)

Next == \/ \E e \in Events : Push(e)
        \/ \E withResult \in BOOLEAN : End(withResult)
        \/ \E r \in Readers : Reader(r)

(* A reader is a promise continuation: the runtime never forgets one.      *)
Fairness == \A r \in Readers : WF_vars(Reader(r))

Spec == Init /\ [][Next]_vars /\ Fairness
-----------------------------------------------------------------------------
TypeOK ==
    /\ queue \in Seq(Events)
    /\ waiting \in Seq(Readers)
    /\ done \in BOOLEAN
    /\ resolved \in BOOLEAN
    /\ pc \in [Readers -> ReaderState]
    /\ box \in [Readers -> Events \cup {NoEvent}]
    /\ sent \in Seq(Events)
    /\ received \in Seq(Events)

(* No event sits in the queue while a reader waits for one.                *)
NoWaitBesideEvents == waiting # << >> => queue = << >>

(* A reader is asleep exactly when it is registered as a waiter, so each   *)
(* promise push or end resolves belongs to a reader that awaits it.        *)
WaitersAreBlocked ==
    /\ \A i \in 1..Len(waiting) : pc[waiting[i]] = "blocked"
    /\ \A i, j \in 1..Len(waiting) : i # j => waiting[i] # waiting[j]
    /\ \A r \in Readers : pc[r] = "blocked" =>
           \E i \in 1..Len(waiting) : waiting[i] = r

(* The events under way to a sole reader.                                  *)
InBox(r) == IF pc[r] = "resumed" THEN << box[r] >> ELSE << >>

(* With a sole reader, nothing accepted is lost, duplicated or reordered:  *)
(* what was received, what its resolved promise carries and what is queued *)
(* is what was sent.                                                       *)
NothingLost ==
    \A r \in Readers : Readers = {r} => sent = received \o InBox(r) \o queue

(* A sole reader of a stream that is done gets to the end of its loop.     *)
ReaderReturns ==
    \A r \in Readers : Readers = {r} => (done ~> pc[r] = "returned")

(* The stream is the channel its readers rely on.                          *)
AllReturned == \A r \in Readers : pc[r] = "returned"
Ch == INSTANCE Channel WITH closed <- done, finished <- AllReturned
ImplementsChannel == Ch!CSpec
=============================================================================
