------------------------------ MODULE Channel ------------------------------
(***************************************************************************)
(* What an event stream promises to the party that reads it: the events    *)
(* the producer managed to send before the stream was closed are received  *)
(* in the order they were sent, each one once, and nothing else is.  The   *)
(* reader finishes only when the stream is closed and everything sent has  *)
(* been received.                                                          *)
(***************************************************************************)
EXTENDS Naturals, Sequences

CONSTANT Events

VARIABLES sent,      \* the events accepted by the stream, in order
          received,  \* the events its reader was given, in order
          closed,    \* no further event is accepted
          finished   \* the reader has seen the end of the stream

cvars == <<sent, received, closed, finished>>

CInit == /\ sent = << >>
         /\ received = << >>
         /\ closed = FALSE
         /\ finished = FALSE

(* The event that completes the stream closes it as well. *)
Send(e) == /\ ~closed
           /\ sent' = Append(sent, e)
           /\ closed' \in BOOLEAN
           /\ UNCHANGED <<received, finished>>

Close == /\ closed' = TRUE
         /\ UNCHANGED <<sent, received, finished>>

Receive == /\ Len(received) < Len(sent)
           /\ ~finished
           /\ received' = Append(received, sent[Len(received) + 1])
           /\ UNCHANGED <<sent, closed, finished>>

Finish == /\ closed
          /\ received = sent
          /\ finished' = TRUE
          /\ UNCHANGED <<sent, received, closed>>

CNext == \/ \E e \in Events : Send(e)
         \/ Close
         \/ Receive
         \/ Finish

CSpec == CInit /\ [][CNext]_cvars
=============================================================================
