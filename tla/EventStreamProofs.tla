------------------------- MODULE EventStreamProofs -------------------------
(***************************************************************************)
(* Proofs about EventStream: its type invariant for any readers, and, for  *)
(* the sole reader every caller in the code has, that nothing is lost and  *)
(* that the stream implements Channel.                                     *)
(***************************************************************************)
EXTENDS EventStream, SequenceTheorems, TLAPS

(* A promise resolved with an event carries one.                           *)
BoxFilled == \A r \in Readers : pc[r] = "resumed" => box[r] \in Events

TypeInv == TypeOK /\ BoxFilled /\ WaitersAreBlocked /\ NoWaitBesideEvents

LEMMA InitTypeInv == Init => TypeInv
<1> SUFFICES ASSUME Init PROVE TypeInv
  OBVIOUS
<1>1. TypeOK
  <2>1. box \in [Readers -> Events \cup {NoEvent}]
    BY DEF Init
  <2>2. pc \in [Readers -> ReaderState]
    BY DEF Init, ReaderState
  <2>3. queue \in Seq(Events) /\ waiting \in Seq(Readers)
    BY DEF Init
  <2>4. sent \in Seq(Events) /\ received \in Seq(Events)
    BY DEF Init
  <2>5. done \in BOOLEAN /\ resolved \in BOOLEAN
    BY DEF Init
  <2> QED BY <2>1, <2>2, <2>3, <2>4, <2>5 DEF TypeOK
<1>2. BoxFilled /\ NoWaitBesideEvents
  BY DEF Init, BoxFilled, NoWaitBesideEvents
<1>3. WaitersAreBlocked
  BY DEF Init, WaitersAreBlocked
<1> QED BY <1>1, <1>2, <1>3 DEF TypeInv

LEMMA StepTypeInv == TypeInv /\ [Next]_vars => TypeInv'
<1> SUFFICES ASSUME TypeInv, [Next]_vars PROVE TypeInv'
  OBVIOUS
<1> USE DEF TypeInv, TypeOK, BoxFilled, WaitersAreBlocked,
            NoWaitBesideEvents, ReaderState
<1>1. CASE UNCHANGED vars
  BY <1>1 DEF vars
<1>2. ASSUME NEW e \in Events, Push(e) PROVE TypeInv'
  <2>1. CASE waiting = << >>
    <3>1. /\ queue' = Append(queue, e) /\ sent' = Append(sent, e)
          /\ UNCHANGED <<waiting, pc, box, received>>
          /\ done' \in BOOLEAN /\ resolved' \in BOOLEAN
      BY <1>2, <2>1 DEF Push
    <3>2. TypeOK'
      BY <3>1
    <3>3. BoxFilled' /\ WaitersAreBlocked' /\ NoWaitBesideEvents'
      BY <2>1, <3>1
    <3> QED BY <3>2, <3>3
  <2>2. CASE waiting # << >>
    <3>1. /\ queue = << >> /\ queue' = queue /\ received' = received
          /\ waiting' = Tail(waiting) /\ sent' = Append(sent, e)
          /\ pc' = [pc EXCEPT ![Head(waiting)] = "resumed"]
          /\ box' = [box EXCEPT ![Head(waiting)] = e]
          /\ done' \in BOOLEAN /\ resolved' \in BOOLEAN
      BY <1>2, <2>2 DEF Push
    <3>2. /\ Head(waiting) = waiting[1]
          /\ Len(waiting) \in Nat \ {0}
          /\ Head(waiting) \in Readers
          /\ Tail(waiting) \in Seq(Readers)
          /\ Len(Tail(waiting)) = Len(waiting) - 1
          /\ \A i \in 1..Len(Tail(waiting)) : Tail(waiting)[i] = waiting[i + 1]
      BY <2>2, HeadTailProperties, EmptySeq
    <3>3. TypeOK' /\ BoxFilled' /\ NoWaitBesideEvents'
      BY <3>1, <3>2
    <3>4. \A i \in 1..Len(waiting') : pc'[waiting'[i]] = "blocked"
      <4> TAKE i \in 1..Len(waiting')
      <4>1. /\ i + 1 \in 1..Len(waiting) /\ waiting'[i] = waiting[i + 1]
            /\ waiting[i + 1] # waiting[1]
        BY <3>1, <3>2
      <4> QED BY <3>1, <3>2, <4>1
    <3>5. \A i, j \in 1..Len(waiting') : i # j => waiting'[i] # waiting'[j]
      BY <3>1, <3>2
    <3>6. ASSUME NEW r \in Readers, pc'[r] = "blocked"
          PROVE  \E i \in 1..Len(waiting') : waiting'[i] = r
      <4>1. pc[r] = "blocked" /\ r # waiting[1]
        BY <3>1, <3>2, <3>6
      <4>2. PICK k \in 1..Len(waiting) : waiting[k] = r
        BY <4>1
      <4>3. k - 1 \in 1..Len(waiting') /\ waiting'[k - 1] = r
        BY <3>1, <3>2, <4>1, <4>2
      <4> QED BY <4>3
    <3> QED BY <3>3, <3>4, <3>5, <3>6
  <2> QED BY <2>1, <2>2
<1>3. ASSUME NEW b \in BOOLEAN, End(b) PROVE TypeInv'
  BY <1>3 DEF End
<1>4. ASSUME NEW r \in Readers, Reader(r) PROVE TypeInv'
  <2>1. CASE TakeQueued(r)
    BY <2>1, HeadTailProperties DEF TakeQueued
  <2>2. CASE Return(r)
    BY <2>2 DEF Return
  <2>3. CASE Wait(r)
    <3>1. /\ waiting' = Append(waiting, r)
          /\ pc' = [pc EXCEPT ![r] = "blocked"]
          /\ queue = << >> /\ queue' = queue
          /\ pc[r] = "next"
          /\ UNCHANGED <<done, resolved, box, sent, received>>
      BY <2>3 DEF Wait
    <3>2. TypeOK' /\ BoxFilled' /\ NoWaitBesideEvents'
      BY <3>1
    <3>3. WaitersAreBlocked'
      <4>1. \A i \in 1..Len(waiting) : waiting[i] # r
        BY <3>1
      <4>2. /\ Len(waiting') = Len(waiting) + 1
            /\ \A i \in 1..Len(waiting) : waiting'[i] = waiting[i]
            /\ waiting'[Len(waiting) + 1] = r
            /\ Len(waiting) \in Nat
        BY <3>1
      <4>3. \A i \in 1..Len(waiting') : pc'[waiting'[i]] = "blocked"
        BY <3>1, <4>1, <4>2
      <4>4. \A i, j \in 1..Len(waiting') : i # j => waiting'[i] # waiting'[j]
        BY <3>1, <4>1, <4>2
      <4>5. \A x \in Readers : pc'[x] = "blocked" =>
                \E i \in 1..Len(waiting') : waiting'[i] = x
        <5> TAKE x \in Readers
        <5>1. CASE x = r
          BY <4>2, <5>1
        <5>2. CASE x # r
          BY <3>1, <4>2, <5>2
        <5> QED BY <5>1, <5>2
      <4> QED BY <4>3, <4>4, <4>5
    <3> QED BY <3>2, <3>3
  <2>4. CASE Resume(r)
    <3>1. CASE pc[r] = "resumed"
      <4>1. /\ received' = Append(received, box[r])
            /\ box' = [box EXCEPT ![r] = NoEvent]
            /\ pc' = [pc EXCEPT ![r] = "next"]
            /\ UNCHANGED <<queue, waiting, done, resolved, sent>>
        BY <2>4, <3>1 DEF Resume
      <4>2. received' \in Seq(Events)
        BY <3>1, <4>1
      <4>3. box' \in [Readers -> Events \cup {NoEvent}]
        BY <4>1
      <4>4. pc' \in [Readers -> ReaderState]
        BY <4>1
      <4>5. TypeOK'
        BY <4>1, <4>2, <4>3, <4>4
      <4>6. BoxFilled' /\ NoWaitBesideEvents'
        BY <3>1, <4>1
      <4>7. WaitersAreBlocked'
        BY <3>1, <4>1
      <4> QED BY <4>5, <4>6, <4>7
    <3>2. CASE pc[r] = "ended"
      <4>1. /\ pc' = [pc EXCEPT ![r] = "returned"]
            /\ UNCHANGED <<queue, waiting, done, resolved, box, sent, received>>
        BY <2>4, <3>2 DEF Resume
      <4>2. TypeOK' /\ BoxFilled' /\ NoWaitBesideEvents'
        BY <3>2, <4>1
      <4>3. WaitersAreBlocked'
        BY <3>2, <4>1
      <4> QED BY <4>2, <4>3
    <3> QED BY <2>4, <3>1, <3>2 DEF Resume
  <2> QED BY <1>4, <2>1, <2>2, <2>3, <2>4 DEF Reader
<1> QED BY <1>1, <1>2, <1>3, <1>4 DEF Next

(* Whatever the readers, every variable keeps its type, the waiters are    *)
(* exactly the sleeping readers and none of them sleeps beside an event.   *)
THEOREM TypeCorrect == Spec => []TypeInv
<1>1. Init => TypeInv
  BY InitTypeInv
<1>2. TypeInv /\ [Next]_vars => TypeInv'
  BY StepTypeInv
<1> QED BY <1>1, <1>2, PTL DEF Spec
-----------------------------------------------------------------------------
(* The sole reader.                                                        *)
LEMMA MoveHead ==
  ASSUME NEW s \in Seq(Events), NEW q \in Seq(Events), q # << >>
  PROVE  s \o q = Append(s, Head(q)) \o Tail(q)
<1>1. /\ Head(q) \in Events /\ Tail(q) \in Seq(Events)
      /\ Len(Tail(q)) = Len(q) - 1 /\ Head(q) = q[1]
      /\ \A i \in 1..Len(Tail(q)) : Tail(q)[i] = q[i + 1]
      /\ Len(q) \in Nat \ {0} /\ Len(s) \in Nat
  BY HeadTailProperties, EmptySeq, LenProperties
<1> DEFINE t == Append(s, Head(q))
<1>2. /\ t \in Seq(Events) /\ Len(t) = Len(s) + 1
      /\ \A i \in 1..Len(s) : t[i] = s[i]
      /\ t[Len(s) + 1] = Head(q)
  BY <1>1, AppendProperties
<1>3. /\ s \o q \in Seq(Events) /\ Len(s \o q) = Len(s) + Len(q)
      /\ \A i \in 1..(Len(s) + Len(q)) :
            (s \o q)[i] = IF i <= Len(s) THEN s[i] ELSE q[i - Len(s)]
  BY ConcatProperties
<1>4. /\ t \o Tail(q) \in Seq(Events)
      /\ Len(t \o Tail(q)) = Len(t) + Len(Tail(q))
      /\ \A i \in 1..(Len(t) + Len(Tail(q))) :
            (t \o Tail(q))[i] = IF i <= Len(t) THEN t[i] ELSE Tail(q)[i - Len(t)]
  BY <1>1, <1>2, ConcatProperties
<1> HIDE DEF t
<1>5. Len(s \o q) = Len(t \o Tail(q))
  BY <1>1, <1>2, <1>3, <1>4
<1>6. ASSUME NEW i \in 1..Len(s \o q) PROVE (s \o q)[i] = (t \o Tail(q))[i]
  <2>1. CASE i <= Len(s)
    BY <1>1, <1>2, <1>3, <1>4, <2>1
  <2>2. CASE i = Len(s) + 1
    BY <1>1, <1>2, <1>3, <1>4, <2>2
  <2>3. CASE i > Len(s) + 1
    <3>1. i - Len(t) \in 1..Len(Tail(q)) /\ i - Len(t) + 1 = i - Len(s)
      BY <1>1, <1>2, <1>3, <2>3
    <3> QED BY <1>1, <1>2, <1>3, <1>4, <2>3, <3>1
  <2>4. i \in Int /\ Len(s) \in Int
    BY <1>1, <1>3
  <2>5. i <= Len(s) \/ i = Len(s) + 1 \/ i > Len(s) + 1
    BY <2>4
  <2> QED BY <2>1, <2>2, <2>3, <2>5
<1>7. s \o q = t \o Tail(q)
  BY <1>3, <1>4, <1>5, <1>6, SeqEqual
<1> QED BY <1>7 DEF t

LEMMA AppendConcat ==
  ASSUME NEW s \in Seq(Events), NEW q \in Seq(Events), NEW e \in Events
  PROVE  Append(s \o q, e) = s \o Append(q, e)
<1>1. Append(q, e) = q \o <<e>> /\ <<e>> \in Seq(Events)
  BY AppendIsConcat
<1>2. s \o q \in Seq(Events) /\ Append(s \o q, e) = (s \o q) \o <<e>>
  BY ConcatProperties, AppendIsConcat
<1>3. (s \o q) \o <<e>> = s \o (q \o <<e>>)
  BY <1>1, ConcatAssociative
<1> QED BY <1>1, <1>2, <1>3

(* What the sole reader of a stream is owed, with what makes it inductive: *)
(* a reader told there is no more has nothing left to take.                *)
EndedDrained ==
    \A r \in Readers : Readers = {r} /\ pc[r] = "ended" => done /\ queue = << >>

SoleInv == TypeInv /\ NothingLost /\ EndedDrained

LEMMA InitSoleInv == Init => SoleInv
<1> SUFFICES ASSUME Init PROVE NothingLost /\ EndedDrained
  BY InitTypeInv DEF SoleInv
<1>1. << >> \o << >> \o << >> = << >>
  BY ConcatEmptySeq, EmptySeq
<1>2. NothingLost
  BY <1>1 DEF Init, NothingLost, InBox
<1>3. EndedDrained
  BY DEF Init, EndedDrained
<1> QED BY <1>2, <1>3

LEMMA StepSoleInv == SoleInv /\ [Next]_vars => SoleInv'
<1> SUFFICES ASSUME SoleInv, [Next]_vars, NEW r \in Readers, Readers = {r}
             PROVE  /\ sent' = received' \o InBox(r)' \o queue'
                    /\ pc'[r] = "ended" => done' /\ queue' = << >>
  BY StepTypeInv DEF SoleInv, NothingLost, EndedDrained
<1> USE DEF InBox
<1>0. /\ TypeOK /\ BoxFilled /\ WaitersAreBlocked /\ NoWaitBesideEvents
      /\ sent = received \o InBox(r) \o queue
      /\ pc[r] = "ended" => done /\ queue = << >>
      /\ queue \in Seq(Events) /\ received \in Seq(Events)
      /\ received \o << >> = received /\ received \o queue \in Seq(Events)
      /\ pc[r] # "resumed" => sent = received \o queue
  <2>1. /\ TypeOK /\ BoxFilled /\ WaitersAreBlocked /\ NoWaitBesideEvents
        /\ sent = received \o InBox(r) \o queue
        /\ pc[r] = "ended" => done /\ queue = << >>
    BY DEF SoleInv, TypeInv, NothingLost, EndedDrained
  <2>2. queue \in Seq(Events) /\ received \in Seq(Events)
    BY <2>1 DEF TypeOK
  <2>3. received \o << >> = received /\ received \o queue \in Seq(Events)
    BY <2>2, ConcatEmptySeq, ConcatProperties
  <2> QED BY <2>1, <2>2, <2>3
<1>1. CASE UNCHANGED vars
  BY <1>0, <1>1 DEF vars
<1>2. ASSUME NEW e \in Events, Push(e)
      PROVE  /\ sent' = received' \o InBox(r)' \o queue'
             /\ pc'[r] = "ended" => done' /\ queue' = << >>
  <2>1. CASE waiting = << >>
    <3>1. /\ sent' = Append(sent, e) /\ queue' = Append(queue, e)
          /\ UNCHANGED <<pc, box, received>> /\ ~done
      BY <1>2, <2>1 DEF Push
    <3>2. /\ InBox(r) \in Seq(Events) /\ received \o InBox(r) \in Seq(Events)
      BY <1>0, ConcatProperties DEF BoxFilled
    <3>3. sent' = (received \o InBox(r)) \o Append(queue, e)
      BY <1>0, <3>1, <3>2, AppendConcat
    <3> QED BY <1>0, <3>1, <3>3
  <2>2. CASE waiting # << >>
    <3>1. Head(waiting) = r /\ pc[r] = "blocked" /\ queue = << >>
      <4>1. waiting[1] \in Readers /\ pc[waiting[1]] = "blocked"
        BY <1>0, <2>2 DEF TypeOK, WaitersAreBlocked
      <4> QED BY <1>0, <2>2, <4>1 DEF NoWaitBesideEvents
    <3>2. /\ sent' = Append(sent, e) /\ queue' = queue /\ received' = received
          /\ pc'[r] = "resumed" /\ box'[r] = e
      BY <1>0, <1>2, <2>2, <3>1 DEF Push, TypeOK
    <3>3. sent = received
      BY <1>0, <3>1
    <3>4. sent' = received \o <<e>>
      BY <1>0, <3>2, <3>3, AppendIsConcat
    <3>5. (received \o <<e>>) \o << >> = received \o <<e>>
      <4>1. received \o <<e>> \in Seq(Events)
        BY <1>0, ConcatProperties
      <4> QED BY <4>1, ConcatEmptySeq
    <3> QED BY <3>1, <3>2, <3>4, <3>5
  <2> QED BY <2>1, <2>2
<1>3. ASSUME NEW b \in BOOLEAN, End(b)
      PROVE  /\ sent' = received' \o InBox(r)' \o queue'
             /\ pc'[r] = "ended" => done' /\ queue' = << >>
  <2>1. /\ done' /\ UNCHANGED <<queue, box, sent, received>>
        /\ pc'[r] = IF pc[r] = "blocked" THEN "ended" ELSE pc[r]
    BY <1>3 DEF End
  <2>2. pc[r] = "blocked" => queue = << >>
    <3>1. pc[r] = "blocked" => \E i \in 1..Len(waiting) : waiting[i] = r
      BY <1>0 DEF WaitersAreBlocked
    <3>2. pc[r] = "blocked" => waiting # << >>
      BY <3>1
    <3> QED BY <1>0, <3>2 DEF NoWaitBesideEvents
  <2> QED BY <1>0, <2>1, <2>2
<1>4. ASSUME NEW x \in Readers, Reader(x)
      PROVE  /\ sent' = received' \o InBox(r)' \o queue'
             /\ pc'[r] = "ended" => done' /\ queue' = << >>
  <2>0. x = r
    OBVIOUS
  <2>1. CASE TakeQueued(r)
    <3>1. /\ pc[r] = "next" /\ queue # << >> /\ queue' = Tail(queue)
          /\ received' = Append(received, Head(queue)) /\ UNCHANGED <<pc, sent>>
      BY <2>1 DEF TakeQueued
    <3>2. sent' = received' \o queue'
      BY <1>0, <3>1, MoveHead
    <3>3. received' \o << >> = received'
      BY <1>0, <3>1, HeadTailProperties, AppendProperties, ConcatEmptySeq
    <3> QED BY <3>1, <3>2, <3>3
  <2>2. CASE Return(r)
    BY <1>0, <2>2 DEF Return, TypeOK
  <2>3. CASE Wait(r)
    BY <1>0, <2>3 DEF Wait, TypeOK
  <2>4. CASE Resume(r)
    <3>1. CASE pc[r] = "resumed"
      <4>1. /\ received' = Append(received, box[r]) /\ pc'[r] = "next"
            /\ UNCHANGED <<queue, sent>> /\ box[r] \in Events
        BY <1>0, <2>4, <3>1 DEF Resume, TypeOK, BoxFilled
      <4>2. received' = received \o <<box[r]>> /\ received' \in Seq(Events)
        BY <1>0, <4>1, AppendIsConcat, AppendProperties
      <4>3. received' \o << >> = received'
        BY <4>2, ConcatEmptySeq
      <4> QED BY <1>0, <3>1, <4>1, <4>2, <4>3
    <3>2. CASE pc[r] = "ended"
      BY <1>0, <2>4, <3>2 DEF Resume, TypeOK
    <3> QED BY <2>4, <3>1, <3>2 DEF Resume
  <2> QED BY <1>4, <2>0, <2>1, <2>2, <2>3, <2>4 DEF Reader
<1> QED BY <1>1, <1>2, <1>3, <1>4 DEF Next

(* A sole reader is given every event the stream accepted, in order.       *)
THEOREM Lossless == Spec => []NothingLost
<1>1. Init => SoleInv
  BY InitSoleInv
<1>2. SoleInv /\ [Next]_vars => SoleInv'
  BY StepSoleInv
<1>3. SoleInv => NothingLost
  BY DEF SoleInv
<1> QED BY <1>1, <1>2, <1>3, PTL DEF Spec
-----------------------------------------------------------------------------
LEMMA InitRefines ==
  ASSUME NEW r \in Readers, Readers = {r}
  PROVE  Init => Ch!CInit
  BY DEF Init, Ch!CInit, AllReturned

LEMMA StepRefines ==
  ASSUME NEW r \in Readers, Readers = {r}, SoleInv, [Next]_vars
  PROVE  [Ch!CNext]_Ch!cvars
<1>0. /\ AllReturned <=> pc[r] = "returned"
      /\ AllReturned' <=> pc'[r] = "returned"
  BY DEF AllReturned
<1>1. /\ TypeOK /\ BoxFilled /\ WaitersAreBlocked /\ NoWaitBesideEvents
      /\ sent = received \o InBox(r) \o queue
      /\ pc[r] = "ended" => done /\ queue = << >>
      /\ queue \in Seq(Events) /\ received \in Seq(Events)
  BY DEF SoleInv, TypeInv, NothingLost, EndedDrained, TypeOK
<1>2. CASE UNCHANGED vars
  <2>1. AllReturned' = AllReturned
    BY <1>2 DEF vars, AllReturned
  <2> QED BY <1>2, <2>1 DEF vars, Ch!cvars
<1>3. ASSUME NEW e \in Events, Push(e) PROVE Ch!CNext
  <2>1. ~done /\ sent' = Append(sent, e) /\ done' \in BOOLEAN /\ received' = received
    BY <1>3 DEF Push
  <2>2. AllReturned' = AllReturned
    <3>1. CASE waiting = << >>
      BY <1>3, <3>1 DEF Push, AllReturned
    <3>2. CASE waiting # << >>
      <4>1. waiting[1] = r /\ pc[r] = "blocked" /\ Head(waiting) = waiting[1]
        BY <1>1, <3>2 DEF TypeOK, WaitersAreBlocked
      <4>2. pc'[r] = "resumed"
        BY <1>1, <1>3, <3>2, <4>1 DEF Push, TypeOK
      <4> QED BY <4>1, <4>2 DEF AllReturned
    <3> QED BY <3>1, <3>2
  <2> QED BY <2>1, <2>2 DEF Ch!CNext, Ch!Send
<1>4. ASSUME NEW b \in BOOLEAN, End(b) PROVE Ch!CNext
  <2>1. /\ done' = TRUE /\ UNCHANGED <<sent, received>>
        /\ pc'[r] = "returned" <=> pc[r] = "returned"
    BY <1>4 DEF End
  <2>2. AllReturned' = AllReturned
    BY <1>0, <2>1 DEF AllReturned
  <2> QED BY <2>1, <2>2 DEF Ch!CNext, Ch!Close
<1>5. ASSUME NEW x \in Readers, Reader(x) PROVE [Ch!CNext]_Ch!cvars
  <2>0. x = r
    OBVIOUS
  <2>a. ASSUME NEW e \in Events, NEW rest \in Seq(Events),
               sent = received \o (<<e>> \o rest),
               received' = Append(received, e),
               UNCHANGED <<sent, done>>, ~AllReturned, ~AllReturned'
        PROVE  Ch!CNext
    <3>1. <<e>> \o rest \in Seq(Events) /\ (<<e>> \o rest)[1] = e
          /\ Len(<<e>> \o rest) = 1 + Len(rest) /\ Len(rest) \in Nat
      <4>1. <<e>> \in Seq(Events) /\ Len(<<e>>) = 1 /\ <<e>>[1] = e
        OBVIOUS
      <4> QED BY <4>1, ConcatProperties, LenProperties
    <3>2. /\ Len(sent) = Len(received) + Len(<<e>> \o rest)
          /\ sent[Len(received) + 1] = (<<e>> \o rest)[1]
      <4>1. Len(received) \in Nat
        BY <1>1, LenProperties
      <4>2. Len(received) + 1 \in 1..(Len(received) + Len(<<e>> \o rest))
        BY <3>1, <4>1
      <4> QED BY <1>1, <2>a, <3>1, <4>1, <4>2, ConcatProperties
    <3>3. Len(received) < Len(sent)
      BY <1>1, <3>1, <3>2
    <3>4. AllReturned' = AllReturned
      BY <2>a DEF AllReturned
    <3> QED BY <2>a, <3>1, <3>2, <3>3, <3>4 DEF Ch!CNext, Ch!Receive
  <2>1. CASE TakeQueued(r)
    <3>1. /\ pc[r] = "next" /\ queue # << >> /\ UNCHANGED <<pc, sent, done>>
          /\ received' = Append(received, Head(queue))
      BY <2>1 DEF TakeQueued
    <3>2. Head(queue) \in Events /\ Tail(queue) \in Seq(Events)
      BY <1>1, <3>1, HeadTailProperties
    <3>3. queue = <<Head(queue)>> \o Tail(queue)
      <4>1. << >> \o queue = Append(<< >>, Head(queue)) \o Tail(queue)
        BY <1>1, <3>1, MoveHead, EmptySeq
      <4> QED BY <1>1, <3>2, <4>1, ConcatEmptySeq
    <3>4. sent = received \o (<<Head(queue)>> \o Tail(queue))
      BY <1>1, <3>1, <3>3, ConcatEmptySeq DEF InBox
    <3> QED BY <1>0, <2>a, <3>1, <3>2, <3>4
  <2>2. CASE Return(r)
    <3>1. /\ pc[r] = "next" /\ queue = << >> /\ done /\ pc'[r] = "returned"
          /\ UNCHANGED <<done, sent, received>>
      BY <1>1, <2>2 DEF Return, TypeOK
    <3>2. received = sent
      BY <1>1, <3>1, ConcatEmptySeq DEF InBox
    <3>3. AllReturned' = TRUE
      BY <1>0, <3>1 DEF AllReturned
    <3> QED BY <3>1, <3>2, <3>3 DEF Ch!CNext, Ch!Finish
  <2>3. CASE Wait(r)
    <3>1. /\ pc[r] = "next" /\ pc'[r] = "blocked"
          /\ UNCHANGED <<done, sent, received>>
      BY <1>1, <2>3 DEF Wait, TypeOK
    <3>2. AllReturned' = AllReturned
      BY <1>0, <3>1 DEF AllReturned
    <3> QED BY <3>1, <3>2 DEF Ch!cvars
  <2>4. CASE Resume(r)
    <3>1. CASE pc[r] = "resumed"
      <4>1. /\ received' = Append(received, box[r]) /\ pc'[r] = "next"
            /\ UNCHANGED <<queue, sent, done>> /\ box[r] \in Events
        BY <1>1, <2>4, <3>1 DEF Resume, TypeOK, BoxFilled
      <4>2. sent = received \o (<<box[r]>> \o queue)
        <5>1. sent = (received \o <<box[r]>>) \o queue /\ <<box[r]>> \in Seq(Events)
          BY <1>1, <3>1, <4>1 DEF InBox
        <5>2. (received \o <<box[r]>>) \o queue = received \o (<<box[r]>> \o queue)
          BY <1>1, <5>1, ConcatAssociative
        <5> QED BY <5>1, <5>2
      <4> QED BY <1>0, <1>1, <2>a, <3>1, <4>1, <4>2
    <3>2. CASE pc[r] = "ended"
      <4>1. /\ pc'[r] = "returned" /\ done /\ queue = << >>
            /\ UNCHANGED <<done, sent, received>>
        BY <1>1, <2>4, <3>2 DEF Resume, TypeOK
      <4>2. received = sent
        BY <1>1, <3>2, <4>1, ConcatEmptySeq DEF InBox
      <4>3. AllReturned' = TRUE
        BY <1>0, <4>1 DEF AllReturned
      <4> QED BY <4>1, <4>2, <4>3, <1>1 DEF Ch!CNext, Ch!Finish, TypeOK
    <3> QED BY <2>4, <3>1, <3>2 DEF Resume
  <2> QED BY <1>5, <2>0, <2>1, <2>2, <2>3, <2>4 DEF Reader
<1> QED BY <1>2, <1>3, <1>4, <1>5 DEF Next

(* The stream is a faithful channel for the one reader each of its callers *)
(* in the code has.                                                        *)
THEOREM Refinement ==
  ASSUME NEW r \in Readers, Readers = {r}
  PROVE  Spec => ImplementsChannel
<1>1. Init => SoleInv /\ Ch!CInit
  BY InitSoleInv, InitRefines
<1>2. SoleInv /\ [Next]_vars => SoleInv'
  BY StepSoleInv
<1>3. SoleInv /\ [Next]_vars => [Ch!CNext]_Ch!cvars
  BY StepRefines
<1> QED BY <1>1, <1>2, <1>3, PTL DEF Spec, ImplementsChannel, Ch!CSpec
=============================================================================
