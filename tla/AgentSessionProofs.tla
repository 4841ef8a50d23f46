------------------------- MODULE AgentSessionProofs -------------------------
(***************************************************************************)
(* Proofs about AgentSession, for any number of messages, sessions and     *)
(* calls of prompt(): messages are stored once and in order, whoever calls *)
(* what; and, when prompts and answers take their time (Patient), retries  *)
(* and recoveries from an overflow are bounded.                            *)
(***************************************************************************)
EXTENDS AgentSession, SequenceTheorems, WellFoundedInduction, TLAPS

Spoken == Assistant \cup {"user", "toolResult"}
Kind == Spoken \cup {"recovery", "compaction"}
Ended == [type |-> "agent_end"]
Event == [type : {"message"}, message : Spot] \cup [type : {"agent_end"}]
Entry == Spot \cup CompactionEntry
Compaction == [step : {"none", "waiting", "key", "summary"},
               reason : {"none", "overflow", "threshold", "manual"},
               of : Nat, base : Nat, kept : Nat]

(* What is known of the compactions in progress: who runs which.           *)
CompactingTypes ==
    /\ compacting \in [Compactor -> Compaction]
    /\ \A k \in Automatic : /\ compacting[k].reason # "manual"
                            /\ compacting[k].step # "waiting"
                            /\ compacting[k].step = "none" => compacting[k] = NoCompaction
                            /\ compacting[k].step # "none" => compacting[k].reason # "none"
    /\ compacting["manual"].reason \in {"none", "manual"}
    /\ compacting["manual"].step = "summary" => compacting["manual"].reason = "manual"
    /\ compacting["manual"].step = "key" => compacting["manual"].reason = "manual"

EventTypes ==
    /\ events \in Seq(Event)
    /\ handler \in {"ready", "sleeping", "cancelled", "compacting"}
    /\ handler # "ready" => events # << >>
    /\ compacting["queue"].step # "none" => handler = "compacting"
    /\ lastAssistant \in Spot \cup {None}

(* The types of all that decides what is stored, retried and compacted     *)
(* again.                                                                  *)
TypeInv ==
    /\ run \in {"idle", "request", "tool"}
    /\ queued \in Nat /\ timers \in Nat
    /\ retryAttempt \in 0 .. MaxRetries
    /\ overflowRecoveryAttempted \in BOOLEAN
    /\ CompactingTypes
    /\ EventTypes
    /\ files \in Seq(Seq(Entry)) /\ file = Len(files) /\ file >= 1
    /\ history \in Seq(Kind)
-----------------------------------------------------------------------------
LEMMA LatestCompactionType ==
    ASSUME NEW log \in Seq(Entry)
    PROVE  LatestCompaction(log) \in Nat
<1>1. CASE Compactions(log) = {}
  BY <1>1 DEF LatestCompaction
<1>2. CASE Compactions(log) # {}
  <2>1. Compactions(log) \in SUBSET (1 .. Len(log)) /\ Len(log) \in Nat
    BY DEF Compactions
  <2> DEFINE at == CHOOSE i \in Compactions(log) : \A j \in Compactions(log) : j <= i
  <2>2. \E i \in Compactions(log) : \A j \in Compactions(log) : j <= i
    <3> DEFINE FromEnd == {Len(log) - i : i \in Compactions(log)}
    <3>1. FromEnd \subseteq Nat /\ FromEnd # {}
      BY <1>2, <2>1
    <3>2. PICK d \in FromEnd : \A e \in FromEnd : <<e, d>> \notin OpToRel(<, Nat)
      <4> HIDE DEF FromEnd
      <4> QED BY <3>1, NatLessThanWellFounded, WFMin
    <3>3. PICK i \in Compactions(log) : d = Len(log) - i
      BY <3>2
    <3>4. ASSUME NEW j \in Compactions(log) PROVE j <= i
      <4>1. Len(log) - j \in FromEnd /\ Len(log) - j \in Nat /\ d \in Nat
        BY <3>1, <3>2
      <4>2. ~(Len(log) - j < d)
        <5> HIDE DEF FromEnd
        <5> QED BY <3>2, <4>1 DEF OpToRel
      <4> QED BY <2>1, <3>3, <4>2
    <3> QED BY <3>3, <3>4
  <2>3. at \in Compactions(log)
    BY <2>2
  <2>4. log[at] \in Entry
    BY <2>1, <2>3
  <2>5. log[at].id \in Nat
    BY <2>4 DEF Entry, Spot, CompactionEntry
  <2> QED BY <1>2, <2>5 DEF LatestCompaction
<1> QED BY <1>1, <1>2

LEMMA Joined ==
    ASSUME NEW S, NEW s \in Seq(S), NEW t \in Seq(S)
    PROVE  /\ s \o t \in Seq(S) /\ Len(s \o t) = Len(s) + Len(t)
           /\ \A i \in 1 .. Len(s) : (s \o t)[i] = s[i]
           /\ \A i \in 1 .. Len(t) : (s \o t)[Len(s) + i] = t[i]
<1>1. s \in Seq(S) /\ t \in Seq(S) /\ Len(s) \in Nat /\ Len(t) \in Nat
  OBVIOUS
<1> QED BY <1>1
-----------------------------------------------------------------------------
(* What it is to say messages of these kinds, and to end the run then.     *)
IsMessage(e) == e.type = "message"
Tell(kinds, ends) == MessageEvents(kinds) \o (IF ends THEN <<Ended>> ELSE << >>)

Spoke(kinds, ends) ==
    /\ history' \in Seq(Kind)
    /\ Len(history') = Len(history) + Len(kinds)
    /\ \A i \in 1 .. Len(history) : history'[i] = history[i]
    /\ \A i \in 1 .. Len(kinds) : history'[Len(history) + i] = kinds[i]
    /\ events' \in Seq(Event)
    /\ \/ events' = events /\ ~connected
       \/ /\ Len(events') = Len(events) + Len(kinds) + (IF ends THEN 1 ELSE 0)
          /\ \A i \in 1 .. Len(events) : events'[i] = events[i]
          /\ \A i \in 1 .. Len(kinds) :
               /\ IsMessage(events'[Len(events) + i])
               /\ events'[Len(events) + i].message.id = Len(history) + i
               /\ events'[Len(events) + i].message.kind = kinds[i]
          /\ ends => events'[Len(events')] = Ended

LEMMA MessageEventsAre ==
    ASSUME TypeInv, NEW kinds \in Seq(Spoken)
    PROVE  /\ MessageEvents(kinds) \in Seq(Event)
           /\ Len(MessageEvents(kinds)) = Len(kinds)
           /\ \A i \in 1 .. Len(kinds) :
                /\ IsMessage(MessageEvents(kinds)[i])
                /\ MessageEvents(kinds)[i].message.id = Len(history) + i
                /\ MessageEvents(kinds)[i].message.kind = kinds[i]
<1> DEFINE es == [i \in 1 .. Len(kinds) |->
                    [type |-> "message",
                     message |-> [id |-> Len(history) + i, kind |-> kinds[i], of |-> file]]]
<1>1. DOMAIN kinds = 1 .. Len(kinds) /\ Len(kinds) \in Nat /\ Len(history) \in Nat /\ file \in Nat
  BY DEF TypeInv
<1>2. MessageEvents(kinds) = es
  <2>1. \A i \in 1 .. Len(kinds) : clock + i - 1 = Len(history) + i
    BY <1>1 DEF clock
  <2>2. DOMAIN Said(kinds) = 1 .. Len(kinds)
    BY <1>1 DEF Said
  <2>3. \A i \in 1 .. Len(kinds) :
           Said(kinds)[i] = [id |-> Len(history) + i, kind |-> kinds[i], of |-> file]
    BY <1>1, <2>1 DEF Said
  <2> QED BY <1>1, <2>3 DEF MessageEvents
<1>3. \A i \in 1 .. Len(kinds) : es[i] \in Event
  <2> SUFFICES ASSUME NEW i \in 1 .. Len(kinds) PROVE es[i] \in Event
    OBVIOUS
  <2>1. kinds[i] \in Spoken /\ Len(history) + i \in Nat
    BY <1>1
  <2>2. [id |-> Len(history) + i, kind |-> kinds[i], of |-> file] \in Spot
    BY <1>1, <2>1 DEF Spot, Spoken
  <2> QED BY <2>2 DEF Event
<1>4. es \in Seq(Event) /\ Len(es) = Len(kinds)
  BY <1>1, <1>3
<1> QED BY <1>2, <1>4 DEF IsMessage

LEMMA TellIs ==
    ASSUME TypeInv, NEW kinds \in Seq(Spoken), NEW ends \in BOOLEAN
    PROVE  /\ Tell(kinds, ends) \in Seq(Event)
           /\ Len(Tell(kinds, ends)) = Len(kinds) + (IF ends THEN 1 ELSE 0)
           /\ \A i \in 1 .. Len(kinds) :
                /\ IsMessage(Tell(kinds, ends)[i])
                /\ Tell(kinds, ends)[i].message.id = Len(history) + i
                /\ Tell(kinds, ends)[i].message.kind = kinds[i]
           /\ ends => Tell(kinds, ends)[Len(kinds) + 1] = Ended
<1> DEFINE ms == MessageEvents(kinds)
<1>1. /\ ms \in Seq(Event) /\ Len(ms) = Len(kinds)
      /\ \A i \in 1 .. Len(kinds) : /\ IsMessage(ms[i])
                                    /\ ms[i].message.id = Len(history) + i
                                    /\ ms[i].message.kind = kinds[i]
  BY MessageEventsAre
<1> HIDE DEF ms
<1>2. Ended \in Event
  BY DEF Event, Ended
<1>3. CASE ends
  <2> DEFINE all == Append(ms, Ended)
  <2>1. Tell(kinds, ends) = all
    BY <1>1, <1>2, <1>3 DEF Tell, ms
  <2>2. /\ all \in Seq(Event) /\ Len(all) = Len(ms) + 1
        /\ \A i \in 1 .. Len(ms) : all[i] = ms[i]
        /\ all[Len(ms) + 1] = Ended
    BY <1>1, <1>2
  <2> HIDE DEF all
  <2> QED BY <1>1, <1>3, <2>1, <2>2
<1>4. CASE ~ends
  <2>1. Tell(kinds, ends) = ms
    BY <1>1, <1>4 DEF Tell, ms
  <2>2. Len(kinds) \in Nat
    OBVIOUS
  <2> QED BY <1>1, <1>4, <2>1, <2>2
<1> QED BY <1>3, <1>4

LEMMA SpeakingSpoke ==
    ASSUME TypeInv, NEW kinds \in Seq(Spoken), NEW ends \in BOOLEAN,
           history' = history \o kinds, Publish(Tell(kinds, ends))
    PROVE  Spoke(kinds, ends)
<1> DEFINE tail == Tell(kinds, ends)
<1>1. /\ tail \in Seq(Event) /\ Len(tail) = Len(kinds) + (IF ends THEN 1 ELSE 0)
      /\ \A i \in 1 .. Len(kinds) : /\ IsMessage(tail[i])
                                    /\ tail[i].message.id = Len(history) + i
                                    /\ tail[i].message.kind = kinds[i]
      /\ ends => tail[Len(kinds) + 1] = Ended
  BY TellIs
<1> HIDE DEF tail
<1>2. kinds \in Seq(Kind) /\ history \in Seq(Kind) /\ events \in Seq(Event)
  BY SeqMonotonic DEF TypeInv, EventTypes, Kind
<1>3. /\ history' \in Seq(Kind) /\ Len(history') = Len(history) + Len(kinds)
      /\ \A i \in 1 .. Len(history) : history'[i] = history[i]
      /\ \A i \in 1 .. Len(kinds) : history'[Len(history) + i] = kinds[i]
  BY <1>2, Joined
<1>4. CASE ~connected
  BY <1>2, <1>3, <1>4 DEF Publish, Spoke
<1>5. CASE connected
  <2>1. events' = events \o tail
    BY <1>5 DEF Publish, tail
  <2>2. /\ events' \in Seq(Event) /\ Len(events') = Len(events) + Len(tail)
        /\ \A i \in 1 .. Len(events) : events'[i] = events[i]
        /\ \A i \in 1 .. Len(tail) : events'[Len(events) + i] = tail[i]
    <3> tail \in Seq(Event) /\ events \in Seq(Event)
      BY <1>1, <1>2
    <3> QED BY <2>1, Joined
  <2>3. Len(kinds) \in Nat /\ Len(events) \in Nat
    BY <1>2
  <2>4. \A i \in 1 .. Len(kinds) : events'[Len(events) + i] = tail[i]
    <3>1. Len(kinds) <= Len(tail) /\ Len(tail) \in Nat
      BY <1>1, <2>3
    <3> QED BY <2>2, <2>3, <3>1
  <2>5. ends => events'[Len(events')] = Ended
    <3> SUFFICES ASSUME ends PROVE events'[Len(events')] = Ended
      OBVIOUS
    <3>1. Len(tail) = Len(kinds) + 1 /\ tail[Len(tail)] = Ended
      BY <1>1
    <3>2. events'[Len(events) + Len(tail)] = tail[Len(tail)]
      BY <2>2, <2>3, <3>1
    <3> QED BY <2>2, <3>1, <3>2
  <2>6. Len(events') = Len(events) + Len(kinds) + (IF ends THEN 1 ELSE 0)
    <3>1. CASE ends
      BY <1>1, <2>2, <2>3, <3>1
    <3>2. CASE ~ends
      BY <1>1, <2>2, <2>3, <3>2
    <3> QED BY <3>1, <3>2
  <2>7. \A i \in 1 .. Len(kinds) : /\ IsMessage(events'[Len(events) + i])
                                  /\ events'[Len(events) + i].message.id = Len(history) + i
                                  /\ events'[Len(events) + i].message.kind = kinds[i]
    BY <1>1, <2>4
  <2> QED BY <1>3, <2>2, <2>5, <2>6, <2>7 DEF Spoke
<1> QED BY <1>4, <1>5
-----------------------------------------------------------------------------
(* The steps that say something, in those words.                           *)
Responded(kind, kinds, ends) ==
    /\ Spoke(kinds, ends)
    /\ Len(kinds) \in 1 .. 2 /\ kinds[1] = kind
    /\ Len(kinds) = 2 => kind \in Answers /\ kinds[2] = "user"
    /\ ends = (Len(kinds) = 1 /\ kind # "toolUse")
    /\ run' \in {"idle", "request", "tool"}
    /\ run' = "idle" <=> ends

Started(kinds) ==
    /\ Spoke(kinds, FALSE)
    /\ \A i \in 1 .. Len(kinds) : kinds[i] = "user"
    /\ run = "idle" /\ run' = "request"

Threw ==
    /\ \E kind \in Unannounced : history' = Append(history, kind)
    /\ \/ events' = events
       \/ events' = Append(events, Ended)
    /\ run' = "idle"

LEMMA PolledIs == ASSUME TypeInv
                  PROVE  /\ Polled \in Seq({"user"}) /\ Len(Polled) \in 0 .. 1
                         /\ queued - Len(Polled) \in Nat
<1>1. CASE queued > 0
  <2>1. Polled = <<"user">>
    BY <1>1 DEF Polled
  <2> QED BY <1>1, <2>1 DEF TypeInv
<1>2. CASE ~(queued > 0)
  <2>1. Polled = << >>
    BY <1>2 DEF Polled
  <2> QED BY <2>1 DEF TypeInv
<1> QED BY <1>1, <1>2

LEMMA RespondSays ==
    ASSUME TypeInv, NEW kind \in Assistant \ Unannounced, Respond(kind)
    PROVE  /\ \E kinds \in Seq(Spoken), ends \in BOOLEAN : Responded(kind, kinds, ends)
           /\ queued' \in Nat
<1> DEFINE polled == IF kind \in Answers THEN Polled ELSE << >>
           said == <<kind>> \o polled
           ends == Len(said) = 1 /\ kind # "toolUse"
<1>1. polled \in Seq({"user"}) /\ Len(polled) \in 0 .. 1 /\ queued - Len(polled) \in Nat
  BY PolledIs DEF TypeInv
<1>2. Len(polled) = 1 => kind \in Answers
  OBVIOUS
<1>3. /\ history' = history \o said
      /\ Publish(MessageEvents(said) \o IF kind = "toolUse" \/ Len(said) > 1
                                        THEN << >> ELSE <<Ended>>)
      /\ queued' = queued - (Len(said) - 1)
      /\ run' = IF kind = "toolUse" \/ Len(said) > 1
                THEN IF kind = "toolUse" THEN "tool" ELSE "request"
                ELSE "idle"
  BY DEF Respond, Say, EndOfRun, Ended
<1> HIDE DEF polled
<1>4. /\ said \in Seq(Spoken) /\ Len(said) = 1 + Len(polled)
      /\ said[1] = kind
      /\ Len(said) = 2 => said[2] = "user"
  BY <1>1 DEF Spoken
<1> HIDE DEF said
<1>5. Publish(Tell(said, ends))
  BY <1>1, <1>3, <1>4 DEF Tell
<1>6. Spoke(said, ends)
  BY <1>3, <1>4, <1>5, SpeakingSpoke
<1>7. Responded(kind, said, ends)
  <2>1. Len(said) \in 1 .. 2 /\ (Len(said) = 2 => kind \in Answers)
    <3>1. Len(polled) \in 0 .. 1 /\ Len(said) = 1 + Len(polled)
      BY <1>1, <1>4
    <3>2. CASE Len(polled) = 0
      BY <3>1, <3>2
    <3>3. CASE Len(polled) = 1
      BY <1>2, <3>1, <3>3
    <3> QED BY <3>1, <3>2, <3>3
  <2>2. run' \in {"idle", "request", "tool"} /\ (run' = "idle" <=> ends)
    <3>1. CASE kind = "toolUse"
      BY <1>3, <3>1
    <3>2. CASE kind # "toolUse" /\ Len(said) = 2
      BY <1>3, <3>2
    <3>3. CASE kind # "toolUse" /\ Len(said) = 1
      BY <1>3, <3>3
    <3> QED BY <2>1, <3>1, <3>2, <3>3
  <2> QED BY <1>4, <1>6, <2>1, <2>2 DEF Responded
<1>8. queued' \in Nat
  BY <1>1, <1>3, <1>4
<1>9. ends \in BOOLEAN
  OBVIOUS
<1> HIDE DEF ends
<1> QED BY <1>4, <1>7, <1>8, <1>9

LEMMA StartSays ==
    ASSUME TypeInv, NEW kinds \in Seq({"user"}), StartRun(kinds)
    PROVE  /\ \E said \in Seq(Spoken) : Started(said)
           /\ queued' \in Nat
<1> DEFINE said == kinds \o Polled
<1>1. said \in Seq({"user"})
  BY PolledIs
<1>2. /\ history' = history \o said /\ Publish(MessageEvents(said))
      /\ run = "idle" /\ run' = "request" /\ queued' = queued - Len(Polled)
  BY DEF StartRun, Say
<1> HIDE DEF said
<1>3. said \in Seq(Spoken)
  BY <1>1 DEF Spoken
<1>4. Tell(said, FALSE) = MessageEvents(said)
  BY <1>3, MessageEventsAre DEF Tell
<1>5. Spoke(said, FALSE)
  BY <1>2, <1>3, <1>4, SpeakingSpoke
<1>6. Started(said)
  <2>1. \A i \in 1 .. Len(said) : said[i] = "user"
    BY <1>1
  <2> QED BY <1>2, <1>5, <2>1 DEF Started
<1> QED BY <1>2, <1>3, <1>6, PolledIs

LEMMA FinishSays ==
    ASSUME TypeInv, FinishTools
    PROVE  /\ \E said \in Seq(Spoken) : /\ Spoke(said, FALSE) /\ Len(said) > 0
                                        /\ \A i \in 1 .. Len(said) :
                                             said[i] \in {"toolResult", "user"}
           /\ queued' \in Nat /\ run = "tool" /\ run' = "request"
<1> DEFINE said == <<"toolResult">> \o Polled
<1>1. said \in Seq({"toolResult", "user"}) /\ Len(said) > 0
  BY PolledIs
<1>2. /\ history' = history \o said /\ Publish(MessageEvents(said))
      /\ queued' = queued - Len(Polled)
  BY DEF FinishTools, Say
<1> HIDE DEF said
<1>3. said \in Seq(Spoken)
  BY <1>1 DEF Spoken
<1>4. Tell(said, FALSE) = MessageEvents(said)
  BY <1>3, MessageEventsAre DEF Tell
<1>5. Spoke(said, FALSE)
  BY <1>2, <1>3, <1>4, SpeakingSpoke
<1>6. \A i \in 1 .. Len(said) : said[i] \in {"toolResult", "user"}
  BY <1>1
<1>7. queued' \in Nat
  BY <1>2, PolledIs
<1>8. run = "tool" /\ run' = "request"
  BY DEF FinishTools
<1> QED BY <1>1, <1>3, <1>5, <1>6, <1>7, <1>8

LEMMA ThrowSays ==
    ASSUME NEW mayPass \in BOOLEAN, RunThrows(mayPass)
    PROVE  Threw
BY DEF RunThrows, Threw, Say, Publish, EndOfRun, Unannounced, Ended
-----------------------------------------------------------------------------
LEMMA CompactingChanges ==
    ASSUME CompactingTypes, NEW k \in Compactor, NEW c \in Compaction,
           compacting' = [compacting EXCEPT ![k] = c],
           k \in Automatic => /\ c.reason # "manual" /\ c.step # "waiting"
                              /\ c.step = "none" => c = NoCompaction
                              /\ c.step # "none" => c.reason # "none",
           k = "manual" => /\ c.reason \in {"none", "manual"}
                           /\ c.step \in {"key", "summary"} => c.reason = "manual"
    PROVE  /\ CompactingTypes'
           /\ compacting'[k] = c
           /\ \A l \in Compactor \ {k} : compacting'[l] = compacting[l]
<1>1. /\ compacting' \in [Compactor -> Compaction] /\ compacting'[k] = c
      /\ \A l \in Compactor \ {k} : compacting'[l] = compacting[l]
  BY DEF CompactingTypes
<1>2. Automatic \subseteq Compactor /\ "manual" \in Compactor /\ ~("manual" \in Automatic)
  BY CallerAssumption DEF Automatic, Compactor
<1>3. \A l \in Automatic : /\ compacting'[l].reason # "manual"
                           /\ compacting'[l].step # "waiting"
                           /\ compacting'[l].step = "none" => compacting'[l] = NoCompaction
                           /\ compacting'[l].step # "none" => compacting'[l].reason # "none"
  <2> TAKE l \in Automatic
  <2>1. CASE l = k
    BY <1>1, <2>1
  <2>2. CASE l # k
    BY <1>1, <1>2, <2>2 DEF CompactingTypes
  <2> QED BY <2>1, <2>2
<1>4. /\ compacting'["manual"].reason \in {"none", "manual"}
      /\ compacting'["manual"].step = "summary" => compacting'["manual"].reason = "manual"
      /\ compacting'["manual"].step = "key" => compacting'["manual"].reason = "manual"
  <2>1. CASE k = "manual"
    BY <1>1, <2>1
  <2>2. CASE k # "manual"
    BY <1>1, <1>2, <2>2 DEF CompactingTypes
  <2> QED BY <2>1, <2>2
<1> QED BY <1>1, <1>3, <1>4 DEF CompactingTypes

(* A compaction is begun for a reason, and for an overflow only when none  *)
(* was since the last message that allows it.                              *)
LEMMA ReasonIs ==
    ASSUME NEW m, NEW skipAborted \in BOOLEAN
    PROVE  /\ CompactionReason(m, skipAborted) \in {"none", "overflow", "threshold"}
           /\ CompactionReason(m, skipAborted) = "overflow" => ~overflowRecoveryAttempted
<1> DEFINE past == \/ skipAborted /\ m.kind = "aborted"
                   \/ m.id < LatestCompaction(files[file])
           over == OverThreshold(m)
<1>1. CompactionReason(m, skipAborted) =
        CASE past -> "none"
          [] m.kind = "overflow" -> IF overflowRecoveryAttempted THEN "none" ELSE "overflow"
          [] OTHER -> IF over THEN "threshold" ELSE "none"
  BY DEF CompactionReason
<1> HIDE DEF past, over
<1>2. CASE past /\ m.kind # "overflow"
  BY <1>1, <1>2
<1>3. CASE past /\ m.kind = "overflow"
  BY <1>1, <1>3
<1>4. CASE ~past /\ m.kind = "overflow"
  BY <1>1, <1>4
<1>5. CASE ~past /\ m.kind # "overflow"
  BY <1>1, <1>5
<1> QED BY <1>2, <1>3, <1>4, <1>5

(* A compaction of k begins.                                               *)
Begun(why) == [NoCompaction EXCEPT !.step = "key", !.reason = why]

LEMMA CheckIs ==
    ASSUME TypeInv, NEW k \in Automatic, NEW m, NEW skipAborted \in BOOLEAN,
           NEW why, why = CompactionReason(m, skipAborted), CheckCompaction(k, why)
    PROVE  /\ why \in {"none", "overflow", "threshold"}
           /\ CompactingTypes' /\ overflowRecoveryAttempted' \in BOOLEAN
           /\ why = "none" => UNCHANGED <<compacting, overflowRecoveryAttempted>>
           /\ why # "none" => /\ compacting'[k] = Begun(why)
                              /\ \A l \in Compactor \ {k} : compacting'[l] = compacting[l]
                              /\ overflowRecoveryAttempted'
                                   = (overflowRecoveryAttempted \/ why = "overflow")
           /\ why = "overflow" => ~overflowRecoveryAttempted
<1>1. /\ why \in {"none", "overflow", "threshold"}
      /\ why = "overflow" => ~overflowRecoveryAttempted
  BY ReasonIs
<1>2. CASE why = "none"
  <2>1. UNCHANGED compacting /\ UNCHANGED overflowRecoveryAttempted
    BY <1>2 DEF CheckCompaction, compactionVars
  <2> QED BY <1>2, <2>1 DEF TypeInv, CompactingTypes
<1>3. CASE why # "none"
  <2>1. /\ compacting' = [compacting EXCEPT ![k] = Begun(why)]
        /\ overflowRecoveryAttempted' = (overflowRecoveryAttempted \/ why = "overflow")
    BY <1>3 DEF CheckCompaction, Begun
  <2>2. Begun(why) \in Compaction /\ Begun(why).step = "key" /\ Begun(why).reason = why
    BY <1>1, <1>3 DEF Begun, NoCompaction, Compaction
  <2>3. k \in Compactor /\ k # "manual"
    BY CallerAssumption DEF Automatic, Compactor
  <2>4. /\ CompactingTypes' /\ compacting'[k] = Begun(why)
        /\ \A l \in Compactor \ {k} : compacting'[l] = compacting[l]
    BY <1>1, <1>3, <2>1, <2>2, <2>3, CompactingChanges DEF TypeInv
  <2> QED BY <1>1, <1>3, <2>1, <2>4 DEF TypeInv
<1> QED BY <1>2, <1>3
-----------------------------------------------------------------------------
(* The steps that take an event from the queue, and those that end a       *)
(* compaction.                                                             *)
LEMMA TailIs ==
    ASSUME NEW S, NEW s \in Seq(S), s # << >>
    PROVE  /\ Tail(s) \in Seq(S) /\ Len(Tail(s)) = Len(s) - 1 /\ Len(s) > 0
           /\ Head(s) = s[1] /\ s[1] \in S
           /\ \A i \in 1 .. Len(s) - 1 : Tail(s)[i] = s[i + 1]
<1>1. s \in Seq(S) /\ s # << >> /\ Len(s) \in Nat /\ Len(s) > 0
  OBVIOUS
<1> QED BY <1>1

LEMMA DoneTypes ==
    ASSUME TypeInv, Done, handler # "ready" \/ events # << >>,
           compacting'["queue"].step = "none"
    PROVE  EventTypes'
<1>1. events \in Seq(Event) /\ events # << >>
  BY DEF TypeInv, EventTypes
<1>2. Tail(events) \in Seq(Event)
  BY <1>1, TailIs
<1> QED BY <1>2 DEF Done, EventTypes

LEMMA ReleaseTypes ==
    ASSUME TypeInv, NEW k \in Compactor, Release(k), compacting[k].step # "none"
    PROVE  /\ CompactingTypes' /\ EventTypes' /\ compacting'[k] = NoCompaction
           /\ \A l \in Compactor \ {k} : compacting'[l] = compacting[l]
           /\ IF k = "queue" THEN Done ELSE UNCHANGED <<events, handler, lastAssistant>>
<1>1. NoCompaction \in Compaction /\ NoCompaction.step = "none" /\ NoCompaction.reason = "none"
  BY DEF NoCompaction, Compaction
<1>2. compacting' = [compacting EXCEPT ![k] = NoCompaction]
  BY DEF Release
<1>3. /\ CompactingTypes' /\ compacting'[k] = NoCompaction
      /\ \A l \in Compactor \ {k} : compacting'[l] = compacting[l]
  BY <1>1, <1>2, CompactingChanges DEF TypeInv
<1>4. IF k = "queue" THEN Done ELSE UNCHANGED <<events, handler, lastAssistant>>
  BY DEF Release
<1>5. EventTypes'
  <2>1. CASE k = "queue"
    <3>1. handler # "ready"
      BY <2>1 DEF TypeInv, EventTypes
    <3> QED BY <1>1, <1>3, <1>4, <2>1, <3>1, DoneTypes
  <2>2. CASE k # "queue"
    <3>1. "queue" \in Compactor
      BY DEF Compactor, Automatic
    <3>2. compacting'["queue"] = compacting["queue"]
      BY <1>3, <2>2, <3>1
    <3> QED BY <1>4, <2>2, <3>2 DEF TypeInv, EventTypes
  <2> QED BY <2>1, <2>2
<1> QED BY <1>3, <1>4, <1>5

(* What the end of a run may do: the event is done with, or a compaction   *)
(* begins.                                                                 *)
Reviewed(why) ==
    /\ why = "none" => /\ Done
                       /\ UNCHANGED <<compacting, overflowRecoveryAttempted>>
    /\ why # "none" => /\ handler' = "compacting" /\ UNCHANGED <<events, lastAssistant>>
                       /\ compacting'["queue"] = Begun(why)
                       /\ \A l \in Compactor \ {"queue"} : compacting'[l] = compacting[l]
                       /\ overflowRecoveryAttempted'
                            = (overflowRecoveryAttempted \/ why = "overflow")

LEMMA ReviewIs ==
    ASSUME TypeInv, handler # "compacting", events # << >>,
           ReviewRun \/ (Done /\ UNCHANGED compactionVars)
    PROVE  /\ \E why \in {"none", "overflow", "threshold"} :
                /\ Reviewed(why)
                /\ why = "overflow" => ~overflowRecoveryAttempted
           /\ CompactingTypes' /\ EventTypes' /\ overflowRecoveryAttempted' \in BOOLEAN
<1>1. "queue" \in Automatic /\ "queue" \in Compactor /\ compacting["queue"].step = "none"
  BY DEF Automatic, Compactor, TypeInv, EventTypes
<1>2. CASE ReviewRun
  <2> DEFINE why == CompactionReason(lastAssistant, TRUE)
  <2>1. /\ CheckCompaction("queue", why)
        /\ IF why = "none" THEN Done
           ELSE handler' = "compacting" /\ UNCHANGED <<events, lastAssistant>>
    BY <1>2 DEF ReviewRun
  <2>2. /\ why \in {"none", "overflow", "threshold"}
        /\ CompactingTypes' /\ overflowRecoveryAttempted' \in BOOLEAN
        /\ why = "none" => UNCHANGED <<compacting, overflowRecoveryAttempted>>
        /\ why # "none" => /\ compacting'["queue"] = Begun(why)
                           /\ \A l \in Compactor \ {"queue"} : compacting'[l] = compacting[l]
                           /\ overflowRecoveryAttempted'
                                = (overflowRecoveryAttempted \/ why = "overflow")
        /\ why = "overflow" => ~overflowRecoveryAttempted
    BY <1>1, <2>1, CheckIs
  <2> HIDE DEF why
  <2>3. Reviewed(why)
    BY <2>1, <2>2 DEF Reviewed
  <2>4. EventTypes'
    <3>1. CASE why = "none"
      BY <1>1, <2>1, <2>2, <3>1, DoneTypes
    <3>2. CASE why # "none"
      BY <2>1, <3>2 DEF EventTypes, TypeInv
    <3> QED BY <3>1, <3>2
  <2> QED BY <2>2, <2>3, <2>4
<1>3. CASE Done /\ UNCHANGED compactionVars
  <2>1. UNCHANGED compacting /\ UNCHANGED overflowRecoveryAttempted
    BY <1>3 DEF compactionVars
  <2>2. EventTypes'
    BY <1>1, <1>3, <2>1, DoneTypes
  <2>3. Reviewed("none")
    BY <1>3, <2>1 DEF Reviewed
  <2> QED BY <2>1, <2>2, <2>3 DEF TypeInv, CompactingTypes
<1> QED BY <1>2, <1>3
-----------------------------------------------------------------------------
(* The steps of the specification, by what they do to the queue, the       *)
(* files, the retries and the compactions.                                 *)
Storing == <<files, file>>
Deciding == <<retryAttempt, overflowRecoveryAttempted, compacting>>
Handling == <<handler, lastAssistant>>

RespondStep ==
    /\ run = "request" /\ Unhasty
    /\ \E kind \in Assistant \ Unannounced, kinds \in Seq(Spoken), ends \in BOOLEAN :
         Responded(kind, kinds, ends)
    /\ UNCHANGED <<timers, Storing, Deciding, Handling>>

ThrowStep ==
    /\ run # "idle" /\ Unhasty /\ Threw
    /\ UNCHANGED <<timers, Storing, Deciding, Handling>>

FinishStep ==
    /\ run = "tool" /\ run' = "request"
    /\ \E said \in Seq(Spoken) : /\ Spoke(said, FALSE) /\ Len(said) > 0
                                 /\ \A i \in 1 .. Len(said) : said[i] \in {"toolResult", "user"}
    /\ UNCHANGED <<timers, Storing, Deciding, Handling>>

StartStep ==
    /\ \E said \in Seq(Spoken) :
         /\ Started(said)
         /\ \/ timers > 0 /\ timers' = timers - 1
            \/ timers' = timers /\ (Patient => Calm) /\ Len(said) > 0
    /\ UNCHANGED <<Storing, Deciding, Handling>>

(* Nothing is said, stored or handled; a retry may be cancelled, a timer   *)
(* may be spent, and a compaction may go on.                               *)
IdleStep ==
    /\ UNCHANGED <<run, events, history, lastAssistant, retryAttempt,
                   overflowRecoveryAttempted, Storing>>
    /\ timers' = timers \/ (timers > 0 /\ timers' = timers - 1)
    /\ handler' = handler \/ (handler = "sleeping" /\ handler' = "cancelled")
    /\ \A k \in Automatic : /\ compacting'[k].step = "none" <=> compacting[k].step = "none"
                            /\ compacting'[k].reason = compacting[k].reason

StoreStep ==
    /\ events # << >> /\ handler = "ready" /\ IsMessage(Head(events))
    /\ LET m == Head(events).message
           good == m.kind \in Assistant \ Errors
       IN /\ files' = [files EXCEPT ![file] = Append(@, m)]
          /\ lastAssistant' = IF m.kind \in Assistant THEN m ELSE lastAssistant
          /\ overflowRecoveryAttempted' =
               (overflowRecoveryAttempted /\ ~good /\ m.kind # "user")
          /\ retryAttempt' = IF good THEN 0 ELSE retryAttempt
    /\ events' = Tail(events)
    /\ UNCHANGED <<run, handler, timers, compacting, file, history>>

RetryStep ==
    /\ events # << >> /\ handler = "ready" /\ ~IsMessage(Head(events))
    /\ lastAssistant.kind = "retryable"
    /\ retryAttempt' = retryAttempt + 1 /\ retryAttempt < MaxRetries
    /\ handler' = "sleeping"
    /\ UNCHANGED <<run, events, lastAssistant, timers, overflowRecoveryAttempted,
                   compacting, Storing, history>>

ReviewStep ==
    /\ events # << >>
    /\ (handler = "ready" /\ ~IsMessage(Head(events))) \/ handler = "cancelled"
    /\ retryAttempt' \in {0, retryAttempt}
    /\ \E why \in {"none", "overflow", "threshold"} :
         Reviewed(why) /\ (why = "overflow" => ~overflowRecoveryAttempted)
    /\ UNCHANGED <<run, timers, Storing, history>>

SleepStep ==
    /\ handler = "sleeping" /\ timers' = timers + 1 /\ Done
    /\ UNCHANGED <<run, Deciding, Storing, history>>

SessionStep ==
    /\ files' = Append(files, << >>) /\ file' = Len(files) + 1
    /\ UNCHANGED <<run, events, timers, Deciding, Handling, history>>

CheckStep ==
    /\ Settling
    /\ \E k \in Caller, why \in {"overflow", "threshold"} :
         /\ compacting'[k] = Begun(why)
         /\ \A l \in Compactor \ {k} : compacting'[l] = compacting[l]
         /\ why = "overflow" => ~overflowRecoveryAttempted
         /\ overflowRecoveryAttempted' = (overflowRecoveryAttempted \/ why = "overflow")
    /\ UNCHANGED <<run, events, timers, Storing, Handling, retryAttempt, history>>

Released(k) ==
    /\ compacting[k].step # "none" /\ compacting'[k] = NoCompaction
    /\ \A l \in Compactor \ {k} : compacting'[l] = compacting[l]
    /\ IF k = "queue" THEN Done ELSE UNCHANGED <<events, handler, lastAssistant>>
    /\ UNCHANGED <<run, retryAttempt, overflowRecoveryAttempted>>

GiveUpStep ==
    /\ \E k \in Compactor : Released(k)
    /\ UNCHANGED <<timers, Storing, history>>

CompactStep ==
    /\ \E k \in Compactor :
         /\ Released(k)
         /\ \E entry \in CompactionEntry :
              files' = [files EXCEPT ![file] = Append(@, entry)] /\ file' = file
         /\ timers' = timers
            \/ (compacting[k].reason \in {"overflow", "threshold"} /\ timers' = timers + 1)
         /\ history' = Append(history, IF compacting[k].reason = "overflow"
                                       THEN "recovery" ELSE "compaction")

Step == \/ RespondStep \/ ThrowStep \/ FinishStep \/ StartStep \/ IdleStep
        \/ StoreStep \/ RetryStep \/ ReviewStep \/ SleepStep \/ SessionStep
        \/ CheckStep \/ GiveUpStep \/ CompactStep

-----------------------------------------------------------------------------
LEMMA RespondTypes ==
    ASSUME TypeInv, NEW kind \in Assistant \ Unannounced, Respond(kind)
    PROVE  TypeInv' /\ RespondStep
<1>1. UNCHANGED <<timers, Storing, Deciding, Handling>> /\ run = "request" /\ Unhasty
  BY DEF Respond, Storing, Deciding, Handling, compactionVars, fileVars
<1>2. PICK kinds \in Seq(Spoken), ends \in BOOLEAN : Responded(kind, kinds, ends)
  BY RespondSays
<1>3. queued' \in Nat
  BY RespondSays
<1>4. RespondStep
  BY <1>1, <1>2 DEF RespondStep
<1>5. TypeInv'
  <2>1. /\ run' \in {"idle", "request", "tool"} /\ events' \in Seq(Event)
        /\ history' \in Seq(Kind) /\ (events # << >> => events' # << >>)
    BY <1>2 DEF Responded, Spoke, TypeInv, EventTypes
  <2>2. EventTypes'
    BY <1>1, <2>1 DEF TypeInv, EventTypes, Deciding, Handling
  <2> QED BY <1>1, <1>3, <2>1, <2>2
          DEF TypeInv, CompactingTypes, Storing, Deciding
<1> QED BY <1>4, <1>5

LEMMA ThrowTypes ==
    ASSUME TypeInv, NEW mayPass \in BOOLEAN, RunThrows(mayPass)
    PROVE  TypeInv' /\ ThrowStep
<1>1. UNCHANGED <<queued, timers, Storing, Deciding, Handling>> /\ run # "idle" /\ Unhasty
  BY DEF RunThrows, Storing, Deciding, Handling, compactionVars, fileVars
<1>2. Threw
  BY ThrowSays
<1>3. ThrowStep
  BY <1>1, <1>2 DEF ThrowStep
<1>4. TypeInv'
  <2>1. history' \in Seq(Kind) /\ run' = "idle"
    BY <1>2 DEF Threw, TypeInv, Kind, Spoken, Assistant, Errors, Unannounced
  <2>2. Ended \in Event
    BY DEF Event, Ended
  <2>3. events' \in Seq(Event) /\ (events # << >> => events' # << >>)
    <3>1. events \in Seq(Event)
      BY DEF TypeInv, EventTypes
    <3>2. Append(events, Ended) \in Seq(Event) /\ Append(events, Ended) # << >>
      BY <2>2, <3>1
    <3> QED BY <1>2, <3>1, <3>2 DEF Threw
  <2>4. EventTypes'
    BY <1>1, <2>3 DEF TypeInv, EventTypes, Deciding, Handling
  <2> QED BY <1>1, <2>1, <2>4 DEF TypeInv, CompactingTypes, Storing, Deciding
<1> QED BY <1>3, <1>4

(* A step that says messages and leaves the rest alone keeps the types.    *)
LEMMA SpokeTypes ==
    ASSUME TypeInv, NEW said \in Seq(Spoken), NEW ends \in BOOLEAN, Spoke(said, ends),
           run' \in {"idle", "request", "tool"}, queued' \in Nat, timers' \in Nat,
           UNCHANGED <<Storing, Deciding, Handling>>
    PROVE  TypeInv'
<1>1. events' \in Seq(Event) /\ history' \in Seq(Kind) /\ (events # << >> => events' # << >>)
  BY DEF Spoke, TypeInv, EventTypes
<1>2. EventTypes'
  BY <1>1 DEF TypeInv, EventTypes, Deciding, Handling
<1> QED BY <1>1, <1>2 DEF TypeInv, CompactingTypes, Storing, Deciding

LEMMA FinishTypes ==
    ASSUME TypeInv, FinishTools
    PROVE  TypeInv' /\ FinishStep
<1>1. UNCHANGED <<timers, Storing, Deciding, Handling>>
  BY DEF FinishTools, Storing, Deciding, Handling, compactionVars, fileVars, retryVars
<1>2. FinishStep
  BY <1>1, FinishSays DEF FinishStep
<1>3. PICK said \in Seq(Spoken) : Spoke(said, FALSE)
  BY <1>2 DEF FinishStep
<1>4. run' \in {"idle", "request", "tool"} /\ queued' \in Nat /\ timers' \in Nat
  BY <1>1, FinishSays DEF TypeInv
<1> QED BY <1>1, <1>2, <1>3, <1>4, SpokeTypes

LEMMA IdleTypes ==
    ASSUME TypeInv, UNCHANGED <<run, queued, timers, events, history, Storing, Deciding, Handling>>
    PROVE  TypeInv' /\ IdleStep
<1>1. UNCHANGED <<compacting, retryAttempt, overflowRecoveryAttempted, handler, lastAssistant,
                  files, file>>
  BY DEF Storing, Deciding, Handling
<1> QED BY <1>1 DEF TypeInv, EventTypes, CompactingTypes, IdleStep, Storing

LEMMA ContinueTypes ==
    ASSUME TypeInv, Continue
    PROVE  TypeInv' /\ (StartStep \/ IdleStep)
<1>1. UNCHANGED <<Storing, Deciding, Handling>> /\ timers > 0 /\ timers' = timers - 1
  BY DEF Continue, Storing, Deciding, Handling, compactionVars, fileVars
<1>2. timers' \in Nat
  BY <1>1 DEF TypeInv
<1>3. CASE StartRun(<< >>)
  <2>1. << >> \in Seq({"user"})
    OBVIOUS
  <2>2. PICK said \in Seq(Spoken) : Started(said)
    BY <1>3, <2>1, StartSays
  <2>3. queued' \in Nat
    BY <1>3, <2>1, StartSays
  <2>4. StartStep
    BY <1>1, <2>2 DEF StartStep
  <2>5. Spoke(said, FALSE) /\ run' \in {"idle", "request", "tool"}
    BY <2>2 DEF Started
  <2>6. FALSE \in BOOLEAN
    OBVIOUS
  <2>7. TypeInv'
    BY <1>1, <1>2, <2>3, <2>5, <2>6, SpokeTypes
  <2> QED BY <2>4, <2>7
<1>4. CASE UNCHANGED <<agentVars, events, history>>
  <2>1. UNCHANGED <<run, queued, events, history, compacting, retryAttempt, files, file,
                    overflowRecoveryAttempted, handler, lastAssistant>>
    BY <1>1, <1>4 DEF agentVars, Storing, Deciding, Handling
  <2> QED BY <1>1, <1>2, <2>1 DEF TypeInv, EventTypes, CompactingTypes, IdleStep, Storing
<1> QED BY <1>3, <1>4 DEF Continue

LEMMA SendTypes ==
    ASSUME TypeInv, NEW p \in Caller, Send(p)
    PROVE  TypeInv' /\ (StartStep \/ IdleStep)
<1>1. UNCHANGED <<Storing, Deciding, Handling>> /\ timers' = timers
  BY DEF Send, Storing, Deciding, Handling, compactionVars, fileVars, retryVars
<1>2. timers' \in Nat
  BY <1>1 DEF TypeInv
<1>3. CASE run = "idle"
  <2>1. <<"user">> \in Seq({"user"}) /\ StartRun(<<"user">>)
    BY <1>3 DEF Send
  <2>2. queued' \in Nat
    BY <2>1, StartSays
  <2>3. \E said \in Seq(Spoken) : Started(said) /\ Len(said) > 0
    <3> DEFINE said == <<"user">> \o Polled
    <3>1. said \in Seq({"user"}) /\ Len(said) > 0
      BY PolledIs
    <3>2. /\ history' = history \o said /\ Publish(MessageEvents(said))
          /\ run = "idle" /\ run' = "request"
      BY <2>1 DEF StartRun, Say
    <3> HIDE DEF said
    <3>3. said \in Seq(Spoken)
      BY <3>1 DEF Spoken
    <3>4. Tell(said, FALSE) = MessageEvents(said)
      BY <3>3, MessageEventsAre DEF Tell
    <3>5. Spoke(said, FALSE)
      BY <3>2, <3>3, <3>4, SpeakingSpoke
    <3>6. \A i \in 1 .. Len(said) : said[i] = "user"
      BY <3>1
    <3> QED BY <3>1, <3>2, <3>3, <3>5, <3>6 DEF Started
  <2>4. PICK said \in Seq(Spoken) : Started(said) /\ Len(said) > 0
    BY <2>3
  <2>5. Patient => Calm
    BY <1>3 DEF Send
  <2>6. StartStep
    BY <1>1, <2>4, <2>5 DEF StartStep
  <2>7. Spoke(said, FALSE) /\ run' \in {"idle", "request", "tool"}
    BY <2>4 DEF Started
  <2>8. FALSE \in BOOLEAN
    OBVIOUS
  <2>9. TypeInv'
    BY <1>1, <1>2, <2>2, <2>7, <2>8, SpokeTypes
  <2> QED BY <2>6, <2>9
<1>4. CASE run # "idle"
  <2>1. UNCHANGED <<run, queued, timers, events, history, Storing, Deciding, Handling>>
    BY <1>1, <1>4 DEF Send, agentVars
  <2> QED BY <2>1, IdleTypes
<1> QED BY <1>3, <1>4

LEMMA ProcessTypes ==
    ASSUME TypeInv, ProcessMessage
    PROVE  TypeInv' /\ StoreStep
<1> DEFINE m == Head(events).message
           good == m.kind \in Assistant \ Errors
<1>1. /\ events # << >> /\ handler = "ready" /\ IsMessage(Head(events))
      /\ files' = [files EXCEPT ![file] = Append(@, m)]
      /\ lastAssistant' = IF m.kind \in Assistant THEN m ELSE lastAssistant
      /\ overflowRecoveryAttempted' = (overflowRecoveryAttempted /\ ~good /\ m.kind # "user")
      /\ IF good /\ retryAttempt > 0 THEN retryAttempt' = 0 ELSE retryAttempt' = retryAttempt
      /\ events' = Tail(events)
      /\ UNCHANGED <<run, queued, handler, timers, compacting, file, history>>
  BY DEF ProcessMessage, IsMessage, agentVars
<1>2. retryAttempt' = IF good THEN 0 ELSE retryAttempt
  BY <1>1 DEF TypeInv
<1>3. StoreStep
  BY <1>1, <1>2 DEF StoreStep
<1>4. events \in Seq(Event) /\ events # << >>
  BY <1>1 DEF TypeInv, EventTypes
<1>5. Head(events) \in Event /\ Tail(events) \in Seq(Event)
  BY <1>4, TailIs
<1>6. m \in Spot
  BY <1>1, <1>5 DEF Event, IsMessage
<1> HIDE DEF m
<1>7. retryAttempt' \in 0 .. MaxRetries /\ overflowRecoveryAttempted' \in BOOLEAN
      /\ lastAssistant' \in Spot \cup {None}
  BY <1>1, <1>2, <1>6, RetriesAssumption DEF TypeInv, EventTypes
<1>8. files' \in Seq(Seq(Entry)) /\ Len(files') = Len(files)
  <2>1. files \in Seq(Seq(Entry)) /\ file \in 1 .. Len(files) /\ Len(files) \in Nat
    BY DEF TypeInv
  <2>2. Append(files[file], m) \in Seq(Entry)
    BY <1>6, <2>1 DEF Entry
  <2> QED BY <1>1, <2>1, <2>2
<1>9. EventTypes'
  BY <1>1, <1>5, <1>7 DEF TypeInv, EventTypes
<1> QED BY <1>1, <1>3, <1>7, <1>8, <1>9 DEF TypeInv, CompactingTypes

LEMMA RetryTypes ==
    ASSUME TypeInv, RetryLater
    PROVE  TypeInv' /\ RetryStep
<1>1. /\ events # << >> /\ handler = "ready" /\ ~IsMessage(Head(events))
      /\ lastAssistant.kind = "retryable" /\ retryAttempt < MaxRetries
      /\ retryAttempt' = retryAttempt + 1 /\ handler' = "sleeping"
      /\ UNCHANGED <<run, queued, events, lastAssistant, timers, overflowRecoveryAttempted,
                     compacting, files, file, history>>
  BY DEF RetryLater, RunEnded, IsMessage, compactionVars, fileVars
<1>2. RetryStep
  BY <1>1 DEF RetryStep, Storing
<1>3. retryAttempt' \in 0 .. MaxRetries
  BY <1>1, RetriesAssumption DEF TypeInv
<1>4. compacting["queue"].step = "none"
  BY <1>1 DEF TypeInv, EventTypes
<1> QED BY <1>1, <1>2, <1>3, <1>4 DEF TypeInv, EventTypes, CompactingTypes

LEMMA EndTypes ==
    ASSUME TypeInv, EndRun \/ RetryCancelled
    PROVE  TypeInv' /\ ReviewStep
<1>1. /\ UNCHANGED <<run, queued, timers, files, file, history>>
      /\ events # << >> /\ handler # "compacting"
      /\ (handler = "ready" /\ ~IsMessage(Head(events))) \/ handler = "cancelled"
      /\ retryAttempt' \in {0, retryAttempt}
      /\ ReviewRun \/ (Done /\ UNCHANGED compactionVars)
  <2>1. CASE EndRun
    BY <2>1 DEF EndRun, RunEnded, IsMessage, fileVars
  <2>2. CASE RetryCancelled
    BY <2>2 DEF RetryCancelled, TypeInv, EventTypes, fileVars
  <2> QED BY <2>1, <2>2
<1>2. /\ \E why \in {"none", "overflow", "threshold"} :
           /\ Reviewed(why)
           /\ why = "overflow" => ~overflowRecoveryAttempted
      /\ CompactingTypes' /\ EventTypes' /\ overflowRecoveryAttempted' \in BOOLEAN
  BY <1>1, ReviewIs
<1>3. ReviewStep
  BY <1>1, <1>2 DEF ReviewStep, Storing
<1>4. retryAttempt' \in 0 .. MaxRetries
  BY <1>1, RetriesAssumption DEF TypeInv
<1> QED BY <1>1, <1>2, <1>3, <1>4 DEF TypeInv

LEMMA SleepTypes ==
    ASSUME TypeInv, SleepEnds
    PROVE  TypeInv' /\ SleepStep
<1>1. /\ handler = "sleeping" /\ timers' = timers + 1 /\ Done
      /\ UNCHANGED <<run, queued, retryAttempt, overflowRecoveryAttempted, compacting, files,
                     file, history>>
  BY DEF SleepEnds, agentVars, compactionVars, fileVars
<1>2. compacting["queue"].step = "none"
  BY <1>1 DEF TypeInv, EventTypes
<1>3. EventTypes'
  BY <1>1, <1>2, DoneTypes
<1>4. SleepStep
  BY <1>1 DEF SleepStep, Deciding, Storing
<1> QED BY <1>1, <1>3, <1>4 DEF TypeInv, CompactingTypes

LEMMA StopTypes ==
    ASSUME TypeInv, AbortRetry \/ Abort \/ NewSession
    PROVE  TypeInv' /\ IdleStep
<1>1. /\ UNCHANGED <<run, queued, timers, events, history, lastAssistant, retryAttempt,
                     overflowRecoveryAttempted, compacting, files, file>>
      /\ handler' = IF handler = "sleeping" THEN "cancelled" ELSE handler
  BY DEF AbortRetry, Abort, NewSession, StopAll, StopRetry, agentVars, compactionVars, fileVars
<1> QED BY <1>1 DEF TypeInv, EventTypes, CompactingTypes, IdleStep, Storing

LEMMA SessionTypes ==
    ASSUME TypeInv, StartSession
    PROVE  TypeInv' /\ SessionStep
<1>1. /\ files' = Append(files, << >>) /\ file' = Len(files) + 1 /\ queued' = 0
      /\ UNCHANGED <<run, timers, events, handler, lastAssistant, retryAttempt,
                     overflowRecoveryAttempted, compacting, history>>
  BY DEF StartSession, retryVars, compactionVars
<1>2. SessionStep
  BY <1>1 DEF SessionStep, Deciding, Handling
<1>3. files' \in Seq(Seq(Entry)) /\ file' = Len(files') /\ file' >= 1
  BY <1>1 DEF TypeInv
<1> QED BY <1>1, <1>2, <1>3 DEF TypeInv, EventTypes, CompactingTypes

LEMMA SteerTypes ==
    ASSUME TypeInv, Steer
    PROVE  TypeInv' /\ IdleStep
<1>1. /\ UNCHANGED <<run, timers, events, history, compacting, retryAttempt,
                     overflowRecoveryAttempted, handler, lastAssistant, files, file>>
      /\ queued' \in Nat
  BY DEF TypeInv, Steer, eventVars, retryVars, compactionVars, fileVars
<1> QED BY <1>1 DEF TypeInv, EventTypes, CompactingTypes, IdleStep, Storing

LEMMA PromptTypes ==
    ASSUME TypeInv, NEW p \in Caller, Prompt(p) \/ Refuse(p)
    PROVE  TypeInv' /\ IdleStep
<1>1. UNCHANGED <<run, queued, timers, events, history, Storing, Deciding, Handling>>
  BY DEF Prompt, Refuse, Storing, Deciding, Handling, agentVars, eventVars, retryVars,
         compactionVars, fileVars
<1> QED BY <1>1, IdleTypes

LEMMA CheckTypes ==
    ASSUME TypeInv, NEW p \in Caller, CheckFirst(p)
    PROVE  TypeInv' /\ (CheckStep \/ IdleStep)
<1>1. PICK why : /\ CheckCompaction(p, why)
                 /\ why = "none" \/ \E m : why = CompactionReason(m, FALSE)
  BY DEF CheckFirst
<1>2. /\ Settling
      /\ UNCHANGED <<run, queued, timers, events, Storing, Handling, retryAttempt, history>>
  BY DEF CheckFirst, eventVars, retryVars, fileVars, Storing, Handling
<1>3. p \in Automatic /\ p \in Compactor /\ "queue" \in Compactor /\ p # "queue"
  BY CallerAssumption DEF Automatic, Compactor
<1>4. CASE why = "none"
  <2>1. UNCHANGED <<compacting, overflowRecoveryAttempted>>
    BY <1>1, <1>4 DEF CheckCompaction, compactionVars
  <2>2. UNCHANGED <<run, queued, timers, events, history, Storing, Deciding, Handling>>
    BY <1>2, <2>1 DEF Deciding
  <2> QED BY <2>2, IdleTypes
<1>5. CASE why # "none"
  <2>1. PICK m : why = CompactionReason(m, FALSE)
    BY <1>1, <1>5
  <2>2. /\ why \in {"none", "overflow", "threshold"}
        /\ CompactingTypes' /\ overflowRecoveryAttempted' \in BOOLEAN
        /\ compacting'[p] = Begun(why)
        /\ \A l \in Compactor \ {p} : compacting'[l] = compacting[l]
        /\ overflowRecoveryAttempted' = (overflowRecoveryAttempted \/ why = "overflow")
        /\ why = "overflow" => ~overflowRecoveryAttempted
    BY <1>1, <1>3, <1>5, <2>1, CheckIs
  <2>3. CheckStep
    BY <1>2, <1>5, <2>2 DEF CheckStep
  <2>4. compacting'["queue"] = compacting["queue"]
    BY <1>3, <2>2
  <2>5. EventTypes'
    BY <1>2, <2>4 DEF TypeInv, EventTypes, Handling
  <2> QED BY <1>2, <2>2, <2>3, <2>5 DEF TypeInv, Storing
<1> QED BY <1>4, <1>5

(* A compaction that goes on to its next step.                             *)
LEMMA GoingOn ==
    ASSUME TypeInv, NEW k \in Compactor, NEW c \in Compaction,
           compacting' = [compacting EXCEPT ![k] = c],
           k \in Automatic => /\ c.reason = compacting[k].reason
                              /\ compacting[k].step # "none" /\ c.step \in {"key", "summary"},
           k = "manual" => /\ c.reason \in {"none", "manual"}
                           /\ c.step \in {"key", "summary"} => c.reason = "manual",
           handler' = handler \/ (handler = "sleeping" /\ handler' = "cancelled"),
           UNCHANGED <<run, queued, timers, events, history, lastAssistant, retryAttempt,
                       overflowRecoveryAttempted, files, file>>
    PROVE  TypeInv' /\ IdleStep
<1>1. k \in Automatic => /\ c.reason # "manual" /\ c.step # "waiting"
                         /\ c.step = "none" => c = NoCompaction
                         /\ c.step # "none" => c.reason # "none"
  BY DEF TypeInv, CompactingTypes
<1>2. /\ CompactingTypes' /\ compacting'[k] = c
      /\ \A l \in Compactor \ {k} : compacting'[l] = compacting[l]
  BY <1>1, CompactingChanges DEF TypeInv
<1>3. \A l \in Automatic : /\ compacting'[l].step = "none" <=> compacting[l].step = "none"
                           /\ compacting'[l].reason = compacting[l].reason
  <2> TAKE l \in Automatic
  <2>1. l \in Compactor
    BY DEF Compactor
  <2>2. CASE l = k
    BY <1>2, <2>2
  <2>3. CASE l # k
    BY <1>2, <2>1, <2>3
  <2> QED BY <2>2, <2>3
<1>4. IdleStep
  BY <1>3 DEF IdleStep, Storing
<1>5. "queue" \in Automatic
  BY DEF Automatic
<1>6. EventTypes'
  BY <1>3, <1>5 DEF TypeInv, EventTypes
<1> QED BY <1>2, <1>4, <1>6 DEF TypeInv

LEMMA ManualTypes ==
    ASSUME TypeInv, Compact \/ CompactIdle
    PROVE  TypeInv' /\ IdleStep
<1> DEFINE c == IF Compact THEN [compacting["manual"] EXCEPT !.step = "waiting"]
                ELSE [compacting["manual"] EXCEPT !.step = "key", !.reason = "manual"]
<1>1. "manual" \in Compactor /\ ~("manual" \in Automatic)
  BY CallerAssumption DEF Automatic, Compactor
<1>2. /\ compacting' = [compacting EXCEPT !["manual"] = c]
      /\ handler' = handler \/ (handler = "sleeping" /\ handler' = "cancelled")
      /\ UNCHANGED <<run, queued, timers, events, history, lastAssistant, retryAttempt,
                     overflowRecoveryAttempted, files, file>>
  BY DEF Compact, CompactIdle, StopAll, StopRetry, agentVars, eventVars, retryVars, fileVars
<1>3. compacting["manual"] \in Compaction
  BY <1>1 DEF TypeInv, CompactingTypes
<1>4. c \in Compaction /\ c.reason \in {"none", "manual"}
      /\ (c.step \in {"key", "summary"} => c.reason = "manual")
  <2>1. CASE Compact
    BY <1>3, <2>1 DEF TypeInv, CompactingTypes, Compaction
  <2>2. CASE ~Compact
    BY <1>3, <2>2 DEF Compaction
  <2> QED BY <2>1, <2>2
<1> HIDE DEF c
<1> QED BY <1>1, <1>2, <1>4, GoingOn

LEMMA PrepareTypes ==
    ASSUME TypeInv, NEW k \in Compactor, Prepare(k)
    PROVE  TypeInv' /\ IdleStep
<1>1. PICK i \in DOMAIN files[file] :
        compacting' = [compacting EXCEPT
              ![k].step = "summary", ![k].of = file,
              ![k].base = LatestCompaction(files[file]), ![k].kept = files[file][i].id]
  BY DEF Prepare
<1>2. files[file] \in Seq(Entry) /\ file \in Nat
  BY DEF TypeInv
<1>3. files[file][i] \in Entry
  BY <1>2
<1>4. files[file][i].id \in Nat /\ LatestCompaction(files[file]) \in Nat
  BY <1>2, <1>3, LatestCompactionType DEF Entry, Spot, CompactionEntry
<1> DEFINE c == [compacting[k] EXCEPT !.step = "summary", !.of = file,
                   !.base = LatestCompaction(files[file]), !.kept = files[file][i].id]
<1>5. compacting' = [compacting EXCEPT ![k] = c]
  BY <1>1
<1>6. compacting[k] \in Compaction /\ compacting[k].step = "key"
  BY DEF TypeInv, CompactingTypes, Prepare
<1>7. c \in Compaction /\ c.reason = compacting[k].reason /\ c.step = "summary"
  BY <1>2, <1>4, <1>6 DEF Compaction
<1>8. k = "manual" => c.reason = "manual"
  BY <1>6, <1>7 DEF TypeInv, CompactingTypes
<1>9. UNCHANGED <<run, queued, timers, events, history, lastAssistant, retryAttempt,
                  overflowRecoveryAttempted, files, file, handler>>
  BY DEF Prepare, agentVars, eventVars, retryVars, fileVars
<1> HIDE DEF c
<1> QED BY <1>5, <1>6, <1>7, <1>8, <1>9, GoingOn

LEMMA ReleasedIs ==
    ASSUME TypeInv, NEW k \in Compactor, Release(k), compacting[k].step # "none",
           UNCHANGED <<run, queued, retryAttempt, overflowRecoveryAttempted>>
    PROVE  Released(k) /\ CompactingTypes' /\ EventTypes'
BY ReleaseTypes DEF Released

LEMMA GiveUpTypes ==
    ASSUME TypeInv, NEW k \in Compactor, GiveUp(k)
    PROVE  TypeInv' /\ GiveUpStep
<1>1. /\ Release(k) /\ compacting[k].step # "none"
      /\ UNCHANGED <<run, queued, timers, retryAttempt, overflowRecoveryAttempted, files, file,
                     history>>
  BY DEF GiveUp, agentVars, retryVars, fileVars
<1>2. Released(k) /\ CompactingTypes' /\ EventTypes'
  BY <1>1, ReleasedIs
<1> QED BY <1>1, <1>2 DEF TypeInv, GiveUpStep, Storing

LEMMA AppendTypes ==
    ASSUME TypeInv, NEW k \in Compactor, AppendCompaction(k)
    PROVE  TypeInv' /\ CompactStep
<1> DEFINE why == compacting[k].reason
           entry == [id |-> clock, kind |-> "compaction", reason |-> why,
                     of |-> compacting[k].of, base |-> compacting[k].base,
                     kept |-> compacting[k].kept]
           said == IF why = "overflow" THEN "recovery" ELSE "compaction"
<1>1. /\ compacting[k].step = "summary" /\ Release(k)
      /\ files' = [files EXCEPT ![file] = Append(@, entry)] /\ file' = file
      /\ timers' = timers
         \/ (why \in {"overflow", "threshold"} /\ timers' = timers + 1)
      /\ history' = Append(history, said)
      /\ UNCHANGED <<run, queued, retryAttempt, overflowRecoveryAttempted>>
  BY DEF AppendCompaction
<1>2. compacting[k] \in Compaction
  BY DEF TypeInv, CompactingTypes
<1>3. why \in {"overflow", "threshold", "manual"}
  BY <1>1, <1>2 DEF TypeInv, CompactingTypes, Compaction, Compactor
<1>4. Len(history) + 1 \in Nat
  BY DEF TypeInv
<1>5. entry \in CompactionEntry
  BY <1>2, <1>3, <1>4 DEF CompactionEntry, Compaction, clock
<1> HIDE DEF entry
<1>6. files' \in Seq(Seq(Entry)) /\ Len(files') = Len(files)
  <2>1. files \in Seq(Seq(Entry)) /\ file \in 1 .. Len(files) /\ Len(files) \in Nat
    BY DEF TypeInv
  <2>2. Append(files[file], entry) \in Seq(Entry)
    BY <1>5, <2>1 DEF Entry
  <2> QED BY <1>1, <2>1, <2>2
<1>7. history' \in Seq(Kind)
  BY <1>1 DEF TypeInv, Kind
<1>8. timers' \in Nat
  BY <1>1 DEF TypeInv
<1>9. Released(k) /\ CompactingTypes' /\ EventTypes'
  BY <1>1, ReleasedIs
<1>10. CompactStep
  BY <1>1, <1>5, <1>9 DEF CompactStep
<1> QED BY <1>1, <1>6, <1>7, <1>8, <1>9, <1>10 DEF TypeInv

LEMMA StutterTypes ==
    ASSUME TypeInv, UNCHANGED vars
    PROVE  TypeInv' /\ IdleStep
<1>1. UNCHANGED <<run, queued, timers, events, history, Storing, Deciding, Handling>>
  BY DEF vars, Storing, Deciding, Handling, agentVars, eventVars, retryVars, compactionVars, fileVars
<1> QED BY <1>1, IdleTypes

(* Every step keeps the types, and is one of those above.                  *)
LEMMA StepIs ==
    ASSUME TypeInv, [Next]_vars
    PROVE  TypeInv' /\ Step
<1>1. ASSUME NEW kind \in Assistant \ Unannounced, Respond(kind) PROVE TypeInv' /\ Step
  BY <1>1, RespondTypes DEF Step
<1>2. ASSUME NEW mayPass \in BOOLEAN, RunThrows(mayPass) PROVE TypeInv' /\ Step
  BY <1>2, ThrowTypes DEF Step
<1>3. CASE FinishTools
  BY <1>3, FinishTypes DEF Step
<1>4. CASE Continue
  BY <1>4, ContinueTypes DEF Step
<1>5. CASE ProcessMessage
  BY <1>5, ProcessTypes DEF Step
<1>6. CASE RetryLater
  BY <1>6, RetryTypes DEF Step
<1>7. CASE EndRun \/ RetryCancelled
  BY <1>7, EndTypes DEF Step
<1>8. CASE SleepEnds
  BY <1>8, SleepTypes DEF Step
<1>9. CASE AbortRetry \/ Abort \/ NewSession
  BY <1>9, StopTypes DEF Step
<1>10. CASE StartSession
  BY <1>10, SessionTypes DEF Step
<1>11. CASE Steer
  BY <1>11, SteerTypes DEF Step
<1>12. ASSUME NEW p \in Caller, Prompt(p) \/ Refuse(p) PROVE TypeInv' /\ Step
  BY <1>12, PromptTypes DEF Step
<1>13. ASSUME NEW p \in Caller, CheckFirst(p) PROVE TypeInv' /\ Step
  BY <1>13, CheckTypes DEF Step
<1>14. ASSUME NEW p \in Caller, Send(p) PROVE TypeInv' /\ Step
  BY <1>14, SendTypes DEF Step
<1>15. CASE Compact \/ CompactIdle
  BY <1>15, ManualTypes DEF Step
<1>16. ASSUME NEW k \in Compactor, Prepare(k) PROVE TypeInv' /\ Step
  BY <1>16, PrepareTypes DEF Step
<1>17. ASSUME NEW k \in Compactor, GiveUp(k) PROVE TypeInv' /\ Step
  BY <1>17, GiveUpTypes DEF Step
<1>18. ASSUME NEW k \in Compactor, AppendCompaction(k) PROVE TypeInv' /\ Step
  BY <1>18, AppendTypes DEF Step
<1>19. CASE UNCHANGED vars
  BY <1>19, StutterTypes DEF Step
<1> QED BY <1>1, <1>2, <1>3, <1>4, <1>5, <1>6, <1>7, <1>8, <1>9, <1>10, <1>11, <1>12, <1>13,
           <1>14, <1>15, <1>16, <1>17, <1>18, <1>19 DEF Next
-----------------------------------------------------------------------------
(* Messages wait in the order they were said, after all that is stored.    *)
WaitingInOrder ==
    /\ \A k \in 1 .. Len(events) : IsMessage(events[k]) =>
         /\ events[k].message.id \in 1 .. Len(history)
         /\ history[events[k].message.id] = events[k].message.kind
    /\ \A k, l \in 1 .. Len(events) :
         k < l /\ IsMessage(events[k]) /\ IsMessage(events[l]) =>
           events[k].message.id < events[l].message.id

StoredBefore ==
    \A f \in DOMAIN files : \A i \in DOMAIN files[f] : files[f][i].kind # "compaction" =>
      /\ files[f][i].id <= Len(history)
      /\ \A k \in 1 .. Len(events) : IsMessage(events[k]) =>
           files[f][i].id < events[k].message.id

OrderInv == StoredInOrder /\ StoredBefore /\ WaitingInOrder

(* Nothing is forgotten of what was said, and no message is stored.        *)
Recalls == /\ Len(history') \in Nat /\ Len(history) <= Len(history')
           /\ \A i \in 1 .. Len(history) : history'[i] = history[i]

NothingStored ==
    \A f \in DOMAIN files' : \A i \in DOMAIN files'[f] : files'[f][i].kind # "compaction" =>
      f \in DOMAIN files /\ i \in DOMAIN files[f] /\ files[f][i] = files'[f][i]

LEMMA StoredIs ==
    ASSUME TypeInv
    PROVE  /\ \A f \in DOMAIN files : \A i \in DOMAIN files[f] :
                f \in Nat /\ i \in Nat /\ files[f][i] \in Entry /\ files[f][i].id \in Nat
           /\ \A k \in 1 .. Len(events) : IsMessage(events[k]) => events[k].message \in Spot
           /\ Len(events) \in Nat /\ Len(history) \in Nat
<1>1. ASSUME NEW f \in DOMAIN files, NEW i \in DOMAIN files[f]
      PROVE  f \in Nat /\ i \in Nat /\ files[f][i] \in Entry /\ files[f][i].id \in Nat
  <2>1. files \in Seq(Seq(Entry))
    BY DEF TypeInv
  <2>2. files[f] \in Seq(Entry) /\ f \in Nat
    BY <2>1
  <2>3. files[f][i] \in Entry /\ i \in Nat
    BY <2>2
  <2> QED BY <2>2, <2>3 DEF Entry, Spot, CompactionEntry
<1>2. ASSUME NEW k \in 1 .. Len(events), IsMessage(events[k])
      PROVE  events[k].message \in Spot
  <2>1. events[k] \in Event
    BY DEF TypeInv, EventTypes
  <2> QED BY <1>2, <2>1 DEF Event, IsMessage
<1>3. Len(events) \in Nat /\ Len(history) \in Nat
  BY DEF TypeInv, EventTypes
<1> QED BY <1>1, <1>2, <1>3

LEMMA NothingStoredOrder ==
    ASSUME StoredInOrder, NothingStored
    PROVE  StoredInOrder'
<1> SUFFICES ASSUME NEW f \in DOMAIN files', NEW g \in DOMAIN files',
                    NEW i \in DOMAIN files'[f], NEW j \in DOMAIN files'[g],
                    f < g \/ (f = g /\ i < j),
                    files'[f][i].kind # "compaction", files'[g][j].kind # "compaction"
             PROVE  files'[f][i].id < files'[g][j].id
  BY DEF StoredInOrder
<1>1. f \in DOMAIN files /\ i \in DOMAIN files[f] /\ files[f][i] = files'[f][i]
  BY DEF NothingStored
<1>2. g \in DOMAIN files /\ j \in DOMAIN files[g] /\ files[g][j] = files'[g][j]
  BY DEF NothingStored
<1> QED BY <1>1, <1>2 DEF StoredInOrder

(* A message that waits then waited before, or was just said.              *)
LEMMA SpokeWaits ==
    ASSUME TypeInv, NEW kinds \in Seq(Spoken), NEW ends \in BOOLEAN, Spoke(kinds, ends),
           NEW k \in 1 .. Len(events'), IsMessage(events'[k])
    PROVE  \/ k \in 1 .. Len(events) /\ events'[k] = events[k]
           \/ \E i \in 1 .. Len(kinds) : /\ k = Len(events) + i
                                         /\ events'[k].message.id = Len(history) + i
                                         /\ events'[k].message.kind = kinds[i]
<1>1. Len(events) \in Nat /\ Len(history) \in Nat /\ Len(kinds) \in Nat
  BY StoredIs
<1>2. CASE events' = events
  BY <1>2
<1>3. CASE k <= Len(events)
  BY <1>1, <1>3 DEF Spoke
<1>4. CASE events' # events /\ k > Len(events)
  <2>1. /\ Len(events') = Len(events) + Len(kinds) + (IF ends THEN 1 ELSE 0)
        /\ \A i \in 1 .. Len(kinds) :
             /\ IsMessage(events'[Len(events) + i])
             /\ events'[Len(events) + i].message.id = Len(history) + i
             /\ events'[Len(events) + i].message.kind = kinds[i]
        /\ ends => events'[Len(events')] = Ended
    BY <1>4 DEF Spoke
  <2>2. k # Len(events) + Len(kinds) + 1
    <3> SUFFICES ASSUME k = Len(events) + Len(kinds) + 1 PROVE FALSE
      OBVIOUS
    <3>1. ends
      BY <1>1, <2>1
    <3>2. events'[k] = Ended
      BY <2>1, <3>1
    <3> QED BY <3>2 DEF IsMessage, Ended
  <2>3. k - Len(events) \in 1 .. Len(kinds)
    <3>1. CASE ends
      <4>1. Len(events') = Len(events) + Len(kinds) + 1
        BY <2>1, <3>1
      <4> QED BY <1>1, <1>4, <2>2, <4>1
    <3>2. CASE ~ends
      BY <1>1, <1>4, <2>1, <3>2
    <3> QED BY <3>1, <3>2
  <2>4. k = Len(events) + (k - Len(events))
    BY <1>1
  <2> QED BY <2>1, <2>3, <2>4
<1> QED BY <1>1, <1>2, <1>3, <1>4

(* What is said comes after all that was said before.                      *)
LEMMA SpokeOrder ==
    ASSUME TypeInv, OrderInv, NEW kinds \in Seq(Spoken), NEW ends \in BOOLEAN,
           Spoke(kinds, ends), UNCHANGED Storing
    PROVE  OrderInv' /\ Recalls
<1>1. Len(events) \in Nat /\ Len(history) \in Nat /\ Len(kinds) \in Nat
  BY StoredIs
<1>2. Recalls /\ Len(history') = Len(history) + Len(kinds)
  BY <1>1 DEF Spoke, Recalls
<1>3. StoredInOrder'
  BY DEF OrderInv, StoredInOrder, Storing
<1>4. ASSUME NEW k \in 1 .. Len(events'), IsMessage(events'[k])
      PROVE  \/ k \in 1 .. Len(events) /\ events'[k] = events[k]
             \/ \E i \in 1 .. Len(kinds) : /\ k = Len(events) + i
                                           /\ events'[k].message.id = Len(history) + i
                                           /\ events'[k].message.kind = kinds[i]
  BY <1>4, SpokeWaits
<1>5. WaitingInOrder'
  <2>1. ASSUME NEW k \in 1 .. Len(events'), IsMessage(events'[k])
        PROVE  /\ events'[k].message.id \in 1 .. Len(history')
               /\ history'[events'[k].message.id] = events'[k].message.kind
    <3>1. CASE k \in 1 .. Len(events) /\ events'[k] = events[k]
      BY <1>1, <1>2, <2>1, <3>1 DEF OrderInv, WaitingInOrder, Recalls
    <3>2. CASE \E i \in 1 .. Len(kinds) : /\ k = Len(events) + i
                                          /\ events'[k].message.id = Len(history) + i
                                          /\ events'[k].message.kind = kinds[i]
      BY <1>1, <1>2, <3>2 DEF Spoke
    <3> QED BY <1>4, <2>1, <3>1, <3>2
  <2>2. ASSUME NEW k \in 1 .. Len(events'), NEW l \in 1 .. Len(events'), k < l,
               IsMessage(events'[k]), IsMessage(events'[l])
        PROVE  events'[k].message.id < events'[l].message.id
    <3>1. CASE l \in 1 .. Len(events) /\ events'[l] = events[l]
      <4>1. k \in 1 .. Len(events) /\ events'[k] = events[k]
        BY <1>1, <1>4, <2>2, <3>1
      <4> QED BY <2>2, <3>1, <4>1 DEF OrderInv, WaitingInOrder
    <3>2. CASE \E i \in 1 .. Len(kinds) : l = Len(events) + i
                                          /\ events'[l].message.id = Len(history) + i
      <4>1. PICK i \in 1 .. Len(kinds) : l = Len(events) + i
                                          /\ events'[l].message.id = Len(history) + i
        BY <3>2
      <4>2. CASE k \in 1 .. Len(events) /\ events'[k] = events[k]
        <5>1. events[k].message.id \in 1 .. Len(history)
          BY <2>2, <4>2 DEF OrderInv, WaitingInOrder
        <5> QED BY <1>1, <4>1, <4>2, <5>1
      <4>3. CASE \E n \in 1 .. Len(kinds) : k = Len(events) + n
                                            /\ events'[k].message.id = Len(history) + n
        BY <1>1, <2>2, <4>1, <4>3
      <4> QED BY <1>4, <2>2, <4>2, <4>3
    <3> QED BY <1>4, <2>2, <3>1, <3>2
  <2> QED BY <2>1, <2>2 DEF WaitingInOrder
<1>6. StoredBefore'
  <2> SUFFICES ASSUME NEW f \in DOMAIN files, NEW i \in DOMAIN files[f],
                      files[f][i].kind # "compaction"
               PROVE  /\ files[f][i].id <= Len(history')
                      /\ \A k \in 1 .. Len(events') : IsMessage(events'[k]) =>
                           files[f][i].id < events'[k].message.id
    BY DEF StoredBefore, Storing
  <2>1. files[f][i].id \in Nat /\ files[f][i].id <= Len(history)
    BY StoredIs DEF OrderInv, StoredBefore
  <2>2. ASSUME NEW k \in 1 .. Len(events'), IsMessage(events'[k])
        PROVE  files[f][i].id < events'[k].message.id
    <3>1. CASE k \in 1 .. Len(events) /\ events'[k] = events[k]
      BY <2>2, <3>1 DEF OrderInv, StoredBefore
    <3>2. CASE \E n \in 1 .. Len(kinds) : events'[k].message.id = Len(history) + n
      BY <1>1, <2>1, <3>2
    <3> QED BY <1>4, <2>2, <3>1, <3>2
  <2> QED BY <1>1, <1>2, <2>1, <2>2
<1> QED BY <1>2, <1>3, <1>5, <1>6 DEF OrderInv

(* The messages that wait are those that waited, or all but the first.     *)
Passed == \E d \in {0, 1} : \A k \in 1 .. Len(events') : IsMessage(events'[k]) =>
              k + d \in 1 .. Len(events) /\ events'[k] = events[k + d]

LEMMA SameEventsPass ==
    ASSUME TypeInv, UNCHANGED events
    PROVE  Passed
<1>1. Len(events) \in Nat
  BY StoredIs
<1>2. \A k \in 1 .. Len(events') : k + 0 \in 1 .. Len(events) /\ events'[k] = events[k + 0]
  BY <1>1
<1> QED BY <1>2 DEF Passed

LEMMA TailPasses ==
    ASSUME TypeInv, events # << >>, events' = Tail(events)
    PROVE  Passed
<1>1. events \in Seq(Event)
  BY DEF TypeInv, EventTypes
<1>2. /\ Len(events') = Len(events) - 1 /\ Len(events) \in Nat
      /\ \A k \in 1 .. Len(events) - 1 : events'[k] = events[k + 1]
  BY <1>1, TailIs
<1>3. \A k \in 1 .. Len(events') : k + 1 \in 1 .. Len(events) /\ events'[k] = events[k + 1]
  BY <1>2
<1> QED BY <1>3 DEF Passed

LEMMA EndPasses ==
    ASSUME TypeInv, events' = Append(events, Ended)
    PROVE  Passed
<1>1. events \in Seq(Event) /\ Ended \in Event
  BY DEF TypeInv, EventTypes, Event, Ended
<1>2. /\ Len(events') = Len(events) + 1 /\ Len(events) \in Nat
      /\ \A k \in 1 .. Len(events) : events'[k] = events[k]
      /\ events'[Len(events) + 1] = Ended
  BY <1>1
<1>3. ~IsMessage(Ended)
  BY DEF IsMessage, Ended
<1>4. ASSUME NEW k \in 1 .. Len(events'), IsMessage(events'[k])
      PROVE  k + 0 \in 1 .. Len(events) /\ events'[k] = events[k + 0]
  <2>1. k # Len(events) + 1
    BY <1>2, <1>3, <1>4
  <2> QED BY <1>2, <1>4, <2>1
<1> QED BY <1>4 DEF Passed

LEMMA PassedOrder ==
    ASSUME TypeInv, OrderInv, Recalls, Passed
    PROVE  /\ WaitingInOrder'
           /\ NothingStored => OrderInv'
<1>1. PICK d \in {0, 1} : \A k \in 1 .. Len(events') : IsMessage(events'[k]) =>
              k + d \in 1 .. Len(events) /\ events'[k] = events[k + d]
  BY DEF Passed
<1>2. Len(events) \in Nat /\ Len(history) \in Nat /\ Len(history') \in Nat /\ d \in Nat
  BY StoredIs DEF Recalls
<1>3. WaitingInOrder'
  <2>1. ASSUME NEW k \in 1 .. Len(events'), IsMessage(events'[k])
        PROVE  /\ events'[k].message.id \in 1 .. Len(history')
               /\ history'[events'[k].message.id] = events'[k].message.kind
    BY <1>1, <1>2, <2>1 DEF OrderInv, WaitingInOrder, Recalls
  <2>2. ASSUME NEW k \in 1 .. Len(events'), NEW l \in 1 .. Len(events'), k < l,
               IsMessage(events'[k]), IsMessage(events'[l])
        PROVE  events'[k].message.id < events'[l].message.id
    <3>1. k + d \in 1 .. Len(events) /\ l + d \in 1 .. Len(events) /\ k + d < l + d
          /\ events'[k] = events[k + d] /\ events'[l] = events[l + d]
      BY <1>1, <1>2, <2>2
    <3> QED BY <2>2, <3>1 DEF OrderInv, WaitingInOrder
  <2> QED BY <2>1, <2>2 DEF WaitingInOrder
<1>4. ASSUME NothingStored PROVE StoredBefore'
  <2> SUFFICES ASSUME NEW f \in DOMAIN files', NEW i \in DOMAIN files'[f],
                      files'[f][i].kind # "compaction"
               PROVE  /\ files'[f][i].id <= Len(history')
                      /\ \A k \in 1 .. Len(events') : IsMessage(events'[k]) =>
                           files'[f][i].id < events'[k].message.id
    BY DEF StoredBefore
  <2>1. f \in DOMAIN files /\ i \in DOMAIN files[f] /\ files[f][i] = files'[f][i]
    BY <1>4 DEF NothingStored
  <2>2. files[f][i].id \in Nat /\ files[f][i].id <= Len(history)
    BY <2>1, StoredIs DEF OrderInv, StoredBefore
  <2>3. ASSUME NEW k \in 1 .. Len(events'), IsMessage(events'[k])
        PROVE  files'[f][i].id < events'[k].message.id
    <3>1. k + d \in 1 .. Len(events) /\ events'[k] = events[k + d]
      BY <1>1, <2>3
    <3> QED BY <2>1, <2>3, <3>1 DEF OrderInv, StoredBefore
  <2> QED BY <1>2, <2>1, <2>2, <2>3 DEF Recalls
<1> QED BY <1>3, <1>4, NothingStoredOrder DEF OrderInv

LEMMA SameHistory == ASSUME TypeInv, UNCHANGED history PROVE Recalls
<1>1. Len(history) \in Nat
  BY StoredIs
<1> QED BY <1>1 DEF Recalls

LEMMA SameFiles == ASSUME UNCHANGED Storing PROVE NothingStored
BY DEF Storing, NothingStored

LEMMA AppendRecalls ==
    ASSUME TypeInv, NEW kind, history' = Append(history, kind)
    PROVE  Recalls /\ Len(history') = Len(history) + 1 /\ history'[Len(history')] = kind
<1>1. history \in Seq(Kind)
  BY DEF TypeInv
<1>2. DOMAIN history = 1 .. Len(history) /\ Len(history) \in Nat
  BY <1>1
<1> QED BY <1>2 DEF Recalls

(* The first message that waits is the next to be stored.                  *)
LEMMA StoreOrder ==
    ASSUME TypeInv, OrderInv, StoreStep
    PROVE  OrderInv'
<1> DEFINE m == Head(events).message
<1>1. /\ events # << >> /\ events' = Tail(events) /\ IsMessage(Head(events))
      /\ files' = [files EXCEPT ![file] = Append(@, m)]
      /\ UNCHANGED history
  BY DEF StoreStep
<1>2. events \in Seq(Event)
  BY DEF TypeInv, EventTypes
<1>3. /\ Head(events) = events[1] /\ Len(events) > 0 /\ Len(events) \in Nat
      /\ Len(events') = Len(events) - 1
      /\ \A k \in 1 .. Len(events) - 1 : events'[k] = events[k + 1]
  BY <1>1, <1>2, TailIs
<1>4. m = events[1].message /\ IsMessage(events[1]) /\ 1 \in 1 .. Len(events) /\ m.id \in 1 .. Len(history)
  BY <1>1, <1>3 DEF OrderInv, WaitingInOrder
<1> HIDE DEF m
<1>5. files \in Seq(Seq(Entry)) /\ file \in 1 .. Len(files) /\ file = Len(files) /\ Len(files) \in Nat
  BY DEF TypeInv
<1>6. /\ DOMAIN files' = 1 .. Len(files) /\ DOMAIN files = 1 .. Len(files)
      /\ \A f \in 1 .. Len(files) : f # file => files'[f] = files[f]
      /\ files'[file] = Append(files[file], m)
  BY <1>1, <1>5
<1>7. files[file] \in Seq(Entry)
  BY <1>5
<1>8. /\ DOMAIN files'[file] = 1 .. Len(files[file]) + 1 /\ Len(files[file]) \in Nat
      /\ DOMAIN files[file] = 1 .. Len(files[file])
      /\ \A i \in 1 .. Len(files[file]) : files'[file][i] = files[file][i]
      /\ files'[file][Len(files[file]) + 1] = m
  BY <1>6, <1>7
<1>9. ASSUME NEW f \in DOMAIN files', NEW i \in DOMAIN files'[f]
      PROVE  \/ f \in DOMAIN files /\ i \in DOMAIN files[f] /\ files'[f][i] = files[f][i]
             \/ f = file /\ i = Len(files[file]) + 1 /\ files'[f][i] = m
  <2>1. CASE f # file
    BY <1>6, <2>1
  <2>2. CASE f = file /\ i # Len(files[file]) + 1
    BY <1>5, <1>6, <1>8, <2>2
  <2>3. CASE f = file /\ i = Len(files[file]) + 1
    BY <1>8, <2>3
  <2> QED BY <2>1, <2>2, <2>3
<1>10. \A f \in DOMAIN files : \A i \in DOMAIN files[f] :
         files[f][i].kind # "compaction" => files[f][i].id < m.id
  BY <1>4 DEF OrderInv, StoredBefore
<1>11. WaitingInOrder'
  BY <1>1, TailPasses, PassedOrder, SameHistory
<1>12. StoredInOrder'
  <2> SUFFICES ASSUME NEW f \in DOMAIN files', NEW g \in DOMAIN files',
                      NEW i \in DOMAIN files'[f], NEW j \in DOMAIN files'[g],
                      f < g \/ (f = g /\ i < j),
                      files'[f][i].kind # "compaction", files'[g][j].kind # "compaction"
               PROVE  files'[f][i].id < files'[g][j].id
    BY DEF StoredInOrder
  <2>1. f \in 1 .. Len(files) /\ g \in 1 .. Len(files)
    BY <1>6
  <2>2. CASE f = file /\ i = Len(files[file]) + 1
    <3>1. g = file /\ i < j
      BY <1>5, <2>1, <2>2
    <3>2. j \in 1 .. Len(files[file]) + 1
      BY <1>8, <3>1
    <3> QED BY <1>8, <2>2, <3>1, <3>2
  <2>3. CASE f \in DOMAIN files /\ i \in DOMAIN files[f] /\ files'[f][i] = files[f][i]
    <3>1. CASE g \in DOMAIN files /\ j \in DOMAIN files[g] /\ files'[g][j] = files[g][j]
      BY <2>3, <3>1 DEF OrderInv, StoredInOrder
    <3>2. CASE files'[g][j] = m
      BY <1>10, <2>3, <3>2
    <3> QED BY <1>9, <3>1, <3>2
  <2> QED BY <1>9, <2>2, <2>3
<1>13. StoredBefore'
  <2> SUFFICES ASSUME NEW f \in DOMAIN files', NEW i \in DOMAIN files'[f],
                      files'[f][i].kind # "compaction"
               PROVE  /\ files'[f][i].id <= Len(history')
                      /\ \A k \in 1 .. Len(events') : IsMessage(events'[k]) =>
                           files'[f][i].id < events'[k].message.id
    BY DEF StoredBefore
  <2>1. CASE f \in DOMAIN files /\ i \in DOMAIN files[f] /\ files'[f][i] = files[f][i]
    <3>1. /\ files[f][i].id <= Len(history)
          /\ \A k \in 1 .. Len(events) : IsMessage(events[k]) =>
               files[f][i].id < events[k].message.id
      BY <2>1 DEF OrderInv, StoredBefore
    <3> QED BY <1>1, <1>3, <2>1, <3>1
  <2>2. CASE files'[f][i] = m
    <3>1. ASSUME NEW k \in 1 .. Len(events'), IsMessage(events'[k])
          PROVE  m.id < events'[k].message.id
      <4>1. k + 1 \in 1 .. Len(events) /\ events'[k] = events[k + 1] /\ 1 < k + 1
        BY <1>3
      <4> QED BY <1>4, <3>1, <4>1 DEF OrderInv, WaitingInOrder
    <3>2. Len(history) \in Nat
      BY StoredIs
    <3> QED BY <1>1, <1>4, <2>2, <3>1, <3>2
  <2> QED BY <1>9, <2>1, <2>2
<1> QED BY <1>11, <1>12, <1>13 DEF OrderInv

(* A compaction is no message.                                             *)
LEMMA CompactionStoresNothing ==
    ASSUME TypeInv, NEW entry \in CompactionEntry,
           files' = [files EXCEPT ![file] = Append(@, entry)]
    PROVE  NothingStored
<1>1. files \in Seq(Seq(Entry)) /\ file \in 1 .. Len(files)
  BY DEF TypeInv
<1>2. /\ DOMAIN files' = 1 .. Len(files) /\ DOMAIN files = 1 .. Len(files)
      /\ \A f \in 1 .. Len(files) : f # file => files'[f] = files[f]
      /\ files'[file] = Append(files[file], entry)
  BY <1>1
<1>3. files[file] \in Seq(Entry)
  BY <1>1
<1>4. /\ DOMAIN files'[file] = 1 .. Len(files[file]) + 1 /\ Len(files[file]) \in Nat
      /\ DOMAIN files[file] = 1 .. Len(files[file])
      /\ \A i \in 1 .. Len(files[file]) : files'[file][i] = files[file][i]
      /\ files'[file][Len(files[file]) + 1] = entry
  BY <1>2, <1>3
<1>5. entry.kind = "compaction"
  BY DEF CompactionEntry
<1>6. ASSUME NEW f \in DOMAIN files', NEW i \in DOMAIN files'[f], files'[f][i].kind # "compaction"
      PROVE  f \in DOMAIN files /\ i \in DOMAIN files[f] /\ files[f][i] = files'[f][i]
  <2>1. CASE f # file
    BY <1>2, <2>1
  <2>2. CASE f = file
    <3>1. i # Len(files[file]) + 1
      BY <1>4, <1>5, <1>6, <2>2
    <3> QED BY <1>1, <1>2, <1>4, <2>2, <3>1
  <2> QED BY <2>1, <2>2
<1> QED BY <1>6 DEF NothingStored

LEMMA SessionStoresNothing ==
    ASSUME TypeInv, files' = Append(files, << >>)
    PROVE  NothingStored
<1>1. files \in Seq(Seq(Entry))
  BY DEF TypeInv
<1>2. /\ DOMAIN files' = 1 .. Len(files) + 1 /\ DOMAIN files = 1 .. Len(files) /\ Len(files) \in Nat
      /\ \A f \in 1 .. Len(files) : files'[f] = files[f]
      /\ files'[Len(files) + 1] = << >>
  BY <1>1
<1>3. ASSUME NEW f \in DOMAIN files', NEW i \in DOMAIN files'[f]
      PROVE  f \in DOMAIN files /\ i \in DOMAIN files[f] /\ files[f][i] = files'[f][i]
  <2>1. f # Len(files) + 1
    BY <1>2, <1>3
  <2> QED BY <1>2, <2>1
<1> QED BY <1>3 DEF NothingStored

LEMMA OrderStep ==
    ASSUME TypeInv, OrderInv, Step
    PROVE  OrderInv'
<1>1. CASE RespondStep
  <2>1. PICK kind \in Assistant \ Unannounced, kinds \in Seq(Spoken), ends \in BOOLEAN :
          Spoke(kinds, ends)
    BY <1>1 DEF RespondStep, Responded
  <2>2. UNCHANGED Storing
    BY <1>1 DEF RespondStep
  <2> QED BY <2>1, <2>2, SpokeOrder
<1>2. CASE ThrowStep
  <2>1. Recalls
    BY <1>2, AppendRecalls DEF ThrowStep, Threw
  <2>2. Passed
    BY <1>2, SameEventsPass, EndPasses DEF ThrowStep, Threw
  <2>3. NothingStored
    BY <1>2, SameFiles DEF ThrowStep
  <2> QED BY <2>1, <2>2, <2>3, PassedOrder
<1>3. CASE FinishStep
  <2>1. PICK kinds \in Seq(Spoken) : Spoke(kinds, FALSE)
    BY <1>3 DEF FinishStep
  <2>2. UNCHANGED Storing /\ FALSE \in BOOLEAN
    BY <1>3 DEF FinishStep
  <2> QED BY <2>1, <2>2, SpokeOrder
<1>4. CASE StartStep
  <2>1. PICK kinds \in Seq(Spoken) : Spoke(kinds, FALSE)
    BY <1>4 DEF StartStep, Started
  <2>2. UNCHANGED Storing /\ FALSE \in BOOLEAN
    BY <1>4 DEF StartStep
  <2> QED BY <2>1, <2>2, SpokeOrder
<1>5. CASE IdleStep \/ RetryStep \/ CheckStep
  <2>1. UNCHANGED <<events, history, Storing>>
    BY <1>5 DEF IdleStep, RetryStep, CheckStep
  <2> QED BY <2>1, SameEventsPass, SameHistory, SameFiles, PassedOrder
<1>6. CASE StoreStep
  BY <1>6, StoreOrder
<1>7. CASE ReviewStep \/ SleepStep
  <2>1. UNCHANGED <<history, Storing>> /\ events # << >>
    BY <1>7 DEF ReviewStep, SleepStep, TypeInv, EventTypes
  <2>2. events' = events \/ events' = Tail(events)
    BY <1>7 DEF ReviewStep, SleepStep, Reviewed, Done
  <2> QED BY <2>1, <2>2, SameEventsPass, TailPasses, SameHistory, SameFiles, PassedOrder
<1>8. CASE SessionStep
  <2>1. UNCHANGED <<events, history>> /\ files' = Append(files, << >>)
    BY <1>8 DEF SessionStep
  <2> QED BY <2>1, SameEventsPass, SameHistory, SessionStoresNothing, PassedOrder
<1>9. ASSUME NEW k \in Compactor, Released(k) PROVE Passed
  <2>1. CASE k = "queue"
    <3>1. events # << >> /\ events' = Tail(events)
      BY <1>9, <2>1 DEF Released, Done, TypeInv, EventTypes
    <3> QED BY <3>1, TailPasses
  <2>2. CASE k # "queue"
    BY <1>9, <2>2, SameEventsPass DEF Released
  <2> QED BY <2>1, <2>2
<1>10. CASE GiveUpStep
  <2>1. Passed /\ UNCHANGED <<history, Storing>>
    BY <1>9, <1>10 DEF GiveUpStep
  <2> QED BY <2>1, SameHistory, SameFiles, PassedOrder
<1>11. CASE CompactStep
  <2>1. Passed
    BY <1>9, <1>11 DEF CompactStep
  <2>2. PICK entry \in CompactionEntry : files' = [files EXCEPT ![file] = Append(@, entry)]
    BY <1>11 DEF CompactStep
  <2>3. PICK kind : history' = Append(history, kind)
    BY <1>11 DEF CompactStep
  <2> QED BY <2>1, <2>2, <2>3, AppendRecalls, CompactionStoresNothing, PassedOrder
<1> QED BY <1>1, <1>2, <1>3, <1>4, <1>5, <1>6, <1>7, <1>8, <1>10, <1>11 DEF Step

LEMMA InitTypes == Init => TypeInv
<1> SUFFICES ASSUME Init PROVE TypeInv
  OBVIOUS
<1>1. NoCompaction \in Compaction /\ NoCompaction.step = "none" /\ NoCompaction.reason = "none"
  BY DEF NoCompaction, Compaction
<1>2. Automatic \subseteq Compactor /\ "manual" \in Compactor /\ "queue" \in Compactor
  BY DEF Automatic, Compactor
<1>3. CompactingTypes
  BY <1>1, <1>2 DEF Init, CompactingTypes
<1>4. EventTypes
  BY <1>1, <1>2 DEF Init, EventTypes
<1>5. files \in Seq(Seq(Entry)) /\ file = Len(files) /\ file >= 1
  <2>1. << >> \in Seq(Entry)
    OBVIOUS
  <2>2. files \in Seq(Seq(Entry)) /\ Len(files) = 1
    BY <2>1 DEF Init
  <2>3. file = 1
    BY DEF Init
  <2> QED BY <2>2, <2>3
<1>6. history \in Seq(Kind)
  BY DEF Init
<1>7. run \in {"idle", "request", "tool"} /\ queued \in Nat /\ timers \in Nat
  BY DEF Init
<1>8. retryAttempt \in 0 .. MaxRetries
  BY RetriesAssumption DEF Init
<1>9. overflowRecoveryAttempted \in BOOLEAN
  BY DEF Init
<1> QED BY <1>3, <1>4, <1>5, <1>6, <1>7, <1>8, <1>9 DEF TypeInv

LEMMA InitOrder == Init => OrderInv
<1> SUFFICES ASSUME Init PROVE OrderInv
  OBVIOUS
<1>1. DOMAIN files = {1} /\ files[1] = << >> /\ events = << >> /\ Len(events) = 0
  BY DEF Init
<1> QED BY <1>1 DEF OrderInv, StoredInOrder, StoredBefore, WaitingInOrder

(* The types are right, in every state of every execution.                 *)
THEOREM TypesHold == Spec => []TypeInv
<1>1. TypeInv /\ [Next]_vars => TypeInv'
  BY StepIs
<1> QED BY <1>1, InitTypes, PTL DEF Spec

(* Whatever the order of runs, retries, compactions, new sessions and      *)
(* cancellations, and however slow the handlers of events are, a message   *)
(* is stored at most once, after all that was said before it.              *)
THEOREM MessagesStoredInOrder == Spec => []StoredInOrder
<1>1. TypeInv /\ OrderInv /\ [Next]_vars => OrderInv'
  BY StepIs, OrderStep
<1>2. OrderInv => StoredInOrder
  BY DEF OrderInv
<1> QED BY <1>1, <1>2, InitOrder, TypesHold, PTL DEF Spec
-----------------------------------------------------------------------------
(* When prompts and answers take their time, one thing happens at once: a  *)
(* run, a timer, a retry's delay, a compaction the session begins itself.  *)
Running(k) == compacting[k].step # "none"

SerialInv ==
    /\ \A i \in 1 .. Len(events) : ~IsMessage(events[i]) =>
         i = Len(events) /\ run = "idle" /\ timers = 0
    /\ handler # "ready" => Len(events) = 1 /\ ~IsMessage(events[1])
    /\ timers > 0 => /\ timers = 1 /\ run # "tool"
                     /\ run = "idle" => events = << >>
    /\ run # "idle" \/ timers > 0 => \A k \in Automatic : ~Running(k)
    /\ \A p \in Caller : Running(p) => events = << >>
    /\ \A k, l \in Automatic : Running(k) /\ Running(l) => k = l

(* What waits while a run goes on, and what comes when it speaks.          *)
LEMMA RunWaits ==
    ASSUME TypeInv, SerialInv, run # "idle"
    PROVE  /\ \A i \in 1 .. Len(events) : IsMessage(events[i])
           /\ handler = "ready" /\ \A k \in Automatic : ~Running(k)
<1>1. \A i \in 1 .. Len(events) : IsMessage(events[i])
  BY DEF SerialInv
<1>2. handler = "ready"
  BY <1>1 DEF SerialInv
<1> QED BY <1>1, <1>2 DEF SerialInv

LEMMA SpokeSerial ==
    ASSUME TypeInv, NEW said \in Seq(Spoken), NEW ends \in BOOLEAN, Spoke(said, ends),
           \A i \in 1 .. Len(events) : IsMessage(events[i]), handler' = "ready",
           \A k \in Automatic : ~Running(k)', timers' \in {0, 1}, timers' = 1 => ~ends,
           run' = "idle" <=> ends, timers' = 1 => run' # "tool"
    PROVE  SerialInv'
<1>1. Len(events) \in Nat /\ Len(said) \in Nat /\ timers \in Nat
  BY StoredIs DEF TypeInv
<1>2. ASSUME NEW i \in 1 .. Len(events'), ~IsMessage(events'[i])
      PROVE  i = Len(events') /\ ends
  <2>1. events' # events
    BY <1>2
  <2>2. /\ Len(events') = Len(events) + Len(said) + (IF ends THEN 1 ELSE 0)
        /\ \A n \in 1 .. Len(events) : events'[n] = events[n]
        /\ \A n \in 1 .. Len(said) : IsMessage(events'[Len(events) + n])
    BY <2>1 DEF Spoke
  <2>3. ~(i <= Len(events) + Len(said))
    <3> SUFFICES ASSUME i <= Len(events) + Len(said) PROVE FALSE
      OBVIOUS
    <3>1. CASE i <= Len(events)
      BY <1>1, <1>2, <2>2, <3>1
    <3>2. CASE i > Len(events)
      <4>1. i - Len(events) \in 1 .. Len(said) /\ i = Len(events) + (i - Len(events))
        BY <1>1, <3>2
      <4> QED BY <1>2, <2>2, <4>1
    <3> QED BY <1>1, <3>1, <3>2
  <2>4. CASE ends
    BY <1>1, <2>2, <2>3, <2>4
  <2>5. CASE ~ends
    BY <1>1, <2>2, <2>3, <2>5
  <2> QED BY <2>4, <2>5
<1>3. Caller \subseteq Automatic
  BY DEF Automatic
<1>4. \A i \in 1 .. Len(events') : ~IsMessage(events'[i]) =>
        i = Len(events') /\ run' = "idle" /\ timers' = 0
  BY <1>2
<1>5. timers' > 0 => timers' = 1 /\ run' # "tool" /\ run' # "idle"
  OBVIOUS
<1> QED BY <1>3, <1>4, <1>5 DEF SerialInv

(* The end of a run is the last thing in the queue.                        *)
LEMMA EndIsLast ==
    ASSUME TypeInv, SerialInv,
           handler # "ready" \/ (events # << >> /\ ~IsMessage(Head(events)))
    PROVE  /\ Len(events) = 1 /\ ~IsMessage(events[1]) /\ events # << >>
           /\ run = "idle" /\ timers = 0
           /\ Tail(events) = << >> /\ Len(Tail(events)) = 0
           /\ \A p \in Caller : ~Running(p)
<1>1. events \in Seq(Event) /\ events # << >>
  BY DEF TypeInv, EventTypes
<1>2. Len(events) \in Nat /\ 1 \in 1 .. Len(events) /\ Head(events) = events[1]
  BY <1>1
<1>3. ~IsMessage(events[1])
  BY <1>2 DEF SerialInv
<1>4. Len(events) = 1 /\ run = "idle" /\ timers = 0
  BY <1>2, <1>3 DEF SerialInv
<1>5. Tail(events) \in Seq(Event) /\ Len(Tail(events)) = 0
  BY <1>1, <1>4, TailIs
<1>6. Tail(events) = << >>
  BY <1>5, EmptySeq
<1>7. \A p \in Caller : ~Running(p)
  BY <1>1 DEF SerialInv
<1> QED BY <1>1, <1>3, <1>4, <1>5, <1>6, <1>7

LEMMA SerialSame ==
    ASSUME SerialInv, UNCHANGED <<events, run>>,
           timers' = timers \/ (timers > 0 /\ timers' = timers - 1), timers \in Nat,
           handler' = "ready" \/ handler # "ready",
           \A k \in Automatic : Running(k)' => Running(k)
    PROVE  SerialInv'
<1>1. Caller \subseteq Automatic
  BY DEF Automatic
<1>2. \A i \in 1 .. Len(events) : ~IsMessage(events[i]) =>
         i = Len(events) /\ run = "idle" /\ timers' = 0
  BY DEF SerialInv
<1>3. handler' # "ready" => Len(events) = 1 /\ ~IsMessage(events[1])
  BY DEF SerialInv
<1>4. timers' > 0 => timers > 0 /\ timers' = timers
  BY DEF SerialInv
<1> QED BY <1>1, <1>2, <1>3, <1>4 DEF SerialInv

(* At most one of them is under way, and begins when nothing else is.      *)
LEMMA SerialStep ==
    ASSUME Patient, TypeInv, SerialInv, Step, TypeInv'
    PROVE  SerialInv'
<1>1. Caller \subseteq Automatic /\ "queue" \in Automatic /\ Automatic \subseteq Compactor
  BY DEF Automatic, Compactor
<1>2. timers \in Nat /\ Len(events) \in Nat
  BY StoredIs DEF TypeInv
<1>3. events # << >> => Len(events) > 0 /\ Head(events) = events[1]
  BY DEF TypeInv, EventTypes
<1>4. CASE RespondStep
  <2>1. PICK kind \in Assistant \ Unannounced, kinds \in Seq(Spoken), ends \in BOOLEAN :
          Responded(kind, kinds, ends)
    BY <1>4 DEF RespondStep
  <2>2. timers' = 0 /\ run # "idle" /\ UNCHANGED <<handler, compacting>>
    BY <1>4 DEF RespondStep, Unhasty, Deciding, Handling
  <2>3. \A k \in Automatic : ~Running(k)'
    BY <2>2, RunWaits DEF Running
  <2>4. handler' = "ready" /\ \A i \in 1 .. Len(events) : IsMessage(events[i])
    BY <2>2, RunWaits
  <2>5. Spoke(kinds, ends) /\ (run' = "idle" <=> ends)
    BY <2>1 DEF Responded
  <2> QED BY <2>2, <2>3, <2>4, <2>5, SpokeSerial
<1>5. CASE ThrowStep
  <2>1. timers' = 0 /\ timers = 0 /\ run # "idle" /\ run' = "idle" /\ UNCHANGED <<handler, compacting>>
    BY <1>5 DEF ThrowStep, Threw, Unhasty, Deciding, Handling
  <2>2. \A k \in Automatic : ~Running(k)'
    BY <2>1, RunWaits DEF Running
  <2>3. handler' = "ready" /\ \A i \in 1 .. Len(events) : IsMessage(events[i])
    BY <2>1, RunWaits
  <2>4. events' = events \/ events' = Append(events, Ended)
    BY <1>5 DEF ThrowStep, Threw
  <2>5. \A i \in 1 .. Len(events') : ~IsMessage(events'[i]) => i = Len(events')
    <3>1. CASE events' = events
      BY <2>3, <3>1
    <3>2. CASE events' = Append(events, Ended)
      <4>1. /\ events \in Seq(Event)
        BY DEF TypeInv, EventTypes
      <4>2. Len(events') = Len(events) + 1 /\ \A i \in 1 .. Len(events) : events'[i] = events[i]
        BY <3>2, <4>1
      <4> QED BY <1>2, <2>3, <4>2
    <3> QED BY <2>4, <3>1, <3>2
  <2> QED BY <1>1, <2>1, <2>2, <2>3, <2>5 DEF SerialInv
<1>6. CASE FinishStep
  <2>1. PICK said \in Seq(Spoken) : Spoke(said, FALSE)
    BY <1>6 DEF FinishStep
  <2>2. run = "tool" /\ run' = "request" /\ timers' = timers /\ UNCHANGED <<handler, compacting>>
    BY <1>6 DEF FinishStep, Deciding, Handling
  <2>3. timers' = 0
    BY <1>2, <2>2 DEF SerialInv
  <2>4. \A k \in Automatic : ~Running(k)'
    BY <2>2, RunWaits DEF Running
  <2>5. handler' = "ready" /\ \A i \in 1 .. Len(events) : IsMessage(events[i])
    BY <2>2, RunWaits
  <2> QED BY <2>1, <2>2, <2>3, <2>4, <2>5, SpokeSerial
<1>7. CASE StartStep
  <2>1. PICK said \in Seq(Spoken) :
          /\ Started(said)
          /\ \/ timers > 0 /\ timers' = timers - 1
             \/ timers' = timers /\ Calm
    BY <1>7 DEF StartStep
  <2>2. run = "idle" /\ run' = "request" /\ UNCHANGED <<handler, compacting>> /\ Spoke(said, FALSE)
    BY <1>7, <2>1 DEF StartStep, Started, Deciding, Handling
  <2>3. events = << >> /\ timers' \in {0, 1} /\ \A k \in Automatic : ~Running(k)
    <3>1. CASE timers > 0 /\ timers' = timers - 1
      BY <2>2, <3>1 DEF SerialInv
    <3>2. CASE timers' = timers /\ Calm
      <4>1. events = << >> /\ \A k \in Automatic : ~Running(k)
        BY <3>2 DEF Calm, Running, NoCompaction
      <4>2. timers \in {0, 1}
        BY <1>2 DEF SerialInv
      <4> QED BY <3>2, <4>1, <4>2
    <3> QED BY <2>1, <3>1, <3>2
  <2>4. handler = "ready" /\ \A i \in 1 .. Len(events) : IsMessage(events[i])
    BY <2>3 DEF TypeInv, EventTypes
  <2>5. \A k \in Automatic : ~Running(k)'
    BY <2>2, <2>3 DEF Running
  <2> QED BY <2>2, <2>3, <2>4, <2>5, SpokeSerial
<1>8. CASE IdleStep
  <2>1. /\ UNCHANGED <<events, run>>
        /\ timers' = timers \/ (timers > 0 /\ timers' = timers - 1)
        /\ handler' = "ready" \/ handler # "ready"
        /\ \A k \in Automatic : Running(k)' => Running(k)
    BY <1>8 DEF IdleStep, Running
  <2> QED BY <1>2, <2>1, SerialSame
<1>9. CASE StoreStep
  <2>1. /\ events # << >> /\ handler = "ready" /\ IsMessage(events[1]) /\ events' = Tail(events)
        /\ UNCHANGED <<run, handler, timers, compacting>>
    BY <1>3, <1>9 DEF StoreStep
  <2>2. /\ Len(events') = Len(events) - 1
        /\ \A i \in 1 .. Len(events) - 1 : events'[i] = events[i + 1]
    BY <2>1, TailIs DEF TypeInv, EventTypes
  <2>3. ASSUME NEW i \in 1 .. Len(events'), ~IsMessage(events'[i])
        PROVE  i = Len(events') /\ run = "idle" /\ timers = 0
    <3>1. i + 1 \in 1 .. Len(events) /\ ~IsMessage(events[i + 1])
      BY <1>2, <2>2, <2>3
    <3>2. i + 1 = Len(events) /\ run = "idle" /\ timers = 0
      BY <3>1 DEF SerialInv
    <3> QED BY <1>2, <2>2, <3>2
  <2>4. \A p \in Caller : ~Running(p)
    BY <2>1 DEF SerialInv
  <2> QED BY <1>1, <2>1, <2>3, <2>4 DEF SerialInv, Running
<1>10. CASE RetryStep
  <2>1. /\ events # << >> /\ ~IsMessage(events[1])
        /\ UNCHANGED <<run, events, timers, compacting>>
    BY <1>3, <1>10 DEF RetryStep
  <2>2. Len(events) = 1
    BY <1>3, <2>1, EndIsLast
  <2> QED BY <2>1, <2>2 DEF SerialInv, Running
<1>11. CASE ReviewStep
  <2>1. /\ events # << >> /\ UNCHANGED <<run, timers>>
        /\ (handler = "ready" /\ ~IsMessage(events[1])) \/ handler = "cancelled"
    BY <1>3, <1>11 DEF ReviewStep
  <2>2. Len(events) = 1 /\ ~IsMessage(events[1]) /\ run = "idle" /\ timers = 0
    BY <1>3, <2>1, EndIsLast
  <2>3. \A k \in Automatic : ~Running(k)
    <3>1. ~Running("queue")
      BY <2>1 DEF TypeInv, EventTypes, Running
    <3>2. \A p \in Caller : ~Running(p)
      BY <2>1 DEF SerialInv
    <3> QED BY <3>1, <3>2 DEF Automatic
  <2>4. PICK why \in {"none", "overflow", "threshold"} : Reviewed(why)
    BY <1>11 DEF ReviewStep
  <2>5. CASE why = "none"
    <3>1. events' = Tail(events) /\ handler' = "ready" /\ UNCHANGED compacting
      BY <2>4, <2>5 DEF Reviewed, Done
    <3>2. events' = << >> /\ Len(events') = 0
      BY <1>3, <2>1, <3>1, EndIsLast
    <3> QED BY <2>1, <2>2, <2>3, <3>1, <3>2 DEF SerialInv, Running
  <2>6. CASE why # "none"
    <3>1. /\ UNCHANGED events
          /\ \A l \in Compactor \ {"queue"} : compacting'[l] = compacting[l]
      BY <2>4, <2>6 DEF Reviewed
    <3>2. \A l \in Automatic : l # "queue" => ~Running(l)'
      BY <1>1, <2>3, <3>1 DEF Running
    <3>3. \A p \in Caller : ~Running(p)'
      BY <1>1, <3>2, CallerAssumption
    <3> QED BY <2>1, <2>2, <3>1, <3>2, <3>3 DEF SerialInv
  <2> QED BY <2>5, <2>6
<1>12. CASE SleepStep
  <2>1. handler = "sleeping" /\ timers' = timers + 1 /\ Done /\ UNCHANGED <<run, compacting>>
    BY <1>12 DEF SleepStep, Deciding
  <2>2. Len(events) = 1 /\ run = "idle" /\ timers = 0 /\ events # << >>
    BY <2>1, EndIsLast
  <2>3. \A k \in Automatic : ~Running(k)
    <3>1. ~Running("queue")
      BY <2>1 DEF TypeInv, EventTypes, Running
    <3>2. \A p \in Caller : ~Running(p)
      BY <2>2 DEF SerialInv
    <3> QED BY <3>1, <3>2 DEF Automatic
  <2>4. events' = << >> /\ Len(events') = 0 /\ handler' = "ready"
    BY <2>1, EndIsLast DEF Done
  <2> QED BY <2>1, <2>2, <2>3, <2>4 DEF SerialInv, Running
<1>13. CASE SessionStep
  <2>1. UNCHANGED <<run, events, timers, handler, compacting>>
    BY <1>13 DEF SessionStep, Deciding, Handling
  <2> QED BY <1>2, <2>1, SerialSame DEF Running
<1>14. CASE CheckStep
  <2>1. /\ events = << >> /\ run = "idle" /\ timers = 0 /\ \A k \in Automatic : ~Running(k)
        /\ UNCHANGED <<run, events, timers, handler>>
    BY <1>14 DEF CheckStep, Settling, Calm, Running, NoCompaction, Handling
  <2>2. PICK p \in Caller : \A l \in Compactor \ {p} : compacting'[l] = compacting[l]
    BY <1>14 DEF CheckStep
  <2>3. \A l \in Automatic : Running(l)' => l = p
    BY <1>1, <2>1, <2>2 DEF Running
  <2>4. Len(events) = 0
    BY <2>1
  <2> QED BY <2>1, <2>3, <2>4 DEF SerialInv
<1>15. ASSUME NEW k \in Compactor, Released(k),
              \/ timers' = timers
              \/ compacting[k].reason \in {"overflow", "threshold"} /\ timers' = timers + 1
       PROVE  SerialInv'
  <2>1. /\ compacting[k].step # "none" /\ compacting'[k] = NoCompaction /\ UNCHANGED run
        /\ \A l \in Compactor \ {k} : compacting'[l] = compacting[l]
    BY <1>15 DEF Released
  <2>2. \A l \in Automatic : Running(l)' => Running(l) /\ l # k
    BY <1>1, <2>1 DEF Running, NoCompaction
  <2>3. CASE k \in Automatic
    <3>1. run = "idle" /\ timers = 0 /\ \A l \in Automatic : ~Running(l)'
      BY <1>2, <2>1, <2>2, <2>3 DEF SerialInv, Running
    <3>2. events' = << >> /\ handler' = "ready"
      <4>1. CASE k = "queue"
        <5>1. handler # "ready" /\ Done
          BY <1>15, <2>1, <4>1 DEF Released, TypeInv, EventTypes
        <5> QED BY <5>1, EndIsLast DEF Done
      <4>2. CASE k # "queue"
        <5>1. k \in Caller /\ UNCHANGED <<events, handler>>
          BY <1>15, <2>3, <4>2 DEF Automatic, Released
        <5>2. events = << >>
          BY <2>1, <5>1 DEF SerialInv, Running
        <5> QED BY <5>1, <5>2 DEF TypeInv, EventTypes
      <4> QED BY <4>1, <4>2
    <3>3. timers' \in {0, 1} /\ run' = "idle" /\ Len(events') = 0
      BY <1>15, <2>1, <3>1, <3>2
    <3> QED BY <1>1, <3>1, <3>2, <3>3 DEF SerialInv
  <2>4. CASE ~(k \in Automatic)
    <3>1. k = "manual" /\ k # "queue"
      BY <1>1, <2>4 DEF Compactor
    <3>2. timers' = timers /\ UNCHANGED <<events, handler>>
      BY <1>15, <3>1 DEF Released, TypeInv, CompactingTypes
    <3> QED BY <1>2, <2>1, <2>2, <3>2, SerialSame
  <2> QED BY <2>3, <2>4
<1>16. CASE GiveUpStep
  BY <1>15, <1>16 DEF GiveUpStep
<1>17. CASE CompactStep
  BY <1>15, <1>17 DEF CompactStep
<1> QED BY <1>4, <1>5, <1>6, <1>7, <1>8, <1>9, <1>10, <1>11, <1>12, <1>13, <1>14, <1>16, <1>17
        DEF Step
-----------------------------------------------------------------------------
(* The failures that end the history, what may add to them, and what is    *)
(* yet to decide whether they go on.                                       *)
Streak(i) == \A n \in i .. Len(history) : history[n] = "retryable"
MayExtend == run # "idle" \/ timers > 0 \/ handler = "sleeping"
Failed(k) == IsMessage(events[k]) /\ events[k].message.kind = "retryable"
Undecided == \/ handler = "ready" /\ lastAssistant.kind = "retryable"
             \/ \E k \in 1 .. Len(events) : Failed(k)

StormInv ==
    /\ NoRetryStorm
    /\ MayExtend => \A i \in 1 .. Len(history) : Streak(i) => Len(history) - i < retryAttempt
    /\ Undecided => \A i \in 1 .. Len(history) : Streak(i) => Len(history) - i <= retryAttempt
    /\ (\E k \in 1 .. Len(events) : IsMessage(events[k]) /\ ~Failed(k)) =>
         \A i \in 1 .. Len(history) : Streak(i) => i = Len(history) /\ ~MayExtend
    /\ \A k \in 1 .. Len(events) : Failed(k) =>
         k + 1 = Len(events) /\ ~IsMessage(events[k + 1])
    /\ handler = "ready" /\ lastAssistant.kind = "retryable" =>
         Len(events) = 1 /\ ~IsMessage(events[1])

(* When what was just said is no failure that may pass, nothing is left of *)
(* a streak.                                                               *)
LEMMA NoStreak ==
    ASSUME TypeInv, NoRetryStorm, Recalls, history' \in Seq(Kind),
           Len(history) < Len(history'),
           \A n \in Len(history) + 1 .. Len(history') : history'[n] # "retryable"
    PROVE  /\ NoRetryStorm'
           /\ \A i \in 1 .. Len(history') : ~Streak(i)'
<1>1. Len(history) \in Nat /\ Len(history') \in Nat
  BY StoredIs DEF Recalls
<1>2. DOMAIN history' = 1 .. Len(history') /\ DOMAIN history = 1 .. Len(history)
  BY DEF TypeInv
<1>3. \A i \in 1 .. Len(history') : ~Streak(i)'
  <2> TAKE i \in 1 .. Len(history')
  <2>1. Len(history') \in i .. Len(history') /\ Len(history') \in Len(history) + 1 .. Len(history')
    BY <1>1
  <2> QED BY <2>1 DEF Streak
<1>4. NoRetryStorm'
  <2> SUFFICES ASSUME NEW i \in 1 .. Len(history'), NEW j \in 1 .. Len(history'), i <= j,
                      \A n \in i .. j : history'[n] = "retryable"
               PROVE  j - i <= MaxRetries
    BY <1>2 DEF NoRetryStorm
  <2>1. j <= Len(history)
    <3> SUFFICES ASSUME j > Len(history) PROVE FALSE
      BY <1>1
    <3>1. j \in i .. j /\ j \in Len(history) + 1 .. Len(history')
      BY <1>1
    <3> QED BY <3>1
  <2>2. i \in DOMAIN history /\ j \in DOMAIN history
    BY <1>1, <1>2, <2>1
  <2>3. \A n \in i .. j : history[n] = "retryable"
    BY <1>1, <2>1 DEF Recalls
  <2> QED BY <2>2, <2>3 DEF NoRetryStorm
<1> QED BY <1>3, <1>4

LEMMA SilentStorm ==
    ASSUME NoRetryStorm', \A i \in 1 .. Len(history') : ~Streak(i)',
           \A k \in 1 .. Len(events') : ~Failed(k)',
           (handler = "ready" /\ lastAssistant.kind = "retryable")' =>
             Len(events') = 1 /\ ~IsMessage(events'[1])
    PROVE  StormInv'
BY DEF StormInv

LEMMA QuietStorm ==
    ASSUME StormInv, UNCHANGED <<history, events, lastAssistant, retryAttempt>>,
           MayExtend' => MayExtend, handler' = "ready" => handler = "ready"
    PROVE  StormInv'
<1>1. \A i : Streak(i)' <=> Streak(i)
  BY DEF Streak
<1>2. \A k : Failed(k)' <=> Failed(k)
  BY DEF Failed
<1>3. Undecided' => Undecided
  BY <1>2 DEF Undecided
<1> QED BY <1>1, <1>2, <1>3 DEF StormInv, NoRetryStorm

(* The end of the run is being handled, or is.                             *)
LEMMA EndedStorm ==
    ASSUME StormInv, UNCHANGED history,
           \A k \in 1 .. Len(events') : ~IsMessage(events'[k]),
           handler' = "ready" => lastAssistant' = None,
           MayExtend' => \A i \in 1 .. Len(history) : Streak(i) => Len(history) - i < retryAttempt'
    PROVE  StormInv'
<1>1. \A i : Streak(i)' <=> Streak(i)
  BY DEF Streak
<1>2. handler' = "ready" => lastAssistant'.kind # "retryable"
  BY DEF None
<1>3. ~Undecided' /\ \A k \in 1 .. Len(events') : ~Failed(k)'
  BY <1>2 DEF Undecided, Failed
<1> QED BY <1>1, <1>2, <1>3 DEF StormInv, NoRetryStorm

(* While a run goes on no failure is undecided.                            *)
LEMMA RunDecided ==
    ASSUME TypeInv, SerialInv, StormInv, run # "idle" \/ events = << >>
    PROVE  /\ \A k \in 1 .. Len(events) : IsMessage(events[k]) /\ ~Failed(k)
           /\ ~(handler = "ready" /\ lastAssistant.kind = "retryable")
           /\ handler = "ready"
<1>1. \A k \in 1 .. Len(events) : IsMessage(events[k])
  BY DEF SerialInv
<1>2. Len(events) \in Nat
  BY StoredIs
<1>3. \A k \in 1 .. Len(events) : ~Failed(k)
  <2> SUFFICES ASSUME NEW k \in 1 .. Len(events), Failed(k) PROVE FALSE
    OBVIOUS
  <2>1. k + 1 \in 1 .. Len(events) /\ ~IsMessage(events[k + 1])
    BY <1>2 DEF StormInv
  <2> QED BY <1>1, <2>1
<1>4. ~(handler = "ready" /\ lastAssistant.kind = "retryable")
  <2> SUFFICES ASSUME handler = "ready", lastAssistant.kind = "retryable" PROVE FALSE
    OBVIOUS
  <2>1. Len(events) = 1 /\ ~IsMessage(events[1])
    BY DEF StormInv
  <2> QED BY <1>1, <2>1
<1>5. handler = "ready"
  <2> SUFFICES ASSUME handler # "ready" PROVE FALSE
    OBVIOUS
  <2>1. 1 \in 1 .. Len(events) /\ ~IsMessage(events[1])
    BY DEF SerialInv
  <2> QED BY <1>1, <2>1
<1> QED BY <1>1, <1>3, <1>4, <1>5

LEMMA SpokeStorm ==
    ASSUME TypeInv, SerialInv, StormInv, run # "idle" \/ events = << >>,
           NEW said \in Seq(Spoken), NEW ends \in BOOLEAN, Spoke(said, ends), Len(said) > 0,
           \A i \in 1 .. Len(said) : said[i] # "retryable", UNCHANGED Handling
    PROVE  StormInv'
<1>1. /\ \A k \in 1 .. Len(events) : IsMessage(events[k]) /\ ~Failed(k)
      /\ ~(handler = "ready" /\ lastAssistant.kind = "retryable")
  BY RunDecided
<1>2. Len(history) \in Nat /\ Len(said) \in Nat /\ Len(events) \in Nat
  BY StoredIs
<1>3. /\ history' \in Seq(Kind) /\ Len(history') = Len(history) + Len(said) /\ Recalls
      /\ \A i \in 1 .. Len(said) : history'[Len(history) + i] = said[i]
  BY <1>2 DEF Spoke, Recalls
<1>4. ASSUME NEW n \in Len(history) + 1 .. Len(history') PROVE history'[n] # "retryable"
  <2>1. n - Len(history) \in 1 .. Len(said) /\ n = Len(history) + (n - Len(history))
    BY <1>2, <1>3
  <2> QED BY <1>3, <2>1
<1>5. NoRetryStorm' /\ \A i \in 1 .. Len(history') : ~Streak(i)'
  BY <1>2, <1>3, <1>4, NoStreak DEF StormInv
<1>6. \A k \in 1 .. Len(events') : ~Failed(k)'
  <2> SUFFICES ASSUME NEW k \in 1 .. Len(events'), IsMessage(events'[k])
               PROVE  events'[k].message.kind # "retryable"
    BY DEF Failed
  <2>1. CASE k \in 1 .. Len(events) /\ events'[k] = events[k]
    BY <1>1, <2>1 DEF Failed
  <2>2. CASE \E i \in 1 .. Len(said) : events'[k].message.kind = said[i]
    BY <2>2
  <2> QED BY <2>1, <2>2, SpokeWaits
<1>7. ~(handler = "ready" /\ lastAssistant.kind = "retryable")'
  BY <1>1 DEF Handling
<1> QED BY <1>5, <1>6, <1>7, SilentStorm

(* One more failure, of a run that may still be tried again.               *)
LEMMA FailedStorm ==
    ASSUME TypeInv, SerialInv, StormInv, run # "idle", timers' = 0, run' = "idle",
           Spoke(<<"retryable">>, TRUE), UNCHANGED <<Handling, Deciding>>
    PROVE  StormInv'
<1> DEFINE said == <<"retryable">>
<1>1. said \in Seq(Spoken) /\ Len(said) = 1 /\ said[1] = "retryable" /\ TRUE \in BOOLEAN
  BY DEF Spoken, Assistant, Errors
<1> HIDE DEF said
<1>2. Len(history) \in Nat /\ Len(events) \in Nat /\ retryAttempt \in 0 .. MaxRetries
  BY StoredIs DEF TypeInv
<1>3. Spoke(said, TRUE)
  BY DEF said
<1>4. /\ Len(history') = Len(history) + 1 /\ history'[Len(history) + 1] = "retryable"
      /\ \A i \in 1 .. Len(history) : history'[i] = history[i]
      /\ history' \in Seq(Kind)
  BY <1>1, <1>3 DEF Spoke
<1>5. /\ \A k \in 1 .. Len(events) : IsMessage(events[k]) /\ ~Failed(k)
      /\ ~(handler = "ready" /\ lastAssistant.kind = "retryable")
      /\ handler = "ready"
  BY RunDecided
<1>6. ASSUME NEW i \in 1 .. Len(history'), Streak(i)'
      PROVE  i = Len(history') \/ (i \in 1 .. Len(history) /\ Streak(i))
  <2> SUFFICES ASSUME i # Len(history') PROVE i \in 1 .. Len(history) /\ Streak(i)
    OBVIOUS
  <2>1. i \in 1 .. Len(history)
    BY <1>2, <1>4
  <2>2. \A n \in i .. Len(history) : history[n] = "retryable"
    BY <1>2, <1>4, <1>6, <2>1 DEF Streak
  <2> QED BY <2>1, <2>2 DEF Streak
<1>7. ~MayExtend'
  BY <1>5 DEF MayExtend, Handling
<1>8. \A i \in 1 .. Len(history) : Streak(i) => Len(history) - i < retryAttempt
  BY DEF StormInv, MayExtend
<1>9. \A i \in 1 .. Len(history') : Streak(i)' => Len(history') - i <= retryAttempt'
  <2> TAKE i \in 1 .. Len(history')
  <2> HAVE Streak(i)'
  <2>1. CASE i = Len(history')
    BY <1>2, <1>4, <2>1 DEF Deciding
  <2>2. CASE i \in 1 .. Len(history) /\ Streak(i)
    BY <1>2, <1>4, <1>8, <2>2 DEF Deciding
  <2> QED BY <1>6, <2>1, <2>2
<1>10. NoRetryStorm'
  <2>1. DOMAIN history' = 1 .. Len(history') /\ DOMAIN history = 1 .. Len(history)
    BY <1>4 DEF TypeInv
  <2> SUFFICES ASSUME NEW i \in 1 .. Len(history'), NEW j \in 1 .. Len(history'), i <= j,
                      \A n \in i .. j : history'[n] = "retryable"
               PROVE  j - i <= MaxRetries
    BY <2>1 DEF NoRetryStorm
  <2>2. CASE j = Len(history')
    <3>1. Streak(i)'
      BY <2>2 DEF Streak
    <3>2. Len(history') - i <= retryAttempt
      BY <1>9, <3>1 DEF Deciding
    <3> QED BY <1>2, <1>4, <2>2, <3>2, RetriesAssumption
  <2>3. CASE j # Len(history')
    <3>1. i \in 1 .. Len(history) /\ j \in 1 .. Len(history)
      BY <1>2, <1>4, <2>3
    <3>2. \A n \in i .. j : history[n] = "retryable"
      BY <1>2, <1>4, <3>1
    <3> QED BY <2>1, <3>1, <3>2 DEF StormInv, NoRetryStorm
  <2> QED BY <2>2, <2>3
<1>11. ASSUME NEW k \in 1 .. Len(events'), IsMessage(events'[k])
       PROVE  \/ k \in 1 .. Len(events) /\ events'[k] = events[k]
              \/ k = Len(events) + 1 /\ events'[k].message.kind = "retryable"
                 /\ Len(events') = Len(events) + 2 /\ events'[k + 1] = Ended
  <2>1. CASE k \in 1 .. Len(events) /\ events'[k] = events[k]
    BY <2>1
  <2>2. CASE ~(k \in 1 .. Len(events) /\ events'[k] = events[k])
    <3>1. \E i \in 1 .. Len(said) : k = Len(events) + i /\ events'[k].message.kind = said[i]
      BY <1>1, <1>3, <1>11, <2>2, SpokeWaits
    <3>2. k = Len(events) + 1 /\ events'[k].message.kind = "retryable"
      BY <1>1, <3>1
    <3>3. Len(events') = Len(events) + 1 + 1 /\ events'[Len(events')] = Ended
      <4>1. events' # events
        BY <1>2, <3>2
      <4> QED BY <1>1, <1>3, <4>1 DEF Spoke
    <3> QED BY <1>2, <3>2, <3>3
  <2> QED BY <2>1, <2>2
<1>12. \A k \in 1 .. Len(events') : Failed(k)' =>
         k + 1 = Len(events') /\ ~IsMessage(events'[k + 1])
  <2> SUFFICES ASSUME NEW k \in 1 .. Len(events'), IsMessage(events'[k]),
                      events'[k].message.kind = "retryable"
               PROVE  k + 1 = Len(events') /\ ~IsMessage(events'[k + 1])
    BY DEF Failed
  <2>1. ~(k \in 1 .. Len(events) /\ events'[k] = events[k])
    BY <1>5 DEF Failed
  <2>2. k = Len(events) + 1 /\ Len(events') = Len(events) + 2 /\ events'[k + 1] = Ended
    BY <1>11, <2>1
  <2> QED BY <1>2, <2>2 DEF IsMessage, Ended
<1>13. (\E k \in 1 .. Len(events') : IsMessage(events'[k]) /\ ~Failed(k)') =>
         \A i \in 1 .. Len(history') : Streak(i)' => i = Len(history')
  <2> SUFFICES ASSUME NEW k \in 1 .. Len(events'), IsMessage(events'[k]), ~Failed(k)',
                      NEW i \in 1 .. Len(history'), Streak(i)', i # Len(history')
               PROVE  FALSE
    OBVIOUS
  <2>1. k \in 1 .. Len(events)
    BY <1>11 DEF Failed
  <2>2. i \in 1 .. Len(history) /\ Streak(i)
    BY <1>6
  <2> QED BY <1>5, <2>1, <2>2 DEF StormInv, MayExtend
<1>14. ~(handler = "ready" /\ lastAssistant.kind = "retryable")'
  BY <1>5 DEF Handling
<1> QED BY <1>7, <1>9, <1>10, <1>12, <1>13, <1>14 DEF StormInv

(* A stored failure is to be decided about; any other answer ends them.    *)
LEMMA StoreStorm ==
    ASSUME TypeInv, SerialInv, StormInv, StoreStep
    PROVE  StormInv'
<1> DEFINE m == events[1].message
<1>1. events \in Seq(Event) /\ events # << >>
  BY DEF TypeInv, EventTypes, StoreStep
<1>2. /\ Head(events) = events[1] /\ 1 \in 1 .. Len(events) /\ Len(events) \in Nat
      /\ Len(events') = Len(events) - 1
      /\ \A k \in 1 .. Len(events) - 1 : events'[k] = events[k + 1]
  BY <1>1, TailIs DEF StoreStep
<1>3. /\ IsMessage(events[1]) /\ handler = "ready" /\ UNCHANGED <<run, timers, handler, history>>
      /\ lastAssistant' = IF m.kind \in Assistant THEN m ELSE lastAssistant
      /\ retryAttempt' = IF m.kind \in Assistant \ Errors THEN 0 ELSE retryAttempt
  BY <1>2 DEF StoreStep
<1>4. MayExtend' <=> MayExtend
  BY <1>3 DEF MayExtend
<1>5. \A i : Streak(i)' <=> Streak(i)
  BY <1>3 DEF Streak
<1>6. \A k \in 1 .. Len(events') : k + 1 \in 1 .. Len(events) /\ (Failed(k)' <=> Failed(k + 1))
  BY <1>2 DEF Failed
<1>7. \A k \in 1 .. Len(events') : Failed(k)' => k + 1 = Len(events') /\ ~IsMessage(events'[k + 1])
  <2> SUFFICES ASSUME NEW k \in 1 .. Len(events'), Failed(k)'
               PROVE  k + 1 = Len(events') /\ ~IsMessage(events'[k + 1])
    OBVIOUS
  <2>1. k + 1 \in 1 .. Len(events) /\ Failed(k + 1)
    BY <1>6
  <2>2. (k + 1) + 1 = Len(events) /\ ~IsMessage(events[(k + 1) + 1])
    BY <2>1 DEF StormInv
  <2> QED BY <1>2, <2>2
<1>8. NoRetryStorm'
  BY <1>3 DEF StormInv, NoRetryStorm
<1>9. (\E k \in 1 .. Len(events') : IsMessage(events'[k]) /\ ~Failed(k)') =>
         \A i \in 1 .. Len(history') : Streak(i)' => i = Len(history') /\ ~MayExtend'
  <2> SUFFICES ASSUME NEW k \in 1 .. Len(events'), IsMessage(events'[k]), ~Failed(k)'
               PROVE  \A i \in 1 .. Len(history) : Streak(i) => i = Len(history) /\ ~MayExtend
    BY <1>3, <1>4, <1>5
  <2>1. k + 1 \in 1 .. Len(events) /\ IsMessage(events[k + 1]) /\ ~Failed(k + 1)
    BY <1>2, <1>6
  <2> QED BY <2>1 DEF StormInv
<1>10. CASE Failed(1)
  <2>1. Len(events) = 2 /\ ~IsMessage(events[2])
    BY <1>2, <1>10 DEF StormInv
  <2>2. Len(events') = 1 /\ ~IsMessage(events'[1])
    BY <1>2, <2>1
  <2>3. m.kind = "retryable" /\ retryAttempt' = retryAttempt
    BY <1>3, <1>10 DEF Failed, Errors
  <2>4. Undecided
    BY <1>2, <1>10 DEF Undecided
  <2> QED BY <1>3, <1>4, <1>5, <1>7, <1>8, <1>9, <2>2, <2>3, <2>4 DEF StormInv
<1>11. CASE ~Failed(1)
  <2>1. \A i \in 1 .. Len(history) : Streak(i) => i = Len(history) /\ ~MayExtend
    BY <1>2, <1>3, <1>11 DEF StormInv
  <2>2. ~(handler = "ready" /\ lastAssistant.kind = "retryable")'
    <3>1. ~(lastAssistant.kind = "retryable")
      BY <1>3 DEF StormInv
    <3> QED BY <1>3, <1>11, <3>1 DEF Failed
  <2>3. Len(history) \in Nat /\ retryAttempt' \in Nat
    BY <1>3, StoredIs, RetriesAssumption DEF TypeInv
  <2>4. \A i \in 1 .. Len(history') : Streak(i)' => Len(history') - i <= retryAttempt' /\ ~MayExtend'
    BY <1>3, <1>4, <1>5, <2>1, <2>3
  <2> QED BY <1>7, <1>8, <1>9, <2>2, <2>4 DEF StormInv
<1> QED BY <1>10, <1>11

LEMMA StormStep ==
    ASSUME Patient, TypeInv, TypeInv', SerialInv, SerialInv', StormInv, Step
    PROVE  StormInv'
<1>1. CASE RespondStep
  <2>1. PICK kind \in Assistant \ Unannounced, kinds \in Seq(Spoken), ends \in BOOLEAN :
          Responded(kind, kinds, ends)
    BY <1>1 DEF RespondStep
  <2>2. run # "idle" /\ timers' = 0 /\ UNCHANGED <<Handling, Deciding>>
    BY <1>1 DEF RespondStep, Unhasty
  <2>3. /\ Spoke(kinds, ends) /\ Len(kinds) \in 1 .. 2 /\ kinds[1] = kind
        /\ Len(kinds) = 2 => kind \in Answers /\ kinds[2] = "user"
        /\ ends = (Len(kinds) = 1 /\ kind # "toolUse")
        /\ run' = "idle" <=> ends
    BY <2>1 DEF Responded
  <2>4. CASE kind = "retryable"
    <3>1. Len(kinds) = 1 /\ ends = TRUE
      <4>1. Len(kinds) # 2 /\ Len(kinds) \in 1 .. 2
        BY <2>3, <2>4 DEF Answers
      <4>2. Len(kinds) = 1
        BY <4>1
      <4> QED BY <2>3, <2>4, <4>2
    <3>2. kinds = <<"retryable">>
      BY <2>3, <2>4, <3>1
    <3> QED BY <2>2, <2>3, <3>1, <3>2, FailedStorm
  <2>5. CASE kind # "retryable"
    <3>1. \A i \in 1 .. Len(kinds) : kinds[i] # "retryable"
      <4> TAKE i \in 1 .. Len(kinds)
      <4> Len(kinds) \in 1 .. 2
        BY <2>3
      <4>1. i = 1 \/ (i = 2 /\ Len(kinds) = 2)
        <5>1. CASE Len(kinds) = 1
          BY <5>1
        <5>2. CASE Len(kinds) = 2
          BY <5>2
        <5> QED BY <5>1, <5>2
      <4> QED BY <2>3, <2>5, <4>1
    <3>2. Len(kinds) > 0
      BY <2>3
    <3> QED BY <2>2, <2>3, <3>1, <3>2, SpokeStorm
  <2> QED BY <2>4, <2>5
<1>2. CASE ThrowStep
  <2>1. run # "idle" /\ UNCHANGED Handling
    BY <1>2 DEF ThrowStep
  <2>2. PICK kind \in Unannounced : history' = Append(history, kind)
    BY <1>2 DEF ThrowStep, Threw
  <2>3. Recalls /\ Len(history') = Len(history) + 1 /\ history'[Len(history')] = kind
    BY <2>2, AppendRecalls
  <2>4. Len(history) \in Nat /\ history' \in Seq(Kind)
    BY StoredIs DEF TypeInv
  <2>5. \A n \in Len(history) + 1 .. Len(history') : history'[n] # "retryable"
    BY <2>3, <2>4 DEF Unannounced
  <2>6. NoRetryStorm' /\ \A i \in 1 .. Len(history') : ~Streak(i)'
    BY <2>3, <2>4, <2>5, NoStreak DEF StormInv
  <2>7. /\ \A k \in 1 .. Len(events) : IsMessage(events[k]) /\ ~Failed(k)
        /\ ~(handler = "ready" /\ lastAssistant.kind = "retryable")
    BY <2>1, RunDecided
  <2>8. Passed
    BY <1>2, SameEventsPass, EndPasses DEF ThrowStep, Threw
  <2>9. \A k \in 1 .. Len(events') : ~Failed(k)'
    BY <2>7, <2>8 DEF Passed, Failed
  <2> QED BY <2>1, <2>6, <2>7, <2>9, SilentStorm DEF Handling
<1>3. CASE FinishStep
  <2>1. PICK said \in Seq(Spoken) : /\ Spoke(said, FALSE) /\ Len(said) > 0
                                    /\ \A i \in 1 .. Len(said) : said[i] \in {"toolResult", "user"}
    BY <1>3 DEF FinishStep
  <2>2. run # "idle" /\ UNCHANGED Handling /\ FALSE \in BOOLEAN
    BY <1>3 DEF FinishStep
  <2> QED BY <2>1, <2>2, SpokeStorm
<1>4. CASE StartStep
  <2>1. PICK said \in Seq(Spoken) :
          /\ Started(said)
          /\ \/ timers > 0 /\ timers' = timers - 1
             \/ timers' = timers /\ Calm /\ Len(said) > 0
    BY <1>4 DEF StartStep
  <2>2. /\ Spoke(said, FALSE) /\ run = "idle" /\ UNCHANGED <<Handling, Deciding>> /\ FALSE \in BOOLEAN
        /\ \A i \in 1 .. Len(said) : said[i] = "user"
    BY <1>4, <2>1 DEF StartStep, Started
  <2>3. events = << >>
    BY <2>1, <2>2 DEF SerialInv, Calm
  <2>4. CASE Len(said) > 0
    BY <2>2, <2>3, <2>4, SpokeStorm
  <2>5. CASE ~(Len(said) > 0)
    <3>1. timers > 0 /\ Len(said) = 0
      BY <2>1, <2>5
    <3>2. MayExtend
      BY <3>1 DEF MayExtend
    <3>3. UNCHANGED <<history, events>>
      <4>1. Len(history) \in Nat /\ history \in Seq(Kind) /\ Len(events) = 0
        BY <2>3, StoredIs DEF TypeInv
      <4>2. /\ history' \in Seq(Kind) /\ Len(history') = Len(history)
            /\ \A i \in 1 .. Len(history) : history'[i] = history[i]
        BY <2>2, <3>1, <4>1 DEF Spoke
      <4>3. history' = history
        BY <4>1, <4>2, SeqEqual
      <4>4. events' = events
        <5>1. CASE events' # events
          <6>1. Len(events') = 0 /\ events' \in Seq(Event)
            BY <2>2, <3>1, <4>1, <5>1 DEF Spoke
          <6> QED BY <2>3, <6>1, EmptySeq
        <5> QED BY <5>1
      <4> QED BY <4>3, <4>4
    <3>4. UNCHANGED <<lastAssistant, retryAttempt, handler>>
      BY <2>2 DEF Handling, Deciding
    <3> QED BY <3>2, <3>3, <3>4, QuietStorm
  <2> QED BY <2>4, <2>5
<1>5. CASE IdleStep
  <2>1. /\ UNCHANGED <<history, events, lastAssistant, retryAttempt, run>>
        /\ timers' = timers \/ timers > 0
        /\ handler' = handler \/ (handler = "sleeping" /\ handler' = "cancelled")
    BY <1>5 DEF IdleStep
  <2>2. MayExtend' => MayExtend
    BY <2>1 DEF MayExtend
  <2> QED BY <2>1, <2>2, QuietStorm
<1>6. CASE StoreStep
  BY <1>6, StoreStorm
<1>7. ASSUME handler # "ready" \/ (events # << >> /\ ~IsMessage(Head(events))),
             events' = events \/ events' = Tail(events)
      PROVE  \A k \in 1 .. Len(events') : ~IsMessage(events'[k])
  <2>1. /\ Len(events) = 1 /\ ~IsMessage(events[1]) /\ Len(Tail(events)) = 0
    BY <1>7, EndIsLast
  <2>2. CASE events' = events
    <3>1. Len(events') = 1 /\ ~IsMessage(events'[1])
      BY <2>1, <2>2
    <3> QED BY <3>1
  <2>3. CASE events' = Tail(events)
    <3>1. Len(events') = 0
      BY <2>1, <2>3
    <3> QED BY <3>1
  <2> QED BY <1>7, <2>2, <2>3
<1>8. CASE RetryStep
  <2>1. /\ events # << >> /\ ~IsMessage(Head(events)) /\ handler = "ready"
        /\ lastAssistant.kind = "retryable" /\ retryAttempt' = retryAttempt + 1
        /\ handler' = "sleeping" /\ UNCHANGED <<events, history>>
    BY <1>8 DEF RetryStep
  <2>2. Undecided
    BY <2>1 DEF Undecided
  <2>3. Len(history) \in Nat /\ retryAttempt \in Nat
    BY StoredIs, RetriesAssumption DEF TypeInv
  <2>4. \A i \in 1 .. Len(history) : Streak(i) => Len(history) - i < retryAttempt'
    BY <2>1, <2>2, <2>3 DEF StormInv
  <2> QED BY <1>7, <2>1, <2>4, EndedStorm
<1>9. CASE ReviewStep
  <2>1. /\ (handler = "ready" /\ events # << >> /\ ~IsMessage(Head(events))) \/ handler = "cancelled"
        /\ UNCHANGED <<run, timers, history>>
    BY <1>9 DEF ReviewStep
  <2>2. run = "idle" /\ timers = 0
    BY <2>1, EndIsLast
  <2>3. \/ events' = Tail(events) /\ handler' = "ready" /\ lastAssistant' = None
        \/ UNCHANGED events /\ handler' = "compacting"
    BY <1>9 DEF ReviewStep, Reviewed, Done
  <2>4. ~MayExtend'
    BY <2>1, <2>2, <2>3 DEF MayExtend
  <2> QED BY <1>7, <2>1, <2>3, <2>4, EndedStorm
<1>10. CASE SleepStep
  <2>1. /\ handler = "sleeping" /\ events' = Tail(events) /\ handler' = "ready"
        /\ lastAssistant' = None /\ UNCHANGED <<history, retryAttempt>>
    BY <1>10 DEF SleepStep, Done, Deciding
  <2>2. MayExtend
    BY <2>1 DEF MayExtend
  <2>3. \A i \in 1 .. Len(history) : Streak(i) => Len(history) - i < retryAttempt'
    BY <2>1, <2>2 DEF StormInv
  <2> QED BY <1>7, <2>1, <2>3, EndedStorm
<1>11. CASE SessionStep
  <2>1. UNCHANGED <<history, events, lastAssistant, retryAttempt, run, timers, handler>>
    BY <1>11 DEF SessionStep, Deciding, Handling
  <2> QED BY <2>1, QuietStorm DEF MayExtend
<1>12. CASE CheckStep
  <2>1. UNCHANGED <<history, events, lastAssistant, retryAttempt, run, timers, handler>>
    BY <1>12 DEF CheckStep, Handling
  <2> QED BY <2>1, QuietStorm DEF MayExtend
<1>13. ASSUME NEW k \in Compactor, Released(k)
       PROVE  \/ /\ handler = "compacting" /\ events' = Tail(events) /\ handler' = "ready"
                 /\ lastAssistant' = None
              \/ UNCHANGED <<events, handler, lastAssistant>>
  BY <1>13 DEF Released, Done, TypeInv, EventTypes
<1>14. CASE GiveUpStep
  <2>1. PICK k \in Compactor : Released(k)
    BY <1>14 DEF GiveUpStep
  <2>2. UNCHANGED <<history, timers, run, retryAttempt>>
    BY <1>14, <2>1 DEF GiveUpStep, Released
  <2>3. CASE UNCHANGED <<events, handler, lastAssistant>>
    BY <2>2, <2>3, QuietStorm DEF MayExtend
  <2>4. CASE /\ handler = "compacting" /\ events' = Tail(events) /\ handler' = "ready"
             /\ lastAssistant' = None
    <3>1. run = "idle" /\ timers = 0
      BY <2>4, EndIsLast
    <3>2. ~MayExtend'
      BY <2>2, <2>4, <3>1 DEF MayExtend
    <3> QED BY <1>7, <2>2, <2>4, <3>2, EndedStorm
  <2> QED BY <1>13, <2>1, <2>3, <2>4
<1>15. CASE CompactStep
  <2>1. PICK k \in Compactor : Released(k)
    BY <1>15 DEF CompactStep
  <2>2. PICK kind \in {"recovery", "compaction"} : history' = Append(history, kind)
    BY <1>15 DEF CompactStep
  <2>3. Recalls /\ Len(history') = Len(history) + 1 /\ history'[Len(history')] = kind
    BY <2>2, AppendRecalls
  <2>4. Len(history) \in Nat /\ history' \in Seq(Kind)
    BY StoredIs DEF TypeInv
  <2>5. \A n \in Len(history) + 1 .. Len(history') : history'[n] # "retryable"
    BY <2>3, <2>4
  <2>6. NoRetryStorm' /\ \A i \in 1 .. Len(history') : ~Streak(i)'
    BY <2>3, <2>4, <2>5, NoStreak DEF StormInv
  <2>7. CASE UNCHANGED <<events, handler, lastAssistant>>
    <3>1. \A i \in 1 .. Len(history') : ~Streak(i)'
      BY <2>6
    <3>2. \A n \in 1 .. Len(events) : Failed(n)' <=> Failed(n)
      BY <2>7 DEF Failed
    <3> QED BY <2>6, <2>7, <3>2 DEF StormInv
  <2>8. CASE /\ handler = "compacting" /\ events' = Tail(events) /\ handler' = "ready"
             /\ lastAssistant' = None
    <3>1. \A n \in 1 .. Len(events') : ~Failed(n)'
      BY <1>7, <2>8 DEF Failed
    <3>2. lastAssistant'.kind # "retryable"
      BY <2>8 DEF None
    <3> QED BY <2>6, <3>1, <3>2, SilentStorm
  <2> QED BY <1>13, <2>1, <2>7, <2>8
<1> QED BY <1>1, <1>2, <1>3, <1>4, <1>5, <1>6, <1>8, <1>9, <1>10, <1>11, <1>12, <1>14, <1>15
        DEF Step

LEMMA InitSerial == Init => SerialInv /\ StormInv
<1> SUFFICES ASSUME Init PROVE SerialInv /\ StormInv
  OBVIOUS
<1>1. /\ events = << >> /\ Len(events) = 0 /\ handler = "ready" /\ timers = 0 /\ run = "idle"
      /\ history = << >> /\ Len(history) = 0 /\ lastAssistant = None
  BY DEF Init
<1>2. \A k \in Automatic : ~Running(k)
  BY DEF Init, Running, Compactor, NoCompaction
<1>3. SerialInv
  BY <1>1, <1>2 DEF SerialInv, Automatic
<1>4. NoRetryStorm
  BY <1>1 DEF NoRetryStorm
<1>5. lastAssistant.kind = "none"
  BY <1>1 DEF None
<1> QED BY <1>1, <1>3, <1>4, <1>5 DEF StormInv

(* When prompts and answers take their time, retries, timers, compactions  *)
(* and runs take turns.                                                    *)
THEOREM OneAtATime == ASSUME Patient PROVE Spec => []SerialInv
<1>1. TypeInv /\ SerialInv /\ [Next]_vars => SerialInv'
  BY StepIs, SerialStep
<1> QED BY <1>1, InitSerial, TypesHold, PTL DEF Spec

(* Then the provider is never asked more than MaxRetries times again in a  *)
(* row, whatever is cancelled, compacted or begun meanwhile.               *)
THEOREM RetriesBounded == ASSUME Patient PROVE Spec => []NoRetryStorm
<1>1. TypeInv /\ SerialInv /\ SerialInv' /\ StormInv /\ [Next]_vars => StormInv'
  BY StepIs, StormStep
<1>2. StormInv => NoRetryStorm
  BY DEF StormInv
<1> QED BY <1>1, <1>2, InitSerial, TypesHold, OneAtATime, PTL DEF Spec
-----------------------------------------------------------------------------
(* Something new was said since every recovery from an overflow.           *)
New == {"user", "aborted", "toolUse"} \cup Answers
NewSince(i) == \E n \in i .. Len(history) : history[n] \in New
Renewed == \A i \in 1 .. Len(history) : history[i] = "recovery" => NewSince(i)

Recovering == \E k \in Automatic : Running(k) /\ compacting[k].reason = "overflow"

(* An overflow is recovered from when something new was said; what waits   *)
(* to be stored was said after the last recovery.                          *)
RecoveryInv ==
    /\ RecoveredOnce
    /\ ~overflowRecoveryAttempted => Renewed
    /\ Recovering => overflowRecoveryAttempted /\ Renewed
    /\ \A k \in 1 .. Len(events) : IsMessage(events[k]) =>
         /\ events[k].message.kind \notin Unannounced
         /\ \A i \in 1 .. Len(history) : history[i] = "recovery" => i < events[k].message.id

NoRecovery == \A n \in Len(history) + 1 .. Len(history') : history'[n] # "recovery"

LEMMA RenewedStays ==
    ASSUME TypeInv, history' \in Seq(Kind), Recalls, NoRecovery, RecoveredOnce
    PROVE  /\ Renewed => Renewed'
           /\ RecoveredOnce'
           /\ \A i \in 1 .. Len(history') : history'[i] = "recovery" =>
                i \in 1 .. Len(history) /\ history[i] = "recovery"
<1>1. Len(history) \in Nat /\ Len(history') \in Nat
  BY StoredIs DEF Recalls
<1>2. DOMAIN history = 1 .. Len(history) /\ DOMAIN history' = 1 .. Len(history')
  BY DEF TypeInv
<1>3. ASSUME NEW i \in 1 .. Len(history'), history'[i] = "recovery"
      PROVE  i \in 1 .. Len(history) /\ history[i] = "recovery"
  <2>1. i <= Len(history)
    <3> SUFFICES ASSUME i > Len(history) PROVE FALSE
      BY <1>1
    <3>1. i \in Len(history) + 1 .. Len(history')
      BY <1>1
    <3> QED BY <1>3, <3>1 DEF NoRecovery
  <2> QED BY <1>1, <1>3, <2>1 DEF Recalls
<1>4. ASSUME Renewed PROVE Renewed'
  <2> SUFFICES ASSUME NEW i \in 1 .. Len(history'), history'[i] = "recovery"
               PROVE  NewSince(i)'
    BY DEF Renewed
  <2>1. i \in 1 .. Len(history) /\ NewSince(i)
    BY <1>3, <1>4 DEF Renewed
  <2>2. PICK n \in i .. Len(history) : history[n] \in New
    BY <2>1 DEF NewSince
  <2>3. n \in i .. Len(history') /\ history'[n] = history[n]
    BY <1>1, <2>1, <2>2 DEF Recalls
  <2> QED BY <2>2, <2>3 DEF NewSince
<1>5. RecoveredOnce'
  <2> SUFFICES ASSUME NEW i \in 1 .. Len(history'), NEW j \in 1 .. Len(history'), i < j,
                      history'[i] = "recovery", history'[j] = "recovery"
               PROVE  \E n \in i .. j : history'[n] \in New
    BY <1>2 DEF RecoveredOnce, New
  <2>1. i \in DOMAIN history /\ j \in DOMAIN history
        /\ history[i] = "recovery" /\ history[j] = "recovery"
    BY <1>2, <1>3
  <2>2. PICK n \in i .. j : history[n] \in New
    BY <2>1 DEF RecoveredOnce, New
  <2>3. history'[n] = history[n]
    BY <1>1, <1>2, <2>1, <2>2 DEF Recalls
  <2> QED BY <2>2, <2>3
<1> QED BY <1>3, <1>4, <1>5

(* Steps that neither recover nor begin to.                                *)
LEMMA QuietRecovery ==
    ASSUME TypeInv, RecoveryInv, history' \in Seq(Kind), Recalls, NoRecovery, Passed,
           ~overflowRecoveryAttempted' => Renewed,
           Recovering' => overflowRecoveryAttempted' /\ Renewed
    PROVE  RecoveryInv'
<1>1. /\ Renewed => Renewed'
      /\ RecoveredOnce'
      /\ \A i \in 1 .. Len(history') : history'[i] = "recovery" =>
           i \in 1 .. Len(history) /\ history[i] = "recovery"
  BY RenewedStays DEF RecoveryInv
<1>2. PICK d \in {0, 1} : \A k \in 1 .. Len(events') : IsMessage(events'[k]) =>
              k + d \in 1 .. Len(events) /\ events'[k] = events[k + d]
  BY DEF Passed
<1>3. ASSUME NEW k \in 1 .. Len(events'), IsMessage(events'[k])
      PROVE  /\ events'[k].message.kind \notin Unannounced
             /\ \A i \in 1 .. Len(history') : history'[i] = "recovery" => i < events'[k].message.id
  <2>1. k + d \in 1 .. Len(events) /\ events'[k] = events[k + d]
    BY <1>2, <1>3
  <2> QED BY <1>1, <1>3, <2>1 DEF RecoveryInv
<1> QED BY <1>1, <1>3 DEF RecoveryInv

LEMMA SpokeRecovery ==
    ASSUME TypeInv, RecoveryInv, NEW said \in Seq(Spoken), NEW ends \in BOOLEAN,
           Spoke(said, ends), \A i \in 1 .. Len(said) : said[i] \notin Unannounced,
           UNCHANGED Deciding
    PROVE  RecoveryInv'
<1>1. Len(history) \in Nat /\ Len(said) \in Nat /\ Len(events) \in Nat
  BY StoredIs
<1>2. /\ history' \in Seq(Kind) /\ Len(history') = Len(history) + Len(said) /\ Recalls
      /\ \A i \in 1 .. Len(said) : history'[Len(history) + i] = said[i]
  BY <1>1 DEF Spoke, Recalls
<1>3. NoRecovery
  <2> SUFFICES ASSUME NEW n \in Len(history) + 1 .. Len(history') PROVE history'[n] # "recovery"
    BY DEF NoRecovery
  <2>1. n - Len(history) \in 1 .. Len(said) /\ n = Len(history) + (n - Len(history))
    BY <1>1, <1>2
  <2>2. history'[n] \in Spoken
    <3>1. history'[n] = said[n - Len(history)]
      BY <1>2, <2>1
    <3>2. said[n - Len(history)] \in Spoken
      BY <2>1
    <3> QED BY <3>1, <3>2
  <2> QED BY <2>2 DEF Spoken, Assistant, Answers, Errors
<1>4. /\ Renewed => Renewed'
      /\ RecoveredOnce'
      /\ \A i \in 1 .. Len(history') : history'[i] = "recovery" =>
           i \in 1 .. Len(history) /\ history[i] = "recovery"
  BY <1>2, <1>3, RenewedStays DEF RecoveryInv
<1>5. ASSUME NEW k \in 1 .. Len(events'), IsMessage(events'[k])
      PROVE  /\ events'[k].message.kind \notin Unannounced
             /\ \A i \in 1 .. Len(history') : history'[i] = "recovery" => i < events'[k].message.id
  <2>1. CASE k \in 1 .. Len(events) /\ events'[k] = events[k]
    BY <1>4, <1>5, <2>1 DEF RecoveryInv
  <2>2. CASE \E i \in 1 .. Len(said) : /\ events'[k].message.id = Len(history) + i
                                       /\ events'[k].message.kind = said[i]
    <3>1. PICK i \in 1 .. Len(said) : /\ events'[k].message.id = Len(history) + i
                                      /\ events'[k].message.kind = said[i]
      BY <2>2
    <3>2. \A n \in 1 .. Len(history) : n < events'[k].message.id
      BY <1>1, <3>1
    <3> QED BY <1>4, <3>1, <3>2
  <2> QED BY <1>5, <2>1, <2>2, SpokeWaits
<1>6. Recovering' <=> Recovering
  BY DEF Recovering, Running, Deciding
<1> QED BY <1>4, <1>5, <1>6 DEF RecoveryInv, Deciding

(* A user message or an answer that is stored is newer than any recovery.  *)
LEMMA StoreRecovery ==
    ASSUME TypeInv, OrderInv, SerialInv, RecoveryInv, StoreStep
    PROVE  RecoveryInv'
<1> DEFINE m == events[1].message
<1>1. events \in Seq(Event) /\ events # << >> /\ events' = Tail(events)
  BY DEF TypeInv, EventTypes, StoreStep
<1>2. Head(events) = events[1] /\ 1 \in 1 .. Len(events)
  BY <1>1, TailIs
<1>3. /\ IsMessage(events[1]) /\ handler = "ready" /\ UNCHANGED <<compacting, history>>
      /\ overflowRecoveryAttempted' =
           (overflowRecoveryAttempted /\ ~(m.kind \in Assistant \ Errors) /\ m.kind # "user")
  BY <1>2 DEF StoreStep
<1>4. ~Recovering'
  <2>1. ~Running("queue")
    BY <1>3 DEF TypeInv, EventTypes, Running
  <2>2. \A p \in Caller : ~Running(p)
    BY <1>1 DEF SerialInv
  <2> QED BY <1>3, <2>1, <2>2 DEF Recovering, Running, Automatic
<1>5. ASSUME ~overflowRecoveryAttempted' PROVE Renewed
  <2>1. CASE ~overflowRecoveryAttempted
    BY <2>1 DEF RecoveryInv
  <2>2. CASE m.kind \in Assistant \ Errors \/ m.kind = "user"
    <3>1. m.id \in 1 .. Len(history) /\ history[m.id] = m.kind
      BY <1>2, <1>3 DEF OrderInv, WaitingInOrder
    <3>2. m.kind \notin Unannounced
      BY <1>2, <1>3 DEF RecoveryInv
    <3>3. m.kind \in New
      BY <2>2, <3>2 DEF New, Assistant, Errors, Answers, Unannounced
    <3>4. Len(history) \in Nat
      BY StoredIs
    <3>5. ASSUME NEW i \in 1 .. Len(history), history[i] = "recovery" PROVE NewSince(i)
      <4>1. i < m.id
        BY <1>2, <1>3, <3>5 DEF RecoveryInv
      <4>2. m.id \in i .. Len(history)
        BY <3>1, <3>4, <4>1
      <4> QED BY <3>1, <3>3, <4>2 DEF NewSince
    <3> QED BY <3>5 DEF Renewed
  <2> QED BY <1>3, <1>5, <2>1, <2>2
<1>6. Recalls /\ Passed
  BY <1>1, <1>3, SameHistory, TailPasses
<1>7. NoRecovery /\ history' \in Seq(Kind)
  <2>1. Len(history) \in Nat
    BY StoredIs
  <2> QED BY <1>3, <2>1 DEF NoRecovery, TypeInv
<1> QED BY <1>4, <1>5, <1>6, <1>7, QuietRecovery

LEMMA RecoveryStep ==
    ASSUME Patient, TypeInv, TypeInv', OrderInv, SerialInv, RecoveryInv, Step
    PROVE  RecoveryInv'
<1>1. /\ Len(history) \in Nat /\ history' \in Seq(Kind)
      /\ Caller \subseteq Automatic /\ "queue" \in Automatic /\ Automatic \subseteq Compactor
  BY StoredIs DEF TypeInv, Automatic, Compactor
<1>2. ASSUME UNCHANGED history PROVE Recalls /\ NoRecovery
  BY <1>1, <1>2, SameHistory DEF NoRecovery
<1>3. ASSUME UNCHANGED compacting PROVE Recovering' <=> Recovering
  BY <1>3 DEF Recovering, Running
<1>4. CASE RespondStep
  <2>1. PICK kind \in Assistant \ Unannounced, kinds \in Seq(Spoken), ends \in BOOLEAN :
          Responded(kind, kinds, ends)
    BY <1>4 DEF RespondStep
  <2>2. /\ Spoke(kinds, ends) /\ kinds[1] = kind
        /\ Len(kinds) = 2 => kinds[2] = "user"
    BY <2>1 DEF Responded
  <2>3. \A i \in 1 .. Len(kinds) : kinds[i] \notin Unannounced
    <3> TAKE i \in 1 .. Len(kinds)
    <3>1. Len(kinds) \in 1 .. 2
      BY <2>1 DEF Responded
    <3>2. CASE i = 1
      BY <2>2, <3>2
    <3>3. CASE i # 1
      <4>1. i = 2 /\ Len(kinds) = 2
        <5>1. CASE Len(kinds) = 1
          BY <3>3, <5>1
        <5>2. CASE Len(kinds) = 2
          BY <3>3, <5>2
        <5> QED BY <3>1, <5>1, <5>2
      <4> QED BY <2>2, <4>1 DEF Unannounced
    <3> QED BY <3>2, <3>3
  <2> QED BY <1>4, <2>2, <2>3, SpokeRecovery DEF RespondStep
<1>5. CASE ThrowStep
  <2>1. PICK kind \in Unannounced : history' = Append(history, kind)
    BY <1>5 DEF ThrowStep, Threw
  <2>2. Recalls /\ Len(history') = Len(history) + 1 /\ history'[Len(history')] = kind
    BY <2>1, AppendRecalls
  <2>3. NoRecovery
    BY <1>1, <2>2 DEF NoRecovery, Unannounced
  <2>4. Passed
    BY <1>5, SameEventsPass, EndPasses DEF ThrowStep, Threw
  <2>5. UNCHANGED <<compacting, overflowRecoveryAttempted>>
    BY <1>5 DEF ThrowStep, Deciding
  <2> QED BY <1>1, <1>3, <2>2, <2>3, <2>4, <2>5, QuietRecovery DEF RecoveryInv
<1>6. CASE FinishStep
  <2>1. PICK said \in Seq(Spoken) : /\ Spoke(said, FALSE)
                                    /\ \A i \in 1 .. Len(said) : said[i] \in {"toolResult", "user"}
    BY <1>6 DEF FinishStep
  <2>2. \A i \in 1 .. Len(said) : said[i] \notin Unannounced
    BY <2>1 DEF Unannounced
  <2>3. UNCHANGED Deciding /\ FALSE \in BOOLEAN
    BY <1>6 DEF FinishStep
  <2> QED BY <2>1, <2>2, <2>3, SpokeRecovery
<1>7. CASE StartStep
  <2>1. PICK said \in Seq(Spoken) : Started(said)
    BY <1>7 DEF StartStep
  <2>2. Spoke(said, FALSE) /\ \A i \in 1 .. Len(said) : said[i] \notin Unannounced
    BY <2>1 DEF Started, Unannounced
  <2>3. UNCHANGED Deciding /\ FALSE \in BOOLEAN
    BY <1>7 DEF StartStep
  <2> QED BY <2>2, <2>3, SpokeRecovery
<1>8. CASE IdleStep
  <2>1. Recovering' <=> Recovering
    BY <1>8 DEF IdleStep, Recovering, Running
  <2>2. UNCHANGED <<history, events, overflowRecoveryAttempted>>
    BY <1>8 DEF IdleStep
  <2> QED BY <1>1, <1>2, <2>1, <2>2, SameEventsPass, QuietRecovery DEF RecoveryInv
<1>9. CASE StoreStep
  BY <1>9, StoreRecovery
<1>10. CASE RetryStep \/ SessionStep
  <2>1. UNCHANGED <<history, events, overflowRecoveryAttempted, compacting>>
    BY <1>10 DEF RetryStep, SessionStep, Deciding
  <2> QED BY <1>1, <1>2, <1>3, <2>1, SameEventsPass, QuietRecovery DEF RecoveryInv
<1>11. CASE SleepStep
  <2>1. /\ UNCHANGED <<history, overflowRecoveryAttempted, compacting>>
        /\ events' = Tail(events) /\ events # << >>
    BY <1>11 DEF SleepStep, Deciding, Done, TypeInv, EventTypes
  <2> QED BY <1>1, <1>2, <1>3, <2>1, TailPasses, QuietRecovery DEF RecoveryInv
<1>12. ASSUME NEW k \in Automatic, NEW why \in {"overflow", "threshold"},
              compacting'[k] = Begun(why),
              \A l \in Compactor \ {k} : compacting'[l] = compacting[l],
              overflowRecoveryAttempted' = (overflowRecoveryAttempted \/ why = "overflow"),
              why = "overflow" => ~overflowRecoveryAttempted
       PROVE  /\ ~overflowRecoveryAttempted' => Renewed
              /\ Recovering' => overflowRecoveryAttempted' /\ Renewed
  <2>1. compacting'[k].reason = why
    BY <1>12 DEF Begun, NoCompaction
  <2>2. ~overflowRecoveryAttempted' => Renewed
    BY <1>12 DEF RecoveryInv
  <2>3. ASSUME NEW l \in Automatic, Running(l)', compacting'[l].reason = "overflow"
        PROVE  overflowRecoveryAttempted' /\ Renewed
    <3>1. CASE l = k
      BY <1>12, <2>1, <2>3, <3>1 DEF RecoveryInv
    <3>2. CASE l # k
      <4>1. compacting'[l] = compacting[l]
        BY <1>1, <1>12, <3>2
      <4>2. Recovering
        BY <2>3, <4>1 DEF Recovering, Running
      <4> QED BY <1>12, <4>2 DEF RecoveryInv
    <3> QED BY <3>1, <3>2
  <2> QED BY <2>2, <2>3 DEF Recovering
<1>13. CASE ReviewStep
  <2>1. UNCHANGED history /\ events # << >>
    BY <1>13 DEF ReviewStep
  <2>2. PICK why \in {"none", "overflow", "threshold"} :
          Reviewed(why) /\ (why = "overflow" => ~overflowRecoveryAttempted)
    BY <1>13 DEF ReviewStep
  <2>3. CASE why = "none"
    <3>1. events' = Tail(events) /\ UNCHANGED <<compacting, overflowRecoveryAttempted>>
      BY <2>2, <2>3 DEF Reviewed, Done
    <3> QED BY <1>1, <1>2, <1>3, <2>1, <3>1, TailPasses, QuietRecovery DEF RecoveryInv
  <2>4. CASE why # "none"
    <3>1. /\ UNCHANGED events /\ compacting'["queue"] = Begun(why)
          /\ \A l \in Compactor \ {"queue"} : compacting'[l] = compacting[l]
          /\ overflowRecoveryAttempted' = (overflowRecoveryAttempted \/ why = "overflow")
      BY <2>2, <2>4 DEF Reviewed
    <3>2. /\ ~overflowRecoveryAttempted' => Renewed
          /\ Recovering' => overflowRecoveryAttempted' /\ Renewed
      BY <1>1, <1>12, <2>2, <2>4, <3>1
    <3> QED BY <1>1, <1>2, <2>1, <3>1, <3>2, SameEventsPass, QuietRecovery
  <2> QED BY <2>3, <2>4
<1>14. CASE CheckStep
  <2>1. PICK k \in Caller, why \in {"overflow", "threshold"} :
         /\ compacting'[k] = Begun(why)
         /\ \A l \in Compactor \ {k} : compacting'[l] = compacting[l]
         /\ why = "overflow" => ~overflowRecoveryAttempted
         /\ overflowRecoveryAttempted' = (overflowRecoveryAttempted \/ why = "overflow")
    BY <1>14 DEF CheckStep
  <2>2. /\ ~overflowRecoveryAttempted' => Renewed
        /\ Recovering' => overflowRecoveryAttempted' /\ Renewed
    BY <1>1, <1>12, <2>1
  <2>3. UNCHANGED <<events, history>>
    BY <1>14 DEF CheckStep
  <2> QED BY <1>1, <1>2, <2>2, <2>3, SameEventsPass, QuietRecovery
<1>15. ASSUME NEW k \in Compactor, Released(k)
       PROVE  /\ UNCHANGED overflowRecoveryAttempted /\ Passed
              /\ \A l \in Automatic : Running(l)' =>
                   l # k /\ Running(l) /\ compacting'[l] = compacting[l]
  <2>1. Passed
    <3>1. CASE k = "queue"
      <4>1. events # << >> /\ events' = Tail(events)
        BY <1>15, <3>1 DEF Released, Done, TypeInv, EventTypes
      <4> QED BY <4>1, TailPasses
    <3>2. CASE k # "queue"
      BY <1>15, <3>2, SameEventsPass DEF Released
    <3> QED BY <3>1, <3>2
  <2>2. UNCHANGED overflowRecoveryAttempted
    BY <1>15 DEF Released
  <2>3. ASSUME NEW l \in Automatic, Running(l)'
        PROVE  l # k /\ Running(l) /\ compacting'[l] = compacting[l]
    <3>1. l # k
      BY <1>15, <2>3 DEF Released, Running, NoCompaction
    <3>2. compacting'[l] = compacting[l]
      BY <1>1, <1>15, <3>1 DEF Released
    <3> QED BY <2>3, <3>1, <3>2 DEF Running
  <2> QED BY <2>1, <2>2, <2>3
<1>16. CASE GiveUpStep
  <2>1. PICK k \in Compactor : Released(k)
    BY <1>16 DEF GiveUpStep
  <2>2. Recovering' => Recovering
    BY <1>15, <2>1 DEF Recovering
  <2>3. UNCHANGED <<history, overflowRecoveryAttempted>> /\ Passed
    BY <1>15, <1>16, <2>1 DEF GiveUpStep
  <2> QED BY <1>1, <1>2, <2>2, <2>3, QuietRecovery DEF RecoveryInv
<1>17. CASE CompactStep
  <2>1. PICK k \in Compactor :
          /\ Released(k)
          /\ history' = Append(history, IF compacting[k].reason = "overflow"
                                        THEN "recovery" ELSE "compaction")
    BY <1>17 DEF CompactStep
  <2>2. Recalls /\ Len(history') = Len(history) + 1
        /\ history'[Len(history')] = IF compacting[k].reason = "overflow"
                                     THEN "recovery" ELSE "compaction"
    BY <2>1, AppendRecalls
  <2>3. CASE compacting[k].reason # "overflow"
    <3>1. NoRecovery
      BY <1>1, <2>2, <2>3 DEF NoRecovery
    <3>2. Recovering' => Recovering
      BY <1>15, <2>1 DEF Recovering
    <3>3. UNCHANGED overflowRecoveryAttempted /\ Passed
      BY <1>15, <2>1
    <3> QED BY <1>1, <2>2, <3>1, <3>2, <3>3, QuietRecovery DEF RecoveryInv
  <2>4. CASE compacting[k].reason = "overflow"
    <3>1. k \in Automatic /\ Running(k)
      BY <2>1, <2>4 DEF Compactor, TypeInv, CompactingTypes, Released, Running
    <3>2. overflowRecoveryAttempted /\ Renewed
      BY <2>4, <3>1 DEF RecoveryInv, Recovering
    <3>3. ~Recovering'
      BY <1>15, <2>1, <3>1 DEF SerialInv, Recovering
    <3>4. \A n \in 1 .. Len(events') : ~IsMessage(events'[n])
      <4>1. CASE k = "queue"
        <5>1. handler # "ready" /\ events' = Tail(events)
          BY <2>1, <3>1, <4>1 DEF Released, Done, Running, TypeInv, EventTypes
        <5>2. Len(events') = 0
          BY <5>1, EndIsLast
        <5> QED BY <5>2
      <4>2. CASE k # "queue"
        <5>1. k \in Caller /\ events' = events
          BY <2>1, <3>1, <4>2 DEF Automatic, Released
        <5>2. events' = << >> /\ Len(events') = 0
          BY <3>1, <5>1 DEF SerialInv
        <5> QED BY <5>2
      <4> QED BY <4>1, <4>2
    <3>5. RecoveredOnce'
      <4>1. DOMAIN history' = 1 .. Len(history') /\ DOMAIN history = 1 .. Len(history)
        BY <1>1 DEF TypeInv
      <4> SUFFICES ASSUME NEW i \in 1 .. Len(history'), NEW j \in 1 .. Len(history'), i < j,
                          history'[i] = "recovery", history'[j] = "recovery"
                   PROVE  \E n \in i .. j : history'[n] \in New
        BY <4>1 DEF RecoveredOnce, New
      <4>2. i \in 1 .. Len(history) /\ history[i] = "recovery"
        BY <1>1, <2>2 DEF Recalls
      <4>3. CASE j = Len(history')
        <5>1. PICK n \in i .. Len(history) : history[n] \in New
          BY <3>2, <4>2 DEF Renewed, NewSince
        <5>2. n \in i .. j /\ history'[n] = history[n]
          BY <1>1, <2>2, <4>2, <4>3, <5>1 DEF Recalls
        <5> QED BY <5>1, <5>2
      <4>4. CASE j # Len(history')
        <5>1. j \in 1 .. Len(history) /\ history[j] = "recovery"
          BY <1>1, <2>2, <4>4 DEF Recalls
        <5>2. PICK n \in i .. j : history[n] \in New
          BY <4>1, <4>2, <5>1 DEF RecoveryInv, RecoveredOnce, New
        <5>3. history'[n] = history[n]
          BY <1>1, <2>2, <4>2, <5>1, <5>2 DEF Recalls
        <5> QED BY <5>2, <5>3
      <4> QED BY <4>3, <4>4
    <3>6. UNCHANGED overflowRecoveryAttempted
      BY <1>15, <2>1
    <3> QED BY <3>2, <3>3, <3>4, <3>5, <3>6 DEF RecoveryInv
  <2> QED BY <2>3, <2>4
<1> QED BY <1>4, <1>5, <1>6, <1>7, <1>8, <1>9, <1>10, <1>11, <1>13, <1>14, <1>16, <1>17 DEF Step

LEMMA InitRecovery == Init => RecoveryInv
<1> SUFFICES ASSUME Init PROVE RecoveryInv
  OBVIOUS
<1>1. events = << >> /\ Len(events) = 0 /\ history = << >> /\ Len(history) = 0
  BY DEF Init
<1>2. RecoveredOnce /\ Renewed
  BY <1>1 DEF RecoveredOnce, Renewed
<1>3. ~Recovering
  BY DEF Init, Recovering, Running, Compactor, NoCompaction
<1> QED BY <1>1, <1>2, <1>3 DEF RecoveryInv

(* When prompts and answers take their time, a context that overflows      *)
(* again after a compaction for overflowing is not compacted for it once   *)
(* more before the user or the model has said something new.               *)
THEOREM RecoveriesBounded == ASSUME Patient PROVE Spec => []RecoveredOnce
<1>1. TypeInv /\ TypeInv' /\ OrderInv /\ SerialInv /\ RecoveryInv /\ [Next]_vars => RecoveryInv'
  BY StepIs, RecoveryStep
<1>2. TypeInv /\ OrderInv /\ [Next]_vars => OrderInv'
  BY StepIs, OrderStep
<1>3. RecoveryInv => RecoveredOnce
  BY DEF RecoveryInv
<1> QED BY <1>1, <1>2, <1>3, InitOrder, InitRecovery, TypesHold, OneAtATime, PTL DEF Spec
=============================================================================
