--------------------------- MODULE ServicesProofs ---------------------------
(***************************************************************************)
(* Proofs about the parts of MCServices, for all values of the constants   *)
(* of each: a batch of tools, of any length and in either mode; logins;    *)
(* the documents and conversations of the FAQ bot; requests to providers;  *)
(* events and channels of the Slack bot; models on a pod; credentials and  *)
(* settings (for all constants in AuthStorageProofs and SettingsProofs).   *)
(***************************************************************************)
EXTENDS MCServices, SequenceTheorems, FiniteSetTheorems, TLAPS

(* Where the loop is says how far it has come with its call...             *)
PlaceInv ==
    /\ pc \in {"next", "preparing", "immediate", "running"} => ~launched
    /\ pc \in {"collecting", "done"} => launched
    /\ pc = "collecting" => runnable # << >>
    /\ pc = "done" => runnable = << >>
    /\ launched => upcoming = N + 1 /\ (mode = "sequential" => pc = "done")
    /\ pc = "running" => mode = "sequential"
    /\ pc = "finalizing" /\ mode = "parallel" => launched
    /\ ~launched /\ pc # "next" => current = upcoming - 1
    /\ pc \in {"preparing", "immediate"} => phase[current] = "started"
    /\ pc = "immediate" => current \in refused
    /\ pc \in {"running", "finalizing"} => phase[current] = "prepared"
    /\ pc = "finalizing" => tool[current] = "settled"
    /\ pc = "reporting" => /\ phase[current] = "ended"
                           /\ mode = "parallel" => (launched <=> current \notin refused)

(* ... and with all others.                                                *)
PhaseOf(c) ==
    /\ phase[c] = "waiting" <=> c >= upcoming
    /\ phase[c] = "started" => c = current /\ pc \in {"preparing", "immediate"}
    /\ phase[c] = "ended" => c = current /\ pc = "reporting"
    /\ phase[c] = "prepared" =>
           \/ \E k \in DOMAIN runnable : runnable[k] = c
           \/ c = current /\ pc \in {"running", "finalizing", "threw", "failed"}
    /\ phase[c] = "answered" <=> \E i \in DOMAIN results : results[i] = c
    /\ c \in refused => phase[c] \in {"started", "ended", "answered"}
                        /\ (phase[c] = "started" => pc = "immediate")

PhaseInv == \A c \in Call : PhaseOf(c)

(* A tool runs for a call that is prepared and not collected.              *)
ToolInv ==
    \A c \in Call :
        tool[c] = "running" =>
            /\ phase[c] = "prepared"
            /\ launched \/ (c = current /\ pc = "running")

(* The calls to collect are in their order, above those that were          *)
(* collected; only refused calls are answered before.                      *)
QueueInv ==
    /\ mode = "sequential" => runnable = << >>
    /\ \A k \in DOMAIN runnable :
           /\ phase[runnable[k]] = "prepared"
           /\ pc \in {"finalizing", "reporting"} /\ launched => current < runnable[k]
           /\ \A l \in DOMAIN runnable : k < l => runnable[k] < runnable[l]

ResultInv ==
    /\ \A i \in DOMAIN results :
           /\ mode = "parallel" /\ ~launched => results[i] \in refused
           /\ mode = "parallel" /\ results[i] \notin refused =>
                  /\ \A k \in DOMAIN runnable : results[i] < runnable[k]
                  /\ pc \in {"finalizing", "reporting"} => results[i] < current
    /\ \A i, j \in DOMAIN results : i # j => results[i] # results[j]
    /\ ExecutedInOrder

BatchInv == PlaceInv /\ PhaseInv /\ ToolInv /\ QueueInv /\ ResultInv
-----------------------------------------------------------------------------
(* A batch is begun for an answer that calls a tool (agent-loop.ts:206).   *)
Bounds == N \in Nat \ {0} /\ MaxUpdates \in Nat

Collectable == pc = "collecting" => runnable # << >>

LEMMA StepTypeOK ==
    ASSUME Bounds, TypeOK, Collectable, [Next]_vars
    PROVE  TypeOK' /\ Collectable'
<1> USE DEF TypeOK, Collectable, Bounds, Call, Place, Phase
<1>1. CASE Start
  BY <1>1 DEF Start
<1>2. CASE Refuse
  BY <1>2 DEF Refuse
<1>3. CASE Accept
  <2>1. phase' \in [Call -> Phase] /\ phase' = [phase EXCEPT ![current] = "prepared"]
    BY <1>3 DEF Accept
  <2>2. CASE mode = "parallel" /\ runnable' = Append(runnable, current) /\ pc' = "next"
             /\ UNCHANGED tool
    <3>1. runnable' \in Seq(Call)
      BY <2>2
    <3> QED BY <1>3, <2>1, <2>2, <3>1 DEF Accept
  <2>3. CASE mode = "sequential" /\ tool' = [tool EXCEPT ![current] = "running"]
             /\ pc' = "running" /\ UNCHANGED runnable
    BY <1>3, <2>1, <2>3 DEF Accept
  <2> QED BY <1>3, <2>2, <2>3 DEF Accept
<1>4. CASE Launch
  BY <1>4 DEF Launch
<1>5. CASE Collect
  <2>1. CASE pc = "running" /\ UNCHANGED <<current, runnable>>
    BY <1>5, <2>1 DEF Collect
  <2>2. CASE pc = "collecting" /\ current' = Head(runnable) /\ runnable' = Tail(runnable)
    <3>1. Head(runnable) \in Call /\ Tail(runnable) \in Seq(Call)
      BY <2>2, HeadTailProperties
    <3> QED BY <1>5, <2>2, <3>1 DEF Collect
  <2> QED BY <1>5, <2>1, <2>2 DEF Collect
<1>6. CASE EmitEnd
  BY <1>6 DEF EmitEnd
<1>7. CASE EmitResult
  <2>1. results' \in Seq(Call)
    BY <1>7 DEF EmitResult
  <2> QED BY <1>7, <2>1 DEF EmitResult
<1>8. CASE AfterThrows \/ Fail
  BY <1>8 DEF AfterThrows, Fail
<1>9. ASSUME NEW c \in Call, Update(c) \/ Settle(c) PROVE TypeOK' /\ Collectable'
  <2>1. CASE Update(c)
    <3>1. updates' = [updates EXCEPT ![c] = updates[c] + 1] /\ updates[c] + 1 \in 0..MaxUpdates
      BY <2>1 DEF Update
    <3> QED BY <2>1, <3>1 DEF Update
  <2>2. CASE Settle(c)
    BY <2>2 DEF Settle
  <2> QED BY <1>9, <2>1, <2>2
<1>10. CASE UNCHANGED vars
  BY <1>10 DEF vars
<1> QED BY <1>1, <1>2, <1>3, <1>4, <1>5, <1>6, <1>7, <1>8, <1>9, <1>10 DEF Next, Loop

(* The state of a batch keeps its types, and nothing is awaited that is    *)
(* not there: without this, Head(runnable) would have none.                *)
THEOREM TypeCorrect == ASSUME Bounds PROVE Spec => [](TypeOK /\ Collectable)
<1>1. Init => TypeOK /\ Collectable
  <2> SUFFICES ASSUME Init PROVE TypeOK /\ Collectable
    OBVIOUS
  <2>1. runnable \in Seq(Call) /\ results \in Seq(Call)
    BY DEF Init
  <2>2. {1} \subseteq Call /\ 1 \in 1..(N + 1) /\ 0 \in 0..MaxUpdates
    BY DEF Bounds, Call
  <2>3. launched \in BOOLEAN
    BY DEF Init
  <2> QED BY <2>1, <2>2, <2>3 DEF Init, TypeOK, Collectable, Place, Phase
<1> QED BY <1>1, StepTypeOK, PTL DEF Spec
-----------------------------------------------------------------------------
(* Steps that begin calls...                                               *)
LEMMA BeginStep ==
    ASSUME Bounds, TypeOK, BatchInv, Start \/ Refuse \/ Launch
    PROVE  BatchInv'
<1> USE DEF Bounds, Call, TypeOK, Place, Phase, BatchInv
<1>1. CASE Start
  <2>1. PlaceInv'
    BY <1>1 DEF Start, PlaceInv
  <2>2. PhaseInv'
    BY <1>1 DEF Start, PlaceInv, PhaseInv, PhaseOf
  <2>3. ToolInv'
    BY <1>1 DEF Start, ToolInv, PlaceInv, PhaseInv, PhaseOf
  <2>4. QueueInv'
    BY <1>1 DEF Start, QueueInv, PlaceInv, PhaseInv, PhaseOf
  <2>5. ResultInv'
    BY <1>1 DEF Start, ResultInv, PlaceInv, ExecutedInOrder
  <2> QED BY <2>1, <2>2, <2>3, <2>4, <2>5
<1>2. CASE Refuse
  <2>1. PlaceInv'
    BY <1>2 DEF Refuse, PlaceInv
  <2>2. PhaseInv'
    BY <1>2 DEF Refuse, PlaceInv, PhaseInv, PhaseOf
  <2>3. ToolInv'
    BY <1>2 DEF Refuse, ToolInv, PlaceInv, PhaseInv, PhaseOf
  <2>4. QueueInv'
    BY <1>2 DEF Refuse, QueueInv, PlaceInv, PhaseInv, PhaseOf
  <2>5. ResultInv'
    BY <1>2 DEF Refuse, ResultInv, PlaceInv, PhaseInv, PhaseOf, ExecutedInOrder
  <2> QED BY <2>1, <2>2, <2>3, <2>4, <2>5
<1>3. CASE Launch
  <2>1. PlaceInv'
    BY <1>3 DEF Launch, PlaceInv, QueueInv
  <2>2. PhaseInv'
    <3>1. pc = "next" /\ pc' \in {"done", "collecting"}
      BY <1>3 DEF Launch
    <3>2. UNCHANGED <<phase, current, upcoming, refused, results, runnable>>
      BY <1>3 DEF Launch
    <3> QED BY <3>1, <3>2 DEF PhaseInv, PhaseOf
  <2>3. ToolInv'
    BY <1>3 DEF Launch, ToolInv, PlaceInv, PhaseInv, PhaseOf
  <2>4. QueueInv'
    BY <1>3 DEF Launch, QueueInv, PlaceInv, PhaseInv, PhaseOf
  <2>5. ResultInv'
    BY <1>3 DEF Launch, ResultInv, PlaceInv, PhaseInv, PhaseOf, ExecutedInOrder
  <2> QED BY <2>1, <2>2, <2>3, <2>4, <2>5
<1> QED BY <1>1, <1>2, <1>3

(* ... or accept them, at the end of the list...                           *)
LEMMA AcceptStep ==
    ASSUME Bounds, TypeOK, BatchInv, Accept
    PROVE  BatchInv'
<1>1. PlaceInv /\ PhaseInv /\ ToolInv /\ QueueInv /\ ResultInv
  BY DEF BatchInv
<1>2. /\ current \in Call /\ upcoming \in Int /\ Call \subseteq Int
      /\ runnable \in Seq(Call) /\ phase \in [Call -> Phase]
      /\ tool \in [Call -> {"idle", "running", "settled"}]
      /\ results \in Seq(Call) /\ mode \in {"sequential", "parallel"}
  BY DEF TypeOK, Call, Bounds
<1>3. /\ pc = "preparing" /\ ~launched /\ current = upcoming - 1
      /\ phase[current] = "started"
  BY <1>1 DEF Accept, PlaceInv
<1>4. current \notin refused /\ \A i \in DOMAIN results : results[i] # current
  BY <1>1, <1>2, <1>3 DEF PhaseInv, PhaseOf
<1>5. /\ phase' = [phase EXCEPT ![current] = "prepared"]
      /\ UNCHANGED <<mode, upcoming, current, refused, launched, results>>
  BY DEF Accept
<1>6. phase'[current] = "prepared" /\ \A c \in Call \ {current} : phase'[c] = phase[c]
  BY <1>2, <1>5
<1>7. \A c \in Call : phase[c] # "waiting" => c < upcoming
  BY <1>1, <1>2 DEF PhaseInv, PhaseOf
<1>8. CASE mode = "parallel" /\ runnable' = Append(runnable, current) /\ pc' = "next"
           /\ UNCHANGED tool
  <2>1. /\ Len(runnable) \in Nat /\ DOMAIN runnable = 1..Len(runnable)
        /\ DOMAIN runnable' = 1..(Len(runnable) + 1)
        /\ \A k \in DOMAIN runnable : runnable'[k] = runnable[k] /\ runnable[k] \in Call
        /\ runnable'[Len(runnable) + 1] = current
    BY <1>2, <1>8
  <2>2. \A k \in DOMAIN runnable : phase[runnable[k]] = "prepared"
    BY <1>1 DEF QueueInv
  <2>3. \A k \in DOMAIN runnable : runnable[k] # current /\ runnable[k] < current
    <3> SUFFICES ASSUME NEW k \in DOMAIN runnable
                 PROVE  runnable[k] # current /\ runnable[k] < current
      OBVIOUS
    <3>1. runnable[k] \in Call /\ phase[runnable[k]] = "prepared"
      BY <2>1, <2>2
    <3>2. runnable[k] < upcoming /\ runnable[k] # current
      BY <1>3, <1>7, <3>1
    <3> QED BY <1>2, <1>3, <3>1, <3>2
  <2>4. PlaceInv'
    BY <1>1, <1>3, <1>5, <1>8 DEF PlaceInv
  <2>5. ASSUME NEW c \in Call PROVE PhaseOf(c)'
    <3>1. PhaseOf(c)
      BY <1>1 DEF PhaseInv
    <3>2. (\E k \in DOMAIN runnable : runnable[k] = c) => \E k \in DOMAIN runnable' : runnable'[k] = c
      BY <2>1
    <3>3. CASE c = current
      <4>1. \E k \in DOMAIN runnable' : runnable'[k] = c
        BY <2>1, <3>3
      <4>2. ~(c >= upcoming)
        BY <1>2, <1>3, <3>3
      <4> QED BY <1>4, <1>5, <1>6, <3>3, <4>1, <4>2 DEF PhaseOf
    <3>4. CASE c # current
      BY <1>3, <1>5, <1>6, <1>8, <3>1, <3>2, <3>4 DEF PhaseOf
    <3> QED BY <3>3, <3>4
  <2>6. ToolInv'
    BY <1>1, <1>3, <1>5, <1>6, <1>8 DEF ToolInv
  <2>7. QueueInv'
    <3>1. \A k \in DOMAIN runnable' : phase'[runnable'[k]] = "prepared"
      BY <1>6, <2>1, <2>2, <2>3
    <3>2. \A k, l \in DOMAIN runnable' : k < l => runnable'[k] < runnable'[l]
      BY <1>1, <2>1, <2>3 DEF QueueInv
    <3> QED BY <1>5, <1>8, <3>1, <3>2 DEF QueueInv
  <2>8. ResultInv'
    BY <1>1, <1>3, <1>5, <1>8 DEF ResultInv, ExecutedInOrder
  <2> QED BY <2>4, <2>5, <2>6, <2>7, <2>8 DEF BatchInv, PhaseInv
<1>9. CASE mode = "sequential" /\ tool' = [tool EXCEPT ![current] = "running"]
           /\ pc' = "running" /\ UNCHANGED runnable
  <2>1. PlaceInv'
    BY <1>1, <1>3, <1>5, <1>6, <1>9 DEF PlaceInv
  <2>2. ASSUME NEW c \in Call PROVE PhaseOf(c)'
    <3>1. PhaseOf(c)
      BY <1>1 DEF PhaseInv
    <3>2. CASE c = current
      <4>1. ~(c >= upcoming)
        BY <1>2, <1>3, <3>2
      <4> QED BY <1>4, <1>5, <1>6, <1>9, <3>2, <4>1 DEF PhaseOf
    <3>3. CASE c # current
      BY <1>3, <1>5, <1>6, <1>9, <3>1, <3>3 DEF PhaseOf
    <3> QED BY <3>2, <3>3
  <2>3. ToolInv'
    BY <1>1, <1>2, <1>3, <1>5, <1>6, <1>9 DEF ToolInv
  <2>4. QueueInv'
    BY <1>1, <1>5, <1>9 DEF QueueInv
  <2>5. ResultInv'
    BY <1>1, <1>5, <1>9 DEF ResultInv, ExecutedInOrder
  <2> QED BY <2>1, <2>2, <2>3, <2>4, <2>5 DEF BatchInv, PhaseInv
<1> QED BY <1>8, <1>9 DEF Accept

(* ... wait for the first of them...                                       *)
LEMMA CollectStep ==
    ASSUME Bounds, TypeOK, BatchInv, Collect
    PROVE  BatchInv'
<1>1. PlaceInv /\ PhaseInv /\ ToolInv /\ QueueInv /\ ResultInv
  BY DEF BatchInv
<1>2. /\ current \in Call /\ Call \subseteq Int /\ runnable \in Seq(Call)
      /\ mode \in {"sequential", "parallel"}
  BY DEF TypeOK, Call, Bounds
<1>3. /\ pc' = "finalizing"
      /\ UNCHANGED <<mode, upcoming, phase, tool, refused, launched, results>>
  BY DEF Collect
<1>4. CASE pc = "running" /\ tool[current] = "settled" /\ UNCHANGED <<current, runnable>>
  <2>1. PlaceInv'
    BY <1>1, <1>3, <1>4 DEF PlaceInv
  <2>2. PhaseInv'
    BY <1>1, <1>3, <1>4 DEF PhaseInv, PhaseOf
  <2>3. ToolInv'
    BY <1>1, <1>3, <1>4 DEF ToolInv
  <2>4. QueueInv' /\ ResultInv'
    BY <1>1, <1>3, <1>4 DEF QueueInv, ResultInv, PlaceInv, ExecutedInOrder
  <2> QED BY <2>1, <2>2, <2>3, <2>4 DEF BatchInv
<1>5. CASE pc = "collecting" /\ tool[Head(runnable)] = "settled"
           /\ current' = Head(runnable) /\ runnable' = Tail(runnable)
  <2>1. /\ Len(runnable) \in Nat \ {0} /\ DOMAIN runnable = 1..Len(runnable)
        /\ DOMAIN runnable' = 1..(Len(runnable) - 1)
        /\ \A k \in DOMAIN runnable' : runnable'[k] = runnable[k + 1] /\ k + 1 \in DOMAIN runnable
        /\ \A k \in DOMAIN runnable : runnable[k] \in Call
        /\ current' = runnable[1] /\ 1 \in DOMAIN runnable
    <3>1. runnable # << >>
      BY <1>1, <1>5 DEF PlaceInv
    <3> QED BY <1>2, <1>5, <3>1, HeadTailProperties
  <2>2. launched /\ upcoming = N + 1
    BY <1>1, <1>5 DEF PlaceInv
  <2>3. mode = "parallel"
    BY <1>1, <1>2, <1>5, <2>2 DEF PlaceInv
  <2>4. /\ \A k \in DOMAIN runnable : phase[runnable[k]] = "prepared"
        /\ \A k, l \in DOMAIN runnable : k < l => runnable[k] < runnable[l]
    BY <1>1 DEF QueueInv
  <2>5. current' \in Call /\ phase[current'] = "prepared"
    BY <2>1, <2>4
  <2>6. PlaceInv'
    BY <1>3, <1>5, <2>2, <2>3, <2>5 DEF PlaceInv
  <2>7. ASSUME NEW c \in Call PROVE PhaseOf(c)'
    <3>1. PhaseOf(c)
      BY <1>1 DEF PhaseInv
    <3>2. ASSUME phase[c] = "prepared", c # current'
          PROVE  \E k \in DOMAIN runnable' : runnable'[k] = c
      <4>1. PICK k \in DOMAIN runnable : runnable[k] = c
        BY <1>5, <3>1, <3>2 DEF PhaseOf
      <4>2. k # 1
        BY <2>1, <3>2, <4>1
      <4>3. k - 1 \in DOMAIN runnable' /\ (k - 1) + 1 = k
        BY <2>1, <4>1, <4>2
      <4> QED BY <2>1, <4>1, <4>3
    <3> QED BY <1>3, <1>5, <3>1, <3>2 DEF PhaseOf
  <2>8. ToolInv'
    BY <1>1, <1>3, <2>2 DEF ToolInv
  <2>9. QueueInv'
    <3>1. \A k \in DOMAIN runnable' :
             phase'[runnable'[k]] = "prepared" /\ current' < runnable'[k]
      BY <1>3, <2>1, <2>4
    <3>2. \A k, l \in DOMAIN runnable' : k < l => runnable'[k] < runnable'[l]
      <4> SUFFICES ASSUME NEW k \in DOMAIN runnable', NEW l \in DOMAIN runnable', k < l
                   PROVE  runnable'[k] < runnable'[l]
        OBVIOUS
      <4>1. k + 1 \in DOMAIN runnable /\ l + 1 \in DOMAIN runnable /\ k + 1 < l + 1
        BY <2>1
      <4> QED BY <2>1, <2>4, <4>1
    <3> QED BY <1>3, <2>3, <3>1, <3>2 DEF QueueInv
  <2>10. ResultInv'
    <3>1. ASSUME NEW i \in DOMAIN results, results[i] \notin refused
          PROVE  results[i] < current' /\ \A k \in DOMAIN runnable' : results[i] < runnable'[k]
      <4>1. \A k \in DOMAIN runnable : results[i] < runnable[k]
        BY <1>1, <2>3, <3>1 DEF ResultInv
      <4> QED BY <2>1, <4>1
    <3> QED BY <1>1, <1>3, <2>2, <3>1 DEF ResultInv, ExecutedInOrder
  <2> QED BY <2>6, <2>7, <2>8, <2>9, <2>10 DEF BatchInv, PhaseInv
<1> QED BY <1>4, <1>5 DEF Collect

(* ... report a call...                                                    *)
LEMMA EmitEndStep ==
    ASSUME Bounds, TypeOK, BatchInv, EmitEnd
    PROVE  BatchInv'
<1>1. PlaceInv /\ PhaseInv /\ ToolInv /\ QueueInv /\ ResultInv
  BY DEF BatchInv
<1>2. /\ current \in Call /\ phase \in [Call -> Phase]
      /\ runnable \in Seq(Call) /\ mode \in {"sequential", "parallel"}
  BY DEF TypeOK
<1>3. /\ pc \in {"immediate", "finalizing"} /\ pc' = "reporting"
      /\ phase' = [phase EXCEPT ![current] = "ended"]
      /\ UNCHANGED <<mode, upcoming, current, tool, refused, launched, runnable, results>>
  BY DEF EmitEnd
<1>4. phase'[current] = "ended" /\ \A c \in Call \ {current} : phase'[c] = phase[c]
  BY <1>2, <1>3
<1>5. /\ phase[current] \in {"started", "prepared"}
      /\ mode = "parallel" => (launched <=> current \notin refused)
  <2>1. CASE pc = "immediate"
    BY <1>1, <2>1 DEF PlaceInv
  <2>2. CASE pc = "finalizing"
    BY <1>1, <1>2, <2>2 DEF PlaceInv, PhaseInv, PhaseOf
  <2> QED BY <1>3, <2>1, <2>2
<1>6. PlaceInv'
  BY <1>1, <1>3, <1>4, <1>5 DEF PlaceInv
<1>7. \A k \in DOMAIN runnable : runnable[k] \in Call \ {current}
  <2> SUFFICES ASSUME NEW k \in DOMAIN runnable PROVE runnable[k] \in Call \ {current}
    OBVIOUS
  <2>1. runnable[k] \in Call /\ phase[runnable[k]] = "prepared"
    BY <1>1, <1>2 DEF QueueInv
  <2>2. CASE pc = "immediate"
    BY <1>1, <2>1, <2>2 DEF PlaceInv
  <2>3. CASE pc = "finalizing"
    <3>1. mode = "parallel" /\ launched
      BY <1>1, <1>2, <2>3 DEF QueueInv, PlaceInv
    <3>2. current < runnable[k] /\ current \in Int
      BY <1>1, <1>2, <2>3, <3>1 DEF QueueInv, Call
    <3> QED BY <2>1, <3>2
  <2> QED BY <1>3, <2>2, <2>3
<1>8. ASSUME NEW c \in Call PROVE PhaseOf(c)'
  <2>1. PhaseOf(c)
    BY <1>1 DEF PhaseInv
  <2>2. CASE c = current
    BY <1>3, <1>4, <1>5, <2>1, <2>2 DEF PhaseOf
  <2>3. CASE c # current
    BY <1>3, <1>4, <2>1, <2>3 DEF PhaseOf
  <2> QED BY <2>2, <2>3
<1>9. ToolInv'
  <2> SUFFICES ASSUME NEW c \in Call, tool'[c] = "running"
               PROVE  phase'[c] = "prepared" /\ launched'
    BY DEF ToolInv
  <2>1. tool[c] = "running" /\ launched /\ phase[c] = "prepared"
    BY <1>1, <1>3 DEF ToolInv
  <2>2. pc = "finalizing" /\ tool[current] = "settled"
    BY <1>1, <1>3, <2>1 DEF PlaceInv
  <2> QED BY <1>3, <1>4, <2>1, <2>2
<1>10. QueueInv'
  BY <1>1, <1>3, <1>4, <1>7, <1>5 DEF QueueInv, PlaceInv
<1>11. ResultInv'
  BY <1>1, <1>3 DEF ResultInv, PlaceInv, ExecutedInOrder
<1> QED BY <1>6, <1>8, <1>9, <1>10, <1>11 DEF BatchInv, PhaseInv

(* ... which is after all that were reported before...                     *)
LEMMA EmitResultStep ==
    ASSUME Bounds, TypeOK, BatchInv, EmitResult
    PROVE  BatchInv'
<1>1. PlaceInv /\ PhaseInv /\ ToolInv /\ QueueInv /\ ResultInv
  BY DEF BatchInv
<1>2. /\ current \in Call /\ Call \subseteq Int /\ phase \in [Call -> Phase]
      /\ runnable \in Seq(Call) /\ results \in Seq(Call) /\ upcoming \in Int
      /\ mode \in {"sequential", "parallel"} /\ launched \in BOOLEAN
  BY DEF TypeOK, Call, Bounds
<1>3. /\ pc = "reporting"
      /\ phase' = [phase EXCEPT ![current] = "answered"]
      /\ results' = Append(results, current)
      /\ pc' = IF ~launched THEN "next" ELSE IF runnable = << >> THEN "done" ELSE "collecting"
      /\ UNCHANGED <<mode, upcoming, current, tool, refused, launched, runnable>>
  BY DEF EmitResult
<1>4. phase'[current] = "answered" /\ \A c \in Call \ {current} : phase'[c] = phase[c]
  BY <1>2, <1>3
<1>5. /\ phase[current] = "ended"
      /\ mode = "parallel" => (launched <=> current \notin refused)
      /\ mode = "sequential" => ~launched
      /\ ~launched => current = upcoming - 1
  BY <1>1, <1>3 DEF PlaceInv
<1>6. /\ Len(results) \in Nat /\ DOMAIN results = 1..Len(results)
      /\ DOMAIN results' = 1..(Len(results) + 1)
      /\ \A i \in DOMAIN results : results'[i] = results[i] /\ results[i] \in Call
      /\ results'[Len(results) + 1] = current
  BY <1>2, <1>3
<1>7. \A i \in DOMAIN results : phase[results[i]] = "answered" /\ results[i] # current
  BY <1>1, <1>5, <1>6 DEF PhaseInv, PhaseOf
<1>8. \A k \in DOMAIN runnable : runnable[k] \in Call \ {current}
  BY <1>1, <1>2, <1>5 DEF QueueInv
<1>9. PlaceInv'
  BY <1>1, <1>2, <1>3, <1>5 DEF PlaceInv
<1>10. ASSUME NEW c \in Call PROVE PhaseOf(c)'
  <2>1. PhaseOf(c)
    BY <1>1 DEF PhaseInv
  <2>2. (\E i \in DOMAIN results' : results'[i] = c)
            <=> c = current \/ \E i \in DOMAIN results : results[i] = c
    BY <1>6
  <2>3. CASE c = current
    BY <1>3, <1>4, <1>5, <2>1, <2>2, <2>3 DEF PhaseOf
  <2>4. CASE c # current
    BY <1>3, <1>4, <2>1, <2>2, <2>4 DEF PhaseOf
  <2> QED BY <2>3, <2>4
<1>11. ToolInv'
  BY <1>1, <1>3, <1>4, <1>5 DEF ToolInv
<1>12. QueueInv'
  BY <1>1, <1>3, <1>4, <1>8 DEF QueueInv
<1>13. \A i \in DOMAIN results : ~launched => results[i] < current
  <2> SUFFICES ASSUME NEW i \in DOMAIN results, ~launched PROVE results[i] < current
    OBVIOUS
  <2>1. results[i] \in Call /\ phase[results[i]] # "waiting" /\ results[i] # current
    BY <1>6, <1>7
  <2>2. ~(results[i] >= upcoming)
    BY <1>1, <2>1 DEF PhaseInv, PhaseOf
  <2> QED BY <1>2, <1>5, <2>1, <2>2
<1>14. ResultInv'
  <2>1. ASSUME NEW i \in DOMAIN results'
        PROVE  /\ mode' = "parallel" /\ ~launched' => results'[i] \in refused'
               /\ mode' = "parallel" /\ results'[i] \notin refused' =>
                      /\ \A k \in DOMAIN runnable' : results'[i] < runnable'[k]
                      /\ pc' \in {"finalizing", "reporting"} => results'[i] < current'
    <3>1. CASE i \in DOMAIN results
      BY <1>1, <1>3, <1>6, <3>1 DEF ResultInv
    <3>2. CASE results'[i] = current
      BY <1>1, <1>3, <1>5, <3>2 DEF QueueInv
    <3> QED BY <1>6, <2>1, <3>1, <3>2
  <2>2. \A i, j \in DOMAIN results' : i # j => results'[i] # results'[j]
    BY <1>1, <1>6, <1>7 DEF ResultInv
  <2>3. ASSUME NEW i \in DOMAIN results', NEW j \in DOMAIN results', i < j
        PROVE  \/ results'[i] < results'[j]
               \/ mode' = "parallel" /\ results'[i] \in refused' /\ results'[j] \notin refused'
    <3>1. i \in DOMAIN results
      BY <1>6, <2>3
    <3>2. CASE j \in DOMAIN results
      BY <1>1, <1>3, <1>6, <2>3, <3>1, <3>2 DEF ResultInv, ExecutedInOrder
    <3>3. CASE results'[j] = current
      <4>1. CASE ~launched
        BY <1>6, <1>13, <3>1, <3>3, <4>1
      <4>2. CASE launched
        BY <1>1, <1>2, <1>3, <1>5, <1>6, <3>1, <3>3, <4>2 DEF ResultInv
      <4> QED BY <4>1, <4>2
    <3> QED BY <1>6, <2>3, <3>2, <3>3
  <2> QED BY <2>1, <2>2, <2>3 DEF ResultInv, ExecutedInOrder
<1> QED BY <1>9, <1>10, <1>11, <1>12, <1>14 DEF BatchInv, PhaseInv

(* ... fail, or leave the loop where it is.                                *)
LEMMA OtherStep ==
    ASSUME Bounds, TypeOK, BatchInv,
           AfterThrows \/ Fail \/ (\E c \in Call : Update(c) \/ Settle(c)) \/ UNCHANGED vars
    PROVE  BatchInv'
<1> USE DEF BatchInv, PlaceInv, PhaseInv, PhaseOf, QueueInv, ResultInv, ExecutedInOrder
<1>1. CASE AfterThrows \/ Fail
  BY <1>1 DEF AfterThrows, Fail, ToolInv
<1>2. ASSUME NEW c \in Call, Settle(c) PROVE BatchInv'
  <2>1. tool' = [tool EXCEPT ![c] = "settled"] /\ tool \in [Call -> {"idle", "running", "settled"}]
    BY <1>2 DEF Settle, TypeOK
  <2>2. \A d \in Call : tool'[d] = tool[d] \/ tool'[d] = "settled"
    BY <2>1
  <2>3. current \in Call
    BY DEF TypeOK
  <2>4. ToolInv'
    BY <1>2, <2>2 DEF Settle, ToolInv
  <2>5. PlaceInv'
    BY <1>2, <2>2, <2>3 DEF Settle
  <2>6. PhaseInv' /\ QueueInv' /\ ResultInv'
    BY <1>2 DEF Settle
  <2> QED BY <2>4, <2>5, <2>6
<1>3. ASSUME NEW c \in Call, Update(c) PROVE BatchInv'
  BY <1>3 DEF Update, ToolInv
<1>4. CASE UNCHANGED vars
  BY <1>4 DEF vars, ToolInv
<1> QED BY <1>1, <1>2, <1>3, <1>4

LEMMA StepBatchInv == ASSUME Bounds, TypeOK, BatchInv, [Next]_vars PROVE BatchInv'
  BY BeginStep, AcceptStep, CollectStep, EmitEndStep, EmitResultStep, OtherStep
     DEF Next, Loop

(* What the invariant says of a batch that is over.                        *)
LEMMA WholeIfInv == ASSUME Bounds, TypeOK, BatchInv PROVE BatchIsWhole
<1>1. PlaceInv /\ PhaseInv /\ ToolInv /\ QueueInv /\ ResultInv
  BY DEF BatchInv
<1>2. results \in Seq(Call) /\ phase \in [Call -> Phase]
  BY DEF TypeOK
<1>3. ASSUME pc = "done", NEW c \in Call PROVE phase[c] = "answered"
  <2>1. PhaseOf(c) /\ runnable = << >> /\ upcoming = N + 1
    BY <1>1, <1>3 DEF PhaseInv, PlaceInv
  <2>2. ~(c >= upcoming)
    BY <2>1 DEF Call, Bounds
  <2>3. phase[c] \in {"answered", "prepared", "ended", "started"}
    BY <1>2, <2>1, <2>2 DEF PhaseOf, Phase
  <2> QED BY <1>3, <2>1, <2>3 DEF PhaseOf
<1>4. AnsweredOnce
  <2>1. ASSUME pc = "done" PROVE {results[i] : i \in DOMAIN results} = Call
    <3>1. \A c \in Call : \E i \in DOMAIN results : results[i] = c
      BY <1>1, <1>3, <2>1 DEF PhaseInv, PhaseOf
    <3>2. \A i \in DOMAIN results : results[i] \in Call
      BY <1>2
    <3> QED BY <3>1, <3>2
  <2> QED BY <1>1, <2>1 DEF AnsweredOnce, ResultInv
<1>5. NothingRunsOn
  <2>1. ASSUME pc = "done", NEW c \in Call PROVE tool[c] # "running"
    BY <1>1, <1>3, <2>1 DEF ToolInv
  <2>2. ASSUME pc = "failed", mode = "sequential", NEW c \in Call PROVE tool[c] # "running"
    BY <1>1, <2>2 DEF ToolInv, PlaceInv
  <2> QED BY <2>1, <2>2 DEF NothingRunsOn
<1> QED BY <1>1, <1>4, <1>5 DEF BatchIsWhole, ResultInv

(* Each call of a batch that went through has one result, in the order the *)
(* code keeps, and no tool is left at work (executeToolCalls), for batches *)
(* of any length in either mode.                                           *)
THEOREM BatchesAreWhole == ASSUME Bounds PROVE Spec => []BatchIsWhole
<1>1. Init => BatchInv
  <2> SUFFICES ASSUME Init PROVE BatchInv
    OBVIOUS
  <2>1. results = << >> /\ runnable = << >> /\ pc = "next" /\ refused = {}
    BY DEF Init
  <2>2. PlaceInv /\ QueueInv /\ ResultInv
    BY DEF Init, PlaceInv, QueueInv, ResultInv, ExecutedInOrder
  <2>3. PhaseInv /\ ToolInv
    BY DEF Init, PhaseInv, PhaseOf, ToolInv, Call, Bounds
  <2> QED BY <2>2, <2>3 DEF BatchInv
<1>2. TypeOK /\ BatchInv /\ [Next]_vars => BatchInv'
  BY StepBatchInv
<1>3. TypeOK /\ BatchInv => BatchIsWhole
  BY WholeIfInv
<1> QED BY <1>1, <1>2, <1>3, TypeCorrect, PTL DEF Spec
-----------------------------------------------------------------------------
LEMMA LoginStart == Login!Init => Login!LoginInv
  BY DEF Login!Init, Login!LoginInv, Login!OwnCode, Login!Over

LEMMA LoginSteps ==
    ASSUME Login!LoginInv, Login!Next
    PROVE  Login!LoginInv'
<1> USE DEF Login!LoginInv, Login!OwnCode, Login!Over, Login!End
<1>1. CASE Login!Start
  BY <1>1 DEF Login!Start
<1>2. CASE Login!Escape
  BY <1>2 DEF Login!Escape
<1>3. ASSUME NEW given \in Login!Input, Login!Callback(given)
      PROVE  Login!LoginInv'
  BY <1>3 DEF Login!Callback, Login!Exchange, Login!Input
<1>4. ASSUME NEW given \in Login!Input, Login!Submit(given)
      PROVE  Login!LoginInv'
  BY <1>4 DEF Login!Submit, Login!Paste, Login!Exchange, Login!Input
<1>5. ASSUME NEW ok \in BOOLEAN, Login!Exchanged(ok)
      PROVE  Login!LoginInv'
  BY <1>5 DEF Login!Exchanged
<1> QED BY <1>1, <1>2, <1>3, <1>4, <1>5 DEF Login!Next
-----------------------------------------------------------------------------
(* An INSTANCE has operators of FiniteSets of its own.                      *)
LEMMA SameSets ==
    \A S : /\ Documents!IsFiniteSet(S) <=> IsFiniteSet(S)
           /\ Documents!Cardinality(S) = Cardinality(S)
  BY DEF IsFiniteSet, Cardinality, Documents!IsFiniteSet, Documents!Cardinality

(* A store whose blobs fit one page lists them all: fewer than all come    *)
(* before any of them.                                                     *)
LEMMA OnePageListsAll ==
    ASSUME Documents!StoreInv, Documents!Cardinality(x1) <= PageSize
    PROVE  Documents!Listed = x1
<1> SUFFICES ASSUME NEW b \in x1 PROVE b \in Documents!Listed
  BY DEF Documents!Listed
<1> DEFINE Before(c) == \/ c.of < b.of
                        \/ c.of = b.of /\ c.what = "original" /\ b.what = "extracted"
           S == {c \in x1 : Before(c)}
<1>1. b.of \in Nat
  BY DocumentAssumption DEF Documents!StoreInv, Documents!Blob
<1>2. b \notin S
  BY <1>1
<1>3. IsFiniteSet(x1) /\ IsFiniteSet(x1 \ {b})
  BY SameSets, FS_RemoveElement DEF Documents!StoreInv
<1>4. Cardinality(x1 \ {b}) = Cardinality(x1) - 1
  BY <1>3, FS_RemoveElement
<1>5. Cardinality(S) <= Cardinality(x1 \ {b})
  BY <1>2, <1>3, FS_Subset
<1>6. Cardinality(x1) \in Nat /\ Cardinality(x1 \ {b}) \in Nat /\ Cardinality(S) \in Nat
  <2>1. IsFiniteSet(S)
    BY <1>3, FS_Subset
  <2> QED BY <1>3, <2>1, FS_CardinalityType
<1>7. Cardinality(S) < PageSize
  BY <1>4, <1>5, <1>6, SameSets, DocumentAssumption
<1>8. Documents!Cardinality(S) < PageSize
  BY <1>7, SameSets
<1> QED BY <1>8 DEF Documents!Listed

LEMMA DocumentsStart == Documents!Init => Documents!StoreInv
  BY SameSets, FS_EmptySet DEF Documents!Init, Documents!StoreInv

LEMMA DocumentsSteps ==
    ASSUME Documents!StoreInv, [Documents!Next]_Documents!vars
    PROVE  Documents!StoreInv' /\ Documents!AsksWithConfirmed
<1> USE DEF Documents!StoreInv, Documents!Original, Documents!Extracted, Documents!Blob
<1>1. Documents!StoreInv'
  <2>1. ASSUME NEW d \in Document, Documents!StoreOriginal(d)
        PROVE  Documents!StoreInv'
    BY <2>1, SameSets, FS_AddElement DEF Documents!StoreOriginal
  <2>2. ASSUME NEW d \in Document, Documents!StoreText(d)
        PROVE  Documents!StoreInv'
    BY <2>2, SameSets, FS_AddElement DEF Documents!StoreText
  <2>3. ASSUME NEW d \in Document, Documents!UploadFails(d)
        PROVE  Documents!StoreInv'
    BY <2>3 DEF Documents!UploadFails
  <2>4. ASSUME NEW d \in Document, Documents!Delete(d)
        PROVE  Documents!StoreInv'
    BY <2>4, SameSets, FS_RemoveElement DEF Documents!Delete
  <2>5. CASE Documents!Ask
    BY <2>5 DEF Documents!Ask
  <2>6. CASE Documents!Fetch
    BY <2>6 DEF Documents!Fetch
  <2>7. CASE Documents!FetchFails
    BY <2>7 DEF Documents!FetchFails
  <2>8. CASE Documents!Prompt
    BY <2>8 DEF Documents!Prompt
  <2>9. CASE UNCHANGED Documents!vars
    BY <2>9 DEF Documents!vars
  <2> QED BY <2>1, <2>2, <2>3, <2>4, <2>5, <2>6, <2>7, <2>8, <2>9 DEF Documents!Next
<1>2. Documents!AsksWithConfirmed
  <2> SUFFICES ASSUME Documents!Ask, Documents!Cardinality(x1) <= PageSize, NEW d \in x3 \ x4
               PROVE  d \in x6'.todo
    BY DEF Documents!AsksWithConfirmed
  <2>1. Documents!Extracted(d) \in Documents!Listed
    BY OnePageListsAll
  <2> QED BY <2>1 DEF Documents!Ask
<1> QED BY <1>1, <1>2

LEMMA PrefixOfAppended ==
    ASSUME NEW S, NEW s \in Seq(S), NEW t \in Seq(S), NEW u \in Seq(S), Sessions!IsPrefix(s, t)
    PROVE  Sessions!IsPrefix(s, t \o u)
  BY DEF Sessions!IsPrefix

LEMMA PrefixOfAppend ==
    ASSUME NEW S, NEW s \in Seq(S), NEW t \in Seq(S), NEW e \in S, Sessions!IsPrefix(s, t)
    PROVE  Sessions!IsPrefix(s, Append(t, e))
  BY DEF Sessions!IsPrefix

LEMMA PrefixOfItself ==
    ASSUME NEW S, NEW s \in Seq(S)
    PROVE  Sessions!IsPrefix(s, s) /\ Sessions!IsPrefix(<< >>, s)
  BY DEF Sessions!IsPrefix

(* The conversations of the FAQ bot: x1 data, x2 meta, x3 current, x4      *)
(* title, x5 agent, x6 loads, x7 renaming, x8 begun, x9 titles, x10        *)
(* astray.                                                                 *)
LEMMA SessionConstants ==
    /\ Sessions!Idle \in Sessions!Renaming
    /\ Sessions!Idle.step = "none" /\ Sessions!Idle.id = 0 /\ Sessions!Idle.read = Sessions!Gone
    /\ Sessions!Idle.title = Sessions!NoTitle
    /\ Sessions!NoTitle \in Sessions!Titles /\ Sessions!NoTitle.of = 0
    /\ Sessions!Gone \in Sessions!Stored /\ Sessions!Gone.of = 0 /\ Sessions!Gone.said = << >>
    /\ << >> \in Sessions!Said
<1>1. Sessions!NoTitle \in Sessions!Titles /\ Sessions!NoTitle.of = 0
  BY SessionsAssumption DEF Sessions!None, Sessions!NoTitle, Sessions!Titles
<1>2. << >> \in Sessions!Said
  BY DEF Sessions!Said
<1>3. Sessions!Gone \in Sessions!Stored /\ Sessions!Gone.of = 0 /\ Sessions!Gone.said = << >>
  BY <1>1, <1>2, SessionsAssumption DEF Sessions!Gone, Sessions!Stored, Sessions!None
<1>4. /\ Sessions!Idle \in Sessions!Renaming
      /\ Sessions!Idle.step = "none" /\ Sessions!Idle.id = 0
      /\ Sessions!Idle.read = Sessions!Gone /\ Sessions!Idle.title = Sessions!NoTitle
  BY <1>1, <1>3, SessionsAssumption DEF Sessions!Idle, Sessions!None, Sessions!Renaming
<1> QED BY <1>1, <1>2, <1>3, <1>4

LEMMA SessionNumbers ==
    /\ \A s \in Sessions!Session : s \in Nat /\ s \in 0..MaxSessions /\ s # 0
    /\ \A s \in 0..MaxSessions : s # 0 => s \in Sessions!Session
  BY SessionsAssumption DEF Sessions!Session

LEMMA StoredFields ==
    ASSUME Sessions!SessionsInv, NEW s \in Sessions!Session
    PROVE  /\ x1[s] \in Sessions!Stored /\ x1[s].said \in Sessions!Said
           /\ x2[s] \in Sessions!Titles
           /\ Sessions!IsPrefix(x1[s].said, x1[s].said)
           /\ Sessions!StoredInv(s)
<1>1. x1[s] \in Sessions!Stored /\ x2[s] \in Sessions!Titles /\ Sessions!StoredInv(s)
  BY DEF Sessions!SessionsInv, Sessions!FieldsInv, Sessions!OwnInv
<1>2. x1[s].said \in Sessions!Said
  BY <1>1 DEF Sessions!Stored
<1> QED BY <1>1, <1>2, PrefixOfItself DEF Sessions!Said

LEMMA PageFields ==
    ASSUME Sessions!SessionsInv
    PROVE  /\ x3 \in 0..MaxSessions /\ x4 \in Sessions!Titles /\ x9 \in Nat
           /\ x5 \in Sessions!Conversation /\ x5.of \in Sessions!Session
           /\ x5.said \in Sessions!Said
           /\ x8 \in Sessions!Session /\ x6 \in Seq(Sessions!Loading)
           /\ x7 \in Sessions!Renaming
           /\ Sessions!OrderInv /\ Sessions!PageInv
  BY DEF Sessions!SessionsInv, Sessions!FieldsInv, Sessions!OwnInv, Sessions!Conversation

LEMMA LoadFields ==
    ASSUME Sessions!SessionsInv, NEW i \in DOMAIN x6
    PROVE  /\ x6[i] \in Sessions!Loading /\ x6[i].id \in Sessions!Session
           /\ x6[i].read \in Sessions!Stored /\ x6[i].read.said \in Sessions!Said
           /\ x6[i].title \in Sessions!Titles /\ x6[i].step \in {"data", "metadata"}
           /\ Sessions!LoadInv(x6[i])
<1>1. x6[i] \in Sessions!Loading
  BY PageFields
<1>2. x6[i].read \in Sessions!Stored
  BY <1>1 DEF Sessions!Loading
<1>3. x6[i].read.said \in Sessions!Said
  BY <1>2 DEF Sessions!Stored
<1>4. Sessions!LoadInv(x6[i])
  BY DEF Sessions!SessionsInv, Sessions!OwnInv
<1> QED BY <1>1, <1>2, <1>3, <1>4 DEF Sessions!Loading

LEMMA SessionsStart == Sessions!Init => Sessions!SessionsInv
<1> SUFFICES ASSUME Sessions!Init PROVE Sessions!SessionsInv
  OBVIOUS
<1>1. x5.of = 1 /\ x5.said = << >> /\ 1 \in Sessions!Session /\ x5 \in Sessions!Conversation
  BY SessionsAssumption, SessionConstants
  DEF Sessions!Init, Sessions!Empty, Sessions!Session, Sessions!Conversation
<1>2. Sessions!FieldsInv
  BY <1>1, SessionConstants, SessionNumbers, SessionsAssumption
  DEF Sessions!Init, Sessions!FieldsInv, Sessions!None
<1>3. \A s \in Sessions!Session : Sessions!StoredInv(s)
  BY SessionConstants DEF Sessions!Init, Sessions!StoredInv
<1>4. Sessions!OrderInv
  BY DEF Sessions!Init, Sessions!OrderInv, Sessions!AwaitsMetadata
<1>5. Sessions!PageInv
  BY <1>1, SessionConstants DEF Sessions!Init, Sessions!PageInv, Sessions!None, Sessions!AwaitsMetadata
<1>6. Sessions!OwnInv
  BY <1>3, <1>4, <1>5 DEF Sessions!Init, Sessions!OwnInv
<1> QED BY <1>2, <1>6 DEF Sessions!SessionsInv

(* What a step leaves alone that does not touch the store, or the loads.   *)
LEMMA StoreStays ==
    ASSUME Sessions!SessionsInv, UNCHANGED <<x1, x2, x8, x10>>,
           UNCHANGED x7 \/ x7'.step # "data"
    PROVE  (\A s \in Sessions!Session : Sessions!StoredInv(s))' /\ Sessions!OnlyGrows
<1>1. ASSUME NEW s \in Sessions!Session PROVE Sessions!StoredInv(s)'
  BY StoredFields DEF Sessions!StoredInv
<1>2. Sessions!OnlyGrows
  BY StoredFields DEF Sessions!OnlyGrows
<1> QED BY <1>1, <1>2

LEMMA LoadsStay ==
    ASSUME Sessions!SessionsInv, UNCHANGED <<x1, x6, x8>>, x10 \subseteq x10'
    PROVE  (\A i \in DOMAIN x6 : Sessions!LoadInv(x6[i]))'
<1> SUFFICES ASSUME NEW i \in DOMAIN x6 PROVE Sessions!LoadInv(x6[i])'
  OBVIOUS
<1> QED BY LoadFields DEF Sessions!LoadInv

LEMMA SessionsAsk ==
    ASSUME Sessions!SessionsInv, Sessions!Ask
    PROVE  Sessions!SessionsInv' /\ Sessions!OnlyGrows
<1>1. /\ UNCHANGED <<x1, x2, x3, x4, x6, x7, x8, x9, x10>>
      /\ x5'.of = x5.of /\ x5'.said = Append(x5.said, "question")
      /\ x5' \in Sessions!Conversation
  <2>1. Append(x5.said, "question") \in Sessions!Said
    BY PageFields DEF Sessions!Said
  <2> QED BY <2>1, PageFields DEF Sessions!Ask, Sessions!Conversation
<1>2. Sessions!FieldsInv'
  BY <1>1 DEF Sessions!SessionsInv, Sessions!FieldsInv
<1>3. ASSUME x3 \in Sessions!Session, Sessions!IsPrefix(x1[x3].said, x5.said)
      PROVE  Sessions!IsPrefix(x1[x3].said, Append(x5.said, "question"))
  BY <1>3, PageFields, StoredFields, PrefixOfAppend DEF Sessions!Said
<1>4. Sessions!PageInv'
  BY <1>1, <1>3, PageFields, SessionNumbers
  DEF Sessions!PageInv, Sessions!AwaitsMetadata, Sessions!None
<1>5. Sessions!OrderInv'
  BY <1>1, PageFields DEF Sessions!OrderInv, Sessions!AwaitsMetadata
<1>6. Sessions!OwnInv'
  BY <1>1, <1>4, <1>5, StoreStays, LoadsStay DEF Sessions!OwnInv
<1> QED BY <1>1, <1>2, <1>6, StoreStays DEF Sessions!SessionsInv

(* An answer is saved under current: where nothing read of it is in hand   *)
(* and nothing went wrong before, this is the session of the agent.        *)
LEMMA AnsweredOwn ==
    ASSUME Sessions!SessionsInv, Sessions!Answered, x3' \notin x10'
    PROVE  /\ x5.of = x3' /\ x4'.of = x3'
           /\ Sessions!IsPrefix(x1[x3'].said, x5.said)
           /\ \A i \in DOMAIN x6 : x6[i].id # x3'
           /\ ~(x7.id = x3' /\ x7.step = "data")
<1>1. /\ \A i \in DOMAIN x6 : x6[i].id # x3'
      /\ ~(x7.id = x3' /\ x7.step = "data")
      /\ x3' \notin x10
  BY DEF Sessions!Answered, Sessions!InHand
<1>2. /\ x3' = IF x3 = 0 THEN x5.of ELSE x3
      /\ x4' = IF x4 = Sessions!NoTitle THEN [of |-> x5.of, nr |-> 0] ELSE x4
  BY DEF Sessions!Answered, Sessions!None
<1>3. ~Sessions!AwaitsMetadata
  BY <1>1, <1>2, PageFields DEF Sessions!OrderInv, Sessions!PageInv, Sessions!None
<1>4. CASE x3 = 0
  BY <1>1, <1>2, <1>4, PageFields, SessionConstants, PrefixOfItself
  DEF Sessions!PageInv, Sessions!None, Sessions!Said
<1>5. CASE x3 # 0
  BY <1>1, <1>2, <1>3, <1>5, PageFields DEF Sessions!PageInv, Sessions!None
<1> QED BY <1>1, <1>4, <1>5

LEMMA SessionsAnswered ==
    ASSUME Sessions!SessionsInv, Sessions!Answered
    PROVE  Sessions!SessionsInv' /\ Sessions!OnlyGrows
<1>1. x5'.of = x5.of /\ x5'.said = x5.said \o <<"answer", "card">>
      /\ x5' \in Sessions!Conversation /\ x5'.said \in Sessions!Said
  <2>1. x5.said \o <<"answer", "card">> \in Sessions!Said
    BY PageFields DEF Sessions!Said
  <2> QED BY <2>1, PageFields DEF Sessions!Answered, Sessions!Conversation
<1>2. /\ x3' = IF x3 = 0 THEN x5.of ELSE x3
      /\ x3' \in Sessions!Session /\ x3' <= x8 /\ x3' # 0
  BY PageFields, SessionNumbers DEF Sessions!Answered, Sessions!None, Sessions!PageInv
<1>3. x4' \in Sessions!Titles /\ x4' # Sessions!NoTitle
  BY PageFields, SessionNumbers
  DEF Sessions!Answered, Sessions!Titles, Sessions!NoTitle, Sessions!None
<1> DEFINE entry == [of |-> x5'.of, said |-> x5'.said, title |-> x4']
<1>4. /\ entry \in Sessions!Stored /\ entry.of = x5.of /\ entry.said = x5'.said
      /\ entry.title = x4' /\ entry # Sessions!Gone
  BY <1>1, <1>3, PageFields, SessionNumbers
  DEF Sessions!Stored, Sessions!Gone, Sessions!None
<1>5. x1' = [x1 EXCEPT ![x3'] = entry] /\ x2' = [x2 EXCEPT ![x3'] = x4']
  BY DEF Sessions!Answered, Sessions!Save
<1> HIDE DEF entry
<1>6. /\ x1' \in [Sessions!Session -> Sessions!Stored] /\ x2' \in [Sessions!Session -> Sessions!Titles]
      /\ x1'[x3'] = entry /\ x2'[x3'] = x4'
      /\ \A s \in Sessions!Session : s # x3' => x1'[s] = x1[s] /\ x2'[s] = x2[s]
  BY <1>2, <1>3, <1>4, <1>5 DEF Sessions!SessionsInv, Sessions!FieldsInv
<1>7. /\ UNCHANGED <<x6, x7, x8, x9>> /\ x10 \subseteq x10'
      /\ \A s : s \in x10' /\ s # x3' => s \in x10
  BY DEF Sessions!Answered
<1>8. Sessions!FieldsInv'
  BY <1>1, <1>2, <1>3, <1>6, <1>7, PageFields, SessionNumbers DEF Sessions!FieldsInv
<1>9. ASSUME NEW s \in Sessions!Session PROVE Sessions!StoredInv(s)'
  <2>1. CASE s # x3'
    BY <1>6, <1>7, <2>1, StoredFields DEF Sessions!StoredInv
  <2>2. CASE s = x3'
    <3>1. s <= x8' /\ s \in Nat /\ x8 \in Nat
      BY <1>2, <1>7, <2>2, PageFields, SessionNumbers
    <3>2. s \notin x10' => x1'[s].of = s /\ x1'[s].title.of = s /\ x2'[s].of = s
                           /\ ~(x7'.step = "data" /\ x7'.id = s)
      BY <1>4, <1>6, <1>7, <2>2, AnsweredOwn
    <3>3. x1'[s].of \in Sessions!Session
      BY <1>4, <1>6, <2>2, PageFields
    <3> QED BY <3>1, <3>2, <3>3, <1>7 DEF Sessions!StoredInv
  <2> QED BY <2>1, <2>2
<1>10. ASSUME NEW i \in DOMAIN x6 PROVE Sessions!LoadInv(x6[i])'
  <2>1. CASE x6[i].id = x3'
    BY <1>7, <2>1, LoadFields, AnsweredOwn DEF Sessions!LoadInv
  <2>2. CASE x6[i].id # x3'
    BY <1>6, <1>7, <2>2, LoadFields DEF Sessions!LoadInv
  <2> QED BY <2>1, <2>2
<1>11. Sessions!OrderInv'
  BY <1>2, <1>7, PageFields
  DEF Sessions!OrderInv, Sessions!AwaitsMetadata, Sessions!PageInv, Sessions!None
<1>12. Sessions!PageInv'
  <2>1. x3' \notin x10' => /\ x5'.of = x3' /\ x4'.of = x3'
                           /\ Sessions!IsPrefix(x1'[x3'].said, x5'.said)
    BY <1>1, <1>4, <1>6, AnsweredOwn, PrefixOfItself DEF Sessions!Said
  <2> QED BY <1>2, <1>7, <2>1, PageFields DEF Sessions!PageInv, Sessions!None
<1>13. Sessions!OwnInv'
  BY <1>7, <1>9, <1>10, <1>11, <1>12 DEF Sessions!OwnInv
<1>14. x3' \notin x10' => Sessions!IsPrefix(x1[x3'].said, x5'.said)
  <2>1. <<"answer", "card">> \in Sessions!Said
    BY DEF Sessions!Said
  <2> QED BY <1>1, <1>2, <2>1, AnsweredOwn, PageFields, StoredFields, PrefixOfAppended DEF Sessions!Said
<1>15. Sessions!OnlyGrows
  BY <1>2, <1>4, <1>6, <1>14, StoredFields DEF Sessions!OnlyGrows
<1> QED BY <1>8, <1>13, <1>15 DEF Sessions!SessionsInv

LEMMA SessionsBeginLoad ==
    ASSUME Sessions!SessionsInv, NEW id \in Sessions!Session, Sessions!BeginLoad(id)
    PROVE  Sessions!SessionsInv' /\ Sessions!OnlyGrows
<1> DEFINE load == [id |-> id, read |-> x1[id], title |-> Sessions!NoTitle, step |-> "data"]
<1>1. UNCHANGED <<x1, x2, x3, x4, x5, x7, x8, x9, x10>> /\ x6' = Append(x6, load)
      /\ x1[id] # Sessions!Gone
  BY DEF Sessions!BeginLoad
<1>2. load \in Sessions!Loading
  BY StoredFields, SessionConstants DEF Sessions!Loading
<1>3. load.id = id /\ load.read = x1[id] /\ load.title = Sessions!NoTitle /\ load.step = "data"
  OBVIOUS
<1> HIDE DEF load
<1>4. /\ x6' \in Seq(Sessions!Loading) /\ Len(x6) \in Nat /\ Len(x6') = Len(x6) + 1
      /\ \A i \in 1..Len(x6) : x6'[i] = x6[i]
      /\ x6'[Len(x6) + 1] = load
      /\ DOMAIN x6 = 1..Len(x6) /\ DOMAIN x6' = 1..(Len(x6) + 1)
  BY <1>1, <1>2, PageFields
<1>5. Sessions!FieldsInv'
  BY <1>1, <1>4 DEF Sessions!SessionsInv, Sessions!FieldsInv
<1>6. id <= x8 /\ x1[id].of \in Sessions!Session
  BY <1>1, StoredFields, PageFields, SessionNumbers DEF Sessions!StoredInv
<1>7. ASSUME NEW i \in DOMAIN x6' PROVE Sessions!LoadInv(x6[i])'
  <2>1. CASE i \in 1..Len(x6)
    BY <1>1, <1>4, <2>1, LoadFields DEF Sessions!LoadInv
  <2>2. CASE i = Len(x6) + 1
    <3>1. x6'[i] = load
      BY <1>4, <2>2
    <3> QED BY <1>1, <1>3, <1>6, <3>1, StoredFields DEF Sessions!LoadInv, Sessions!StoredInv
  <2> QED BY <1>4, <2>1, <2>2
<1>8. Sessions!OrderInv'
  BY <1>1, <1>3, <1>4, PageFields DEF Sessions!OrderInv, Sessions!AwaitsMetadata
<1>9. Sessions!AwaitsMetadata' <=> Sessions!AwaitsMetadata
  BY <1>3, <1>4 DEF Sessions!AwaitsMetadata
<1>10. Sessions!PageInv'
  BY <1>1, <1>9, PageFields DEF Sessions!PageInv
<1>11. Sessions!OwnInv'
  BY <1>1, <1>7, <1>8, <1>10, StoreStays DEF Sessions!OwnInv
<1> QED BY <1>1, <1>5, <1>11, StoreStays DEF Sessions!SessionsInv

LEMMA SessionsSetCurrent ==
    ASSUME Sessions!SessionsInv, Sessions!SetCurrent
    PROVE  Sessions!SessionsInv' /\ Sessions!OnlyGrows
<1>1. PICK k \in DOMAIN x6 :
          /\ x6[k].step = "data" /\ \A j \in 1..(k - 1) : x6[j].step = "metadata"
          /\ x3' = x6[k].id
          /\ x6' = [x6 EXCEPT ![k].step = "metadata", ![k].title = x2[x3']]
          /\ UNCHANGED <<x1, x2, x4, x5, x7, x8, x9, x10>>
  BY DEF Sessions!SetCurrent
<1>2. /\ x3' \in Sessions!Session /\ x3' <= x8 /\ x2[x3'] \in Sessions!Titles
  BY <1>1, LoadFields, StoredFields DEF Sessions!LoadInv
<1> DEFINE load == [x6[k] EXCEPT !.step = "metadata", !.title = x2[x3']]
<1>3. /\ load \in Sessions!Loading /\ load.step = "metadata" /\ load.title = x2[x3']
      /\ load.id = x6[k].id /\ load.read = x6[k].read
  BY <1>2, LoadFields DEF Sessions!Loading
<1>4. x6' = [x6 EXCEPT ![k] = load]
  BY <1>1
<1> HIDE DEF load
<1>5. /\ x6' \in Seq(Sessions!Loading) /\ Len(x6') = Len(x6) /\ Len(x6) \in Nat
      /\ DOMAIN x6' = 1..Len(x6) /\ DOMAIN x6 = 1..Len(x6)
      /\ x6'[k] = load /\ \A i \in DOMAIN x6 : i # k => x6'[i] = x6[i]
  BY <1>3, <1>4, PageFields
<1>6. Sessions!FieldsInv'
  BY <1>1, <1>2, <1>5, SessionNumbers DEF Sessions!SessionsInv, Sessions!FieldsInv
<1>7. ASSUME NEW i \in DOMAIN x6 PROVE Sessions!LoadInv(x6[i])'
  <2>1. CASE i = k
    BY <1>1, <1>2, <1>3, <1>5, <2>1, LoadFields, StoredFields
    DEF Sessions!LoadInv, Sessions!StoredInv
  <2>2. CASE i # k
    BY <1>1, <1>5, <2>2, LoadFields DEF Sessions!LoadInv
  <2> QED BY <2>1, <2>2
<1>8. \A i \in DOMAIN x6 : i > k => x6[i].step = "data"
  BY <1>1, <1>5, PageFields, LoadFields DEF Sessions!OrderInv
<1>9. Sessions!OrderInv'
  <2>1. ASSUME NEW i \in DOMAIN x6, NEW j \in 1..i, x6'[i].step = "metadata"
        PROVE  x6'[j].step = "metadata"
    <3>1. i <= k
      BY <1>5, <1>8, <2>1
    <3>2. j = k \/ j \in 1..(k - 1)
      BY <1>5, <3>1
    <3> QED BY <1>1, <1>3, <1>5, <3>2
  <2>2. \A j \in DOMAIN x6 : j > k => x6'[j].step = "data"
    BY <1>5, <1>8
  <2> QED BY <1>1, <1>3, <1>5, <2>1, <2>2 DEF Sessions!OrderInv, Sessions!AwaitsMetadata
<1>10. Sessions!AwaitsMetadata'
  <2>1. 1 \in DOMAIN x6 /\ (1 = k \/ 1 \in 1..(k - 1))
    BY <1>5
  <2>2. x6'[1].step = "metadata"
    BY <1>1, <1>3, <1>5, <2>1
  <2> QED BY <1>5, <2>1, <2>2 DEF Sessions!AwaitsMetadata
<1>11. Sessions!PageInv'
  BY <1>1, <1>2, <1>10, PageFields, SessionNumbers DEF Sessions!PageInv, Sessions!None
<1>12. Sessions!OwnInv'
  BY <1>1, <1>5, <1>7, <1>9, <1>11, StoreStays DEF Sessions!OwnInv
<1> QED BY <1>1, <1>6, <1>12, StoreStays DEF Sessions!SessionsInv

LEMMA SessionsLoad ==
    ASSUME Sessions!SessionsInv, Sessions!Load
    PROVE  Sessions!SessionsInv' /\ Sessions!OnlyGrows
<1>1. /\ x6 # << >> /\ x6[1].step = "metadata" /\ x6' = Tail(x6)
      /\ x4' = x6[1].title
      /\ x5' = [of |-> x6[1].read.of, said |-> x6[1].read.said, on |-> FALSE]
      /\ UNCHANGED <<x1, x2, x3, x7, x8, x9, x10>>
  <2>1. x6 # << >> /\ x6 \in Seq(Sessions!Loading)
    BY PageFields DEF Sessions!Load
  <2>2. Head(x6) = x6[1]
    BY <2>1
  <2> QED BY <2>1, <2>2 DEF Sessions!Load
<1>2. /\ x6' \in Seq(Sessions!Loading) /\ Len(x6) \in Nat \ {0} /\ Len(x6') = Len(x6) - 1
      /\ DOMAIN x6 = 1..Len(x6) /\ DOMAIN x6' = 1..(Len(x6) - 1)
      /\ \A i \in 1..(Len(x6) - 1) : x6'[i] = x6[i + 1]
  BY <1>1, PageFields
<1>3. 1 \in DOMAIN x6 /\ Sessions!AwaitsMetadata
  BY <1>1, <1>2 DEF Sessions!AwaitsMetadata
<1>4. /\ x5' \in Sessions!Conversation /\ x5'.of = x6[1].read.of /\ x5'.said = x6[1].read.said
      /\ x4' \in Sessions!Titles
  BY <1>1, <1>3, LoadFields DEF Sessions!LoadInv, Sessions!Conversation
<1>5. Sessions!FieldsInv'
  BY <1>1, <1>2, <1>4 DEF Sessions!SessionsInv, Sessions!FieldsInv
<1>6. ASSUME NEW i \in 1..(Len(x6) - 1) PROVE Sessions!LoadInv(x6[i])'
  <2>1. i + 1 \in DOMAIN x6
    BY <1>2
  <2>2. Sessions!LoadInv(x6[i + 1])
    BY <2>1, LoadFields
  <2>3. x6'[i] = x6[i + 1]
    BY <1>2
  <2> QED BY <1>1, <2>2, <2>3 DEF Sessions!LoadInv
<1>7. PICK k \in DOMAIN x6 :
          /\ x6[k].step = "metadata" /\ x3 = x6[k].id
          /\ \A j \in DOMAIN x6 : j > k => x6[j].step = "data"
  BY <1>3, PageFields DEF Sessions!OrderInv
<1>8. Sessions!AwaitsMetadata' => k # 1
  <2> SUFFICES ASSUME Sessions!AwaitsMetadata', k = 1 PROVE FALSE
    OBVIOUS
  <2>1. x6' # << >> /\ x6'[1].step = "metadata"
    BY DEF Sessions!AwaitsMetadata
  <2>2. 1 \in 1..(Len(x6) - 1) /\ 2 \in DOMAIN x6
    BY <1>2, <2>1
  <2>3. x6'[1] = x6[2]
    BY <1>2, <2>2
  <2> QED BY <1>7, <2>1, <2>2, <2>3
<1>9. ~Sessions!AwaitsMetadata' => k = 1
  <2> SUFFICES ASSUME k # 1 PROVE Sessions!AwaitsMetadata'
    OBVIOUS
  <2>1. 2 \in 1..k /\ 2 \in DOMAIN x6 /\ 1 \in 1..(Len(x6) - 1)
    BY <1>2, <1>7
  <2>2. x6[2].step = "metadata" /\ x6'[1] = x6[2]
    BY <1>2, <1>7, <2>1, PageFields DEF Sessions!OrderInv
  <2> QED BY <1>2, <2>1, <2>2 DEF Sessions!AwaitsMetadata
<1>10. Sessions!OrderInv'
  <2>1. ASSUME NEW i \in 1..(Len(x6) - 1), NEW j \in 1..i, x6'[i].step = "metadata"
        PROVE  x6'[j].step = "metadata"
    <3>1. i + 1 \in DOMAIN x6 /\ j + 1 \in 1..(i + 1) /\ j \in 1..(Len(x6) - 1)
      BY <1>2
    <3>2. x6[i + 1].step = "metadata"
      BY <1>2, <2>1
    <3>3. x6[j + 1].step = "metadata"
      BY <3>1, <3>2, PageFields DEF Sessions!OrderInv
    <3> QED BY <1>2, <3>1, <3>3
  <2>2. ASSUME Sessions!AwaitsMetadata'
        PROVE  \E i \in DOMAIN x6' : /\ x6'[i].step = "metadata" /\ x3' = x6'[i].id
                                     /\ \A j \in DOMAIN x6' : j > i => x6'[j].step = "data"
    <3>1. k - 1 \in 1..(Len(x6) - 1) /\ (k - 1) + 1 = k
      BY <1>2, <1>8, <2>2
    <3>2. x6'[k - 1] = x6[k]
      BY <1>2, <3>1
    <3>3. ASSUME NEW j \in 1..(Len(x6) - 1), j > k - 1 PROVE x6'[j].step = "data"
      <4>1. j + 1 \in DOMAIN x6 /\ j + 1 > k
        BY <1>2, <3>3
      <4>2. x6[j + 1].step = "data"
        BY <1>7, <4>1
      <4> QED BY <1>2, <4>2
    <3> QED BY <1>1, <1>2, <1>7, <3>1, <3>2, <3>3
  <2> QED BY <1>2, <2>1, <2>2 DEF Sessions!OrderInv
<1>11. Sessions!PageInv'
  <2>1. x3 \in Sessions!Session /\ x3 # 0
    BY <1>7, LoadFields, SessionNumbers
  <2>2. ASSUME ~Sessions!AwaitsMetadata', x3 \notin x10
        PROVE  /\ x5'.of = x3 /\ (x4' # Sessions!NoTitle => x4'.of = x3)
               /\ Sessions!IsPrefix(x1[x3].said, x5'.said)
    <3>1. x6[1].id = x3 /\ Sessions!LoadInv(x6[1])
      BY <1>3, <1>7, <1>9, <2>2, LoadFields
    <3>2. x5'.said \in Sessions!Said
      BY <1>4 DEF Sessions!Conversation
    <3>3. Sessions!IsPrefix(x1[x3].said, x5'.said)
      BY <1>4, <2>2, <3>1, <3>2, SessionConstants, PrefixOfItself
      DEF Sessions!LoadInv, Sessions!Said
    <3> QED BY <1>1, <1>4, <2>2, <3>1, <3>3 DEF Sessions!LoadInv
  <2> QED BY <1>1, <2>1, <2>2, PageFields DEF Sessions!PageInv, Sessions!None
<1>12. Sessions!OwnInv'
  BY <1>1, <1>2, <1>6, <1>10, <1>11, StoreStays DEF Sessions!OwnInv
<1> QED BY <1>1, <1>5, <1>12, StoreStays DEF Sessions!SessionsInv

LEMMA SessionsNew ==
    ASSUME Sessions!SessionsInv, Sessions!New
    PROVE  Sessions!SessionsInv' /\ Sessions!OnlyGrows
<1>1. /\ UNCHANGED <<x1, x2, x9, x10>> /\ x8' = x8 + 1 /\ x3' = 0 /\ x4' = Sessions!NoTitle
      /\ x5' = [of |-> x8', said |-> << >>, on |-> FALSE]
      /\ x6' = << >> /\ x7' = Sessions!Idle
  BY DEF Sessions!New, Sessions!None, Sessions!Empty
<1>2. x8' \in Sessions!Session /\ x8' > x8 /\ x8 \in Nat
  BY <1>1, PageFields, SessionsAssumption DEF Sessions!New, Sessions!Session
<1>3. x5' \in Sessions!Conversation /\ x5'.of = x8'
  BY <1>1, <1>2, SessionConstants DEF Sessions!Conversation
<1>4. Sessions!FieldsInv'
  BY <1>1, <1>2, <1>3, SessionConstants, SessionsAssumption
  DEF Sessions!SessionsInv, Sessions!FieldsInv
<1>5. ASSUME NEW s \in Sessions!Session PROVE Sessions!StoredInv(s)'
  BY <1>1, <1>2, StoredFields, SessionNumbers, SessionConstants DEF Sessions!StoredInv
<1>6. x1'[x8'] = Sessions!Gone
  BY <1>1, <1>2, StoredFields, SessionNumbers DEF Sessions!StoredInv
<1>7. Sessions!OrderInv' /\ Sessions!PageInv'
  BY <1>1, <1>2, <1>3, <1>6, SessionConstants
  DEF Sessions!OrderInv, Sessions!PageInv, Sessions!AwaitsMetadata, Sessions!None
<1>8. Sessions!OwnInv'
  BY <1>1, <1>5, <1>7 DEF Sessions!OwnInv
<1>9. Sessions!OnlyGrows
  BY <1>1, StoredFields DEF Sessions!OnlyGrows
<1> QED BY <1>4, <1>8, <1>9 DEF Sessions!SessionsInv

LEMMA SessionsDelete ==
    ASSUME Sessions!SessionsInv, NEW id \in Sessions!Session, Sessions!Delete(id)
    PROVE  Sessions!SessionsInv' /\ Sessions!OnlyGrows
<1>1. /\ x1' = [x1 EXCEPT ![id] = Sessions!Gone] /\ x2' = [x2 EXCEPT ![id] = Sessions!NoTitle]
      /\ UNCHANGED <<x3, x4, x5, x6, x7, x8, x9>> /\ x10 \subseteq x10'
      /\ x7.id = id => id \in x10'
  BY DEF Sessions!Delete
<1>2. /\ x1' \in [Sessions!Session -> Sessions!Stored] /\ x2' \in [Sessions!Session -> Sessions!Titles]
      /\ x1'[id] = Sessions!Gone /\ x2'[id] = Sessions!NoTitle
      /\ \A s \in Sessions!Session : s # id => x1'[s] = x1[s] /\ x2'[s] = x2[s]
  BY <1>1, SessionConstants DEF Sessions!SessionsInv, Sessions!FieldsInv
<1>3. Sessions!FieldsInv'
  BY <1>1, <1>2 DEF Sessions!SessionsInv, Sessions!FieldsInv
<1>4. ASSUME NEW s \in Sessions!Session PROVE Sessions!StoredInv(s)'
  <2>1. CASE s # id
    BY <1>1, <1>2, <2>1, StoredFields DEF Sessions!StoredInv
  <2>2. CASE s = id
    BY <1>1, <1>2, <2>2 DEF Sessions!StoredInv
  <2> QED BY <2>1, <2>2
<1>5. ASSUME NEW i \in DOMAIN x6 PROVE Sessions!LoadInv(x6[i])'
  BY <1>1, <1>2, LoadFields DEF Sessions!LoadInv
<1>6. Sessions!OrderInv'
  BY <1>1, PageFields DEF Sessions!OrderInv, Sessions!AwaitsMetadata
<1>7. Sessions!PageInv'
  <2>1. ASSUME x3 # 0, Sessions!IsPrefix(x1[x3].said, x5.said)
        PROVE  Sessions!IsPrefix(x1'[x3].said, x5.said)
    BY <1>2, <2>1, PageFields, SessionNumbers, SessionConstants, PrefixOfItself DEF Sessions!Said
  <2> QED BY <1>1, <1>2, <2>1, PageFields
      DEF Sessions!PageInv, Sessions!AwaitsMetadata, Sessions!None
<1>8. Sessions!OwnInv'
  BY <1>1, <1>4, <1>5, <1>6, <1>7 DEF Sessions!OwnInv
<1>9. Sessions!OnlyGrows
  BY <1>2, StoredFields DEF Sessions!OnlyGrows
<1> QED BY <1>3, <1>8, <1>9 DEF Sessions!SessionsInv

LEMMA SessionsBeginRename ==
    ASSUME Sessions!SessionsInv, Sessions!BeginRename
    PROVE  Sessions!SessionsInv' /\ Sessions!OnlyGrows
<1>1. /\ UNCHANGED <<x1, x2, x3, x4, x5, x6, x8, x10>> /\ x9' = x9 + 1 /\ x3 # 0
      /\ x7' = [Sessions!Idle EXCEPT !.id = x3, !.title = [of |-> x3, nr |-> x9'],
                    !.step = IF x2[x3] = Sessions!NoTitle THEN "title" ELSE "metadata"]
  BY DEF Sessions!BeginRename, Sessions!None
<1>2. x3 \in Sessions!Session /\ [of |-> x3, nr |-> x9'] \in Sessions!Titles /\ x9' \in Nat
  BY <1>1, PageFields, SessionNumbers DEF Sessions!Titles
<1>3. /\ x7' \in Sessions!Renaming /\ x7'.id = x3 /\ x7'.title.of = x3
      /\ x7'.step \in {"title", "metadata"}
  BY <1>1, <1>2, PageFields, SessionConstants DEF Sessions!Renaming
<1>4. Sessions!FieldsInv'
  BY <1>1, <1>2, <1>3 DEF Sessions!SessionsInv, Sessions!FieldsInv
<1>5. Sessions!OrderInv'
  BY <1>1, PageFields DEF Sessions!OrderInv, Sessions!AwaitsMetadata
<1>6. Sessions!PageInv'
  BY <1>1, <1>2, <1>3, PageFields DEF Sessions!PageInv, Sessions!AwaitsMetadata, Sessions!None
<1>7. Sessions!OwnInv'
  BY <1>1, <1>3, <1>5, <1>6, StoreStays, LoadsStay DEF Sessions!OwnInv
<1> QED BY <1>1, <1>3, <1>4, <1>7, StoreStays DEF Sessions!SessionsInv

LEMMA SessionsWriteMetadata ==
    ASSUME Sessions!SessionsInv, Sessions!WriteMetadata
    PROVE  Sessions!SessionsInv' /\ Sessions!OnlyGrows
<1>1. /\ UNCHANGED <<x1, x3, x4, x5, x6, x8, x9, x10>>
      /\ x7.step = "metadata" /\ x7' = [x7 EXCEPT !.step = "title"]
      /\ x2' = [x2 EXCEPT ![x7.id] = x7.title]
  BY DEF Sessions!WriteMetadata
<1>2. x7.id \in Sessions!Session /\ x7.title.of = x7.id /\ x3 # 0
  BY <1>1, PageFields DEF Sessions!PageInv, Sessions!None
<1>3. /\ x7' \in Sessions!Renaming /\ x7'.id = x7.id /\ x7'.title = x7.title
      /\ x7'.step = "title" /\ x7.title \in Sessions!Titles
  BY <1>1, PageFields DEF Sessions!Renaming
<1>4. /\ x2' \in [Sessions!Session -> Sessions!Titles] /\ x2'[x7.id] = x7.title
      /\ \A s \in Sessions!Session : s # x7.id => x2'[s] = x2[s]
  BY <1>1, <1>2, <1>3 DEF Sessions!SessionsInv, Sessions!FieldsInv
<1>5. Sessions!FieldsInv'
  BY <1>1, <1>3, <1>4 DEF Sessions!SessionsInv, Sessions!FieldsInv
<1>6. ASSUME NEW s \in Sessions!Session PROVE Sessions!StoredInv(s)'
  BY <1>1, <1>2, <1>3, <1>4, StoredFields DEF Sessions!StoredInv
<1>7. Sessions!OrderInv'
  BY <1>1, PageFields DEF Sessions!OrderInv, Sessions!AwaitsMetadata
<1>8. Sessions!PageInv'
  BY <1>1, <1>2, <1>3, PageFields DEF Sessions!PageInv, Sessions!AwaitsMetadata, Sessions!None
<1>9. Sessions!OwnInv'
  BY <1>1, <1>6, <1>7, <1>8, LoadsStay DEF Sessions!OwnInv
<1>10. Sessions!OnlyGrows
  BY <1>1, StoredFields DEF Sessions!OnlyGrows
<1> QED BY <1>5, <1>9, <1>10 DEF Sessions!SessionsInv

LEMMA SessionsReadToRename ==
    ASSUME Sessions!SessionsInv, Sessions!ReadToRename
    PROVE  Sessions!SessionsInv' /\ Sessions!OnlyGrows
<1>1. /\ UNCHANGED <<x1, x2, x3, x4, x5, x6, x8, x9, x10>>
      /\ x7.step = "title" /\ x7' = [x7 EXCEPT !.step = "data", !.read = x1[x7.id]]
  BY DEF Sessions!ReadToRename
<1>2. x7.id \in Sessions!Session /\ x7.title.of = x7.id /\ x3 # 0
  BY <1>1, PageFields DEF Sessions!PageInv, Sessions!None
<1>3. /\ x7' \in Sessions!Renaming /\ x7'.id = x7.id /\ x7'.title = x7.title
      /\ x7'.step = "data" /\ x7'.read = x1[x7.id]
  BY <1>1, <1>2, PageFields, StoredFields DEF Sessions!Renaming
<1>4. Sessions!FieldsInv'
  BY <1>1, <1>3 DEF Sessions!SessionsInv, Sessions!FieldsInv
<1>5. ASSUME NEW s \in Sessions!Session PROVE Sessions!StoredInv(s)'
  BY <1>1, <1>3, StoredFields DEF Sessions!StoredInv
<1>6. Sessions!OrderInv'
  BY <1>1, PageFields DEF Sessions!OrderInv, Sessions!AwaitsMetadata
<1>7. x7'.read # Sessions!Gone => x7'.read.of \in Sessions!Session
  BY <1>2, <1>3, StoredFields DEF Sessions!StoredInv
<1>8. Sessions!PageInv'
  BY <1>1, <1>2, <1>3, <1>7, PageFields
  DEF Sessions!PageInv, Sessions!AwaitsMetadata, Sessions!None
<1>9. Sessions!OwnInv'
  BY <1>1, <1>5, <1>6, <1>8, LoadsStay DEF Sessions!OwnInv
<1>10. Sessions!OnlyGrows
  BY <1>1, StoredFields DEF Sessions!OnlyGrows
<1> QED BY <1>4, <1>9, <1>10 DEF Sessions!SessionsInv

(* What is written back is what is there, but for its title.               *)
LEMMA SessionsWriteData ==
    ASSUME Sessions!SessionsInv, Sessions!WriteData
    PROVE  Sessions!SessionsInv' /\ Sessions!OnlyGrows
<1> DEFINE entry == [x7.read EXCEPT !.title = x7.title]
<1>1. /\ UNCHANGED <<x2, x3, x4, x5, x6, x8, x9, x10>>
      /\ x7.step = "data" /\ x7' = [x7 EXCEPT !.step = "written"]
      /\ x1' = IF x7.read = Sessions!Gone THEN x1 ELSE [x1 EXCEPT ![x7.id] = entry]
  BY DEF Sessions!WriteData
<1>2. x7.id \in Sessions!Session /\ x7.title.of = x7.id /\ x3 # 0
  BY <1>1, PageFields DEF Sessions!PageInv, Sessions!None
<1>3. /\ x7' \in Sessions!Renaming /\ x7'.id = x7.id /\ x7'.title = x7.title
      /\ x7'.step = "written" /\ x7.title \in Sessions!Titles /\ x7.read \in Sessions!Stored
  BY <1>1, PageFields DEF Sessions!Renaming
<1>4. CASE x7.read = Sessions!Gone
  <2>1. UNCHANGED x1
    BY <1>1, <1>4
  <2>2. Sessions!FieldsInv'
    BY <1>1, <1>3, <2>1 DEF Sessions!SessionsInv, Sessions!FieldsInv
  <2>3. Sessions!OrderInv' /\ Sessions!PageInv'
    BY <1>1, <1>2, <1>3, <2>1, PageFields
    DEF Sessions!OrderInv, Sessions!PageInv, Sessions!AwaitsMetadata, Sessions!None
  <2>4. Sessions!OwnInv'
    BY <1>1, <1>3, <2>1, <2>3, StoreStays, LoadsStay DEF Sessions!OwnInv
  <2> QED BY <1>1, <1>3, <2>1, <2>2, <2>4, StoreStays DEF Sessions!SessionsInv
<1>5. CASE x7.read # Sessions!Gone
  <2>1. /\ entry \in Sessions!Stored /\ entry.of = x7.read.of /\ entry.said = x7.read.said
        /\ entry.title = x7.title
    BY <1>3 DEF Sessions!Stored
  <2> HIDE DEF entry
  <2>2. /\ x1' \in [Sessions!Session -> Sessions!Stored] /\ x1'[x7.id] = entry
        /\ \A s \in Sessions!Session : s # x7.id => x1'[s] = x1[s]
    BY <1>1, <1>2, <1>5, <2>1 DEF Sessions!SessionsInv, Sessions!FieldsInv
  <2>3. x7.id \notin x10 =>
            /\ x7.read = x1[x7.id] /\ x1[x7.id] # Sessions!Gone
            /\ x1[x7.id].of = x7.id /\ x2[x7.id].of = x7.id
            /\ x1'[x7.id].said = x1[x7.id].said
    BY <1>1, <1>2, <1>5, <2>1, <2>2, StoredFields DEF Sessions!StoredInv
  <2>4. Sessions!FieldsInv'
    BY <1>1, <1>3, <2>2 DEF Sessions!SessionsInv, Sessions!FieldsInv
  <2>5. x7.id <= x8
    BY <1>1, <1>2, PageFields, SessionNumbers DEF Sessions!PageInv
  <2>6. ASSUME NEW s \in Sessions!Session PROVE Sessions!StoredInv(s)'
    <3>1. CASE s # x7.id
      BY <1>1, <1>3, <2>2, <3>1, StoredFields DEF Sessions!StoredInv
    <3>2. CASE s = x7.id
      <4>1. ~(s > x8)
        BY <2>5, <3>2, PageFields, SessionNumbers
      <4>2. x1'[s].of \in Sessions!Session
        BY <1>1, <1>5, <2>1, <2>2, <3>2, PageFields DEF Sessions!PageInv
      <4>3. s \notin x10' => /\ x1'[s].of = s /\ x1'[s].title.of = s /\ x2'[s].of = s
        BY <1>1, <1>2, <2>1, <2>2, <2>3, <3>2
      <4> QED BY <1>1, <1>3, <4>1, <4>2, <4>3 DEF Sessions!StoredInv
    <3> QED BY <3>1, <3>2
  <2>7. ASSUME NEW i \in DOMAIN x6 PROVE Sessions!LoadInv(x6[i])'
    BY <1>1, <2>2, <2>3, LoadFields DEF Sessions!LoadInv
  <2>8. Sessions!OrderInv'
    BY <1>1, PageFields DEF Sessions!OrderInv, Sessions!AwaitsMetadata
  <2>9. Sessions!PageInv'
    <3>1. ASSUME x3 \notin x10, Sessions!IsPrefix(x1[x3].said, x5.said)
          PROVE  Sessions!IsPrefix(x1'[x3].said, x5.said)
      BY <1>2, <2>2, <2>3, <3>1, PageFields, SessionNumbers
    <3> QED BY <1>1, <1>2, <1>3, <3>1, PageFields
        DEF Sessions!PageInv, Sessions!AwaitsMetadata, Sessions!None
  <2>10. Sessions!OwnInv'
    BY <1>1, <2>6, <2>7, <2>8, <2>9 DEF Sessions!OwnInv
  <2>11. Sessions!OnlyGrows
    BY <1>1, <2>2, <2>3, StoredFields DEF Sessions!OnlyGrows
  <2> QED BY <2>4, <2>10, <2>11 DEF Sessions!SessionsInv
<1> QED BY <1>4, <1>5

LEMMA SessionsEndRename ==
    ASSUME Sessions!SessionsInv, Sessions!EndRename
    PROVE  Sessions!SessionsInv' /\ Sessions!OnlyGrows
<1>1. /\ UNCHANGED <<x1, x2, x3, x5, x6, x8, x9>> /\ x10 \subseteq x10'
      /\ x7.step = "written" /\ x7' = Sessions!Idle /\ x4' = x7.title
      /\ x3 = x7.id \/ Sessions!AwaitsMetadata \/ x3 \in x10'
      /\ \A s : s \in x10' => s \in x10 \/ s = x3
  BY PageFields DEF Sessions!EndRename, Sessions!AwaitsMetadata
<1>2. x7.id \in Sessions!Session /\ x7.title.of = x7.id /\ x3 # 0 /\ x7.title \in Sessions!Titles
  BY <1>1, PageFields DEF Sessions!PageInv, Sessions!None, Sessions!Renaming
<1>3. Sessions!FieldsInv'
  BY <1>1, <1>2, SessionConstants DEF Sessions!SessionsInv, Sessions!FieldsInv
<1>4. ASSUME NEW s \in Sessions!Session PROVE Sessions!StoredInv(s)'
  BY <1>1, StoredFields, SessionConstants DEF Sessions!StoredInv
<1>5. Sessions!OrderInv'
  BY <1>1, PageFields DEF Sessions!OrderInv, Sessions!AwaitsMetadata
<1>6. Sessions!PageInv'
  BY <1>1, <1>2, PageFields, SessionConstants
  DEF Sessions!PageInv, Sessions!AwaitsMetadata, Sessions!None
<1>7. Sessions!OwnInv'
  BY <1>1, <1>4, <1>5, <1>6, LoadsStay DEF Sessions!OwnInv
<1>8. Sessions!OnlyGrows
  BY <1>1, StoredFields DEF Sessions!OnlyGrows
<1> QED BY <1>3, <1>7, <1>8 DEF Sessions!SessionsInv

LEMMA SessionsSteps ==
    ASSUME Sessions!SessionsInv, [Sessions!Next]_Sessions!vars
    PROVE  Sessions!SessionsInv' /\ Sessions!OnlyGrows
<1>1. CASE UNCHANGED Sessions!vars
  <2>1. UNCHANGED <<x1, x2, x3, x4, x5, x6, x7, x8, x9, x10>>
    BY <1>1 DEF Sessions!vars
  <2>2. Sessions!OrderInv' /\ Sessions!PageInv'
    BY <2>1, PageFields DEF Sessions!OrderInv, Sessions!PageInv, Sessions!AwaitsMetadata
  <2> QED BY <2>1, <2>2, StoreStays, LoadsStay
      DEF Sessions!SessionsInv, Sessions!FieldsInv, Sessions!OwnInv
<1>2. CASE Sessions!Next
  BY <1>2, SessionsAsk, SessionsAnswered, SessionsBeginLoad, SessionsSetCurrent, SessionsLoad,
     SessionsNew, SessionsDelete, SessionsBeginRename, SessionsWriteMetadata,
     SessionsReadToRename, SessionsWriteData, SessionsEndRename DEF Sessions!Next
<1> QED BY <1>1, <1>2
-----------------------------------------------------------------------------
(* A login that was given up before it had a code stores nothing, the code *)
(* that is exchanged is this login's own, and its port is free afterwards  *)
(* (loginAnthropic, loginOpenAICodex, showLoginDialog): for logins alone,  *)
(* and for the behaviours of MCServices.                                   *)
THEOREM LoginsAlwaysHold ==
    /\ Login!Spec => [](Login!EscapeEndsLogin /\ Login!OwnCode)
    /\ ServicesSpec => []LoginsHold
<1>1. Login!LoginInv /\ [Login!Next]_Login!vars => Login!LoginInv'
  <2>1. ASSUME Login!LoginInv, UNCHANGED Login!vars PROVE Login!LoginInv'
    BY <2>1 DEF Login!LoginInv, Login!OwnCode, Login!Over, Login!vars
  <2> QED BY <2>1, LoginSteps
<1>2. Login!LoginInv => Login!EscapeEndsLogin /\ Login!OwnCode
  BY DEF Login!LoginInv, Login!EscapeEndsLogin
<1>3. Login!Spec => [](Login!EscapeEndsLogin /\ Login!OwnCode)
  BY <1>1, <1>2, LoginStart, PTL DEF Login!Spec
<1> DEFINE Inv == part = "login" => Login!LoginInv
<1>4. ServicesInit => Inv
  BY LoginStart DEF ServicesInit
<1>5. Inv /\ [ServicesNext]_services => Inv'
  <2> SUFFICES ASSUME part' = "login", Inv, [ServicesNext]_services PROVE Login!LoginInv'
    OBVIOUS
  <2>1. part = "login" /\ (Login!Next \/ UNCHANGED Login!vars)
    BY DEF ServicesNext, services, xs, Login!vars
  <2> QED BY <2>1, <1>1
<1>6. Inv => LoginsHold
  BY <1>2 DEF LoginsHold
<1>7. ServicesSpec => []LoginsHold
  BY <1>4, <1>5, <1>6, PTL DEF ServicesSpec
<1> QED BY <1>3, <1>7

(* Every confirmed document is among those that a question is asked with,  *)
(* as long as one page holds the store's blobs (loadKnowledge).  However   *)
(* late the store of the page answers, what is stored under a session is   *)
(* its own conversation, with its own title, and loses nothing             *)
(* (saveSession, updateTitle, loadSession), unless the session was astray: *)
(* answered or deleted with what was read of it in hand, or in use when a  *)
(* title of another one was set.  For each alone, and for the behaviours   *)
(* of MCServices.                                                          *)
THEOREM SchoolAlwaysKeeps ==
    /\ Documents!Spec => Documents!ConfirmedIsKnown
    /\ Sessions!Spec => []Sessions!KeepsItsOwn /\ Sessions!NothingUnsaid
    /\ ServicesSpec => SchoolKeeps
<1>1. Documents!StoreInv /\ [Documents!Next]_Documents!vars => Documents!StoreInv' /\ Documents!AsksWithConfirmed
  BY DocumentsSteps
<1>2. Sessions!SessionsInv /\ [Sessions!Next]_Sessions!vars => Sessions!SessionsInv' /\ Sessions!OnlyGrows
  BY SessionsSteps
<1>3. Sessions!SessionsInv => Sessions!KeepsItsOwn
  BY DEF Sessions!SessionsInv, Sessions!OwnInv, Sessions!StoredInv, Sessions!KeepsItsOwn
<1>4. Documents!Spec => Documents!ConfirmedIsKnown
  <2>1. Documents!Spec => [][Documents!AsksWithConfirmed]_Documents!vars
    BY <1>1, DocumentsStart, PTL DEF Documents!Spec
  <2> QED BY <2>1 DEF Documents!ConfirmedIsKnown
<1>5. Sessions!Spec => []Sessions!KeepsItsOwn /\ Sessions!NothingUnsaid
  <2>1. Sessions!Spec => []Sessions!KeepsItsOwn /\ [][Sessions!OnlyGrows]_Sessions!vars
    BY <1>2, <1>3, SessionsStart, PTL DEF Sessions!Spec
  <2> QED BY <2>1 DEF Sessions!NothingUnsaid
<1> DEFINE Inv == /\ part = "documents" => Documents!StoreInv
                  /\ part = "sessions" => Sessions!SessionsInv
<1>6. ServicesInit => Inv
  BY DocumentsStart, SessionsStart DEF ServicesInit
<1>7. Inv /\ [ServicesNext]_services => Inv' /\ SchoolStep
  <2> SUFFICES ASSUME Inv, [ServicesNext]_services PROVE Inv' /\ SchoolStep
    OBVIOUS
  <2>1. part' = part
    BY DEF ServicesNext, services
  <2>2. part = "documents" => [Documents!Next]_Documents!vars
    BY DEF ServicesNext, services, xs, Documents!vars
  <2>3. part = "sessions" => [Sessions!Next]_Sessions!vars
    BY DEF ServicesNext, services, xs, Sessions!vars
  <2>4. part = "documents" => Documents!StoreInv' /\ Documents!AsksWithConfirmed
    BY <1>1, <2>2
  <2>5. part = "sessions" => Sessions!SessionsInv' /\ Sessions!OnlyGrows
    BY <1>2, <2>3
  <2>6. Sessions!SessionsInv' => Sessions!KeepsItsOwn'
    BY DEF Sessions!SessionsInv, Sessions!OwnInv, Sessions!StoredInv, Sessions!KeepsItsOwn
  <2> QED BY <2>1, <2>4, <2>5, <2>6 DEF SchoolStep
<1>8. ServicesSpec => [][SchoolStep]_services
  BY <1>6, <1>7, PTL DEF ServicesSpec
<1>9. ServicesSpec => SchoolKeeps
  BY <1>8 DEF SchoolKeeps
<1> QED BY <1>4, <1>5, <1>9
-----------------------------------------------------------------------------
(* Requests to Codex: x1 transport, x2 step, x3 uses, x4 branch, x5        *)
(* attempt, x6 aborted, x7 told, x8 sent, x9 state, x10 cached, x11 busy,  *)
(* x12 idleTimer.                                                          *)
LEMMA CodexUses ==
    ASSUME Codex!SocketsInv, NEW r \in Request, NEW s \in Codex!Socket, NEW q \in Request, Codex!Holds(r, s), Codex!Holds(q, s)
    PROVE  q = r
BY DEF Codex!SocketsInv, Codex!UseInv

LEMMA CodexWorks ==
    ASSUME Codex!TypeOK, Codex!SocketsInv, NEW r \in Request,
           x2[r] \in {"connecting", "sending", "streaming"}
    PROVE  /\ x3[r] \in Codex!Socket /\ Codex!Holds(r, x3[r]) /\ x4[r] # "none"
           /\ IF x2[r] = "connecting"
              THEN x9[x3[r]] = "connecting" /\ x4[r] # "reused"
              ELSE x9[x3[r]] = "open" /\ (x4[r] = "extra" \/ x3[r] \in x11)
           /\ x4[r] = "extra" => x3[r] \notin x11 /\ x3[r] # x10
           /\ \A q \in Request : Codex!Holds(q, x3[r]) => q = r
<1>1. x3[r] \in Codex!Socket \cup {Codex!None} /\ Codex!Holds(r, x3[r])
  BY DEF Codex!TypeOK, Codex!Holds
<1> QED BY <1>1 DEF Codex!SocketsInv, Codex!UseInv

(* A request that leaves its socket closes it, or leaves it with a timer.  *)
LEMMA CodexLeaves ==
    ASSUME Codex!TypeOK, Codex!SocketsInv, NEW r \in Request,
           x2[r] \in {"connecting", "sending", "streaming"},
           NEW to \in {"fetching", "over"}, x2' = [x2 EXCEPT ![r] = to],
           UNCHANGED <<x3, x4>>,
           NEW stays \in BOOLEAN, stays => x9[x3[r]] = "open" /\ x4[r] # "extra",
           x9' = [x9 EXCEPT ![x3[r]] = IF stays THEN "open" ELSE "closed"],
           x11' = IF stays THEN x11 \ {x3[r]} ELSE x11,
           x12' = IF stays THEN x12 \cup {x3[r]} ELSE x12 \ {x3[r]},
           x10' = x10 \/ (x10' = Codex!None /\ ~stays),
           x2[r] # "connecting" /\ ~stays /\ x4[r] # "extra" => x10' # x3[r]
    PROVE  Codex!SocketsInv'
<1> DEFINE u == x3[r]
<1>1. /\ u \in Codex!Socket /\ Codex!Holds(r, u) /\ x4[r] # "none"
      /\ IF x2[r] = "connecting"
         THEN x9[u] = "connecting" /\ x4[r] # "reused"
         ELSE x9[u] = "open" /\ (x4[r] = "extra" \/ u \in x11)
      /\ x4[r] = "extra" => u \notin x11 /\ u # x10
      /\ \A q \in Request : Codex!Holds(q, u) => q = r
  BY CodexWorks
<1>2. \A q \in Request : \A s : Codex!Holds(q, s)' <=> Codex!Holds(q, s) /\ q # r
  BY DEF Codex!TypeOK, Codex!Holds
<1>3. \A s \in Codex!Socket : x9'[s] = IF s = u THEN (IF stays THEN "open" ELSE "closed") ELSE x9[s]
  BY <1>1 DEF Codex!TypeOK
<1>4. Codex!None \notin Codex!Socket
  BY SocketsAssumption DEF Codex!None, Codex!Socket
<1> HIDE DEF u
<1>5. \A q \in Request : \A s : Codex!Holds(q, s)' => s # u
  BY <1>1, <1>2
<1>6. \A s \in Codex!Socket : s # u => Codex!UsedBy(s)' = Codex!UsedBy(s)
  <2>1. ASSUME NEW s \in Codex!Socket, s # u PROVE ~Codex!Holds(r, s)
    BY <1>1, <2>1 DEF Codex!Holds
  <2> QED BY <1>2, <2>1 DEF Codex!UsedBy
<1>7. \A s \in Codex!Socket : s = u => Codex!UsedBy(s)' = {}
  BY <1>2, <1>5 DEF Codex!UsedBy
<1>8. ASSUME NEW q \in Request, NEW s \in Codex!Socket \cup {Codex!None} PROVE Codex!UseInv(q, s)'
  <2>1. SUFFICES ASSUME Codex!Holds(q, s)' PROVE Codex!UseInv(q, s)'
    BY DEF Codex!UseInv
  <2>2. s # u /\ Codex!Holds(q, s) /\ q # r
    BY <1>2, <1>5, <2>1
  <2>3. Codex!UseInv(q, s)
    BY DEF Codex!SocketsInv
  <2>4. s \in Codex!Socket /\ x9'[s] = x9[s] /\ x2'[q] = x2[q] /\ x4'[q] = x4[q]
        /\ (s \in x11' <=> s \in x11)
    BY <1>3, <2>2, <2>3 DEF Codex!UseInv, Codex!TypeOK, u
  <2>5. \A p \in Request : Codex!Holds(p, s)' => p = q
    BY <1>2, <2>2, <2>3 DEF Codex!UseInv
  <2> QED BY <1>4, <2>2, <2>3, <2>4, <2>5 DEF Codex!UseInv
<1>9. ASSUME NEW s \in Codex!Socket PROVE Codex!SocketInv(s)'
  <2>1. Codex!SocketInv(s)
    BY DEF Codex!SocketsInv
  <2>2. CASE s # u
    <3>1. /\ Codex!UsedBy(s)' = Codex!UsedBy(s) /\ x9'[s] = x9[s]
          /\ (s \in x11' <=> s \in x11) /\ (s \in x12' <=> s \in x12)
          /\ s = x10' => s = x10
      BY <1>3, <1>4, <1>6, <2>2 DEF u
    <3> QED BY <2>1, <3>1 DEF Codex!SocketInv
  <2>3. CASE s = u
    <3>1. x9'[s] = IF stays THEN "open" ELSE "closed"
      BY <1>3, <2>3
    <3>2. /\ Codex!UsedBy(s)' = {}
          /\ stays => s \notin x11' /\ s \in x12'
          /\ ~stays => s \notin x12' /\ x11' = x11
      BY <1>7, <2>3 DEF u
    <3>3. ~stays /\ s \in x11 => s # x10'
      <4>1. CASE x4[r] = "extra"
        BY <1>1, <2>3, <4>1
      <4>2. CASE x4[r] # "extra" /\ x2[r] # "connecting"
        BY <2>3, <4>2 DEF u
      <4>3. CASE x2[r] = "connecting" /\ s \in x11
        BY <1>1, <2>1, <2>3, <4>3 DEF Codex!SocketInv
      <4> QED BY <4>1, <4>2, <4>3
    <3> QED BY <3>1, <3>2, <3>3 DEF Codex!SocketInv
  <2> QED BY <2>2, <2>3
<1> QED BY <1>8, <1>9 DEF Codex!SocketsInv

(* A socket that is asked for is there for one request only.               *)
LEMMA CodexConnects ==
    ASSUME Codex!TypeOK, Codex!SocketsInv, NEW r \in Request, x2[r] = "idle",
           NEW how \in {"extra", "fresh"}, Codex!Connect(r, how),
           x10' \in {x10, Codex!None}, x11' = x11, x12' = x12 \ {x10},
           x10 \in x12 => x9[x10] # "open"
    PROVE  Codex!SocketsInv' /\ x2'[r] = "connecting"
<1>1. PICK t \in Codex!Socket :
         /\ x9[t] = "none" /\ x2' = [x2 EXCEPT ![r] = "connecting"]
         /\ x3' = [x3 EXCEPT ![r] = t] /\ x4' = [x4 EXCEPT ![r] = how]
         /\ x9' = [x9 EXCEPT ![t] = "connecting"]
  BY DEF Codex!Connect, Codex!Go, Codex!Set
<1>2. Codex!None \notin Codex!Socket
  BY SocketsAssumption DEF Codex!None, Codex!Socket
<1>3. /\ \A q \in Request : q # r => x2'[q] = x2[q] /\ x3'[q] = x3[q] /\ x4'[q] = x4[q]
      /\ x2'[r] = "connecting" /\ x3'[r] = t /\ x4'[r] = how
      /\ \A s \in Codex!Socket : s # t => x9'[s] = x9[s]
      /\ x9'[t] = "connecting"
  BY <1>1 DEF Codex!TypeOK
<1>4. \A q \in Request : ~Codex!Holds(q, t)
  BY <1>1 DEF Codex!SocketsInv, Codex!UseInv
<1>5. t \notin x11 /\ t \notin x12 /\ t # x10
  BY <1>1 DEF Codex!SocketsInv, Codex!SocketInv
<1>6. \A q \in Request : \A s : Codex!Holds(q, s)' <=> IF q = r THEN s = t ELSE Codex!Holds(q, s)
  BY <1>3 DEF Codex!Holds
<1>7. \A s : ~Codex!Holds(r, s)
  BY DEF Codex!Holds
<1>8. \A s \in Codex!Socket : s # t => Codex!UsedBy(s)' = Codex!UsedBy(s)
  BY <1>6, <1>7 DEF Codex!UsedBy
<1>9. Codex!UsedBy(t)' # {}
  BY <1>6 DEF Codex!UsedBy
<1>10. ASSUME NEW q \in Request, NEW s \in Codex!Socket \cup {Codex!None} PROVE Codex!UseInv(q, s)'
  <2>1. SUFFICES ASSUME Codex!Holds(q, s)' PROVE Codex!UseInv(q, s)'
    BY DEF Codex!UseInv
  <2>2. CASE q = r
    <3>1. s = t /\ \A p \in Request : Codex!Holds(p, t)' => p = r
      BY <1>4, <1>6, <2>1, <2>2
    <3> QED BY <1>2, <1>3, <1>5, <2>2, <3>1 DEF Codex!UseInv
  <2>3. CASE q # r
    <3>1. Codex!Holds(q, s) /\ s # t /\ Codex!UseInv(q, s)
      BY <1>4, <1>6, <2>1, <2>3 DEF Codex!SocketsInv
    <3>2. s \in Codex!Socket /\ x9'[s] = x9[s] /\ x2'[q] = x2[q] /\ x4'[q] = x4[q]
      BY <1>3, <2>3, <3>1 DEF Codex!UseInv
    <3>3. \A p \in Request : Codex!Holds(p, s)' => p = q
      BY <1>6, <3>1 DEF Codex!UseInv
    <3> QED BY <1>2, <3>1, <3>2, <3>3 DEF Codex!UseInv
  <2> QED BY <2>2, <2>3
<1>11. ASSUME NEW s \in Codex!Socket PROVE Codex!SocketInv(s)'
  <2>1. Codex!SocketInv(s)
    BY DEF Codex!SocketsInv
  <2>2. CASE s = t
    BY <1>2, <1>3, <1>5, <1>9, <2>2 DEF Codex!SocketInv
  <2>3. CASE s # t
    <3>1. Codex!UsedBy(s)' = Codex!UsedBy(s) /\ x9'[s] = x9[s]
      BY <1>3, <1>8, <2>3
    <3>2. s = x10 => ~(s \in x12 /\ x9[s] = "open")
      OBVIOUS
    <3>3. s = x10' => s = x10
      BY <1>2
    <3> QED BY <2>1, <3>1, <3>2, <3>3 DEF Codex!SocketInv
  <2> QED BY <2>2, <2>3
<1> QED BY <1>3, <1>10, <1>11 DEF Codex!SocketsInv

LEMMA CodexReuses ==
    ASSUME Codex!TypeOK, Codex!SocketsInv, NEW r \in Request, x2[r] = "idle",
           x10 # Codex!None, x10 \notin x11, x9[x10] = "open",
           x2' = [x2 EXCEPT ![r] = "sending"], x3' = [x3 EXCEPT ![r] = x10],
           x4' = [x4 EXCEPT ![r] = "reused"], x11' = x11 \cup {x10},
           x12' = x12 \ {x10}, UNCHANGED <<x9, x10>>
    PROVE  Codex!SocketsInv'
<1>1. x10 \in Codex!Socket /\ Codex!None \notin Codex!Socket
  BY DEF Codex!TypeOK, Codex!None, Codex!Socket
<1>2. /\ \A q \in Request : q # r => x2'[q] = x2[q] /\ x3'[q] = x3[q] /\ x4'[q] = x4[q]
      /\ x2'[r] = "sending" /\ x3'[r] = x10 /\ x4'[r] = "reused"
  BY DEF Codex!TypeOK
<1>3. ASSUME NEW q \in Request PROVE ~Codex!Holds(q, x10)
  <2>1. Codex!UseInv(q, x10)
    BY <1>1 DEF Codex!SocketsInv
  <2> QED BY <2>1 DEF Codex!UseInv, Codex!Holds
<1>4. \A q \in Request : \A s : Codex!Holds(q, s)' <=> IF q = r THEN s = x10 ELSE Codex!Holds(q, s)
  BY <1>2 DEF Codex!Holds
<1>5. \A s : ~Codex!Holds(r, s)
  BY DEF Codex!Holds
<1>6. \A s \in Codex!Socket : s # x10 => Codex!UsedBy(s)' = Codex!UsedBy(s)
  BY <1>4, <1>5 DEF Codex!UsedBy
<1>7. Codex!UsedBy(x10)' # {}
  BY <1>4 DEF Codex!UsedBy
<1>8. ASSUME NEW q \in Request, NEW s \in Codex!Socket \cup {Codex!None} PROVE Codex!UseInv(q, s)'
  <2>1. SUFFICES ASSUME Codex!Holds(q, s)' PROVE Codex!UseInv(q, s)'
    BY DEF Codex!UseInv
  <2>2. CASE q = r
    <3>1. s = x10 /\ \A p \in Request : Codex!Holds(p, s)' => p = r
      BY <1>3, <1>4, <2>1, <2>2
    <3> QED BY <1>1, <1>2, <2>2, <3>1 DEF Codex!UseInv
  <2>3. CASE q # r
    <3>1. Codex!Holds(q, s) /\ s # x10 /\ Codex!UseInv(q, s)
      BY <1>3, <1>4, <2>1, <2>3 DEF Codex!SocketsInv
    <3>2. x2'[q] = x2[q] /\ x4'[q] = x4[q]
      BY <1>2, <2>3
    <3>3. \A p \in Request : Codex!Holds(p, s)' => p = q
      BY <1>4, <3>1 DEF Codex!UseInv
    <3> QED BY <3>1, <3>2, <3>3 DEF Codex!UseInv
  <2> QED BY <2>2, <2>3
<1>9. ASSUME NEW s \in Codex!Socket PROVE Codex!SocketInv(s)'
  <2>1. Codex!SocketInv(s)
    BY DEF Codex!SocketsInv
  <2>2. CASE s = x10
    <3>1. Codex!UsedBy(s)' # {} /\ s \notin x12' /\ x9'[s] = "open"
      BY <1>7, <2>2
    <3> QED BY <3>1 DEF Codex!SocketInv
  <2>3. CASE s # x10
    BY <1>6, <2>1, <2>3 DEF Codex!SocketInv
  <2> QED BY <2>2, <2>3
<1> QED BY <1>8, <1>9 DEF Codex!SocketsInv

LEMMA CodexOpens == ASSUME Codex!TypeOK, Codex!SocketsInv, NEW r \in Request, Codex!Open(r) PROVE Codex!SocketsInv'
<1> DEFINE u == x3[r]
<1>1. /\ u \in Codex!Socket /\ Codex!Holds(r, u) /\ x4[r] # "none" /\ x2[r] = "connecting"
      /\ x9[u] = "connecting" /\ x4[r] # "reused"
      /\ x4[r] = "extra" => u \notin x11 /\ u # x10
      /\ \A q \in Request : Codex!Holds(q, u) => q = r
  BY CodexWorks DEF Codex!Open
<1>2. /\ x2' = [x2 EXCEPT ![r] = "sending"] /\ x9' = [x9 EXCEPT ![u] = "open"]
      /\ UNCHANGED <<x3, x4, x12>>
      /\ IF x4[r] = "fresh" THEN x10' = u /\ x11' = x11 \cup {u}
         ELSE UNCHANGED <<x10, x11>>
  BY DEF Codex!Open, Codex!Go, Codex!Set
<1>3. x4[r] \in {"extra", "fresh"} /\ Codex!None \notin Codex!Socket
  BY <1>1 DEF Codex!TypeOK, Codex!None, Codex!Socket
<1>4. \A s \in Codex!Socket : x9'[s] = IF s = u THEN "open" ELSE x9[s]
  BY <1>1, <1>2 DEF Codex!TypeOK
<1>5. /\ \A q \in Request : q # r => x2'[q] = x2[q]
      /\ x2'[r] = "sending" /\ x3' = x3 /\ x4' = x4
  BY <1>2 DEF Codex!TypeOK
<1>6. u \notin x11 /\ u \notin x12 /\ u # x10
  BY <1>1 DEF Codex!SocketsInv, Codex!SocketInv
<1> HIDE DEF u
<1>7. \A q \in Request : \A s : Codex!Holds(q, s)' <=> Codex!Holds(q, s)
  BY <1>1, <1>5 DEF Codex!Holds
<1>8. \A s \in Codex!Socket : Codex!UsedBy(s)' = Codex!UsedBy(s)
  BY <1>7 DEF Codex!UsedBy
<1>9. r \in Codex!UsedBy(u)
  BY <1>1 DEF Codex!UsedBy
<1>10. ASSUME NEW q \in Request, NEW s \in Codex!Socket \cup {Codex!None} PROVE Codex!UseInv(q, s)'
  <2>1. SUFFICES ASSUME Codex!Holds(q, s)' PROVE Codex!UseInv(q, s)'
    BY DEF Codex!UseInv
  <2>2. Codex!Holds(q, s) /\ Codex!UseInv(q, s) /\ \A p \in Request : Codex!Holds(p, s)' => p = q
    BY <1>7, <2>1 DEF Codex!SocketsInv, Codex!UseInv
  <2>3. CASE q = r
    <3>1. s = u
      BY <2>2, <2>3 DEF Codex!Holds, u
    <3> QED BY <1>1, <1>2, <1>3, <1>4, <1>5, <1>6, <2>2, <2>3, <3>1 DEF Codex!UseInv
  <2>4. CASE q # r
    <3>1. s # u
      BY <1>1, <2>2, <2>4
    <3>2. s \in Codex!Socket /\ x9'[s] = x9[s] /\ x2'[q] = x2[q] /\ x4'[q] = x4[q]
          /\ (s \in x11' <=> s \in x11) /\ (s = x10' => s = x10)
      BY <1>2, <1>3, <1>4, <1>5, <2>2, <2>4, <3>1 DEF Codex!UseInv
    <3> QED BY <2>2, <3>2 DEF Codex!UseInv
  <2> QED BY <2>3, <2>4
<1>11. ASSUME NEW s \in Codex!Socket PROVE Codex!SocketInv(s)'
  <2>1. Codex!SocketInv(s) /\ Codex!UsedBy(s)' = Codex!UsedBy(s)
    BY <1>8 DEF Codex!SocketsInv
  <2>2. CASE s = u
    <3>1. Codex!UsedBy(s)' # {} /\ s \notin x12' /\ x9'[s] = "open"
      BY <1>2, <1>4, <1>6, <1>8, <1>9, <2>2
    <3> QED BY <3>1 DEF Codex!SocketInv
  <2>3. CASE s # u
    BY <1>2, <1>3, <1>4, <2>1, <2>3 DEF Codex!SocketInv
  <2> QED BY <2>2, <2>3
<1> QED BY <1>10, <1>11 DEF Codex!SocketsInv

(* A socket that closes, by the server or by its timer, is used by nobody. *)
LEMMA CodexCloses ==
    ASSUME Codex!TypeOK, Codex!SocketsInv, NEW s \in Codex!Socket, Codex!UsedBy(s) = {},
           x9[s] \in {"open", "closed"}, x9' = [x9 EXCEPT ![s] = "closed"],
           UNCHANGED <<x2, x3, x4, x11>>,
           x10' \in {x10, Codex!None}, x12' \in {x12, x12 \ {s}}
    PROVE  Codex!SocketsInv'
<1>1. \A t \in Codex!Socket : x9'[t] = IF t = s THEN "closed" ELSE x9[t]
  BY DEF Codex!TypeOK
<1>2. Codex!None \notin Codex!Socket
  BY SocketsAssumption DEF Codex!None, Codex!Socket
<1>3. \A q \in Request : \A t : Codex!Holds(q, t)' <=> Codex!Holds(q, t)
  BY DEF Codex!Holds
<1>4. \A t : Codex!UsedBy(t)' = Codex!UsedBy(t)
  BY <1>3 DEF Codex!UsedBy
<1>5. ASSUME NEW q \in Request, NEW t \in Codex!Socket \cup {Codex!None} PROVE Codex!UseInv(q, t)'
  <2>1. SUFFICES ASSUME Codex!Holds(q, t)' PROVE Codex!UseInv(q, t)'
    BY DEF Codex!UseInv
  <2>2. Codex!Holds(q, t) /\ Codex!UseInv(q, t) /\ t # s /\ \A p \in Request : Codex!Holds(p, t)' => p = q
    BY <1>3, <2>1 DEF Codex!SocketsInv, Codex!UseInv, Codex!UsedBy
  <2> QED BY <1>1, <1>2, <2>2 DEF Codex!UseInv
<1>6. ASSUME NEW t \in Codex!Socket PROVE Codex!SocketInv(t)'
  <2>1. Codex!SocketInv(t) /\ Codex!UsedBy(t)' = Codex!UsedBy(t)
    BY <1>4 DEF Codex!SocketsInv
  <2> QED BY <1>1, <1>2, <2>1 DEF Codex!SocketInv
<1> QED BY <1>5, <1>6 DEF Codex!SocketsInv

(* A step that changes no socket and no request that has one.              *)
LEMMA CodexElsewhere ==
    ASSUME Codex!TypeOK, Codex!SocketsInv, NEW r \in Request,
           NEW to \in {"streaming", "fetching", "sleeping", "reading", "over"},
           to = "streaming" => x2[r] = "sending",
           to # "streaming" => x2[r] \notin {"connecting", "sending", "streaming"},
           x2' = [x2 EXCEPT ![r] = to], UNCHANGED <<x3, x4, Codex!sockets>>
    PROVE  Codex!SocketsInv'
<1>1. \A q \in Request : q # r => x2'[q] = x2[q]
  BY DEF Codex!TypeOK
<1>2. x2'[r] = to /\ UNCHANGED <<x9, x10, x11, x12>>
  BY DEF Codex!TypeOK, Codex!sockets
<1>3. \A q \in Request : \A t : Codex!Holds(q, t)' <=> Codex!Holds(q, t)
  BY <1>1, <1>2 DEF Codex!Holds
<1>4. \A t : Codex!UsedBy(t)' = Codex!UsedBy(t)
  BY <1>3 DEF Codex!UsedBy
<1>5. \A q \in Request : Codex!Holds(q, x3[q]) => (x2'[q] = "connecting" <=> x2[q] = "connecting")
  BY <1>1, <1>2 DEF Codex!Holds
<1>6. ASSUME NEW q \in Request, NEW t \in Codex!Socket \cup {Codex!None} PROVE Codex!UseInv(q, t)'
  <2>1. SUFFICES ASSUME Codex!Holds(q, t)' PROVE Codex!UseInv(q, t)'
    BY DEF Codex!UseInv
  <2>2. Codex!Holds(q, t) /\ Codex!UseInv(q, t) /\ (x2'[q] = "connecting" <=> x2[q] = "connecting")
        /\ \A p \in Request : Codex!Holds(p, t)' => p = q
    BY <1>3, <1>5, <2>1 DEF Codex!SocketsInv, Codex!UseInv, Codex!Holds
  <2> QED BY <1>2, <2>2 DEF Codex!UseInv
<1>7. ASSUME NEW t \in Codex!Socket PROVE Codex!SocketInv(t)'
  BY <1>2, <1>4 DEF Codex!SocketsInv, Codex!SocketInv
<1> QED BY <1>6, <1>7 DEF Codex!SocketsInv

LEMMA CodexReleases ==
    ASSUME Codex!TypeOK, Codex!SocketsInv, NEW r \in Request, x2[r] \in {"sending", "streaming"},
           NEW keep \in BOOLEAN, Codex!Release(r, keep),
           NEW to \in {"fetching", "over"}, x2' = [x2 EXCEPT ![r] = to],
           UNCHANGED <<x3, x4>>
    PROVE  Codex!SocketsInv'
<1> DEFINE stays == keep /\ x9[x3[r]] = "open" /\ x4[r] # "extra"
           dropped == ~stays /\ x4[r] # "extra" /\ (x4[r] = "fresh" => x10 = x3[r])
<1>1. /\ x9' = [x9 EXCEPT ![x3[r]] = IF stays THEN "open" ELSE "closed"]
      /\ x11' = IF stays THEN x11 \ {x3[r]} ELSE x11
      /\ x12' = IF stays THEN x12 \cup {x3[r]} ELSE x12 \ {x3[r]}
      /\ x10' = IF dropped THEN Codex!None ELSE x10
  BY DEF Codex!Release, Codex!Set
<1>2. x3[r] \in Codex!Socket /\ Codex!None \notin Codex!Socket
  BY SocketsAssumption, CodexWorks DEF Codex!None, Codex!Socket
<1>3. ~stays /\ x4[r] # "extra" => x10' # x3[r]
  BY <1>1, <1>2
<1>4. x10' = x10 \/ (x10' = Codex!None /\ ~stays)
  BY <1>1
<1>5. stays \in BOOLEAN /\ (stays => x9[x3[r]] = "open" /\ x4[r] # "extra")
  OBVIOUS
<1> HIDE DEF stays, dropped
<1> QED BY <1>1, <1>3, <1>4, <1>5, CodexLeaves

LEMMA CodexGivesUp ==
    ASSUME Codex!TypeOK, Codex!SocketsInv, NEW r \in Request, x2[r] = "connecting",
           Codex!Set(x3[r], "closed"), NEW to \in {"fetching", "over"},
           x2' = [x2 EXCEPT ![r] = to], UNCHANGED <<x3, x4, x10, x11, x12>>
    PROVE  Codex!SocketsInv'
<1>1. /\ x3[r] \in Codex!Socket /\ x9[x3[r]] = "connecting"
      /\ x4[r] # "reused"
  BY CodexWorks
<1>2. x3[r] \notin x12
  BY <1>1 DEF Codex!SocketsInv, Codex!SocketInv
<1>3. x12' = x12 \ {x3[r]}
  BY <1>2
<1>4. PICK stays \in BOOLEAN : ~stays
  OBVIOUS
<1>5. /\ x9' = [x9 EXCEPT ![x3[r]] = IF stays THEN "open" ELSE "closed"]
      /\ x11' = IF stays THEN x11 \ {x3[r]} ELSE x11
      /\ x12' = IF stays THEN x12 \cup {x3[r]} ELSE x12 \ {x3[r]}
  BY <1>3, <1>4 DEF Codex!Set
<1> QED BY <1>4, <1>5, CodexLeaves
-----------------------------------------------------------------------------
(* What a request is told, and how often it is answered.                   *)
LEMMA CodexTells ==
    ASSUME Codex!TypeOK, \A q \in Request : Codex!AnswerInv(q), NEW r \in Request,
           NEW to \in {"connecting", "sending", "streaming", "fetching", "sleeping", "reading", "over"},
           x2' = [x2 EXCEPT ![r] = to],
           \A q \in Request : q # r => x7'[q] = x7[q] /\ x8'[q] = x8[q] /\ x5'[q] = x5[q],
           Codex!AnswerInv(r)'
    PROVE  \A q \in Request : Codex!AnswerInv(q)'
<1>1. ASSUME NEW q \in Request, q # r PROVE Codex!AnswerInv(q)'
  <2>1. x2'[q] = x2[q] /\ Codex!AnswerInv(q)
    BY <1>1 DEF Codex!TypeOK
  <2> QED BY <1>1, <2>1 DEF Codex!AnswerInv, Codex!Over
<1> QED BY <1>1

CodexEvent == {"start", "done", "error", "aborted"}

LEMMA CodexFinishes ==
    ASSUME Codex!TypeOK, \A q \in Request : Codex!AnswerInv(q), NEW r \in Request, x2[r] # "over",
           NEW event \in {"done", "error", "aborted"}, Codex!Finish(r, event),
           event = "done" => x2[r] \in {"streaming", "reading"},
           UNCHANGED <<x5, x8>>
    PROVE  /\ x7' \in [Request -> Seq(CodexEvent)] /\ x2' = [x2 EXCEPT ![r] = "over"]
           /\ \A q \in Request : Codex!AnswerInv(q)'
<1>1. x2' = [x2 EXCEPT ![r] = "over"] /\ x7' = [x7 EXCEPT ![r] = x7[r] \o <<event>>]
  BY DEF Codex!Finish, Codex!Go, Codex!Tell
<1>2. x7 \in [Request -> Seq(CodexEvent)] /\ <<event>> \in Seq(CodexEvent) /\ x8 \in [Request -> Nat]
      /\ x2 \in [Request -> {"idle", "connecting", "sending", "streaming",
                               "fetching", "sleeping", "reading", "over"}]
  BY DEF Codex!TypeOK, CodexEvent
<1>3. x7[r] \o <<event>> \in Seq(CodexEvent)
  BY <1>2
<1>4. x7' \in [Request -> Seq(CodexEvent)]
  BY <1>1, <1>2, <1>3
<1>5. x7'[r] = x7[r] \o <<event>> /\ x2'[r] = "over" /\ x8'[r] = x8[r]
      /\ \A q \in Request : q # r => x7'[q] = x7[q]
  BY <1>1, <1>2
<1>6. x8[r] <= 1
  BY <1>2 DEF Codex!AnswerInv
<1>7. x7'[r] \in Codex!Over
  <2>1. CASE x2[r] \in {"streaming", "reading"}
    <3>1. x7[r] = <<"start">>
      BY <2>1 DEF Codex!AnswerInv
    <3>2. <<"start">> \o <<event>> = <<"start", event>>
      <4>1. <<"start">> \in Seq(CodexEvent) /\ <<event>> \in Seq(CodexEvent) /\ <<"start", event>> \in Seq(CodexEvent)
        BY DEF CodexEvent
      <4>2. <<"start">> \o <<event>> \in Seq(CodexEvent) /\ Len(<<"start">> \o <<event>>) = 2
            /\ (<<"start">> \o <<event>>)[1] = "start" /\ (<<"start">> \o <<event>>)[2] = event
        BY <4>1
      <4>3. \A i \in 1..2 : (<<"start">> \o <<event>>)[i] = <<"start", event>>[i]
        BY <4>2
      <4> QED BY <4>1, <4>2, <4>3, SeqEqual
    <3>3. x7'[r] = <<"start", event>>
      BY <1>5, <3>1, <3>2
    <3> QED BY <3>3 DEF Codex!Over
  <2>2. CASE x2[r] \notin {"streaming", "reading"}
    <3>1. x7[r] = << >>
      BY <2>2 DEF Codex!AnswerInv
    <3>2. x7'[r] = <<event>>
      BY <1>5, <3>1
    <3> QED BY <2>2, <3>2 DEF Codex!Over
  <2> QED BY <2>1, <2>2
<1>8. Codex!AnswerInv(r)'
  <2>1. \A e : Codex!Over' = Codex!Over
    BY DEF Codex!Over
  <2> QED BY <1>5, <1>6, <1>7, <2>1 DEF Codex!AnswerInv
<1> QED BY <1>1, <1>4, <1>5, <1>8, CodexTells

LEMMA CodexThrows ==
    ASSUME Codex!TypeOK, \A q \in Request : Codex!AnswerInv(q), NEW r \in Request, x2[r] # "over",
           Codex!Throw(r), UNCHANGED <<x5, x8>>
    PROVE  /\ x7' \in [Request -> Seq(CodexEvent)] /\ x2' = [x2 EXCEPT ![r] = "over"]
           /\ \A q \in Request : Codex!AnswerInv(q)'
<1> DEFINE event == IF r \in x6' THEN "aborted" ELSE "error"
<1>1. event \in {"done", "error", "aborted"} /\ event # "done" /\ Codex!Finish(r, event)
  BY DEF Codex!Throw
<1> HIDE DEF event
<1> QED BY <1>1, CodexFinishes

(* A step of one that is told nothing.                                     *)
LEMMA CodexSilent ==
    ASSUME Codex!TypeOK, \A q \in Request : Codex!AnswerInv(q), NEW r \in Request,
           x2[r] \notin {"streaming", "reading", "over"},
           NEW to \in {"connecting", "sending", "fetching", "sleeping"}, x2' = [x2 EXCEPT ![r] = to],
           to = "sleeping" => x5'[r] < MaxResends,
           \A q \in Request : q # r => x5'[q] = x5[q],
           UNCHANGED <<x7, x8>>
    PROVE  /\ x7' \in [Request -> Seq(CodexEvent)]
           /\ \A q \in Request : Codex!AnswerInv(q)'
<1>1. x2'[r] = to /\ x8[r] = 0 /\ x7[r] = << >>
  BY DEF Codex!TypeOK, Codex!AnswerInv
<1>2. Codex!AnswerInv(r)'
  BY <1>1 DEF Codex!AnswerInv
<1> QED BY <1>2, CodexTells DEF Codex!TypeOK, CodexEvent

LEMMA CodexBegins ==
    ASSUME Codex!TypeOK, \A q \in Request : Codex!AnswerInv(q), NEW r \in Request,
           x2[r] \notin {"streaming", "reading", "over"},
           NEW to \in {"streaming", "reading"}, x2' = [x2 EXCEPT ![r] = to],
           Codex!Tell(r, <<"start">>), x8' = [x8 EXCEPT ![r] = @ + 1], UNCHANGED x5
    PROVE  /\ x7' \in [Request -> Seq(CodexEvent)] /\ x8' \in [Request -> Nat]
           /\ \A q \in Request : Codex!AnswerInv(q)'
<1>1. x7 \in [Request -> Seq(CodexEvent)] /\ x8 \in [Request -> Nat]
      /\ x2 \in [Request -> {"idle", "connecting", "sending", "streaming",
                               "fetching", "sleeping", "reading", "over"}]
  BY DEF Codex!TypeOK, CodexEvent
<1>2. x7[r] = << >> /\ x8[r] = 0
  BY DEF Codex!AnswerInv
<1>3. x7' = [x7 EXCEPT ![r] = x7[r] \o <<"start">>] /\ x7[r] \o <<"start">> = <<"start">>
  BY <1>2 DEF Codex!Tell
<1>4. <<"start">> \in Seq(CodexEvent)
  BY DEF CodexEvent
<1>5. x7' \in [Request -> Seq(CodexEvent)] /\ x7'[r] = <<"start">> /\ x8'[r] = 1 /\ x2'[r] = to
      /\ \A q \in Request : q # r => x7'[q] = x7[q] /\ x8'[q] = x8[q]
  BY <1>1, <1>2, <1>3, <1>4
<1>6. x8' \in [Request -> Nat]
  BY <1>1
<1>7. Codex!AnswerInv(r)'
  BY <1>5 DEF Codex!AnswerInv
<1> QED BY <1>5, <1>6, <1>7, CodexTells
-----------------------------------------------------------------------------
LEMMA CodexFallsBack ==
    ASSUME Codex!TypeOK, \A q \in Request : Codex!AnswerInv(q), NEW r \in Request,
           x2[r] \in {"connecting", "sending"}, Codex!FallBack(r), UNCHANGED <<x5, x8>>
    PROVE  /\ x7' \in [Request -> Seq(CodexEvent)]
           /\ \E to \in {"fetching", "over"} : x2' = [x2 EXCEPT ![r] = to]
           /\ \A q \in Request : Codex!AnswerInv(q)'
<1>1. CASE Codex!Throw(r)
  BY <1>1, CodexThrows
<1>2. CASE Codex!Go(r, "fetching") /\ UNCHANGED x7
  <2>1. x2' = [x2 EXCEPT ![r] = "fetching"]
    BY <1>2 DEF Codex!Go
  <2> QED BY <1>2, <2>1, CodexSilent
<1> QED BY <1>1, <1>2 DEF Codex!FallBack

(* The types of what no lemma above speaks of.                             *)
LEMMA CodexTypes ==
    ASSUME Codex!TypeOK, x7' \in [Request -> Seq(CodexEvent)], x8' \in [Request -> Nat],
           NEW r \in Request,
           NEW to \in {"connecting", "sending", "streaming", "fetching", "sleeping", "reading", "over"},
           x2' = [x2 EXCEPT ![r] = to],
           x1' = x1, x6' \in {x6, x6 \cup {r}},
           x5' \in [Request -> 0..MaxResends],
           x3' = x3 \/ (\E s \in Codex!Socket : x3' = [x3 EXCEPT ![r] = s]),
           x4' = x4 \/ (\E how \in {"reused", "extra", "fresh"} : x4' = [x4 EXCEPT ![r] = how]),
           x9' = x9 \/ (\E s \in Codex!Socket, at \in {"connecting", "open", "closed"} :
                                 x9' = [x9 EXCEPT ![s] = at]),
           x10' = x10 \/ x10' \in Codex!Socket \cup {Codex!None},
           x11' \subseteq x11 \cup Codex!Socket, x12' \subseteq x12 \cup Codex!Socket
    PROVE  Codex!TypeOK'
<1>1. x3' \in [Request -> Codex!Socket \cup {Codex!None}]
  BY DEF Codex!TypeOK
<1>3. x4' \in [Request -> {"none", "reused", "extra", "fresh"}]
  BY DEF Codex!TypeOK
<1>4. x9' \in [Codex!Socket -> {"none", "connecting", "open", "closed"}]
  BY DEF Codex!TypeOK
<1>5. x2' \in [Request -> {"idle", "connecting", "sending", "streaming",
                             "fetching", "sleeping", "reading", "over"}]
  BY DEF Codex!TypeOK
<1>2. x10' \in Codex!Socket \cup {Codex!None} /\ x11' \cup x12' \subseteq Codex!Socket /\ x6' \subseteq Request
  BY DEF Codex!TypeOK
<1> QED BY <1>1, <1>2, <1>3, <1>4, <1>5 DEF Codex!TypeOK, CodexEvent

LEMMA CodexAcquire ==
    ASSUME Codex!CodexInv, NEW r \in Request, x2[r] = "idle", Codex!Acquire(r),
           UNCHANGED <<x1, x5, x6, x7, x8>>
    PROVE  Codex!CodexInv'
<1>1. Codex!TypeOK /\ Codex!SocketsInv /\ \A q \in Request : Codex!AnswerInv(q)
  BY DEF Codex!CodexInv
<1>2. x7' \in [Request -> Seq(CodexEvent)] /\ x8' \in [Request -> Nat]
      /\ x5' \in [Request -> 0..MaxResends] /\ x12' = x12 \ {x10}
  BY <1>1 DEF Codex!TypeOK, CodexEvent, Codex!Acquire
<1>3. x10 \in Codex!Socket \cup {Codex!None} /\ x11 \subseteq Codex!Socket /\ x12 \subseteq Codex!Socket /\ Codex!None \notin Codex!Socket
  BY <1>1 DEF Codex!TypeOK, Codex!None, Codex!Socket
<1>4. CASE x10 # Codex!None /\ x10 \notin x11 /\ x9[x10] = "open"
  <2>1. /\ x2' = [x2 EXCEPT ![r] = "sending"] /\ x11' = x11 \cup {x10}
        /\ x3' = [x3 EXCEPT ![r] = x10] /\ x4' = [x4 EXCEPT ![r] = "reused"]
        /\ UNCHANGED <<x9, x10>>
    BY <1>4 DEF Codex!Acquire, Codex!Go
  <2>2. Codex!SocketsInv'
    BY <1>1, <1>2, <1>4, <2>1, CodexReuses
  <2>3. Codex!TypeOK'
    BY <1>1, <1>2, <1>3, <1>4, <2>1, CodexTypes
  <2>4. \A q \in Request : Codex!AnswerInv(q)'
    BY <1>1, <2>1, CodexSilent
  <2> QED BY <2>2, <2>3, <2>4 DEF Codex!CodexInv
<1>5. ASSUME NEW how \in {"extra", "fresh"}, Codex!Connect(r, how), x10' \in {x10, Codex!None},
             x11' = x11, x10 \in x12 => x9[x10] # "open"
      PROVE  Codex!CodexInv'
  <2>1. Codex!SocketsInv'
    BY <1>1, <1>2, <1>5, CodexConnects
  <2>2. PICK s \in Codex!Socket :
          /\ x2' = [x2 EXCEPT ![r] = "connecting"]
          /\ x3' = [x3 EXCEPT ![r] = s] /\ x4' = [x4 EXCEPT ![r] = how]
          /\ x9' = [x9 EXCEPT ![s] = "connecting"]
    BY <1>5 DEF Codex!Connect, Codex!Go, Codex!Set
  <2>3. Codex!TypeOK'
    BY <1>1, <1>2, <1>3, <1>5, <2>2, CodexTypes
  <2>4. \A q \in Request : Codex!AnswerInv(q)'
    BY <1>1, <2>2, CodexSilent
  <2> QED BY <2>1, <2>3, <2>4 DEF Codex!CodexInv
<1>6. CASE ~(x10 # Codex!None /\ x10 \notin x11 /\ x9[x10] = "open") /\ x10 \in x11
  <2>1. Codex!Connect(r, "extra") /\ UNCHANGED <<x11, x10>>
    BY <1>6 DEF Codex!Acquire
  <2>2. x10 \in x12 => x9[x10] # "open"
    BY <1>1, <1>3, <1>6 DEF Codex!SocketsInv, Codex!SocketInv
  <2> QED BY <1>5, <2>1, <2>2
<1>7. CASE ~(x10 # Codex!None /\ x10 \notin x11 /\ x9[x10] = "open") /\ x10 \notin x11
  <2>1. Codex!Connect(r, "fresh") /\ x10' = Codex!None /\ UNCHANGED x11
    BY <1>7 DEF Codex!Acquire
  <2> QED BY <1>3, <1>5, <1>7, <2>1
<1> QED BY <1>4, <1>6, <1>7

LEMMA CodexBegin == ASSUME Codex!CodexInv, NEW r \in Request, Codex!Begin(r) PROVE Codex!CodexInv'
<1>1. Codex!TypeOK /\ Codex!SocketsInv /\ \A q \in Request : Codex!AnswerInv(q)
  BY DEF Codex!CodexInv
<1>2. CASE x1[r] = "sse"
  <2>1. /\ x2[r] = "idle" /\ x2' = [x2 EXCEPT ![r] = "fetching"]
        /\ UNCHANGED <<x3, x4, Codex!sockets, x1, x5, x6, x7, x8>>
        /\ UNCHANGED <<x9, x10, x11, x12>>
    BY <1>2 DEF Codex!Begin, Codex!Go, Codex!sockets
  <2>2. Codex!SocketsInv'
    BY <1>1, <2>1, CodexElsewhere
  <2>3. \A q \in Request : Codex!AnswerInv(q)'
    BY <1>1, <2>1, CodexSilent
  <2>4. Codex!TypeOK'
    BY <1>1, <2>1 DEF Codex!TypeOK
  <2> QED BY <2>2, <2>3, <2>4 DEF Codex!CodexInv
<1>3. CASE x1[r] # "sse"
  BY <1>3, CodexAcquire DEF Codex!Begin
<1> QED BY <1>2, <1>3

LEMMA CodexOpen == ASSUME Codex!CodexInv, NEW r \in Request, Codex!Open(r) PROVE Codex!CodexInv'
<1>1. Codex!TypeOK /\ Codex!SocketsInv /\ \A q \in Request : Codex!AnswerInv(q)
  BY DEF Codex!CodexInv
<1>2. x3[r] \in Codex!Socket
  BY <1>1, CodexWorks DEF Codex!Open
<1>3. /\ x2[r] = "connecting" /\ x2' = [x2 EXCEPT ![r] = "sending"]
      /\ x9' = [x9 EXCEPT ![x3[r]] = "open"]
      /\ x10' \in {x10, x3[r]} /\ x11' \subseteq x11 \cup {x3[r]}
      /\ UNCHANGED <<x1, x3, x4, x5, x6, x7, x8, x12>>
  BY DEF Codex!Open, Codex!Go, Codex!Set
<1>4. Codex!SocketsInv'
  BY <1>1, CodexOpens
<1>5. \A q \in Request : Codex!AnswerInv(q)'
  BY <1>1, <1>3, CodexSilent
<1>6. x7' \in [Request -> Seq(CodexEvent)] /\ x8' \in [Request -> Nat]
      /\ x5' \in [Request -> 0..MaxResends] /\ x10 \in Codex!Socket \cup {Codex!None}
  BY <1>1, <1>3 DEF Codex!TypeOK, CodexEvent
<1>7. Codex!TypeOK'
  BY <1>1, <1>2, <1>3, <1>6, CodexTypes
<1> QED BY <1>4, <1>5, <1>7 DEF Codex!CodexInv

(* A request that gives its socket up, for another way or for good.        *)
LEMMA CodexGives ==
    ASSUME Codex!CodexInv, NEW r \in Request,
           x2[r] \in {"connecting", "sending", "streaming"},
           (x2[r] = "connecting" /\ Codex!Set(x3[r], "closed") /\ UNCHANGED <<x10, x11, x12>>)
           \/ (x2[r] # "connecting" /\ \E keep \in BOOLEAN : Codex!Release(r, keep)),
           NEW to \in {"fetching", "over"}, x2' = [x2 EXCEPT ![r] = to],
           x7' \in [Request -> Seq(CodexEvent)], \A q \in Request : Codex!AnswerInv(q)',
           x6' \in {x6, x6 \cup {r}},
           UNCHANGED <<x1, x3, x4, x5, x8>>
    PROVE  Codex!CodexInv'
<1>1. Codex!TypeOK /\ Codex!SocketsInv
  BY DEF Codex!CodexInv
<1>2. x3[r] \in Codex!Socket
  BY <1>1, CodexWorks
<1>3. CASE x2[r] = "connecting"
  <2>1. Codex!SocketsInv'
    BY <1>1, <1>3, CodexGivesUp
  <2>2. x8' \in [Request -> Nat] /\ x5' \in [Request -> 0..MaxResends]
        /\ x9' = [x9 EXCEPT ![x3[r]] = "closed"] /\ UNCHANGED <<x10, x11, x12>>
    BY <1>1, <1>3 DEF Codex!TypeOK, Codex!Set
  <2>3. Codex!TypeOK'
    BY <1>1, <1>2, <2>2, CodexTypes
  <2> QED BY <2>1, <2>3 DEF Codex!CodexInv
<1>4. CASE x2[r] # "connecting"
  <2>1. PICK keep \in BOOLEAN : Codex!Release(r, keep)
    BY <1>4
  <2>2. Codex!SocketsInv'
    BY <1>1, <1>4, <2>1, CodexReleases
  <2>3. x8' \in [Request -> Nat] /\ x5' \in [Request -> 0..MaxResends]
        /\ (\E at \in {"open", "closed"} : x9' = [x9 EXCEPT ![x3[r]] = at])
        /\ x10' \in {x10, Codex!None} /\ x11' \subseteq x11 /\ x12' \subseteq x12 \cup {x3[r]}
    BY <1>1, <2>1 DEF Codex!TypeOK, Codex!Release, Codex!Set
  <2>4. x10' = x10 \/ x10' \in Codex!Socket \cup {Codex!None}
    BY <2>3
  <2>5. \E s \in Codex!Socket, at \in {"connecting", "open", "closed"} : x9' = [x9 EXCEPT ![s] = at]
    BY <1>2, <2>3
  <2>6. x11' \subseteq x11 \cup Codex!Socket /\ x12' \subseteq x12 \cup Codex!Socket
    BY <1>2, <2>3
  <2>7. Codex!TypeOK'
    BY <1>1, <2>3, <2>4, <2>5, <2>6, CodexTypes
  <2> QED BY <2>2, <2>7 DEF Codex!CodexInv
<1> QED BY <1>3, <1>4

LEMMA CodexConnectFails == ASSUME Codex!CodexInv, NEW r \in Request, Codex!ConnectFails(r) PROVE Codex!CodexInv'
<1>1. Codex!TypeOK /\ (\A q \in Request : Codex!AnswerInv(q)) /\ x2[r] = "connecting" /\ Codex!FallBack(r)
      /\ UNCHANGED <<x5, x8>>
  BY DEF Codex!CodexInv, Codex!ConnectFails
<1>2. /\ x7' \in [Request -> Seq(CodexEvent)] /\ \A q \in Request : Codex!AnswerInv(q)'
      /\ \E to \in {"fetching", "over"} : x2' = [x2 EXCEPT ![r] = to]
  BY <1>1, CodexFallsBack
<1> QED BY <1>1, <1>2, CodexGives DEF Codex!ConnectFails

LEMMA CodexSend == ASSUME Codex!CodexInv, NEW r \in Request, Codex!Send(r) PROVE Codex!CodexInv'
<1>1. Codex!TypeOK /\ Codex!SocketsInv /\ (\A q \in Request : Codex!AnswerInv(q)) /\ x2[r] = "sending"
      /\ UNCHANGED <<x1, x3, x4, x5, x6>>
  BY DEF Codex!CodexInv, Codex!Send
<1>2. CASE /\ Codex!Go(r, "streaming") /\ Codex!Tell(r, <<"start">>)
           /\ x8' = [x8 EXCEPT ![r] = @ + 1] /\ UNCHANGED Codex!sockets
  <2>1. x2' = [x2 EXCEPT ![r] = "streaming"]
    BY <1>2 DEF Codex!Go
  <2>2. /\ x7' \in [Request -> Seq(CodexEvent)] /\ x8' \in [Request -> Nat]
        /\ \A q \in Request : Codex!AnswerInv(q)'
    BY <1>1, <1>2, <2>1, CodexBegins
  <2>3. Codex!SocketsInv'
    BY <1>1, <1>2, <2>1, CodexElsewhere
  <2>4. Codex!TypeOK'
    BY <1>1, <1>2, <2>1, <2>2 DEF Codex!TypeOK, Codex!sockets, CodexEvent
  <2> QED BY <2>2, <2>3, <2>4 DEF Codex!CodexInv
<1>3. CASE Codex!Release(r, FALSE) /\ Codex!FallBack(r) /\ UNCHANGED x8
  <2>1. /\ x7' \in [Request -> Seq(CodexEvent)] /\ \A q \in Request : Codex!AnswerInv(q)'
        /\ \E to \in {"fetching", "over"} : x2' = [x2 EXCEPT ![r] = to]
    BY <1>1, <1>3, CodexFallsBack
  <2>2. \E keep \in BOOLEAN : Codex!Release(r, keep)
    BY <1>3
  <2> QED BY <1>1, <1>3, <2>1, <2>2, CodexGives
<1> QED BY <1>2, <1>3 DEF Codex!Send

LEMMA CodexComplete == ASSUME Codex!CodexInv, NEW r \in Request, Codex!Complete(r) PROVE Codex!CodexInv'
<1>1. Codex!TypeOK /\ (\A q \in Request : Codex!AnswerInv(q)) /\ x2[r] = "streaming"
      /\ Codex!Finish(r, "done") /\ UNCHANGED <<x1, x3, x4, x5, x6, x8>>
  BY DEF Codex!CodexInv, Codex!Complete
<1>2. /\ x7' \in [Request -> Seq(CodexEvent)] /\ x2' = [x2 EXCEPT ![r] = "over"]
      /\ \A q \in Request : Codex!AnswerInv(q)'
  BY <1>1, CodexFinishes
<1>3. \E keep \in BOOLEAN : Codex!Release(r, keep)
  BY DEF Codex!Complete
<1> QED BY <1>1, <1>2, <1>3, CodexGives

LEMMA CodexFail == ASSUME Codex!CodexInv, NEW r \in Request, Codex!Fail(r) PROVE Codex!CodexInv'
<1>1. Codex!TypeOK /\ (\A q \in Request : Codex!AnswerInv(q)) /\ x2[r] = "streaming"
      /\ Codex!Finish(r, "error") /\ UNCHANGED <<x1, x3, x4, x5, x6, x8>>
  BY DEF Codex!CodexInv, Codex!Fail
<1>2. /\ x7' \in [Request -> Seq(CodexEvent)] /\ x2' = [x2 EXCEPT ![r] = "over"]
      /\ \A q \in Request : Codex!AnswerInv(q)'
  BY <1>1, CodexFinishes
<1>3. \E keep \in BOOLEAN : Codex!Release(r, keep)
  BY DEF Codex!Fail
<1> QED BY <1>1, <1>2, <1>3, CodexGives

LEMMA CodexServer == ASSUME Codex!CodexInv, NEW s \in Codex!Socket, Codex!ServerCloses(s) PROVE Codex!CodexInv'
<1>1. Codex!TypeOK /\ Codex!SocketsInv /\ \A q \in Request : Codex!AnswerInv(q)
  BY DEF Codex!CodexInv
<1>2. CASE \E r \in Request : x3[r] = s /\ x2[r] = "streaming"
  BY <1>2, CodexFail DEF Codex!ServerCloses
<1>3. CASE ~ \E r \in Request : x3[r] = s /\ x2[r] = "streaming"
  <2>1. /\ x9[s] = "open" /\ x9' = [x9 EXCEPT ![s] = "closed"]
        /\ UNCHANGED <<Codex!request, x10, x11, x12>>
        /\ \A r \in Request : x3[r] = s => x2[r] # "sending"
    BY <1>3 DEF Codex!ServerCloses, Codex!Set
  <2>2. UNCHANGED <<x1, x2, x3, x4, x5, x6, x7, x8>>
    BY <2>1 DEF Codex!request
  <2>3. Codex!UsedBy(s) = {}
    BY <1>1, <1>3, <2>1 DEF Codex!UsedBy, Codex!Holds, Codex!SocketsInv, Codex!UseInv
  <2>4. Codex!SocketsInv'
    BY <1>1, <2>1, <2>2, <2>3, CodexCloses
  <2>5. Codex!TypeOK'
    BY <1>1, <2>1, <2>2 DEF Codex!TypeOK
  <2>6. \A q \in Request : Codex!AnswerInv(q)'
    BY <1>1, <2>2 DEF Codex!AnswerInv, Codex!Over
  <2> QED BY <2>4, <2>5, <2>6 DEF Codex!CodexInv
<1> QED BY <1>2, <1>3

LEMMA CodexTimer == ASSUME Codex!CodexInv, NEW s \in Codex!Socket, Codex!Timer(s) PROVE Codex!CodexInv'
<1>1. Codex!TypeOK /\ Codex!SocketsInv /\ \A q \in Request : Codex!AnswerInv(q)
  BY DEF Codex!CodexInv
<1>2. UNCHANGED <<x1, x2, x3, x4, x5, x6, x7, x8>> /\ x11' = x11
      /\ s \in x12 /\ x12' = x12 \ {s}
  BY DEF Codex!Timer, Codex!request
<1>3. Codex!UsedBy(s) = {} /\ x9[s] \in {"open", "closed"}
  BY <1>1, <1>2 DEF Codex!SocketsInv, Codex!SocketInv
<1>4. x9' = [x9 EXCEPT ![s] = "closed"] /\ x10' \in {x10, Codex!None}
  <2>1. CASE s \in x11
    <3>1. x9[s] = "closed"
      BY <1>1, <1>2, <1>3, <2>1 DEF Codex!SocketsInv, Codex!SocketInv
    <3>2. [x9 EXCEPT ![s] = "closed"] = x9
      BY <1>1, <3>1 DEF Codex!TypeOK
    <3> QED BY <2>1, <3>2 DEF Codex!Timer
  <2>2. CASE s \notin x11
    BY <2>2 DEF Codex!Timer, Codex!Set
  <2> QED BY <2>1, <2>2
<1>5. Codex!SocketsInv'
  BY <1>1, <1>2, <1>3, <1>4, CodexCloses
<1>6. Codex!TypeOK'
  BY <1>1, <1>2, <1>4 DEF Codex!TypeOK
<1>7. \A q \in Request : Codex!AnswerInv(q)'
  BY <1>1, <1>2 DEF Codex!AnswerInv, Codex!Over
<1> QED BY <1>5, <1>6, <1>7 DEF Codex!CodexInv
-----------------------------------------------------------------------------
(* The loop of fetches has no socket.                                      *)
LEMMA CodexFetches ==
    ASSUME Codex!CodexInv, NEW r \in Request,
           x2[r] \in {"fetching", "sleeping", "reading"},
           NEW to \in {"fetching", "sleeping", "reading", "over"}, x2' = [x2 EXCEPT ![r] = to],
           x7' \in [Request -> Seq(CodexEvent)], x8' \in [Request -> Nat],
           x5' \in [Request -> 0..MaxResends], x6' \in {x6, x6 \cup {r}},
           \A q \in Request : Codex!AnswerInv(q)', UNCHANGED <<x1, x3, x4, Codex!sockets>>
    PROVE  Codex!CodexInv'
<1>1. Codex!TypeOK /\ Codex!SocketsInv /\ UNCHANGED <<x9, x10, x11, x12>>
  BY DEF Codex!CodexInv, Codex!sockets
<1>2. Codex!SocketsInv'
  BY <1>1, CodexElsewhere
<1>3. Codex!TypeOK'
  BY <1>1, CodexTypes
<1> QED BY <1>2, <1>3 DEF Codex!CodexInv

LEMMA CodexRefused ==
    ASSUME Codex!CodexInv, NEW r \in Request, NEW usageLimit \in BOOLEAN, Codex!Refused(r, usageLimit)
    PROVE  Codex!CodexInv'
<1>1. Codex!TypeOK /\ (\A q \in Request : Codex!AnswerInv(q)) /\ x2[r] = "fetching"
      /\ UNCHANGED <<x1, x3, x4, x5, x6, x8, Codex!sockets>>
      /\ x8' \in [Request -> Nat] /\ x5' \in [Request -> 0..MaxResends]
  BY DEF Codex!CodexInv, Codex!Refused, Codex!TypeOK
<1>2. CASE x5[r] < MaxResends /\ ~usageLimit
  <2>1. x2' = [x2 EXCEPT ![r] = "sleeping"] /\ x7' = x7 /\ x5'[r] < MaxResends
    BY <1>1, <1>2 DEF Codex!Refused, Codex!Go
  <2>2. x7' \in [Request -> Seq(CodexEvent)] /\ \A q \in Request : Codex!AnswerInv(q)'
    BY <1>1, <2>1, CodexSilent
  <2> QED BY <1>1, <2>1, <2>2, CodexFetches
<1>3. CASE ~(x5[r] < MaxResends /\ ~usageLimit)
  <2>1. Codex!Throw(r)
    BY <1>3 DEF Codex!Refused
  <2>2. /\ x7' \in [Request -> Seq(CodexEvent)] /\ x2' = [x2 EXCEPT ![r] = "over"]
        /\ \A q \in Request : Codex!AnswerInv(q)'
    BY <1>1, <2>1, CodexThrows
  <2> QED BY <1>1, <2>2, CodexFetches
<1> QED BY <1>2, <1>3

LEMMA CodexWake == ASSUME Codex!CodexInv, NEW r \in Request, Codex!Wake(r) PROVE Codex!CodexInv'
<1>1. Codex!TypeOK /\ (\A q \in Request : Codex!AnswerInv(q)) /\ x2[r] = "sleeping"
      /\ UNCHANGED <<x1, x3, x4, x6, x7, x8, Codex!sockets>>
      /\ x2' = [x2 EXCEPT ![r] = "fetching"] /\ x5' = [x5 EXCEPT ![r] = x5[r] + 1]
      /\ x8' \in [Request -> Nat]
  BY DEF Codex!CodexInv, Codex!Wake, Codex!TypeOK, Codex!Go
<1>2. x5[r] \in 0..MaxResends /\ x5[r] < MaxResends
  BY <1>1 DEF Codex!TypeOK, Codex!AnswerInv
<1>3. x5' \in [Request -> 0..MaxResends] /\ \A q \in Request : q # r => x5'[q] = x5[q]
  BY SocketsAssumption, <1>1, <1>2 DEF Codex!TypeOK
<1>4. x7' \in [Request -> Seq(CodexEvent)] /\ \A q \in Request : Codex!AnswerInv(q)'
  BY <1>1, <1>3, CodexSilent
<1> QED BY <1>1, <1>3, <1>4, CodexFetches

LEMMA CodexAnswered == ASSUME Codex!CodexInv, NEW r \in Request, Codex!Answered(r) PROVE Codex!CodexInv'
<1>1. Codex!TypeOK /\ (\A q \in Request : Codex!AnswerInv(q)) /\ x2[r] = "fetching"
      /\ UNCHANGED <<x1, x3, x4, x5, x6, Codex!sockets>>
      /\ x2' = [x2 EXCEPT ![r] = "reading"] /\ Codex!Tell(r, <<"start">>)
      /\ x8' = [x8 EXCEPT ![r] = @ + 1] /\ x5' \in [Request -> 0..MaxResends]
  BY DEF Codex!CodexInv, Codex!Answered, Codex!TypeOK, Codex!Go
<1>2. /\ x7' \in [Request -> Seq(CodexEvent)] /\ x8' \in [Request -> Nat]
      /\ \A q \in Request : Codex!AnswerInv(q)'
  BY <1>1, CodexBegins
<1> QED BY <1>1, <1>2, CodexFetches

LEMMA CodexRead ==
    ASSUME Codex!CodexInv, NEW r \in Request, NEW event \in {"done", "error"}, Codex!Read(r, event)
    PROVE  Codex!CodexInv'
<1>1. Codex!TypeOK /\ (\A q \in Request : Codex!AnswerInv(q)) /\ x2[r] = "reading" /\ Codex!Finish(r, event)
      /\ UNCHANGED <<x1, x3, x4, x5, x6, x8, Codex!sockets>>
      /\ x8' \in [Request -> Nat] /\ x5' \in [Request -> 0..MaxResends]
  BY DEF Codex!CodexInv, Codex!Read, Codex!TypeOK
<1>2. /\ x7' \in [Request -> Seq(CodexEvent)] /\ x2' = [x2 EXCEPT ![r] = "over"]
      /\ \A q \in Request : Codex!AnswerInv(q)'
  BY <1>1, CodexFinishes
<1> QED BY <1>1, <1>2, CodexFetches

LEMMA CodexAbort == ASSUME Codex!CodexInv, NEW r \in Request, Codex!Abort(r) PROVE Codex!CodexInv'
<1>1. Codex!TypeOK /\ (\A q \in Request : Codex!AnswerInv(q)) /\ x6' \in {x6, x6 \cup {r}}
      /\ x2[r] \in {"connecting", "streaming", "fetching", "sleeping", "reading"}
      /\ UNCHANGED <<x1, x3, x4, x5, x8>>
      /\ x8' \in [Request -> Nat] /\ x5' \in [Request -> 0..MaxResends]
  BY DEF Codex!CodexInv, Codex!Abort, Codex!TypeOK
<1>2. CASE x2[r] = "connecting"
  <2>1. Codex!Set(x3[r], "closed") /\ Codex!FallBack(r) /\ UNCHANGED <<x10, x11, x12>>
    BY <1>2 DEF Codex!Abort
  <2>2. /\ x7' \in [Request -> Seq(CodexEvent)] /\ \A q \in Request : Codex!AnswerInv(q)'
        /\ \E to \in {"fetching", "over"} : x2' = [x2 EXCEPT ![r] = to]
    BY <1>1, <1>2, <2>1, CodexFallsBack
  <2> QED BY <1>1, <1>2, <2>1, <2>2, CodexGives
<1>3. CASE x2[r] = "streaming"
  <2>1. Codex!Release(r, FALSE) /\ Codex!Throw(r)
    BY <1>3 DEF Codex!Abort
  <2>2. /\ x7' \in [Request -> Seq(CodexEvent)] /\ x2' = [x2 EXCEPT ![r] = "over"]
        /\ \A q \in Request : Codex!AnswerInv(q)'
    BY <1>1, <1>3, <2>1, CodexThrows
  <2>3. \E keep \in BOOLEAN : Codex!Release(r, keep)
    BY <2>1
  <2> QED BY <1>1, <1>3, <2>2, <2>3, CodexGives
<1>4. CASE x2[r] \in {"fetching", "sleeping", "reading"}
  <2>1. Codex!Throw(r) /\ UNCHANGED Codex!sockets
    BY <1>4 DEF Codex!Abort
  <2>2. /\ x7' \in [Request -> Seq(CodexEvent)] /\ x2' = [x2 EXCEPT ![r] = "over"]
        /\ \A q \in Request : Codex!AnswerInv(q)'
    BY <1>1, <1>4, <2>1, CodexThrows
  <2> QED BY <1>1, <1>4, <2>1, <2>2, CodexFetches
<1> QED BY <1>1, <1>2, <1>3, <1>4

LEMMA CodexStart == ASSUME Codex!Init PROVE Codex!CodexInv
<1>1. Codex!None \notin Codex!Socket
  BY SocketsAssumption DEF Codex!None, Codex!Socket
<1>2. << >> \in Seq({"start", "done", "error", "aborted"})
  OBVIOUS
<1>3. Codex!TypeOK
  BY SocketsAssumption, <1>2 DEF Codex!Init, Codex!TypeOK
<1>4. \A r \in Request : \A s : ~Codex!Holds(r, s)
  BY DEF Codex!Init, Codex!Holds
<1>5. \A s : Codex!UsedBy(s) = {}
  BY <1>4 DEF Codex!UsedBy
<1>6. Codex!SocketsInv
  BY <1>1, <1>4, <1>5 DEF Codex!SocketsInv, Codex!UseInv, Codex!SocketInv, Codex!Init
<1>7. \A r \in Request : Codex!AnswerInv(r)
  BY DEF Codex!Init, Codex!AnswerInv
<1> QED BY <1>3, <1>6, <1>7 DEF Codex!CodexInv

LEMMA CodexSteps == ASSUME Codex!CodexInv, [Codex!Next]_Codex!vars PROVE Codex!CodexInv'
<1>1. CASE UNCHANGED Codex!vars
  <2>1. UNCHANGED <<x1, x2, x3, x4, x5, x6, x7, x8,
                    x9, x10, x11, x12>>
    BY <1>1 DEF Codex!vars, Codex!request, Codex!sockets
  <2>2. Codex!TypeOK'
    BY <2>1 DEF Codex!CodexInv, Codex!TypeOK
  <2>3. Codex!SocketsInv'
    BY <2>1 DEF Codex!CodexInv, Codex!SocketsInv, Codex!UseInv, Codex!SocketInv, Codex!UsedBy, Codex!Holds
  <2>4. \A q \in Request : Codex!AnswerInv(q)'
    BY <2>1 DEF Codex!CodexInv, Codex!AnswerInv, Codex!Over
  <2> QED BY <2>2, <2>3, <2>4 DEF Codex!CodexInv
<1>2. CASE Codex!Next
  BY <1>2, CodexBegin, CodexOpen, CodexConnectFails, CodexSend, CodexComplete, CodexFail,
     CodexWake, CodexAnswered, CodexAbort, CodexRefused, CodexRead, CodexServer, CodexTimer DEF Codex!Next
<1> QED BY <1>1, <1>2

LEMMA CodexHolds == ASSUME Codex!CodexInv PROVE Codex!OneReader /\ Codex!NoneLeftOpen /\ Codex!AnsweredOnce
<1>1. ASSUME NEW s \in Codex!Socket PROVE Cardinality(Codex!UsedBy(s)) <= 1
  <2>1. CASE Codex!UsedBy(s) = {}
    BY <2>1, FS_EmptySet
  <2>2. CASE Codex!UsedBy(s) # {}
    <3>1. PICK r \in Request : Codex!Holds(r, s)
      BY <2>2 DEF Codex!UsedBy
    <3>2. Codex!UsedBy(s) = {r}
      BY <3>1, CodexUses DEF Codex!UsedBy, Codex!CodexInv
    <3>3. Cardinality({r}) = 1
      BY FS_Singleton
    <3> QED BY <3>2, <3>3
  <2> QED BY <2>1, <2>2
<1>2. Codex!OneReader
  BY <1>1 DEF Cardinality, Codex!Cardinality, Codex!OneReader, Codex!CodexInv, Codex!SocketsInv, Codex!UseInv, Codex!UsedBy
<1>3. Codex!NoneLeftOpen
  BY DEF Codex!NoneLeftOpen, Codex!CodexInv, Codex!SocketsInv, Codex!SocketInv
<1>4. ASSUME NEW r \in Request
      PROVE  x8[r] <= 1 /\ x7[r] \in {<< >>, <<"start">>} \cup Codex!Over
  <2>1. Codex!AnswerInv(r)
    BY DEF Codex!CodexInv
  <2>2. x8[r] \in Nat
    BY DEF Codex!CodexInv, Codex!TypeOK
  <2>3. x2[r] \in {"idle", "connecting", "sending", "streaming",
                     "fetching", "sleeping", "reading", "over"}
    BY DEF Codex!CodexInv, Codex!TypeOK
  <2>4. CASE x2[r] \in {"streaming", "reading"}
    <3>1. x8[r] = 1 /\ x7[r] = <<"start">>
      BY <2>1, <2>4 DEF Codex!AnswerInv
    <3> QED BY <3>1
  <2>5. CASE x2[r] = "over"
    <3>1. x8[r] <= 1 /\ x7[r] \in Codex!Over
      BY <2>1, <2>5 DEF Codex!AnswerInv
    <3> QED BY <3>1
  <2>6. CASE x2[r] \notin {"streaming", "reading", "over"}
    <3>1. x8[r] = 0 /\ x7[r] = << >>
      BY <2>1, <2>6 DEF Codex!AnswerInv
    <3> QED BY <3>1
  <2> QED BY <2>4, <2>5, <2>6
<1> QED BY <1>2, <1>3, <1>4 DEF Codex!AnsweredOnce

-----------------------------------------------------------------------------
(* A request to Gemini: x1 step, x2 attempt, x3 endpointIndex, x4          *)
(* emptyAttempt, x5 content, x6 hasContent, x7 aborted, x8 told, x9 posts, *)
(* x10 refusals.                                                           *)
GeminiEvent == {"start", "content", "done", "error", "aborted"}

(* The end that is told is the last event of the request.                  *)
LEMMA GeminiTells ==
    ASSUME Gemini!TypeOK, Gemini!ToldInv, x1 # "over", NEW e \in Gemini!Ends,
           x1' = "over", x8' = Append(x8, e), x5' = x5
    PROVE  Gemini!ToldInv' /\ x8' \in Seq(GeminiEvent)
<1>1. x8 \in Seq(GeminiEvent) /\ e \in GeminiEvent /\ x5 \in Nat
  BY DEF Gemini!TypeOK, Gemini!Ends, GeminiEvent
<1>2. /\ Len(x8') = Len(x8) + 1 /\ x8'[Len(x8) + 1] = e
      /\ \A i \in 1..Len(x8) : x8'[i] = x8[i]
      /\ x8' \in Seq(GeminiEvent)
  BY <1>1
<1>3. Len(x8) = Gemini!Before /\ Gemini!Before' = Gemini!Before /\ Gemini!Before \in Nat
  BY <1>1 DEF Gemini!ToldInv, Gemini!Before
<1>4. \A i \in 1..Gemini!Before : x8'[i] = x8[i]
  BY <1>2, <1>3
<1> QED BY <1>1, <1>2, <1>3, <1>4 DEF Gemini!ToldInv

LEMMA GeminiThrows ==
    ASSUME Gemini!TypeOK, Gemini!ToldInv, x1 # "over", Gemini!Throw, x5' = x5
    PROVE  Gemini!ToldInv' /\ x8' \in Seq(GeminiEvent) /\ Len(x8') = Len(x8) + 1
           /\ x8'[Len(x8')] = IF x7' THEN "aborted" ELSE "error"
<1> DEFINE e == IF x7' THEN "aborted" ELSE "error"
<1>1. e \in Gemini!Ends
  BY DEF Gemini!Ends
<1>2. x8' = Append(x8, e) /\ x1' = "over"
  BY DEF Gemini!Throw
<1>3. x8 \in Seq(GeminiEvent) /\ e \in GeminiEvent
  BY DEF Gemini!TypeOK, GeminiEvent
<1> HIDE DEF e
<1>4. Len(x8') = Len(x8) + 1 /\ x8'[Len(x8')] = e
  BY <1>2, <1>3
<1> QED BY <1>1, <1>2, <1>4, GeminiTells DEF e

(* Nothing is claimed of the places of an answer that was empty.           *)
LEMMA GeminiSame ==
    ASSUME Gemini!TypeOK, Gemini!ToldInv, x1 # "over", x1' # "over", x8' = x8, x5' = x5,
           x5 > 0 => x1' = "reading", x1' = "reading" => (x6' <=> x5 > 0)
    PROVE  Gemini!ToldInv'
<1>1. Gemini!Before' = Gemini!Before
  BY DEF Gemini!Before
<1> QED BY <1>1 DEF Gemini!ToldInv

LEMMA GeminiAnswer == ASSUME Gemini!GeminiInv, Gemini!Answer PROVE Gemini!GeminiInv'
<1>1. x5 = 0
  BY DEF Gemini!GeminiInv, Gemini!ToldInv, Gemini!TypeOK, Gemini!Answer
<1>2. Gemini!ToldInv'
  BY <1>1, GeminiSame DEF Gemini!GeminiInv, Gemini!Answer
<1>3. x9' = Append(x9, x3) /\ x9 \in Seq(1..Endpoints)
      /\ x3 \in 1..Endpoints /\ x10 \in Seq(Gemini!Refusal)
  BY DEF Gemini!Answer, Gemini!Post, Gemini!GeminiInv, Gemini!TypeOK
<1>4. Len(x9') = Len(x9) + 1 /\ x9' \in Seq(1..Endpoints)
  BY <1>3
<1>5. Gemini!TypeOK'
  BY <1>4 DEF Gemini!GeminiInv, Gemini!TypeOK, Gemini!Answer
<1>6. Gemini!PostsInv'
  BY <1>3, <1>4 DEF Gemini!GeminiInv, Gemini!PostsInv, Gemini!Answer
<1> QED BY <1>2, <1>5, <1>6 DEF Gemini!GeminiInv

LEMMA GeminiRefuse ==
    ASSUME Gemini!GeminiInv, NEW how \in Gemini!Refusal, Gemini!Refuse(how) PROVE Gemini!GeminiInv'
<1>1. x9 \in Seq(1..Endpoints) /\ x3 \in 1..Endpoints
      /\ x10 \in Seq(Gemini!Refusal) /\ x2 \in 0..MaxFetches /\ Endpoints \in Nat
      /\ x1 = "fetching" /\ Len(x9) = Len(x10) /\ x4 = 0
      /\ MaxFetches \in Nat /\ Endpoints <= MaxFetches + 1
  BY EndpointsAssumption DEF Gemini!GeminiInv, Gemini!TypeOK, Gemini!PostsInv, Gemini!Refuse
<1>2. x9' = Append(x9, x3) /\ x10' = Append(x10, how)
      /\ x3' = Gemini!Advance(how) /\ UNCHANGED <<x7, x4, x5, x6>>
  BY DEF Gemini!Refuse, Gemini!Post
<1>3. /\ Len(x9') = Len(x9) + 1 /\ x9'[Len(x9) + 1] = x3
      /\ x9' \in Seq(1..Endpoints)
      /\ \A i \in 1..Len(x9) : x9'[i] = x9[i]
  BY <1>1, <1>2
<1>4. /\ Len(x10') = Len(x10) + 1 /\ x10'[Len(x10) + 1] = how
      /\ x10' \in Seq(Gemini!Refusal)
      /\ \A i \in 1..Len(x10) : x10'[i] = x10[i]
  BY <1>1, <1>2
<1>5. x3' \in 1..Endpoints
  BY <1>1, <1>2 DEF Gemini!Advance
<1>6. /\ x1' \in {"fetching", "sleeping", "over"}
      /\ x2' \in 0..(MaxFetches + 1)
      /\ x1' \in {"fetching", "sleeping"} => x2' <= MaxFetches /\ x8' = x8
      /\ x1' = "sleeping" => x2' = x2 /\ x2 < MaxFetches
      /\ x1' = "over" => Gemini!Throw /\ x2 = MaxFetches
      /\ x1' = "fetching" => x2' = x2 + 1
  BY <1>1 DEF Gemini!Refuse, Gemini!Throw
<1>7. x5 = 0 /\ x5' = x5
  BY <1>1, <1>2 DEF Gemini!GeminiInv, Gemini!ToldInv, Gemini!TypeOK
<1>8. Gemini!ToldInv' /\ x8' \in Seq(GeminiEvent)
  <2>1. CASE x1' = "over"
    BY <1>1, <1>6, <1>7, <2>1, GeminiThrows DEF Gemini!GeminiInv
  <2>2. CASE x1' # "over"
    BY <1>1, <1>6, <1>7, <2>2, GeminiSame DEF Gemini!GeminiInv, Gemini!TypeOK, GeminiEvent
  <2> QED BY <2>1, <2>2
<1>9. Gemini!TypeOK'
  BY <1>2, <1>3, <1>4, <1>5, <1>6, <1>8 DEF Gemini!GeminiInv, Gemini!TypeOK, GeminiEvent
<1>10. Gemini!PostsInv'
  <2>1. ASSUME \A i \in 1..Len(x10') : x10'[i] = "elsewhere"
        PROVE  /\ \A i \in 1..Len(x9') : x9'[i] = Gemini!Nth(i)
               /\ x3' = Gemini!Nth(Len(x9') + 1)
               /\ x2 = Len(x9)
    <3>1. how = "elsewhere" /\ \A i \in 1..Len(x10) : x10[i] = "elsewhere"
      BY <1>1, <1>4, <2>1
    <3>2. /\ \A i \in 1..Len(x9) : x9[i] = Gemini!Nth(i)
          /\ x3 = Gemini!Nth(Len(x9) + 1) /\ x2 = Len(x9)
      BY <1>1, <3>1 DEF Gemini!GeminiInv, Gemini!PostsInv
    <3>3. x3' = Gemini!Nth(Len(x9') + 1)
      BY <1>1, <1>2, <1>3, <3>1, <3>2 DEF Gemini!Advance, Gemini!Nth
    <3>4. \A i \in 1..Len(x9') : x9'[i] = Gemini!Nth(i)
      BY <1>1, <1>3, <3>2
    <3> QED BY <3>2, <3>3, <3>4
  <2>2. \A i : Gemini!Nth(i)' = Gemini!Nth(i)
    BY DEF Gemini!Nth
  <2>3. /\ Len(x9') \in Nat
        /\ x1' = "over" => x2 = MaxFetches
    BY <1>1, <1>3, <1>6
  <2> QED BY <1>1, <1>2, <1>3, <1>4, <1>6, <2>1, <2>2, <2>3 DEF Gemini!PostsInv
<1> QED BY <1>8, <1>9, <1>10 DEF Gemini!GeminiInv

LEMMA GeminiWake == ASSUME Gemini!GeminiInv, Gemini!Wake PROVE Gemini!GeminiInv'
<1>1. x5 = 0
  BY DEF Gemini!GeminiInv, Gemini!ToldInv, Gemini!TypeOK, Gemini!Wake
<1>2. Gemini!ToldInv'
  BY <1>1, GeminiSame DEF Gemini!GeminiInv, Gemini!Wake
<1>3. Gemini!TypeOK'
  BY EndpointsAssumption DEF Gemini!GeminiInv, Gemini!TypeOK, Gemini!Wake, Gemini!PostsInv
<1>4. Len(x9) \in Nat /\ x2 \in Nat /\ \A i : Gemini!Nth(i)' = Gemini!Nth(i)
  BY DEF Gemini!GeminiInv, Gemini!TypeOK, Gemini!Nth
<1>5. Gemini!PostsInv'
  BY EndpointsAssumption, <1>4 DEF Gemini!GeminiInv, Gemini!PostsInv, Gemini!Wake
<1> QED BY <1>2, <1>3, <1>5 DEF Gemini!GeminiInv

LEMMA GeminiPiece == ASSUME Gemini!GeminiInv, Gemini!Piece PROVE Gemini!GeminiInv'
<1>1. x8 \in Seq(GeminiEvent) /\ x5 \in Nat /\ x5 < MaxPieces /\ MaxPieces \in Nat
      /\ x1 = "reading" /\ x1' = x1 /\ x5' = x5 + 1 /\ x6' = TRUE
  BY EndpointsAssumption DEF Gemini!GeminiInv, Gemini!TypeOK, GeminiEvent, Gemini!Piece
<1>2. Len(x8) = Gemini!Before /\ Gemini!Before' = x5 + 2
  BY <1>1 DEF Gemini!GeminiInv, Gemini!ToldInv, Gemini!Before
<1>3. Gemini!ToldInv' /\ x8' \in Seq(GeminiEvent)
  <2>1. CASE x5 = 0
    <3>1. x8 = << >>
      BY <1>1, <1>2, <2>1 DEF Gemini!Before
    <3>2. x8' = <<"start", "content">>
      BY <2>1, <3>1 DEF Gemini!Piece
    <3>3. x8' \in Seq(GeminiEvent) /\ Len(x8') = 2 /\ x8'[1] = "start" /\ x8'[2] = "content"
      BY <3>2 DEF GeminiEvent
    <3> QED BY <1>1, <1>2, <2>1, <3>3 DEF Gemini!ToldInv
  <2>2. CASE x5 # 0
    <3>1. x8' = x8 \o <<"content">> /\ <<"content">> \in Seq(GeminiEvent)
      BY <2>2 DEF Gemini!Piece, GeminiEvent
    <3>2. /\ x8' \in Seq(GeminiEvent) /\ Len(x8') = Len(x8) + 1
          /\ x8'[Len(x8) + 1] = "content"
          /\ \A i \in 1..Len(x8) : x8'[i] = x8[i]
      BY <1>1, <3>1
    <3>3. Gemini!Before = x5 + 1
      BY <2>2 DEF Gemini!Before
    <3>4. \A i \in 1..(x5 + 1) : x8[i] = IF i = 1 THEN "start" ELSE "content"
      BY <3>3 DEF Gemini!GeminiInv, Gemini!ToldInv
    <3>5. \A i \in 1..(x5 + 2) : x8'[i] = IF i = 1 THEN "start" ELSE "content"
      BY <1>1, <1>2, <2>2, <3>2, <3>3, <3>4
    <3> QED BY <1>1, <1>2, <3>2, <3>3, <3>5 DEF Gemini!ToldInv
  <2> QED BY <2>1, <2>2
<1>4. Gemini!TypeOK'
  BY <1>1, <1>3 DEF Gemini!GeminiInv, Gemini!TypeOK, Gemini!Piece, GeminiEvent
<1>5. Gemini!PostsInv'
  BY <1>1 DEF Gemini!GeminiInv, Gemini!PostsInv, Gemini!Piece, Gemini!Nth
<1> QED BY <1>3, <1>4, <1>5 DEF Gemini!GeminiInv

LEMMA GeminiClose == ASSUME Gemini!GeminiInv, Gemini!Close PROVE Gemini!GeminiInv'
<1>1. x1 = "reading" /\ x4 \in 0..MaxEmptyRetries /\ MaxEmptyRetries \in Nat
      /\ UNCHANGED <<x2, x3, x7, x6, x9, x10>>
      /\ x5 \in 0..MaxPieces
  BY EndpointsAssumption DEF Gemini!GeminiInv, Gemini!TypeOK, Gemini!Close
<1>2. CASE x6
  <2>1. x1' = "over" /\ x8' = Append(x8, "done") /\ UNCHANGED <<x4, x5>>
    BY <1>2 DEF Gemini!Close
  <2>2. Gemini!ToldInv' /\ x8' \in Seq(GeminiEvent)
    BY <1>1, <2>1, GeminiTells DEF Gemini!Ends, Gemini!GeminiInv
  <2>3. Gemini!TypeOK'
    BY <1>1, <2>1, <2>2 DEF Gemini!GeminiInv, Gemini!TypeOK, GeminiEvent
  <2>4. Gemini!PostsInv'
    BY <1>1, <2>1 DEF Gemini!GeminiInv, Gemini!PostsInv
  <2> QED BY <2>2, <2>3, <2>4 DEF Gemini!GeminiInv
<1>3. CASE ~x6 /\ x4 < MaxEmptyRetries
  <2>1. x1' = "pausing" /\ x4' = x4 + 1 /\ x5' = 0 /\ x8' = x8
    BY <1>3 DEF Gemini!Close
  <2>2. x5 = 0
    BY <1>1, <1>3 DEF Gemini!GeminiInv, Gemini!ToldInv
  <2>3. Gemini!ToldInv'
    BY <1>1, <2>1, <2>2, GeminiSame DEF Gemini!GeminiInv
  <2>4. Gemini!TypeOK'
    <3>1. x4' \in 0..MaxEmptyRetries /\ x5' \in 0..MaxPieces
      BY <1>1, <1>3, <2>1, <2>2
    <3> QED BY <1>1, <2>1, <3>1 DEF Gemini!GeminiInv, Gemini!TypeOK
  <2>5. Gemini!PostsInv'
    BY <1>1, <2>1 DEF Gemini!GeminiInv, Gemini!PostsInv
  <2> QED BY <2>3, <2>4, <2>5 DEF Gemini!GeminiInv
<1>4. CASE ~x6 /\ ~(x4 < MaxEmptyRetries)
  <2>1. Gemini!Throw /\ UNCHANGED <<x4, x5>>
    BY <1>4 DEF Gemini!Close
  <2>2. Gemini!ToldInv' /\ x8' \in Seq(GeminiEvent)
    BY <1>1, <2>1, GeminiThrows DEF Gemini!GeminiInv
  <2>3. Gemini!TypeOK'
    BY <1>1, <2>1, <2>2 DEF Gemini!GeminiInv, Gemini!TypeOK, GeminiEvent, Gemini!Throw
  <2>4. Gemini!PostsInv'
    BY <1>1, <2>1 DEF Gemini!GeminiInv, Gemini!PostsInv, Gemini!Throw
  <2> QED BY <2>2, <2>3, <2>4 DEF Gemini!GeminiInv
<1> QED BY <1>2, <1>3, <1>4

LEMMA GeminiBreak == ASSUME Gemini!GeminiInv, Gemini!Break PROVE Gemini!GeminiInv'
<1>1. Gemini!ToldInv' /\ x8' \in Seq(GeminiEvent)
  BY GeminiThrows DEF Gemini!GeminiInv, Gemini!Break
<1>2. Gemini!TypeOK'
  BY <1>1 DEF Gemini!GeminiInv, Gemini!TypeOK, GeminiEvent, Gemini!Throw, Gemini!Break
<1>3. Gemini!PostsInv'
  BY DEF Gemini!GeminiInv, Gemini!PostsInv, Gemini!Break, Gemini!Throw
<1> QED BY <1>1, <1>2, <1>3 DEF Gemini!GeminiInv

LEMMA GeminiResume == ASSUME Gemini!GeminiInv, Gemini!Resume PROVE Gemini!GeminiInv'
<1>1. x5 = 0
  BY DEF Gemini!GeminiInv, Gemini!ToldInv, Gemini!TypeOK, Gemini!Resume
<1>2. Gemini!ToldInv'
  BY <1>1, GeminiSame DEF Gemini!GeminiInv, Gemini!Resume
<1>3. Gemini!TypeOK'
  BY DEF Gemini!GeminiInv, Gemini!TypeOK, Gemini!Resume
<1>4. Gemini!PostsInv'
  BY DEF Gemini!GeminiInv, Gemini!PostsInv, Gemini!Resume
<1> QED BY <1>2, <1>3, <1>4 DEF Gemini!GeminiInv

LEMMA GeminiRefetch == ASSUME Gemini!GeminiInv, Gemini!Refetch PROVE Gemini!GeminiInv'
<1>1. x5 = 0 /\ x4 > 0 /\ x4' = x4
  BY DEF Gemini!GeminiInv, Gemini!ToldInv, Gemini!PostsInv, Gemini!TypeOK, Gemini!Refetch
<1>2. x9' = Append(x9, x3) /\ x9 \in Seq(1..Endpoints)
      /\ x3 \in 1..Endpoints /\ x10 \in Seq(Gemini!Refusal) /\ x10' = x10
  BY DEF Gemini!Refetch, Gemini!Post, Gemini!GeminiInv, Gemini!TypeOK
<1>3. Len(x9') = Len(x9) + 1 /\ x9' \in Seq(1..Endpoints)
  BY <1>2
<1>4. x4 \in Nat /\ Len(x9) \in Nat /\ Len(x10) \in Nat
      /\ Len(x10) <= Len(x9)
  BY <1>2 DEF Gemini!GeminiInv, Gemini!TypeOK, Gemini!PostsInv
<1>5. CASE x1' = "reading" /\ x6' = FALSE /\ UNCHANGED x8
  <2>1. Gemini!ToldInv'
    BY <1>1, <1>5, GeminiSame DEF Gemini!GeminiInv, Gemini!Refetch
  <2>2. Gemini!TypeOK'
    BY <1>3, <1>5 DEF Gemini!GeminiInv, Gemini!TypeOK, Gemini!Refetch
  <2>3. Gemini!PostsInv'
    BY <1>1, <1>2, <1>3, <1>4, <1>5 DEF Gemini!PostsInv
  <2> QED BY <2>1, <2>2, <2>3 DEF Gemini!GeminiInv
<1>6. CASE Gemini!Throw /\ UNCHANGED x6
  <2>1. Gemini!ToldInv' /\ x8' \in Seq(GeminiEvent)
    BY <1>6, GeminiThrows DEF Gemini!GeminiInv, Gemini!Refetch
  <2>2. Gemini!TypeOK'
    BY <1>3, <1>6, <2>1 DEF Gemini!GeminiInv, Gemini!TypeOK, Gemini!Refetch, GeminiEvent, Gemini!Throw
  <2>3. Gemini!PostsInv'
    BY <1>1, <1>2, <1>3, <1>4, <1>6 DEF Gemini!PostsInv, Gemini!Throw
  <2> QED BY <2>1, <2>2, <2>3 DEF Gemini!GeminiInv
<1> QED BY <1>5, <1>6 DEF Gemini!Refetch

LEMMA GeminiAbort == ASSUME Gemini!GeminiInv, Gemini!Abort PROVE Gemini!GeminiInv'
<1>1. Gemini!ToldInv' /\ x8' \in Seq(GeminiEvent) /\ Len(x8') = Len(x8) + 1
      /\ x8'[Len(x8')] = "aborted"
  BY GeminiThrows DEF Gemini!GeminiInv, Gemini!Abort
<1>2. Gemini!TypeOK'
  BY <1>1 DEF Gemini!GeminiInv, Gemini!TypeOK, GeminiEvent, Gemini!Throw, Gemini!Abort
<1>3. x8' # <<"error">>
  BY <1>1
<1>4. Gemini!PostsInv'
  BY <1>3 DEF Gemini!GeminiInv, Gemini!PostsInv, Gemini!Abort, Gemini!Throw, Gemini!Nth
<1> QED BY <1>1, <1>2, <1>4 DEF Gemini!GeminiInv

LEMMA GeminiStart == ASSUME Gemini!Init PROVE Gemini!GeminiInv
<1>1. x9 = << >> /\ x10 = << >> /\ x8 = << >>
      /\ x1 = "fetching" /\ x2 = 0 /\ x3 = 1 /\ x4 = 0
      /\ x5 = 0 /\ x6 = FALSE /\ x7 = FALSE
  BY DEF Gemini!Init
<1>2. Gemini!TypeOK
  <2>1. << >> \in Seq({"start", "content", "done", "error", "aborted"})
    OBVIOUS
  <2>2. << >> \in Seq(1..Endpoints)
    OBVIOUS
  <2>3. << >> \in Seq(Gemini!Refusal)
    OBVIOUS
  <2>4. x2 \in 0..(MaxFetches + 1) /\ x3 \in 1..Endpoints
        /\ x4 \in 0..MaxEmptyRetries /\ x5 \in 0..MaxPieces
    BY EndpointsAssumption, <1>1
  <2>5. {x6, x7} \subseteq BOOLEAN
    BY <1>1
  <2> QED BY <1>1, <2>1, <2>2, <2>3, <2>4, <2>5 DEF Gemini!TypeOK
<1>3. Gemini!ToldInv
  BY <1>1 DEF Gemini!ToldInv, Gemini!Before
<1>4. Len(x9) = 0 /\ Len(x10) = 0 /\ Gemini!Nth(1) = 1
  BY EndpointsAssumption, <1>1 DEF Gemini!Nth
<1>5. Gemini!PostsInv
  BY EndpointsAssumption, <1>1, <1>4 DEF Gemini!PostsInv
<1> QED BY <1>2, <1>3, <1>5 DEF Gemini!GeminiInv

LEMMA GeminiSteps == ASSUME Gemini!GeminiInv, [Gemini!Next]_Gemini!vars PROVE Gemini!GeminiInv'
<1>1. CASE UNCHANGED Gemini!vars
  BY <1>1 DEF Gemini!vars, Gemini!GeminiInv, Gemini!TypeOK, Gemini!ToldInv, Gemini!PostsInv, Gemini!Before, Gemini!Nth, Gemini!Ends
<1>2. CASE Gemini!Next
  BY <1>2, GeminiAnswer, GeminiRefuse, GeminiWake, GeminiPiece, GeminiClose, GeminiBreak,
     GeminiResume, GeminiRefetch, GeminiAbort DEF Gemini!Next
<1> QED BY <1>1, <1>2

(* The pieces told are those of the message, and if every refusal was for  *)
(* the endpoint's sake the last one came from the last of them.            *)
LEMMA GeminiAnswers == ASSUME Gemini!GeminiInv PROVE Gemini!ToldOnce /\ Gemini!AllEndpointsTried
<1>1. x5 \in Nat /\ x8 \in Seq(GeminiEvent) /\ Gemini!Before \in Nat
  BY DEF Gemini!GeminiInv, Gemini!TypeOK, GeminiEvent, Gemini!Before
<1>2. /\ Len(x8) \in Nat /\ DOMAIN x8 = 1..Len(x8)
      /\ Len(x8) = IF x1 = "over" THEN Gemini!Before + 1 ELSE Gemini!Before
      /\ \A i \in 1..Gemini!Before : x8[i] = IF i = 1 THEN "start" ELSE "content"
      /\ x1 = "over" => x8[Len(x8)] \in Gemini!Ends
  <2>1. Len(x8) \in Nat /\ DOMAIN x8 = 1..Len(x8)
    BY <1>1
  <2>2. Len(x8) = IF x1 = "over" THEN Gemini!Before + 1 ELSE Gemini!Before
    BY <1>1 DEF Gemini!GeminiInv, Gemini!ToldInv
  <2> QED BY <2>1, <2>2 DEF Gemini!GeminiInv, Gemini!ToldInv
<1> HIDE DEF Gemini!GeminiInv
<1>3. Cardinality({i \in DOMAIN x8 : x8[i] = "content"}) = x5
  <2>1. \A i \in 1..Len(x8) : x8[i] = "content" <=> i \in 2..(x5 + 1)
    <3>1. ASSUME NEW i \in 1..Len(x8) PROVE x8[i] = "content" <=> i \in 2..(x5 + 1)
      <4>1. CASE i \in 1..Gemini!Before
        BY <1>1, <1>2, <4>1 DEF Gemini!Before
      <4>2. CASE i \notin 1..Gemini!Before
        BY <1>1, <1>2, <4>2 DEF Gemini!Before, Gemini!Ends
      <4> QED BY <4>1, <4>2
    <3> QED BY <3>1
  <2>3. 2..(x5 + 1) \subseteq 1..Len(x8)
    BY <1>1, <1>2 DEF Gemini!Before
  <2>2. Cardinality(2..(x5 + 1)) = x5
    <3>1. CASE x5 = 0
      <4>1. 2..(x5 + 1) = {}
        BY <3>1
      <4> QED BY <3>1, <4>1, FS_EmptySet
    <3>2. CASE x5 # 0
      BY <1>1, <3>2, FS_Interval
    <3> QED BY <3>1, <3>2
  <2>4. {i \in DOMAIN x8 : x8[i] = "content"} = 2..(x5 + 1)
    BY <1>2, <2>1, <2>3
  <2> QED BY <2>2, <2>4
<1>4. Gemini!ToldOnce
  <2>1. ASSUME NEW i \in DOMAIN x8
        PROVE  /\ x8[i] = "start" => i = 1
               /\ x8[i] = "content" => x8[1] = "start"
               /\ x8[i] \in Gemini!Ends => i = Len(x8)
    <3>1. CASE i \in 1..Gemini!Before
      BY <1>1, <1>2, <3>1 DEF Gemini!Before, Gemini!Ends
    <3>2. CASE i \notin 1..Gemini!Before
      BY <1>1, <1>2, <2>1, <3>2 DEF Gemini!Before, Gemini!Ends
    <3> QED BY <3>1, <3>2
  <2>2. x5 > 0 => x1 \in {"reading", "over"}
    BY DEF Gemini!GeminiInv, Gemini!ToldInv
  <2> QED BY <1>3, <2>1, <2>2 DEF Gemini!ToldOnce, Cardinality, Gemini!Cardinality
<1>5. ASSUME x1 = "over", x8 = <<"error">>, x4 = 0, Len(x9) = Len(x10),
             \A i \in DOMAIN x10 : x10[i] = "elsewhere"
      PROVE  {x9[i] : i \in DOMAIN x9} = 1..Endpoints
  <2>1. x9 \in Seq(1..Endpoints) /\ x10 \in Seq(Gemini!Refusal) /\ Endpoints \in Nat \ {0}
        /\ Endpoints <= MaxFetches + 1 /\ MaxFetches \in Nat
    BY EndpointsAssumption DEF Gemini!GeminiInv, Gemini!TypeOK
  <2>2. DOMAIN x9 = 1..Len(x9) /\ DOMAIN x10 = 1..Len(x10) /\ Len(x9) \in Nat
    BY <2>1
  <2>3. Len(x9) > MaxFetches /\ \A i \in 1..Len(x9) : x9[i] = Gemini!Nth(i)
    BY <1>5, <2>2 DEF Gemini!GeminiInv, Gemini!PostsInv
  <2>4. \A e \in 1..Endpoints : e \in 1..Len(x9) /\ x9[e] = e
    BY <2>1, <2>2, <2>3 DEF Gemini!Nth
  <2>5. \A i \in 1..Len(x9) : x9[i] \in 1..Endpoints
    BY <2>1
  <2> QED BY <2>2, <2>4, <2>5
<1> QED BY <1>4, <1>5 DEF Gemini!AllEndpointsTried
-----------------------------------------------------------------------------
(* However requests share sockets, and however often one is tried again: a *)
(* socket is read by one, none stays open or busy for nobody, and a        *)
(* request is answered once (acquireWebSocket, streamOpenAICodexResponses); *)
(* and what a reader is told is one answer, for which every endpoint was   *)
(* asked (streamGoogleGeminiCli): for each alone, and for the behaviours   *)
(* of MCServices.                                                          *)
THEOREM RequestsAlwaysAnswered ==
    /\ Codex!Spec => [](Codex!OneReader /\ Codex!NoneLeftOpen /\ Codex!AnsweredOnce)
    /\ Gemini!Spec => [](Gemini!ToldOnce /\ Gemini!AllEndpointsTried)
    /\ ServicesSpec => []RequestsAnswered
<1>1. Codex!Spec => [](Codex!OneReader /\ Codex!NoneLeftOpen /\ Codex!AnsweredOnce)
  BY CodexStart, CodexSteps, CodexHolds, PTL DEF Codex!Spec
<1>2. Gemini!Spec => [](Gemini!ToldOnce /\ Gemini!AllEndpointsTried)
  BY GeminiStart, GeminiSteps, GeminiAnswers, PTL DEF Gemini!Spec
<1> DEFINE Inv == /\ part = "codex" => Codex!CodexInv
                  /\ part = "gemini" => Gemini!GeminiInv
<1>3. ServicesInit => Inv
  BY CodexStart, GeminiStart DEF ServicesInit
<1>4. Inv /\ [ServicesNext]_services => Inv'
  <2> SUFFICES ASSUME Inv, [ServicesNext]_services PROVE Inv'
    OBVIOUS
  <2>1. part' = part
    BY DEF ServicesNext, services
  <2>2. CASE part = "codex"
    <3>1. [Codex!Next]_Codex!vars
      BY <2>2 DEF ServicesNext, CodexNext, services, xs, Codex!vars, Codex!request, Codex!sockets
    <3> QED BY <2>1, <2>2, <3>1, CodexSteps
  <2>3. CASE part = "gemini"
    <3>1. [Gemini!Next]_Gemini!vars
      BY <2>3 DEF ServicesNext, services, xs, Gemini!vars
    <3> QED BY <2>1, <2>3, <3>1, GeminiSteps
  <2> QED BY <2>1, <2>2, <2>3
<1>5. Inv => RequestsAnswered
  BY CodexHolds, GeminiAnswers DEF RequestsAnswered
<1>6. ServicesSpec => []RequestsAnswered
  BY <1>3, <1>4, <1>5, PTL DEF ServicesSpec
<1> QED BY <1>1, <1>2, <1>6
-----------------------------------------------------------------------------
(* The events of the Slack bot, where x1 is the file, x2 up, x3 startedAt, *)
(* x4 noticing, x5 known, x6 reading, x7 armed, x8 executed, x9 writes,    *)
(* x10 starts.                                                             *)
(* The file is deleted.                                                    *)
LEMMA EventsGone ==
    ASSUME MomEvents!EventsInv, x1' = MomEvents!Absent, x7' = {}, x6' = {}, x5' = FALSE,
           x4' \in BOOLEAN, x2' = TRUE, x3' \in 0..x9, x9' = x9,
           x10' \in Nat, x8' \in [1..MaxWrites -> {0, 1}],
           \A i \in 1..MaxWrites : x8'[i] = 1 => i <= x9
    PROVE  MomEvents!EventsInv'
<1>1. x1'.kind = "absent" /\ x1'.id = 0
  BY DEF MomEvents!Absent
<1>2. MomEvents!TypeOK'
  BY DEF MomEvents!TypeOK
<1>3. MomEvents!OneTimer' /\ MomEvents!YetToRun'
  BY <1>1 DEF MomEvents!OneTimer, MomEvents!YetToRun
<1>4. {x2', x4', x5'} \subseteq BOOLEAN
  OBVIOUS
<1>5. x9' \in 1..MaxWrites /\ x1'.id <= x9'
  BY <1>1, EventsAssumption DEF MomEvents!EventsInv
<1> QED BY <1>2, <1>3, <1>4, <1>5 DEF MomEvents!EventsInv

(* A handler runs the event or sets the one timer there is then.           *)
LEMMA EventsHandle ==
    ASSUME MomEvents!EventsInv, MomEvents!Readable, NEW over \in BOOLEAN, MomEvents!Fits(over), NEW pending \in BOOLEAN,
           NEW timers \in SUBSET x7, \A t \in timers : FALSE,
           x3' \in 0..x9, x2' = TRUE, x9' = x9, x10' \in Nat,
           x6' \in SUBSET [tries : 1..MomEvents!MaxRetries - 1, id : 0..MaxWrites],
           x6' = {}, MomEvents!Handle(pending, timers, over)
    PROVE  MomEvents!EventsInv'
<1> USE EventsAssumption
<1>1. x1 \in MomEvents!Event /\ x1.kind \in EventKind /\ x1.id \in 1..x9 /\ x1.id \in 1..MaxWrites
  BY DEF MomEvents!EventsInv, MomEvents!TypeOK, MomEvents!Readable, MomEvents!Partial, MomEvents!Absent, MomEvents!Event
<1>2. timers = {} /\ MomEvents!Overwritten(timers, x1.kind) = {}
  BY DEF MomEvents!Overwritten
<1>3. CASE x1.kind = "immediate" \/ over
  <2>1. x1' = MomEvents!Absent /\ x4' = (pending \/ x1 # MomEvents!Absent) /\ x5' = FALSE /\ x7' = {}
    BY <1>2, <1>3 DEF MomEvents!Handle, MomEvents!DeleteFile
  <2>2. x8' \in [1..MaxWrites -> {0, 1}] /\ \A i \in 1..MaxWrites : x8'[i] = 1 => i <= x9
    <3>1. CASE x1.kind = "immediate" /\ x1.id > x3'
      <4>1. x8' = [x8 EXCEPT ![x1.id] = @ + 1] /\ x8[x1.id] = 0
        BY <1>3, <3>1 DEF MomEvents!Handle, MomEvents!EventsInv, MomEvents!YetToRun
      <4> QED BY <1>1, <4>1 DEF MomEvents!EventsInv, MomEvents!YetToRun
    <3>2. CASE ~(x1.kind = "immediate" /\ x1.id > x3')
      BY <1>3, <3>2 DEF MomEvents!Handle, MomEvents!EventsInv, MomEvents!YetToRun
    <3> QED BY <3>1, <3>2
  <2> QED BY <2>1, <2>2, EventsGone
<1>4. CASE ~(x1.kind = "immediate" \/ over)
  <2>1. /\ x5' = TRUE /\ x4' = pending /\ x7' = {[event |-> x1, kept |-> TRUE]}
        /\ x1' = x1 /\ x8' = x8
    BY <1>2, <1>4 DEF MomEvents!Handle
  <2>2. x1.kind = "one-shot" => x8[x1.id] = 0
    BY <1>1, <1>4 DEF MomEvents!Fits, MomEvents!EventsInv, MomEvents!YetToRun
  <2>3. x1 # MomEvents!Absent
    BY <1>1 DEF MomEvents!Absent
  <2>4. [event |-> x1, kept |-> TRUE] \in [event : MomEvents!Event, kept : BOOLEAN]
    BY <1>1
  <2>5. x1 \in MomEvents!Event \cup {MomEvents!Partial, MomEvents!Absent}
    BY <1>1
  <2>6. MomEvents!TypeOK'
    BY <2>1, <2>4, <2>5 DEF MomEvents!TypeOK
  <2>7. MomEvents!OneTimer'
    BY <2>1, <2>3 DEF MomEvents!OneTimer
  <2>8. MomEvents!YetToRun'
    BY <1>4, <2>1, <2>2 DEF MomEvents!EventsInv, MomEvents!YetToRun, MomEvents!Readable
  <2> QED BY <1>1, <2>1, <2>6, <2>7, <2>8 DEF MomEvents!EventsInv
<1> QED BY <1>3, <1>4

LEMMA EventsHandleFile ==
    ASSUME MomEvents!EventsInv, NEW over \in BOOLEAN, MomEvents!Fits(over), x6 = {},
           NEW timers \in SUBSET x7, \A t \in timers : FALSE,
           x3' \in 0..x9, x2' = TRUE, x9' = x9, x10' \in Nat,
           MomEvents!HandleFile(timers, over)
    PROVE  MomEvents!EventsInv'
<1> USE EventsAssumption
<1>1. CASE MomEvents!Readable
  <2>1. MomEvents!Handle(FALSE, timers, over) /\ x6' = {}
    BY <1>1 DEF MomEvents!HandleFile
  <2> QED BY <1>1, <2>1, EventsHandle
<1>2. CASE ~MomEvents!Readable
  <2>1. /\ x6' = {[tries |-> 1, id |-> x9]} /\ x7' = {}
        /\ x1' = x1 /\ x5' = x5 /\ x8' = x8 /\ x4' = FALSE
    BY <1>2 DEF MomEvents!HandleFile
  <2>2. [tries |-> 1, id |-> x9] \in [tries : 1..MomEvents!MaxRetries - 1, id : 0..MaxWrites]
    BY DEF MomEvents!EventsInv, MomEvents!MaxRetries
  <2> QED BY <2>1, <2>2 DEF MomEvents!EventsInv, MomEvents!TypeOK, MomEvents!OneTimer, MomEvents!YetToRun, MomEvents!Readable
<1> QED BY <1>1, <1>2

(* When a change is handled, or a handler tries again, no timer is left.   *)
LEMMA EventsChange ==
    ASSUME MomEvents!EventsInv, NEW over \in BOOLEAN, MomEvents!Fits(over), MomEvents!HandleFileChange(over)
    PROVE  MomEvents!EventsInv'
<1> DEFINE timers == IF x5 THEN x7 \ MomEvents!Kept ELSE x7
<1>1. timers \in SUBSET x7 /\ \A t \in timers : FALSE
  BY DEF MomEvents!EventsInv, MomEvents!OneTimer, MomEvents!Kept
<1>2. x4 /\ x6 = {} /\ x2' = x2 /\ x3' = x3 /\ x9' = x9 /\ x10' = x10
  BY DEF MomEvents!HandleFileChange
<1>3. x2 = TRUE
  BY <1>2 DEF MomEvents!EventsInv, MomEvents!TypeOK
<1>4. CASE x1 = MomEvents!Absent
  <2>1. x7' = timers /\ x5' = FALSE /\ x4' = FALSE
        /\ x1' = x1 /\ x6' = x6 /\ x8' = x8
    BY <1>4 DEF MomEvents!HandleFileChange
  <2>2. x7' = {}
    BY <1>1, <2>1
  <2> HIDE DEF timers
  <2> QED BY <1>2, <2>1, <2>2 DEF MomEvents!EventsInv, MomEvents!TypeOK, MomEvents!OneTimer, MomEvents!YetToRun, MomEvents!Readable
<1>5. CASE x1 # MomEvents!Absent
  <2>1. MomEvents!HandleFile(timers, over)
    BY <1>5 DEF MomEvents!HandleFileChange
  <2>2. x3' \in 0..x9 /\ x10' \in Nat
    BY <1>2 DEF MomEvents!EventsInv
  <2> HIDE DEF timers
  <2> QED BY <1>1, <1>2, <1>3, <2>1, <2>2, EventsHandleFile
<1> QED BY <1>4, <1>5

LEMMA EventsRetry ==
    ASSUME MomEvents!EventsInv, NEW over \in BOOLEAN, MomEvents!Fits(over), NEW r \in x6, MomEvents!Retry(r, over)
    PROVE  MomEvents!EventsInv'
<1>1. x7 = {} /\ x6 = {r}
  BY DEF MomEvents!EventsInv, MomEvents!OneTimer
<1>2. x2' = x2 /\ x3' = x3 /\ x9' = x9 /\ x10' = x10
  BY DEF MomEvents!Retry
<1>3. x2 = TRUE /\ x3' \in 0..x9 /\ x10' \in Nat /\ x4 \in BOOLEAN
  BY <1>2 DEF MomEvents!EventsInv, MomEvents!TypeOK
<1>4. CASE MomEvents!Readable
  <2>1. x6' = {} /\ MomEvents!Handle(x4, x7, over)
    BY <1>1, <1>4 DEF MomEvents!Retry
  <2> QED BY <1>1, <1>2, <1>3, <1>4, <2>1, EventsHandle
<1>5. CASE ~MomEvents!Readable /\ r.tries + 1 < MomEvents!MaxRetries
  <2>1. x6' = {[r EXCEPT !.tries = @ + 1]} /\ x1' = x1 /\ x4' = x4 /\ x5' = x5
        /\ x7' = x7 /\ x8' = x8
    BY <1>1, <1>5 DEF MomEvents!Retry
  <2>2. [r EXCEPT !.tries = @ + 1] \in [tries : 1..MomEvents!MaxRetries - 1, id : 0..MaxWrites]
    BY <1>5 DEF MomEvents!EventsInv, MomEvents!TypeOK, MomEvents!MaxRetries
  <2> QED BY <1>1, <1>2, <2>1, <2>2 DEF MomEvents!EventsInv, MomEvents!TypeOK, MomEvents!OneTimer, MomEvents!YetToRun, MomEvents!Readable
<1>6. CASE ~MomEvents!Readable /\ ~(r.tries + 1 < MomEvents!MaxRetries)
  <2>1. x6' = {} /\ MomEvents!DeleteFile(x4) /\ x7' = x7 /\ x8' = x8
    BY <1>1, <1>6 DEF MomEvents!Retry
  <2>2. x1' = MomEvents!Absent /\ x4' \in BOOLEAN /\ x5' = FALSE
    BY <1>3, <2>1 DEF MomEvents!DeleteFile
  <2>3. x8 \in [1..MaxWrites -> {0, 1}] /\ \A i \in 1..MaxWrites : x8[i] = 1 => i <= x9
    BY DEF MomEvents!EventsInv, MomEvents!YetToRun
  <2> QED BY <1>1, <1>2, <1>3, <2>1, <2>2, <2>3, EventsGone
<1> QED BY <1>4, <1>5, <1>6

LEMMA EventsFire ==
    ASSUME MomEvents!EventsInv, NEW t \in x7, MomEvents!FireTimer(t)
    PROVE  MomEvents!EventsInv'
<1>1. x7' = {}
  BY DEF MomEvents!EventsInv, MomEvents!OneTimer, MomEvents!FireTimer, MomEvents!Overwritten
<1>2. t.event \in MomEvents!Event /\ x8[t.event.id] = 0 /\ t.event.id <= x9 /\ x2 = TRUE
  BY DEF MomEvents!EventsInv, MomEvents!TypeOK, MomEvents!YetToRun, MomEvents!FireTimer
<1>3. x8' = [x8 EXCEPT ![t.event.id] = @ + 1] /\ t.event.id \in 1..MaxWrites
  BY <1>2 DEF MomEvents!FireTimer, MomEvents!Event
<1>4. x8' \in [1..MaxWrites -> {0, 1}] /\ \A i \in 1..MaxWrites : x8'[i] = 1 => i <= x9
  BY <1>2, <1>3 DEF MomEvents!EventsInv, MomEvents!YetToRun
<1>5. /\ x1' = MomEvents!Absent /\ x4' = (x4 \/ x1 # MomEvents!Absent) /\ x5' = FALSE
      /\ x2' = x2 /\ x3' = x3 /\ x6' = x6 /\ x9' = x9 /\ x10' = x10
  BY DEF MomEvents!FireTimer, MomEvents!DeleteFile
<1>6. x4' \in BOOLEAN /\ x3' \in 0..x9 /\ x10' \in Nat /\ x6' = {}
  BY <1>5 DEF MomEvents!EventsInv, MomEvents!OneTimer
<1> QED BY <1>1, <1>2, <1>4, <1>5, <1>6, EventsGone

LEMMA EventsBegin ==
    ASSUME MomEvents!EventsInv, NEW over \in BOOLEAN, MomEvents!Fits(over), MomEvents!Start(over)
    PROVE  MomEvents!EventsInv'
<1>1. x2 = FALSE /\ x7 = {} /\ x6 = {} /\ x4 = FALSE /\ x5 = FALSE
  BY DEF MomEvents!EventsInv, MomEvents!TypeOK, MomEvents!Start
<1>2. x2' = TRUE /\ x10' = x10 + 1 /\ x3' = x9 /\ x9' = x9
  BY DEF MomEvents!Start
<1>3. x3' \in 0..x9 /\ x10' \in Nat
  BY <1>2 DEF MomEvents!EventsInv
<1>4. CASE x1 = MomEvents!Absent
  <2>1. UNCHANGED <<x1, x4, x5, x6, x7, x8>>
    BY <1>4 DEF MomEvents!Start
  <2> QED BY <1>1, <1>2, <1>3, <2>1 DEF MomEvents!EventsInv, MomEvents!TypeOK, MomEvents!OneTimer, MomEvents!YetToRun, MomEvents!Readable
<1>5. CASE x1 # MomEvents!Absent
  <2>1. MomEvents!HandleFile(x7, over)
    BY <1>5 DEF MomEvents!Start
  <2> QED BY <1>1, <1>2, <1>3, <2>1, EventsHandleFile
<1> QED BY <1>4, <1>5

LEMMA EventsPut ==
    ASSUME MomEvents!EventsInv, MomEvents!Write \/ MomEvents!BeginWrite \/ MomEvents!Remove
    PROVE  MomEvents!EventsInv'
<1> USE EventsAssumption
<1>1. /\ x9' \in x9..MaxWrites /\ x1' \in MomEvents!Event \cup {MomEvents!Partial, MomEvents!Absent} /\ x1'.id <= x9'
      /\ x4' = x2 /\ UNCHANGED <<x2, x3, x5, x6, x7, x8, x10>>
      /\ x1'.kind = "immediate" => x8[x1'.id] = 0
  <2>1. CASE MomEvents!Write
    <3>1. PICK k \in EventKind : MomEvents!Put([kind |-> k, id |-> x9 + 1])
      BY <2>1 DEF MomEvents!Write
    <3>2. x9' = x9 + 1 /\ x9 + 1 \in 1..MaxWrites
      BY <2>1 DEF MomEvents!Write, MomEvents!EventsInv
    <3>3. x8[x9 + 1] = 0
      BY <3>2 DEF MomEvents!EventsInv, MomEvents!YetToRun
    <3> QED BY <3>1, <3>2, <3>3 DEF MomEvents!Put, MomEvents!bot, MomEvents!Event, MomEvents!EventsInv
  <2>2. CASE MomEvents!BeginWrite
    BY <2>2 DEF MomEvents!BeginWrite, MomEvents!Put, MomEvents!bot, MomEvents!Partial, MomEvents!EventsInv
  <2>3. CASE MomEvents!Remove
    BY <2>3 DEF MomEvents!Remove, MomEvents!Put, MomEvents!bot, MomEvents!Absent, MomEvents!EventsInv
  <2> QED BY <2>1, <2>2, <2>3
<1>2. (x7 # {} => x2 = TRUE) /\ (~x2 => x7 = {} /\ x6 = {} /\ ~x5)
  BY DEF MomEvents!EventsInv, MomEvents!TypeOK
<1>3. MomEvents!TypeOK'
  BY <1>1, <1>2 DEF MomEvents!EventsInv, MomEvents!TypeOK
<1>4. MomEvents!OneTimer'
  BY <1>1, <1>2 DEF MomEvents!EventsInv, MomEvents!OneTimer
<1>5. MomEvents!YetToRun'
  BY <1>1 DEF MomEvents!EventsInv, MomEvents!YetToRun
<1>6. x9' \in 1..MaxWrites /\ x3' \in 0..x9'
  BY <1>1 DEF MomEvents!EventsInv
<1>7. \A t \in x7' : t.event.id <= x9'
  BY <1>1 DEF MomEvents!EventsInv, MomEvents!TypeOK, MomEvents!Event
<1> QED BY <1>1, <1>3, <1>4, <1>5, <1>6, <1>7 DEF MomEvents!EventsInv

LEMMA EventsStart == ASSUME MomEvents!Init PROVE MomEvents!EventsInv
<1> USE EventsAssumption
<1>1. x1 \in MomEvents!Event \cup {MomEvents!Absent} /\ x1.id \in {0, 1} /\ x9 = 1
  BY DEF MomEvents!Init, MomEvents!Event, MomEvents!Absent
<1>2. /\ x2 = FALSE /\ x3 = 0 /\ x4 = FALSE /\ x5 = FALSE
      /\ x6 = {} /\ x7 = {} /\ x8 = [i \in 1..MaxWrites |-> 0] /\ x10 = 0
  BY DEF MomEvents!Init
<1>3. x1.kind = "immediate" => x1.id \in 1..MaxWrites
  BY <1>1 DEF MomEvents!Event, MomEvents!Absent
<1>4. MomEvents!TypeOK /\ MomEvents!OneTimer
  BY <1>1, <1>2 DEF MomEvents!TypeOK, MomEvents!OneTimer
<1>5. MomEvents!YetToRun
  BY <1>1, <1>2, <1>3 DEF MomEvents!YetToRun
<1>6. {x2, x4, x5} \subseteq BOOLEAN
  BY <1>2
<1>7. x9 \in 1..MaxWrites /\ x3 \in 0..x9 /\ x10 \in Nat /\ x1.id <= x9
  BY <1>1, <1>2
<1> QED BY <1>2, <1>4, <1>5, <1>6, <1>7 DEF MomEvents!EventsInv

LEMMA EventsSteps == ASSUME MomEvents!EventsInv, [MomEvents!Next]_MomEvents!vars PROVE MomEvents!EventsInv'
<1>1. CASE UNCHANGED MomEvents!vars
  BY <1>1 DEF MomEvents!vars, MomEvents!bot, MomEvents!EventsInv, MomEvents!TypeOK, MomEvents!OneTimer, MomEvents!YetToRun
<1>2. CASE MomEvents!Stop
  BY <1>2 DEF MomEvents!Stop, MomEvents!EventsInv, MomEvents!TypeOK, MomEvents!OneTimer, MomEvents!YetToRun, MomEvents!Readable
<1>3. CASE MomEvents!Next /\ ~MomEvents!Stop
  BY <1>3, EventsPut, EventsBegin, EventsChange, EventsRetry, EventsFire DEF MomEvents!Next
<1> QED BY <1>1, <1>2, <1>3

LEMMA EventsHold == ASSUME MomEvents!EventsInv PROVE MomEvents!RunOnce /\ MomEvents!DeletedIsCancelled
  BY DEF MomEvents!EventsInv, MomEvents!OneTimer, MomEvents!YetToRun, MomEvents!RunOnce, MomEvents!DeletedIsCancelled
-----------------------------------------------------------------------------
(* A channel of the Slack bot, where x1 is sent, x2 log, x3 context, x4    *)
(* saved, x5 answered, x6 queue, x7 current, x8 phase, x9 up, x10 started, *)
(* x11 come, x12 crashes; first some facts on numbers and sequences.       *)
LEMMA Least == ASSUME NEW S \in SUBSET Nat, S # {} PROVE \E m \in S : \A k \in S : m <= k
<1>1. PICK m \in S : \A k \in S : <<k, m>> \notin OpToRel(<, Nat)
  BY NatLessThanWellFounded, WFMin
<1>2. ASSUME NEW k \in S, k < m PROVE FALSE
  <2>1. <<k, m>> \in Nat \X Nat
    OBVIOUS
  <2>2. <<k, m>> \in OpToRel(<, Nat)
    BY <1>2, <2>1 DEF OpToRel
  <2> QED BY <1>1, <2>2
<1>3. \A k \in S : m <= k
  BY <1>2
<1> QED BY <1>3

LEMMA Greatest ==
    ASSUME NEW last \in Nat, NEW S \in SUBSET (1..last), S # {}
    PROVE  \E m \in S : \A k \in S : k <= m
<1> DEFINE FromEnd == {last - k : k \in S}
<1>1. FromEnd \in SUBSET Nat /\ FromEnd # {}
  <2>1. \A k \in S : last - k \in Nat
    OBVIOUS
  <2> QED BY <2>1
<1>2. PICK d \in FromEnd : \A e \in FromEnd : d <= e
  <2> HIDE DEF FromEnd
  <2> QED BY <1>1, Least
<1>3. PICK m \in S : d = last - m
  BY <1>2
<1>4. \A k \in S : last - k \in FromEnd
  OBVIOUS
<1>5. \A k \in S : last - m <= last - k
  BY <1>2, <1>3, <1>4
<1> HIDE DEF FromEnd
<1>6. \A k \in S : k <= m
  BY <1>3, <1>5
<1> QED BY <1>6

LEMMA ChannelSets ==
    /\ MomChannel!Message \cap MomChannel!Event = {} /\ MomChannel!Nothing \notin MomChannel!Message /\ MomChannel!Nothing \notin MomChannel!Event
    /\ MomChannel!Message \subseteq Nat /\ MomChannel!Event \subseteq Nat
  BY ChannelAssumption DEF MomChannel!Message, MomChannel!Event, MomChannel!Nothing

LEMMA ElementsOfSeq ==
    ASSUME NEW S, NEW s \in Seq(S)
    PROVE  /\ MomChannel!ToSet(s) \subseteq S
           /\ \A e : e \in MomChannel!ToSet(s) <=> \E i \in 1..Len(s) : s[i] = e
  BY DEF MomChannel!ToSet

LEMMA SeqOfMore == ASSUME NEW S, NEW T, S \subseteq T PROVE Seq(S) \subseteq Seq(T)
  OBVIOUS

LEMMA Appended ==
    ASSUME NEW S, NEW s \in Seq(S), NEW e \in S
    PROVE  /\ Append(s, e) \in Seq(S) /\ MomChannel!ToSet(Append(s, e)) = MomChannel!ToSet(s) \cup {e}
           /\ MomChannel!IsInjective(s) /\ e \notin MomChannel!ToSet(s) => MomChannel!IsInjective(Append(s, e))
           /\ MomChannel!IsPrefix(s, Append(s, e))
<1>1. Append(s, e) \in Seq(S) /\ Len(Append(s, e)) = Len(s) + 1
      /\ \A i \in 1..Len(s) + 1 : Append(s, e)[i] = IF i = Len(s) + 1 THEN e ELSE s[i]
  OBVIOUS
<1>2. MomChannel!ToSet(Append(s, e)) = MomChannel!ToSet(s) \cup {e}
  BY <1>1 DEF MomChannel!ToSet
<1>3. MomChannel!IsInjective(s) /\ e \notin MomChannel!ToSet(s) => MomChannel!IsInjective(Append(s, e))
  BY <1>1 DEF MomChannel!ToSet, MomChannel!IsInjective
<1>4. MomChannel!IsPrefix(s, Append(s, e))
  BY DEF MomChannel!IsPrefix
<1> QED BY <1>1, <1>2, <1>3, <1>4

LEMMA Joined ==
    ASSUME NEW S, NEW s \in Seq(S), NEW t \in Seq(S)
    PROVE  /\ s \o t \in Seq(S) /\ MomChannel!ToSet(s \o t) = MomChannel!ToSet(s) \cup MomChannel!ToSet(t)
           /\ MomChannel!IsInjective(s) /\ MomChannel!IsInjective(t) /\ MomChannel!ToSet(s) \cap MomChannel!ToSet(t) = {} => MomChannel!IsInjective(s \o t)
           /\ MomChannel!IsPrefix(s, s \o t)
<1>1. s \o t \in Seq(S) /\ Len(s \o t) = Len(s) + Len(t)
      /\ \A i \in 1..Len(s) + Len(t) : (s \o t)[i] = IF i <= Len(s) THEN s[i] ELSE t[i - Len(s)]
  OBVIOUS
<1>2. MomChannel!ToSet(s \o t) = MomChannel!ToSet(s) \cup MomChannel!ToSet(t)
  <2>1. ASSUME NEW e \in MomChannel!ToSet(t) PROVE e \in MomChannel!ToSet(s \o t)
    <3>1. PICK i \in 1..Len(t) : t[i] = e
      BY <2>1 DEF MomChannel!ToSet
    <3>2. (s \o t)[i + Len(s)] = e /\ i + Len(s) \in 1..Len(s \o t)
      BY <1>1, <3>1
    <3> QED BY <1>1, <3>2 DEF MomChannel!ToSet
  <2>2. ASSUME NEW e \in MomChannel!ToSet(s) PROVE e \in MomChannel!ToSet(s \o t)
    BY <1>1 DEF MomChannel!ToSet
  <2>3. ASSUME NEW e \in MomChannel!ToSet(s \o t) PROVE e \in MomChannel!ToSet(s) \cup MomChannel!ToSet(t)
    BY <1>1 DEF MomChannel!ToSet
  <2> QED BY <2>1, <2>2, <2>3
<1>3. ASSUME MomChannel!IsInjective(s), MomChannel!IsInjective(t), MomChannel!ToSet(s) \cap MomChannel!ToSet(t) = {}
      PROVE  MomChannel!IsInjective(s \o t)
  <2> SUFFICES ASSUME NEW i \in 1..Len(s) + Len(t), NEW j \in 1..Len(s) + Len(t),
                      (s \o t)[i] = (s \o t)[j]
               PROVE  i = j
    BY <1>1 DEF MomChannel!IsInjective
  <2>1. CASE i <= Len(s) /\ j <= Len(s)
    BY <1>1, <1>3, <2>1 DEF MomChannel!IsInjective
  <2>2. CASE i > Len(s) /\ j > Len(s)
    <3>1. t[i - Len(s)] = t[j - Len(s)] /\ i - Len(s) \in 1..Len(t) /\ j - Len(s) \in 1..Len(t)
      BY <1>1, <2>2
    <3>2. i - Len(s) = j - Len(s)
      BY <1>3, <3>1 DEF MomChannel!IsInjective
    <3> QED BY <3>2
  <2>3. \A k, l \in 1..Len(s) + Len(t) : k <= Len(s) /\ l > Len(s) => (s \o t)[k] # (s \o t)[l]
    <3>1. ASSUME NEW k \in 1..Len(s) + Len(t), NEW l \in 1..Len(s) + Len(t), k <= Len(s), l > Len(s)
          PROVE  (s \o t)[k] # (s \o t)[l]
      <4>1. (s \o t)[k] = s[k] /\ k \in 1..Len(s)
        BY <1>1, <3>1
      <4>2. (s \o t)[l] = t[l - Len(s)] /\ l - Len(s) \in 1..Len(t)
        BY <1>1, <3>1
      <4>3. s[k] \in MomChannel!ToSet(s) /\ t[l - Len(s)] \in MomChannel!ToSet(t)
        BY <4>1, <4>2 DEF MomChannel!ToSet
      <4> QED BY <1>3, <4>1, <4>2, <4>3
    <3> QED BY <3>1
  <2>4. (i <= Len(s) \/ i > Len(s)) /\ (j <= Len(s) \/ j > Len(s))
    OBVIOUS
  <2> QED BY <2>1, <2>2, <2>3, <2>4
<1>4. MomChannel!IsPrefix(s, s \o t)
  BY DEF MomChannel!IsPrefix
<1> QED BY <1>1, <1>2, <1>3, <1>4

LEMMA PrefixOfPrefix ==
    ASSUME NEW S, NEW r \in Seq(S), NEW s \in Seq(S), NEW t \in Seq(S), MomChannel!IsPrefix(r, s), MomChannel!IsPrefix(s, t)
    PROVE  MomChannel!IsPrefix(r, t)
<1>1. Len(r) <= Len(s) /\ Len(s) <= Len(t)
      /\ SubSeq(r, 1, Len(r)) = SubSeq(s, 1, Len(r)) /\ SubSeq(s, 1, Len(s)) = SubSeq(t, 1, Len(s))
  BY DEF MomChannel!IsPrefix
<1>2. \A i \in 1..Len(r) : r[i] = SubSeq(r, 1, Len(r))[i] /\ s[i] = SubSeq(s, 1, Len(r))[i]
                           /\ s[i] = SubSeq(s, 1, Len(s))[i] /\ t[i] = SubSeq(t, 1, Len(s))[i]
  BY <1>1
<1>3. \A i \in 1..Len(r) : r[i] = t[i]
  BY <1>1, <1>2
<1>4. SubSeq(r, 1, Len(r)) = SubSeq(t, 1, Len(r))
  BY <1>1, <1>3
<1> QED BY <1>1, <1>4 DEF MomChannel!IsPrefix

LEMMA PrefixHas ==
    ASSUME NEW S, NEW s \in Seq(S), NEW t \in Seq(S), MomChannel!IsPrefix(s, t)
    PROVE  /\ MomChannel!ToSet(s) \subseteq MomChannel!ToSet(t) /\ (MomChannel!IsInjective(t) => MomChannel!IsInjective(s))
           /\ MomChannel!IsPrefix(s, s) /\ MomChannel!IsPrefix(t, t)
<1>1. Len(s) <= Len(t) /\ SubSeq(s, 1, Len(s)) = SubSeq(t, 1, Len(s))
  BY DEF MomChannel!IsPrefix
<1>2. \A i \in 1..Len(s) : s[i] = SubSeq(s, 1, Len(s))[i] /\ t[i] = SubSeq(t, 1, Len(s))[i]
  BY <1>1
<1>3. \A i \in 1..Len(s) : s[i] = t[i]
  BY <1>1, <1>2
<1>4. MomChannel!ToSet(s) \subseteq MomChannel!ToSet(t) /\ (MomChannel!IsInjective(t) => MomChannel!IsInjective(s))
  BY <1>1, <1>3 DEF MomChannel!ToSet, MomChannel!IsInjective
<1> QED BY <1>4 DEF MomChannel!IsPrefix

(* A message is logged.                                                    *)
LEMMA ChannelLogs ==
    ASSUME MomChannel!ChannelInv, x2' \in Seq(1..x1'), x1' \in x1..MaxMessages,
           UNCHANGED MomChannel!run, x10' \in 0..x1', x11' = x11
    PROVE  MomChannel!ChannelInv'
<1>1. /\ x3' = x3 /\ x4' = x4 /\ x6' = x6
      /\ x7' = x7 /\ x8' = x8
  BY DEF MomChannel!run
<1>2. x1 \in Nat /\ 1..x1 \subseteq 1..x1' /\ 0..x1 \subseteq 0..x1' /\ x1' \in 0..MaxMessages
  BY ChannelAssumption DEF MomChannel!ChannelInv
<1>3. MomChannel!TypeOK'
  BY <1>1, <1>2 DEF MomChannel!ChannelInv, MomChannel!TypeOK
<1> QED BY <1>1, <1>2, <1>3 DEF MomChannel!ChannelInv

(* The handler takes up something new, which others wait for.              *)
LEMMA ChannelTakes ==
    ASSUME MomChannel!ChannelInv, x1' \in x1..MaxMessages, x2' \in Seq(1..x1'), x10' = x10,
           x11 \subseteq x11', x11' \subseteq MomChannel!Event, x7 = MomChannel!Nothing,
           x7' \in (x1 + 1)..x1' \cup (x11' \ x11), x8' = "typing",
           UNCHANGED <<x3, x4, x6>>
    PROVE  MomChannel!ChannelInv'
<1>1. /\ x1 \in Nat /\ 1..x1 \subseteq 1..x1' /\ 0..x1 \subseteq 0..x1'
      /\ x1' \in 0..MaxMessages /\ x10' \in 0..x1'
  BY ChannelAssumption DEF MomChannel!ChannelInv
<1>2. x6 = << >>
  BY DEF MomChannel!ChannelInv, MomChannel!TypeOK
<1>3. x7' # MomChannel!Nothing /\ x7' \in 0..x1' \cup x11'
  BY <1>1, ChannelSets, ChannelAssumption DEF MomChannel!Nothing, MomChannel!Event
<1>4. x7' \notin MomChannel!ToSet(x3)
  <2>1. (x1 + 1)..x1' \subseteq MomChannel!Message /\ \A m \in (x1 + 1)..x1' : m \notin 1..x1
    BY <1>1, ChannelAssumption DEF MomChannel!Message
  <2> QED BY <2>1, ChannelSets DEF MomChannel!ChannelInv, MomChannel!TypeOK
<1>5. MomChannel!ToSet(x6) = {}
  BY <1>2 DEF MomChannel!ToSet
<1>6. MomChannel!TypeOK'
  BY <1>1, <1>2, <1>3 DEF MomChannel!ChannelInv, MomChannel!TypeOK
<1> QED BY <1>1, <1>2, <1>3, <1>4, <1>5, <1>6 DEF MomChannel!ChannelInv

LEMMA ChannelMention ==
    ASSUME MomChannel!ChannelInv, MomChannel!Mention \/ MomChannel!Chatter
    PROVE  MomChannel!ChannelInv'
<1>1. /\ x1' = x1 + 1 /\ x1' \in x1..MaxMessages /\ x2' = Append(x2, x1')
      /\ UNCHANGED <<x3, x4, x5, x6, x10, x11>>
  BY ChannelAssumption DEF MomChannel!Mention, MomChannel!Chatter, MomChannel!run, MomChannel!ChannelInv
<1>2. x2 \in Seq(1..x1') /\ x1' \in 1..x1'
  BY <1>1, ChannelAssumption DEF MomChannel!ChannelInv, MomChannel!TypeOK
<1>3. x2' \in Seq(1..x1') /\ x10 \in 0..x1'
  BY <1>1, <1>2, ChannelAssumption DEF MomChannel!ChannelInv
<1>4. CASE UNCHANGED <<x7, x8>>
  BY <1>1, <1>3, <1>4, ChannelLogs DEF MomChannel!run
<1>5. CASE ~UNCHANGED <<x7, x8>>
  <2>1. x7 = MomChannel!Nothing /\ x7' = x1' /\ x8' = "typing"
    BY <1>5 DEF MomChannel!Mention, MomChannel!Chatter, MomChannel!run
  <2>2. x7' \in (x1 + 1)..x1' /\ x11 \subseteq x11' /\ x11' \subseteq MomChannel!Event
    BY <1>1, <2>1 DEF MomChannel!ChannelInv
  <2> QED BY <1>1, <1>3, <2>1, <2>2, ChannelTakes
<1> QED BY <1>4, <1>5

LEMMA ChannelEnqueue ==
    ASSUME MomChannel!ChannelInv, NEW e \in MomChannel!Event, MomChannel!Enqueue(e)
    PROVE  MomChannel!ChannelInv'
<1>1. /\ e \notin x11 /\ x11' = x11 \cup {e}
      /\ UNCHANGED <<x1, x2, x3, x4, x5, x9, x10>>
  BY DEF MomChannel!Enqueue
<1>5. Len(x6) \in Nat
  BY DEF MomChannel!ChannelInv, MomChannel!TypeOK
<1>2. CASE Len(x6) < MaxQueue /\ x7 = MomChannel!Nothing
  <2>1. x7' = e /\ x8' = "typing" /\ x6' = x6
    BY <1>2, <1>5, ChannelAssumption DEF MomChannel!Enqueue
  <2>2. x1' \in x1..MaxMessages /\ x11' \subseteq MomChannel!Event
    BY <1>1, ChannelAssumption DEF MomChannel!ChannelInv
  <2>3. x2' \in Seq(1..x1')
    BY <1>1 DEF MomChannel!ChannelInv, MomChannel!TypeOK
  <2> QED BY <1>1, <1>2, <2>1, <2>2, <2>3, ChannelTakes
<1>3. CASE Len(x6) < MaxQueue /\ x7 # MomChannel!Nothing
  <2>1. x6' = Append(x6, e) /\ UNCHANGED <<x7, x8>>
    BY <1>3, <1>5, ChannelAssumption DEF MomChannel!Enqueue
  <2>2. x6 \in Seq(MomChannel!Event) /\ e \notin MomChannel!ToSet(x6) /\ e \notin MomChannel!ToSet(x3)
    BY <1>1 DEF MomChannel!ChannelInv, MomChannel!TypeOK
  <2>5. x7 # e
    BY <1>1, ChannelAssumption DEF MomChannel!ChannelInv, MomChannel!Event
  <2>3. /\ x6' \in Seq(MomChannel!Event) /\ MomChannel!ToSet(x6') = MomChannel!ToSet(x6) \cup {e}
        /\ MomChannel!IsInjective(x6') /\ Len(x6') <= MaxQueue
    <3>1. Len(Append(x6, e)) = Len(x6) + 1 /\ Len(x6) \in Nat
      BY <2>2
    <3>2. Len(Append(x6, e)) <= MaxQueue
      BY <1>3, <3>1, ChannelAssumption
    <3> QED BY <2>1, <2>2, <3>2, Appended DEF MomChannel!ChannelInv
  <2>4. MomChannel!TypeOK'
    BY <1>1, <1>3, <2>1, <2>3 DEF MomChannel!ChannelInv, MomChannel!TypeOK
  <2> QED BY <1>1, <2>1, <2>2, <2>3, <2>4, <2>5 DEF MomChannel!ChannelInv
<1>4. CASE Len(x6) >= MaxQueue
  <2>1. UNCHANGED <<x6, x7, x8>>
    BY <1>4 DEF MomChannel!Enqueue
  <2> QED BY <1>1, <2>1 DEF MomChannel!ChannelInv, MomChannel!TypeOK
<1> QED BY <1>2, <1>3, <1>4, <1>5, ChannelAssumption

(* What is synced is new to the conversation, and not the message at hand. *)
LEMMA ChannelSynced ==
    ASSUME MomChannel!ChannelInv, NEW s \in MomChannel!Ascending(MomChannel!Unsynced)
    PROVE  /\ s \in Seq(1..x1 \cup MomChannel!Event) /\ s \in Seq(MomChannel!Message \cup MomChannel!Event)
           /\ MomChannel!IsInjective(s) /\ x7 \notin MomChannel!ToSet(s) /\ MomChannel!ToSet(s) \subseteq 1..x1
           /\ MomChannel!ToSet(s) \cap MomChannel!ToSet(x3) = {}
<1>1. MomChannel!Unsynced \subseteq MomChannel!ToSet(x2) \ {x7} /\ MomChannel!ToSet(x2) \subseteq 1..x1 /\ x1 \in Nat
  BY ElementsOfSeq, ChannelAssumption DEF MomChannel!Unsynced, MomChannel!ChannelInv, MomChannel!TypeOK
<1>2. IsFiniteSet(MomChannel!Unsynced)
  <2>1. IsFiniteSet(1..x1)
    BY <1>1, FS_Interval
  <2> QED BY <1>1, <2>1, FS_Subset
<1>3. Cardinality(MomChannel!Unsynced) \in Nat
  BY <1>2, FS_CardinalityType
<1>4. s \in [1..Cardinality(MomChannel!Unsynced) -> MomChannel!Unsynced]
      /\ \A i, j \in 1..Cardinality(MomChannel!Unsynced) : i < j => s[i] < s[j]
  BY DEF MomChannel!Ascending, Cardinality, MomChannel!Cardinality
<1>5. s \in Seq(MomChannel!Unsynced) /\ DOMAIN s = 1..Cardinality(MomChannel!Unsynced)
  BY <1>3, <1>4
<1>6. MomChannel!IsInjective(s)
  <2> SUFFICES ASSUME NEW i \in DOMAIN s, NEW j \in DOMAIN s, s[i] = s[j], i # j
               PROVE  FALSE
    BY DEF MomChannel!IsInjective
  <2>1. s[i] \in Nat /\ s[j] \in Nat /\ i \in Nat /\ j \in Nat
    BY <1>1, <1>3, <1>4, <1>5
  <2>2. s[i] < s[j] \/ s[j] < s[i]
    BY <1>4, <1>5, <2>1
  <2> QED BY <2>1, <2>2
<1>7. MomChannel!ToSet(s) \subseteq MomChannel!Unsynced
  BY <1>5, ElementsOfSeq
<1>8. MomChannel!Unsynced \cap MomChannel!ToSet(x3) = {}
  <2> SUFFICES ASSUME NEW m \in MomChannel!Unsynced, m \in MomChannel!ToSet(x3) PROVE FALSE
    OBVIOUS
  <2>1. TextOf[m] \notin MomChannel!Texts(x3)
    BY DEF MomChannel!Unsynced
  <2>2. m \in MomChannel!Message
    BY <1>1, ChannelAssumption DEF MomChannel!Message, MomChannel!ChannelInv
  <2> QED BY <2>1, <2>2 DEF MomChannel!Texts
<1>9. s \in Seq(1..x1 \cup MomChannel!Event) /\ s \in Seq(MomChannel!Message \cup MomChannel!Event)
  <2>1. MomChannel!Unsynced \subseteq 1..x1 \cup MomChannel!Event /\ MomChannel!Unsynced \subseteq MomChannel!Message \cup MomChannel!Event
    BY <1>1, ChannelAssumption DEF MomChannel!ChannelInv, MomChannel!Message
  <2> QED BY <1>5, <2>1, SeqOfMore
<1> QED BY <1>1, <1>6, <1>7, <1>8, <1>9

(* The conversation grows.                                                 *)
LEMMA ChannelGrows ==
    ASSUME MomChannel!ChannelInv, NEW s \in Seq(1..x1 \cup MomChannel!Event), x3' = x3 \o s,
           MomChannel!ToSet(s) \cap MomChannel!Event \subseteq x11, MomChannel!IsInjective(x3'), x5' = x5, MomChannel!Save,
           MomChannel!ToSet(s) \cap MomChannel!ToSet(x6) = {}, x7 # MomChannel!Nothing,
           x8' \in {"synced", "prompting"},
           x8' = "synced" => x8 = "typing" /\ x7 \notin MomChannel!ToSet(s),
           UNCHANGED <<x1, x2, x6, x7, x10, x11>>
    PROVE  MomChannel!ChannelInv'
<1>1. /\ x3 \in Seq(MomChannel!Message \cup MomChannel!Event) /\ 1..x1 \subseteq MomChannel!Message
      /\ MomChannel!ToSet(x3) \subseteq 1..x1 \cup MomChannel!Event
  BY ChannelAssumption DEF MomChannel!ChannelInv, MomChannel!TypeOK, MomChannel!Message
<1>2. s \in Seq(MomChannel!Message \cup MomChannel!Event) /\ MomChannel!ToSet(s) \subseteq 1..x1 \cup MomChannel!Event
  BY <1>1, ElementsOfSeq
<1>3. /\ x3' \in Seq(MomChannel!Message \cup MomChannel!Event) /\ MomChannel!ToSet(x3') = MomChannel!ToSet(x3) \cup MomChannel!ToSet(s)
      /\ MomChannel!IsPrefix(x3, x3')
  BY <1>1, <1>2, Joined
<1>4. x4' \in Seq(MomChannel!Message \cup MomChannel!Event) /\ MomChannel!IsPrefix(x4', x3')
  <2>1. CASE x4' = x3'
    BY <1>1, <1>3, <2>1, PrefixHas
  <2>2. CASE x4' = x4
    BY <1>1, <1>3, <2>2, PrefixOfPrefix DEF MomChannel!ChannelInv, MomChannel!TypeOK
  <2> QED BY <2>1, <2>2 DEF MomChannel!Save
<1>5. MomChannel!TypeOK'
  BY <1>1, <1>2, <1>3, <1>4 DEF MomChannel!ChannelInv, MomChannel!TypeOK
<1> QED BY <1>1, <1>2, <1>3, <1>4, <1>5 DEF MomChannel!ChannelInv

LEMMA ChannelSync == ASSUME MomChannel!ChannelInv, MomChannel!Sync PROVE MomChannel!ChannelInv'
<1>1. PICK s \in MomChannel!Ascending(MomChannel!Unsynced) : x3' = x3 \o s
  BY DEF MomChannel!Sync
<1>2. /\ s \in Seq(1..x1 \cup MomChannel!Event) /\ s \in Seq(MomChannel!Message \cup MomChannel!Event)
      /\ MomChannel!IsInjective(s) /\ x7 \notin MomChannel!ToSet(s) /\ MomChannel!ToSet(s) \subseteq 1..x1
      /\ MomChannel!ToSet(s) \cap MomChannel!ToSet(x3) = {}
  BY ChannelSynced
<1>4. MomChannel!IsInjective(x3')
  BY <1>1, <1>2, Joined DEF MomChannel!ChannelInv
<1>5. MomChannel!ToSet(s) \cap MomChannel!Event = {} /\ MomChannel!ToSet(s) \cap MomChannel!ToSet(x6) = {}
  <2>1. 1..x1 \subseteq MomChannel!Message /\ MomChannel!ToSet(x6) \subseteq MomChannel!Event
    BY ChannelAssumption DEF MomChannel!ChannelInv, MomChannel!Message
  <2> QED BY <1>2, <2>1, ChannelSets
<1>6. /\ x8 = "typing" /\ x8' = "synced" /\ x7 # MomChannel!Nothing /\ x5' = x5 /\ MomChannel!Save
      /\ UNCHANGED <<x1, x2, x6, x7, x10, x11>>
  BY DEF MomChannel!Sync, MomChannel!ChannelInv, MomChannel!TypeOK
<1> HIDE DEF MomChannel!Save
<1> QED BY <1>1, <1>2, <1>4, <1>5, <1>6, ChannelGrows

LEMMA ChannelPrompt == ASSUME MomChannel!ChannelInv, MomChannel!Prompt PROVE MomChannel!ChannelInv'
<1>1. /\ x8 = "synced" /\ x8' = "prompting" /\ x7 # MomChannel!Nothing /\ x5' = x5 /\ MomChannel!Save
      /\ UNCHANGED <<x1, x2, x6, x7, x10, x11>> /\ x3' = Append(x3, x7)
  BY DEF MomChannel!Prompt, MomChannel!ChannelInv, MomChannel!TypeOK
<1>2. /\ x7 \in 1..x1 \cup x11 /\ x7 \in 1..x1 \cup MomChannel!Event /\ x7 \in MomChannel!Message \cup MomChannel!Event
      /\ x7 \notin MomChannel!ToSet(x6)
  BY <1>1, ChannelAssumption DEF MomChannel!ChannelInv, MomChannel!Message, MomChannel!Nothing
<1>3. x3' = x3 \o <<x7>> /\ x3 \in Seq(MomChannel!Message \cup MomChannel!Event)
  BY <1>1, <1>2 DEF MomChannel!ChannelInv
<1>4. MomChannel!IsInjective(x3')
  BY <1>1, <1>2, Appended DEF MomChannel!ChannelInv
<1>5. <<x7>> \in Seq(1..x1 \cup MomChannel!Event) /\ MomChannel!ToSet(<<x7>>) = {x7}
  BY <1>2 DEF MomChannel!ToSet
<1>6. {x7} \cap MomChannel!Event \subseteq x11
  BY <1>2, ChannelSets, ChannelAssumption DEF MomChannel!Message, MomChannel!ChannelInv
<1> HIDE DEF MomChannel!Save
<1> QED BY <1>1, <1>2, <1>3, <1>4, <1>5, <1>6, ChannelGrows

(* The handler goes on with what waits.                                    *)
LEMMA ChannelNext ==
    ASSUME MomChannel!ChannelInv, MomChannel!HandleNext, x4' \in {x4, x3}, x7 # MomChannel!Nothing,
           UNCHANGED <<x1, x2, x3, x10, x11>>
    PROVE  MomChannel!ChannelInv'
<1>1. x3 \in Seq(MomChannel!Message \cup MomChannel!Event) /\ MomChannel!IsPrefix(x4, x3) /\ x4 \in Seq(MomChannel!Message \cup MomChannel!Event)
  BY DEF MomChannel!ChannelInv, MomChannel!TypeOK
<1>2. x4' \in Seq(MomChannel!Message \cup MomChannel!Event) /\ MomChannel!IsPrefix(x4', x3')
  BY <1>1, PrefixHas
<1>3. CASE x6 = << >>
  <2>1. x7' = MomChannel!Nothing /\ x8' = "none" /\ x6' = x6
    BY <1>3 DEF MomChannel!HandleNext
  <2>2. MomChannel!ToSet(x6) = {} /\ MomChannel!Nothing \in 0..x1
    BY <1>3, ChannelAssumption DEF MomChannel!ToSet, MomChannel!Nothing, MomChannel!ChannelInv
  <2>3. MomChannel!TypeOK'
    BY <1>2, <1>3, <2>1 DEF MomChannel!ChannelInv, MomChannel!TypeOK
  <2> QED BY <1>2, <2>1, <2>2, <2>3 DEF MomChannel!ChannelInv
<1>4. CASE x6 # << >>
  <2>1. x7' = Head(x6) /\ x6' = Tail(x6) /\ x8' = "typing" /\ x6 \in Seq(MomChannel!Event)
    BY <1>4 DEF MomChannel!HandleNext, MomChannel!ChannelInv, MomChannel!TypeOK
  <2>2. /\ Len(x6) >= 1 /\ Head(x6) = x6[1] /\ Head(x6) \in MomChannel!Event
        /\ Tail(x6) \in Seq(MomChannel!Event) /\ Len(Tail(x6)) = Len(x6) - 1
        /\ \A i \in 1..Len(x6) - 1 : Tail(x6)[i] = x6[i + 1]
    BY <1>4, <2>1
  <2>3. Head(x6) \in MomChannel!ToSet(x6) /\ MomChannel!ToSet(Tail(x6)) \subseteq MomChannel!ToSet(x6)
    BY <2>1, <2>2 DEF MomChannel!ToSet
  <2>4. MomChannel!IsInjective(Tail(x6)) /\ Head(x6) \notin MomChannel!ToSet(Tail(x6))
    <3>1. \A i, j \in 1..Len(x6) : x6[i] = x6[j] => i = j
      BY <2>1 DEF MomChannel!ChannelInv, MomChannel!IsInjective
    <3>2. DOMAIN Tail(x6) = 1..Len(x6) - 1
      BY <2>1, <2>2
    <3>3. ASSUME NEW i \in 1..Len(x6) - 1, NEW j \in 1..Len(x6) - 1, Tail(x6)[i] = Tail(x6)[j]
          PROVE  i = j
      <4>1. i + 1 \in 1..Len(x6) /\ j + 1 \in 1..Len(x6) /\ x6[i + 1] = x6[j + 1]
        BY <2>1, <2>2, <3>3
      <4>2. i + 1 = j + 1
        BY <3>1, <4>1
      <4> QED BY <4>2
    <3>4. ASSUME NEW i \in 1..Len(x6) - 1, Tail(x6)[i] = x6[1]
          PROVE  FALSE
      <4>1. i + 1 \in 1..Len(x6) /\ 1 \in 1..Len(x6) /\ x6[i + 1] = x6[1]
        BY <2>1, <2>2, <3>4
      <4>2. i + 1 = 1
        BY <3>1, <4>1
      <4> QED BY <4>2
    <3> QED BY <2>2, <3>2, <3>3, <3>4 DEF MomChannel!IsInjective, MomChannel!ToSet
  <2>5. Head(x6) # MomChannel!Nothing /\ Head(x6) \in x11 /\ Head(x6) \notin MomChannel!ToSet(x3)
    BY <2>2, <2>3, ChannelSets DEF MomChannel!ChannelInv
  <2>6. MomChannel!TypeOK'
    BY <1>2, <2>1, <2>2, <2>5, ChannelAssumption DEF MomChannel!ChannelInv, MomChannel!TypeOK
  <2> QED BY <1>2, <2>1, <2>3, <2>4, <2>5, <2>6 DEF MomChannel!ChannelInv
<1> QED BY <1>3, <1>4

LEMMA ChannelCrash == ASSUME MomChannel!ChannelInv, MomChannel!Crash PROVE MomChannel!ChannelInv'
<1>1. /\ x3' = x4 /\ x6' = << >> /\ x7' = MomChannel!Nothing /\ x8' = "none"
      /\ UNCHANGED <<x1, x2, x4, x10, x11>>
  BY DEF MomChannel!Crash
<1>2. x3 \in Seq(MomChannel!Message \cup MomChannel!Event) /\ MomChannel!IsPrefix(x4, x3) /\ x4 \in Seq(MomChannel!Message \cup MomChannel!Event)
  BY DEF MomChannel!ChannelInv, MomChannel!TypeOK
<1>7. MomChannel!IsInjective(x3)
  BY DEF MomChannel!ChannelInv
<1>3. MomChannel!ToSet(x4) \subseteq MomChannel!ToSet(x3) /\ MomChannel!IsInjective(x4) /\ MomChannel!IsPrefix(x4, x4)
  BY <1>2, <1>7, PrefixHas
<1>4. << >> \in Seq(MomChannel!Event) /\ Len(<< >>) = 0 /\ MomChannel!ToSet(<< >>) = {} /\ MomChannel!IsInjective(<< >>)
  BY DEF MomChannel!ToSet, MomChannel!IsInjective
<1>5. MomChannel!Nothing \in 0..x1
  BY ChannelAssumption DEF MomChannel!Nothing, MomChannel!ChannelInv
<1>6. MomChannel!TypeOK'
  BY <1>1, <1>2, <1>3, <1>4, ChannelAssumption DEF MomChannel!ChannelInv, MomChannel!TypeOK
<1> QED BY <1>1, <1>2, <1>3, <1>4, <1>5, <1>6 DEF MomChannel!ChannelInv

(* The latest message of the log is one that was sent.                     *)
LEMMA ChannelUp == ASSUME MomChannel!ChannelInv, MomChannel!Start PROVE MomChannel!ChannelInv'
<1> DEFINE latest == IF x2 = << >> THEN x1
                     ELSE CHOOSE m \in MomChannel!ToSet(x2) : \A k \in MomChannel!ToSet(x2) : k <= m
           missed == [i \in 1..(x1 - latest) |-> latest + i]
<1>1. x2 \in Seq(1..x1) /\ x1 \in Nat /\ x1 \in x1..MaxMessages
  BY ChannelAssumption DEF MomChannel!ChannelInv, MomChannel!TypeOK
<1>2. latest \in 0..x1
  <2>1. CASE x2 = << >>
    BY <1>1, <2>1
  <2>2. CASE x2 # << >>
    <3>1. MomChannel!ToSet(x2) \subseteq 1..x1 /\ 1 \in 1..Len(x2)
      BY <1>1, <2>2, ElementsOfSeq
    <3>2. MomChannel!ToSet(x2) # {}
      BY <1>1, <3>1 DEF MomChannel!ToSet
    <3>3. IsFiniteSet(MomChannel!ToSet(x2))
      BY <1>1, <3>1, FS_Interval, FS_Subset
    <3>4. \E m \in MomChannel!ToSet(x2) : \A k \in MomChannel!ToSet(x2) : k <= m
      BY <1>1, <3>1, <3>2, Greatest
    <3>5. latest \in MomChannel!ToSet(x2)
      BY <2>2, <3>4
    <3> QED BY <1>1, <3>1, <3>5
  <2> QED BY <2>1, <2>2
<1> HIDE DEF latest
<1>3. missed \in Seq(1..x1)
  BY <1>1, <1>2
<1>4. x2' = x2 \o missed /\ x10' = x1 /\ UNCHANGED <<x1, MomChannel!run, x11>>
  BY DEF MomChannel!Start, latest
<1>5. x2' \in Seq(1..x1')
  BY <1>1, <1>3, <1>4
<1> QED BY <1>1, <1>4, <1>5, ChannelLogs

LEMMA ChannelStart == ASSUME MomChannel!Init PROVE MomChannel!ChannelInv
<1>1. /\ x1 = 0 /\ x2 = << >> /\ x3 = << >> /\ x4 = << >> /\ x6 = << >>
      /\ x7 = MomChannel!Nothing /\ x8 = "none" /\ x10 = 0 /\ x11 = {}
  BY DEF MomChannel!Init
<1>2. << >> \in Seq(MomChannel!Message \cup MomChannel!Event)
  OBVIOUS
<1>3. << >> \in Seq(MomChannel!Event)
  OBVIOUS
<1>4. << >> \in Seq(1..0)
  OBVIOUS
<1>5. MomChannel!ToSet(<< >>) = {} /\ MomChannel!IsInjective(<< >>) /\ MomChannel!IsPrefix(<< >>, << >>) /\ Len(<< >>) = 0
  BY DEF MomChannel!ToSet, MomChannel!IsInjective, MomChannel!IsPrefix
<1>6. MomChannel!TypeOK
  BY <1>1, <1>3, <1>4, <1>5, ChannelAssumption DEF MomChannel!TypeOK
<1> QED BY <1>1, <1>2, <1>5, <1>6, ChannelAssumption DEF MomChannel!ChannelInv, MomChannel!Nothing

LEMMA ChannelSteps == ASSUME MomChannel!ChannelInv, [MomChannel!Next]_MomChannel!vars PROVE MomChannel!ChannelInv'
<1>1. CASE UNCHANGED MomChannel!vars
  BY <1>1 DEF MomChannel!vars, MomChannel!run, MomChannel!ChannelInv, MomChannel!TypeOK
<1>2. ASSUME NEW m \in MomChannel!Message, MomChannel!Replay(m) PROVE MomChannel!ChannelInv'
  <2>1. m \in 1..x1 /\ x2' = Append(x2, m) /\ UNCHANGED <<x1, MomChannel!run, x9, x10, x11>>
    BY <1>2, ChannelAssumption DEF MomChannel!Replay, MomChannel!ChannelInv, MomChannel!Message
  <2>2. x2' \in Seq(1..x1') /\ x1' \in x1..MaxMessages /\ x10' \in 0..x1'
    BY <2>1, ChannelAssumption DEF MomChannel!ChannelInv, MomChannel!TypeOK
  <2> QED BY <2>1, <2>2, ChannelLogs
<1>3. CASE MomChannel!Answer
  <2>1. /\ MomChannel!HandleNext /\ x4' = x3 /\ x7 # MomChannel!Nothing
        /\ UNCHANGED <<x1, x2, x3, x10, x11>>
    BY <1>3 DEF MomChannel!Answer, MomChannel!ChannelInv, MomChannel!TypeOK
  <2> QED BY <2>1, ChannelNext
<1>4. CASE MomChannel!Refuse
  <2>1. /\ MomChannel!HandleNext /\ x4' = x4 /\ x7 # MomChannel!Nothing
        /\ UNCHANGED <<x1, x2, x3, x10, x11>>
    BY <1>4 DEF MomChannel!Refuse, MomChannel!ChannelInv, MomChannel!TypeOK
  <2> QED BY <2>1, ChannelNext
<1>5. CASE MomChannel!SendToNobody
  <2>1. x1' = x1 + 1 /\ x1' \in x1..MaxMessages /\ UNCHANGED <<x2, MomChannel!run, x10, x11>>
    BY <1>5, ChannelAssumption DEF MomChannel!SendToNobody, MomChannel!ChannelInv
  <2>2. 1..x1 \subseteq 1..x1' /\ x10' \in 0..x1'
    BY <2>1, ChannelAssumption DEF MomChannel!ChannelInv
  <2>3. x2' \in Seq(1..x1')
    BY <2>1, <2>2 DEF MomChannel!ChannelInv, MomChannel!TypeOK
  <2> QED BY <2>1, <2>2, <2>3, ChannelLogs
<1> QED BY <1>1, <1>2, <1>3, <1>4, <1>5, ChannelMention, ChannelEnqueue, ChannelSync, ChannelPrompt,
           ChannelCrash, ChannelUp DEF MomChannel!Next

LEMMA ChannelHolds == ASSUME MomChannel!ChannelInv PROVE MomChannel!NothingSaidTwice
  BY DEF MomChannel!ChannelInv, MomChannel!NothingSaidTwice
-----------------------------------------------------------------------------
(* In whatever order a file changes, its handler runs and the bot is       *)
(* started, an event that is to be run once is run once, and nothing is    *)
(* armed for a file that is gone (EventsWatcher); however messages are     *)
(* logged, replayed and fetched, and the bot crashes, none is twice in the *)
(* conversation (syncLogToSessionManager): for each alone, and for the     *)
(* behaviours of MCServices.                                               *)
THEOREM HeardAlwaysOnce ==
    /\ MomEvents!Spec => [](MomEvents!RunOnce /\ MomEvents!DeletedIsCancelled)
    /\ MomChannel!Spec => []MomChannel!NothingSaidTwice
    /\ ServicesSpec => []HeardOnce
<1>1. MomEvents!Spec => [](MomEvents!RunOnce /\ MomEvents!DeletedIsCancelled)
  BY EventsStart, EventsSteps, EventsHold, PTL DEF MomEvents!Spec
<1>2. MomChannel!Spec => []MomChannel!NothingSaidTwice
  BY ChannelStart, ChannelSteps, ChannelHolds, PTL DEF MomChannel!Spec
<1> DEFINE Inv == /\ part = "mom events" => MomEvents!EventsInv
                  /\ part = "mom channel" => MomChannel!ChannelInv
<1>3. ServicesInit => Inv
  BY EventsStart, ChannelStart DEF ServicesInit
<1>4. Inv /\ [ServicesNext]_services => Inv'
  <2> SUFFICES ASSUME Inv, [ServicesNext]_services PROVE Inv'
    OBVIOUS
  <2>1. part' = part
    BY DEF ServicesNext, services
  <2>2. CASE part = "mom events"
    <3>1. [MomEvents!Next]_MomEvents!vars
      BY <2>2 DEF ServicesNext, services, xs, MomEvents!vars, MomEvents!bot
    <3> QED BY <2>1, <2>2, <3>1, EventsSteps
  <2>3. CASE part = "mom channel"
    <3>1. [MomChannel!Next]_MomChannel!vars
      BY <2>3 DEF ServicesNext, services, xs, MomChannel!vars, MomChannel!run
    <3> QED BY <2>1, <2>3, <3>1, ChannelSteps
  <2> QED BY <2>1, <2>2, <2>3
<1>5. Inv => HeardOnce
  BY EventsHold, ChannelHolds DEF HeardOnce
<1>6. ServicesSpec => []HeardOnce
  BY <1>3, <1>4, <1>5, PTL DEF ServicesSpec
<1> QED BY <1>1, <1>2, <1>6
-----------------------------------------------------------------------------
(* Models on a pod, where x1 is models, x2 command, x3 script, x4 process, *)
(* x5 odd; first what a command is after a step of it.                     *)
Frame(c) ==
    /\ c \in DOMAIN x2 /\ x2' \in Seq(Pods!Command) /\ DOMAIN x2' = DOMAIN x2
    /\ \A d \in DOMAIN x2 : d # c => x2'[d] = x2[d]
    /\ x2'[c].kind = x2[c].kind /\ x2'[c].name = x2[c].name

LEMMA ChangedAt ==
    ASSUME NEW S, NEW s \in Seq(S), NEW c \in DOMAIN s, NEW v \in S
    PROVE  /\ [s EXCEPT ![c] = v] \in Seq(S) /\ DOMAIN [s EXCEPT ![c] = v] = DOMAIN s
           /\ [s EXCEPT ![c] = v][c] = v
           /\ \A d \in DOMAIN s : d # c => [s EXCEPT ![c] = v][d] = s[d]
<1>1. Len(s) \in Nat /\ DOMAIN s = 1..Len(s) /\ s \in [1..Len(s) -> S]
  OBVIOUS
<1>2. [s EXCEPT ![c] = v] \in [1..Len(s) -> S]
  BY <1>1
<1> QED BY <1>1, <1>2

LEMMA PodsFields ==
    ASSUME Pods!TypeOK
    PROVE  /\ \A c \in DOMAIN x2 : x2[c] \in Pods!Command
           /\ \A p \in DOMAIN x4 : x4[p] \in Pods!Runner /\ p \in Nat \ {0}
           /\ DOMAIN x2 = 1..Len(x2) /\ Len(x2) \in Nat
           /\ DOMAIN x4 = 1..Len(x4) /\ Len(x4) \in Nat
<1>1. x2 \in Seq(Pods!Command) /\ x4 \in Seq(Pods!Runner)
  BY DEF Pods!TypeOK
<1>2. \A c \in DOMAIN x2 : x2[c] \in Pods!Command
  BY <1>1
<1>3. \A p \in DOMAIN x4 : x4[p] \in Pods!Runner
  BY <1>1
<1>4. /\ DOMAIN x2 = 1..Len(x2) /\ Len(x2) \in Nat
      /\ DOMAIN x4 = 1..Len(x4) /\ Len(x4) \in Nat
  BY <1>1
<1> QED BY <1>2, <1>3, <1>4

LEMMA PodsSteps ==
    ASSUME Pods!TypeOK, NEW c \in DOMAIN x2, NEW to \in Pods!Ssh \cup {"watch", "over"}, Pods!Step(c, to)
    PROVE  /\ Frame(c) /\ x2'[c].step = to /\ x2'[c].port = x2[c].port
           /\ x2'[c].gpu = x2[c].gpu /\ x2'[c].pids = x2[c].pids
           /\ x2'[c].pid = x2[c].pid /\ x2'[c].failed = x2[c].failed
           /\ x2'[c].heard = x2[c].heard
<1>1. x2[c] \in Pods!Command
  BY PodsFields
<1>2. x2' = [x2 EXCEPT ![c] = [x2[c] EXCEPT !.step = to]]
  BY DEF Pods!Step
<1>3. [x2[c] EXCEPT !.step = to] \in Pods!Command
  BY <1>1 DEF Pods!Command
<1>4. x2' \in Seq(Pods!Command) /\ DOMAIN x2' = DOMAIN x2
      /\ x2'[c] = [x2[c] EXCEPT !.step = to]
      /\ \A d \in DOMAIN x2 : d # c => x2'[d] = x2[d]
  BY <1>2, <1>3, ChangedAt DEF Pods!TypeOK
<1> QED BY <1>1, <1>4 DEF Frame, Pods!Command

LEMMA PodsOver ==
    ASSUME Pods!TypeOK, NEW c \in DOMAIN x2, NEW failed \in BOOLEAN, Pods!Over(c, failed)
    PROVE  /\ Frame(c) /\ x2'[c].step = "over" /\ x2'[c].port = 0
           /\ x2'[c].gpu = {} /\ x2'[c].pids = {}
           /\ x2'[c].pid = x2[c].pid /\ x2'[c].failed = failed
           /\ x2'[c].heard = << >>
<1> DEFINE ended == [x2[c] EXCEPT !.step = "over", !.failed = failed, !.heard = << >>,
                                       !.port = 0, !.gpu = {}, !.pids = {}]
<1>1. x2[c] \in Pods!Command
  BY PodsFields
<1>2. x2' = [x2 EXCEPT ![c] = ended]
  BY DEF Pods!Over, Pods!TypeOK
<1>3. << >> \in Seq(Pods!Line)
  OBVIOUS
<1>4. /\ ended \in Pods!Command /\ ended.kind = x2[c].kind /\ ended.name = x2[c].name
      /\ ended.step = "over" /\ ended.port = 0 /\ ended.gpu = {} /\ ended.pids = {}
      /\ ended.pid = x2[c].pid /\ ended.failed = failed /\ ended.heard = << >>
  BY <1>1, <1>3 DEF Pods!Command
<1> HIDE DEF ended
<1>5. x2' \in Seq(Pods!Command) /\ DOMAIN x2' = DOMAIN x2 /\ x2'[c] = ended
      /\ \A d \in DOMAIN x2 : d # c => x2'[d] = x2[d]
  BY <1>2, <1>4, ChangedAt DEF Pods!TypeOK
<1> QED BY <1>4, <1>5 DEF Frame

LEMMA PodsTold ==
    ASSUME NEW commands \in Seq(Pods!Command), NEW names, NEW line \in Pods!Line,
           x2' = Pods!Told(commands, names, line)
    PROVE  /\ x2' \in Seq(Pods!Command) /\ DOMAIN x2' = DOMAIN commands
           /\ \A d \in DOMAIN commands :
                  /\ x2'[d].kind = commands[d].kind /\ x2'[d].name = commands[d].name
                  /\ x2'[d].step = commands[d].step /\ x2'[d].port = commands[d].port
                  /\ x2'[d].gpu = commands[d].gpu /\ x2'[d].pids = commands[d].pids
                  /\ x2'[d].pid = commands[d].pid /\ x2'[d].failed = commands[d].failed
                  /\ x2'[d].heard = IF commands[d].step = "watch" /\ commands[d].name \in names
                                         THEN Append(commands[d].heard, line) ELSE commands[d].heard
<1>1. DOMAIN x2' = 1..Len(commands) /\ Len(commands) \in Nat /\ DOMAIN commands = 1..Len(commands)
      /\ x2' = [d \in 1..Len(commands) |->
             IF commands[d].step = "watch" /\ commands[d].name \in names
             THEN [commands[d] EXCEPT !.heard = Append(@, line)] ELSE commands[d]]
  BY DEF Pods!Told
<1>2. ASSUME NEW d \in DOMAIN commands
      PROVE  /\ x2'[d] \in Pods!Command
             /\ x2'[d].kind = commands[d].kind /\ x2'[d].name = commands[d].name
             /\ x2'[d].step = commands[d].step /\ x2'[d].port = commands[d].port
             /\ x2'[d].gpu = commands[d].gpu /\ x2'[d].pids = commands[d].pids
             /\ x2'[d].pid = commands[d].pid /\ x2'[d].failed = commands[d].failed
             /\ x2'[d].heard = IF commands[d].step = "watch" /\ commands[d].name \in names
                                    THEN Append(commands[d].heard, line) ELSE commands[d].heard
  <2>1. commands[d] \in Pods!Command /\ d \in 1..Len(commands)
    BY <1>1
  <2>2. commands[d].heard \in Seq(Pods!Line) /\ Append(commands[d].heard, line) \in Seq(Pods!Line)
    BY <2>1 DEF Pods!Command
  <2>3. CASE commands[d].step = "watch" /\ commands[d].name \in names
    <3>1. x2'[d] = [commands[d] EXCEPT !.heard = Append(commands[d].heard, line)]
      BY <1>1, <2>1, <2>3
    <3> QED BY <2>1, <2>2, <2>3, <3>1 DEF Pods!Command
  <2>4. CASE ~(commands[d].step = "watch" /\ commands[d].name \in names)
    BY <1>1, <2>1, <2>4
  <2> QED BY <2>3, <2>4
<1>3. x2' \in Seq(Pods!Command)
  BY <1>1, <1>2
<1> QED BY <1>1, <1>2, <1>3

LEMMA PodsNone == Pods!NoModel.port = 0 /\ Pods!NoModel.pid = 0 /\ Pods!NoModel.gpu = {} /\ Pods!NoModel \in Pods!Entry
  BY DEF Pods!NoModel, Pods!Entry

LEMMA PodsEntry ==
    ASSUME Pods!PidsInv, NEW model \in Name, x1[model] # Pods!NoModel
    PROVE  /\ x1[model].pid # 0 /\ x1[model].pid \in DOMAIN x4
           /\ x4[x1[model].pid].name = model
<1>1. PICK c \in DOMAIN x2 :
          x2[c].name = model /\ x1[model].pid = x2[c].pid /\ x2[c].pid # 0
  BY DEF Pods!PidsInv, Pods!EntryInv
<1>2. Pods!CommandInv(x2[c])
  BY DEF Pods!PidsInv
<1> QED BY <1>1, <1>2 DEF Pods!CommandInv

(* How a command goes on, and a runner.                                    *)
Likewise(c) ==
    /\ x2'[c].port = x2[c].port /\ x2'[c].gpu = x2[c].gpu
    /\ x2'[c].pids = x2[c].pids

Moves(c) ==
    /\ x2'[c].kind = x2[c].kind /\ x2'[c].name = x2[c].name
    /\ x2'[c].pids \subseteq x2[c].pids
    /\ x2'[c].failed => x2[c].failed \/ x2[c].step = "watch"
    /\ \/ x2'[c].step = x2[c].step /\ Likewise(c)
       \/ x2[c].step = "upload" /\ x2'[c].step = "launch" /\ Likewise(c)
       \/ x2[c].step = "launch" /\ x2'[c].step = "save" /\ Likewise(c)
       \/ x2[c].step = "kill" /\ x2'[c].step = "forget" /\ Likewise(c)
       \/ x2[c].step = "save" /\ x2'[c].step = "watch"
       \/ x2[c].step \in {"launch", "watch", "forget"} /\ x2'[c].step = "over"

Ages(p) ==
    /\ p \in DOMAIN x4' /\ x4'[p].name = x4[p].name /\ x4'[p].port = x4[p].port
    /\ Pods!Ended(p) => x4'[p].state = "gone"
    /\ Pods!OutOfMemory(p) => x4'[p].state \in {"failing", "gone"}
    /\ x4'[p].state \in {"starting", "up"} => x4[p].state \in {"starting", "up"}

GoesOn ==
    /\ DOMAIN x2' = DOMAIN x2 /\ \A c \in DOMAIN x2 : Moves(c)
    /\ \A p \in DOMAIN x4 : Ages(p)
    /\ x5 \subseteq x5'

LEMMA PodsActive ==
    ASSUME GoesOn
    PROVE  /\ Pods!Active' \subseteq Pods!Active /\ Pods!Starting' \subseteq Pods!Starting
           /\ \A c \in Pods!Active' : Likewise(c) /\ x2'[c].kind = x2[c].kind
                                 /\ x2'[c].name = x2[c].name
<1>1. ASSUME NEW c \in Pods!Active'
      PROVE  c \in Pods!Active /\ Likewise(c) /\ x2'[c].kind = x2[c].kind
             /\ x2'[c].name = x2[c].name
  <2>1. c \in DOMAIN x2 /\ Moves(c) /\ x2'[c].step \in Pods!Ssh
    BY DEF Pods!Active, GoesOn
  <2> QED BY <2>1 DEF Pods!Active, Moves, Pods!Ssh
<1> QED BY <1>1 DEF Pods!Starting

LEMMA PodsOneStart == ASSUME Pods!OneStart, GoesOn PROVE Pods!OneStart'
  BY PodsActive DEF Pods!OneStart, GoesOn

LEMMA PodsApart ==
    ASSUME GoesOn, \A c, d \in Pods!Active : c # d => Pods!Apart(c, d)
    PROVE  \A c, d \in Pods!Active' : c # d => Pods!Apart(c, d)'
  BY PodsActive DEF Pods!Apart, Pods!NamesOf

(* Nothing is saved or started.                                            *)
Lasts ==
    /\ \A model \in Name : x1'[model] \in {x1[model], Pods!NoModel}
    /\ \A c \in DOMAIN x2 :
           /\ x2'[c].pid = x2[c].pid
           /\ x2'[c].step = "save" => x2[c].step = "save"
           /\ x2'[c].step = "watch" => x2[c].step = "watch"

LEMMA PodsPids ==
    ASSUME Pods!TypeOK, Pods!PidsInv, GoesOn, Lasts,
           \A c \in DOMAIN x2 :
               x2'[c].step = "over" /\ x2'[c].failed =>
                   \/ x2[c].step = "over" /\ x2[c].failed
                   \/ x1'[x2[c].name] = Pods!NoModel,
           \A p \in DOMAIN x4' : Pods!TellsOf(x4[p].said, p)'
    PROVE  Pods!PidsInv'
<1>1. ASSUME NEW c \in DOMAIN x2 PROVE Pods!CommandInv(x2[c])'
  <2>1. Pods!CommandInv(x2[c]) /\ Moves(c)
        /\ x2'[c].pid = x2[c].pid
        /\ (x2'[c].step = "save" => x2[c].step = "save")
        /\ (x2'[c].step = "watch" => x2[c].step = "watch")
    BY DEF Pods!PidsInv, GoesOn, Lasts
  <2>2. /\ x2'[c].step \in {"upload", "launch", "save", "watch"} => x2'[c].kind = "start"
        /\ x2'[c].step \in {"kill", "forget"} => x2'[c].kind # "start"
        /\ x2'[c].step \in {"save", "watch"} \/ x2'[c].failed => x2'[c].pid # 0
        /\ x2'[c].failed => x2'[c].step \in {"watch", "over"}
    BY <2>1 DEF Pods!CommandInv, Moves
  <2>3. x2'[c].pid # 0 => /\ x2'[c].kind = "start" /\ x2'[c].step \in {"save", "watch", "over"}
                          /\ x2'[c].pid \in DOMAIN x4'
                          /\ x4'[x2'[c].pid].name = x2'[c].name
    <3> SUFFICES ASSUME x2'[c].pid # 0
                 PROVE  /\ x2'[c].kind = "start" /\ x2'[c].step \in {"save", "watch", "over"}
                        /\ x2'[c].pid \in DOMAIN x4'
                        /\ x4'[x2'[c].pid].name = x2'[c].name
      OBVIOUS
    <3>1. x2[c].pid # 0 /\ x2[c].pid \in DOMAIN x4
          /\ x4[x2[c].pid].name = x2[c].name
          /\ x2[c].kind = "start" /\ x2[c].step \in {"save", "watch", "over"}
      BY <2>1 DEF Pods!CommandInv
    <3>2. Ages(x2[c].pid)
      BY <3>1 DEF GoesOn
    <3> QED BY <2>1, <3>1, <3>2 DEF Moves, Ages
  <2>4. x2'[c].pids \subseteq DOMAIN x4'
    BY <2>1 DEF Pods!CommandInv, Moves, GoesOn, Ages
  <2> QED BY <2>2, <2>3, <2>4 DEF Pods!CommandInv
<1>2. ASSUME NEW model \in Name PROVE Pods!EntryInv(model)'
  <2> SUFFICES ASSUME x1'[model] # Pods!NoModel PROVE Pods!EntryInv(model)'
    BY DEF Pods!EntryInv
  <2>1. x1'[model] = x1[model] /\ x1[model] # Pods!NoModel
    BY DEF Lasts
  <2>2. PICK c \in DOMAIN x2 :
            /\ x2[c].name = model /\ x1[model].pid = x2[c].pid /\ x2[c].pid # 0
            /\ x2[c].step \in {"watch", "over"}
            /\ ~(x2[c].step = "over" /\ x2[c].failed)
    BY <2>1 DEF Pods!PidsInv, Pods!EntryInv
  <2>3. Moves(c) /\ x2'[c].pid = x2[c].pid /\ c \in DOMAIN x2'
    BY DEF GoesOn, Lasts
  <2>4. x2'[c].name = model /\ x2'[c].step \in {"watch", "over"}
    BY <2>2, <2>3 DEF Moves
  <2>5. ~(x2'[c].step = "over" /\ x2'[c].failed)
    BY <2>1, <2>2
  <2> QED BY <2>1, <2>2, <2>3, <2>4, <2>5 DEF Pods!EntryInv
<1>3. \A c, d \in DOMAIN x2' : x2'[c].pid = x2'[d].pid /\ x2'[c].pid # 0 => c = d
  BY DEF Pods!PidsInv, GoesOn, Lasts
<1>4. \A c \in DOMAIN x2' : Pods!CommandInv(x2[c])'
  BY <1>1 DEF GoesOn
<1> QED BY <1>2, <1>3, <1>4 DEF Pods!PidsInv

LEMMA PodsKnown ==
    ASSUME Pods!TypeOK, Pods!PidsInv, Pods!KnownInv, GoesOn, Lasts,
           Pods!Alone' => DOMAIN x4' = DOMAIN x4,
           ASSUME Pods!Alone, Pods!Alone', NEW c \in DOMAIN x2, x2'[c].step = "watch"
           PROVE  /\ Pods!TellsOf(x2[c].heard, x2[c].pid)'
                  /\ x2'[c].failed => Pods!OutOfMemory(x2[c].pid)',
           ASSUME Pods!Alone, Pods!Alone', NEW c \in DOMAIN x2, x2'[c].step = "forget"
           PROVE  x2[c].step = "forget" \/ \A p \in x2[c].pids : x4'[p].state = "gone"
    PROVE  Pods!KnownInv'
<1> SUFFICES ASSUME Pods!Alone'
             PROVE  /\ \A c, d \in Pods!Active' : c # d => Pods!Apart(c, d)'
                    /\ \A c \in DOMAIN x2' : Pods!HearsOwn(c)' /\ Pods!StopsThem(c)'
  BY DEF Pods!KnownInv
<1>1. Pods!Alone /\ DOMAIN x4' = DOMAIN x4
  BY DEF Pods!Alone, GoesOn
<1>2. \A c, d \in Pods!Active' : c # d => Pods!Apart(c, d)'
  BY <1>1, PodsApart DEF Pods!KnownInv
<1>3. ASSUME NEW c \in DOMAIN x2 PROVE Pods!HearsOwn(c)'
  <2>1. Pods!HearsOwn(c) /\ Moves(c) /\ x2'[c].pid = x2[c].pid
        /\ (x2'[c].step = "save" => x2[c].step = "save")
        /\ (x2'[c].step = "watch" => x2[c].step = "watch")
    BY <1>1 DEF Pods!KnownInv, GoesOn, Lasts
  <2>2. ASSUME x2'[c].step \in {"save", "watch"}, NEW q \in DOMAIN x4',
               x4'[q].state # "gone", x4'[q].name = x2'[c].name
        PROVE  q = x2'[c].pid
    <3>1. q \in DOMAIN x4 /\ Ages(q)
      BY <1>1 DEF GoesOn
    <3> QED BY <2>1, <2>2, <3>1 DEF Pods!HearsOwn, Moves, Ages, Pods!Ended
  <2>3. ASSUME x2'[c].step = "watch"
        PROVE  /\ Pods!TellsOf(x2[c].heard, x2[c].pid)'
               /\ x2'[c].failed => Pods!OutOfMemory(x2[c].pid)'
    BY <1>1, <2>3
  <2> QED BY <2>2, <2>3 DEF Pods!HearsOwn, Pods!Ended
<1>4. ASSUME NEW c \in DOMAIN x2 PROVE Pods!StopsThem(c)'
  <2>1. Pods!StopsThem(c) /\ Moves(c) /\ Pods!CommandInv(x2[c])
    BY <1>1 DEF Pods!KnownInv, GoesOn, Pods!PidsInv
  <2>2. ASSUME x2'[c].step \in {"kill", "forget"}
        PROVE  \A model \in Pods!NamesOf(x2'[c].kind, x2'[c].name) :
                   x1'[model] = Pods!NoModel \/ x1'[model].pid \in x2'[c].pids
    <3>1. x2[c].step \in {"kill", "forget"} /\ x2'[c].pids = x2[c].pids
          /\ x2'[c].kind = x2[c].kind /\ x2'[c].name = x2[c].name
      BY <2>1, <2>2 DEF Moves, Likewise
    <3>2. Pods!NamesOf(x2[c].kind, x2[c].name) \subseteq Name
      BY PodsFields DEF Pods!NamesOf, Pods!Command
    <3> QED BY <2>1, <3>1, <3>2 DEF Pods!StopsThem, Lasts
  <2>3. ASSUME x2'[c].step = "forget", NEW p \in x2'[c].pids
        PROVE  x4'[p].state = "gone"
    <3>1. p \in x2[c].pids /\ p \in DOMAIN x4 /\ Ages(p)
      BY <2>1, <2>3 DEF Moves, Pods!CommandInv, GoesOn
    <3>2. CASE x2[c].step = "forget"
      BY <2>1, <3>1, <3>2 DEF Pods!StopsThem, Ages
    <3>3. CASE \A r \in x2[c].pids : x4'[r].state = "gone"
      BY <3>1, <3>3
    <3> QED BY <1>1, <2>3, <3>2, <3>3
  <2> QED BY <2>2, <2>3 DEF Pods!StopsThem, Pods!Ended
<1> QED BY <1>2, <1>3, <1>4 DEF GoesOn

LEMMA PodsRuns ==
    ASSUME Pods!RunningIsKnown, GoesOn, Lasts, Pods!Alone' => DOMAIN x4' = DOMAIN x4,
           ASSUME Pods!Alone, Pods!Alone', NEW model \in Name, x1'[model] # x1[model]
           PROVE  x1[model].pid \notin Pods!Running'
    PROVE  Pods!RunningIsKnown'
<1> SUFFICES ASSUME Pods!Alone', NEW p \in Pods!Running'
             PROVE  \/ \E model \in Name : x1'[model].pid = p
                    \/ \E c \in DOMAIN x2' : x2'[c].step = "save" /\ x2'[c].pid = p
  BY DEF Pods!RunningIsKnown, Pods!Alone
<1>1. Pods!Alone /\ p \in DOMAIN x4 /\ Ages(p) /\ p \in Pods!Running
  BY DEF Pods!Alone, GoesOn, Pods!Running, Ages
<1>2. CASE \E model \in Name : x1[model].pid = p
  <2>1. PICK model \in Name : x1[model].pid = p
    BY <1>2
  <2>2. x1'[model] = x1[model]
    BY <1>1, <2>1
  <2> QED BY <2>1, <2>2
<1>3. CASE \E c \in DOMAIN x2 : x2[c].step = "save" /\ x2[c].pid = p
  <2>1. PICK c \in DOMAIN x2 : x2[c].step = "save" /\ x2[c].pid = p
    BY <1>3
  <2>2. Moves(c) /\ c \in DOMAIN x2' /\ x2'[c].pid = p /\ x2'[c].step # "watch"
    BY <2>1 DEF GoesOn, Lasts
  <2>3. x2'[c].step = "save"
    BY <2>1, <2>2 DEF Moves
  <2> QED BY <2>2, <2>3
<1> QED BY <1>1, <1>2, <1>3 DEF Pods!RunningIsKnown, Pods!Alone

LEMMA PodsPorts ==
    ASSUME Pods!TypeOK, Pods!PidsInv, Pods!PortsInv, GoesOn, Lasts,
           ASSUME Pods!Alone, Pods!Alone', "two starts" \notin x5, NEW c \in Pods!Starting', x2'[c].step = "launch"
           PROVE  x3'[x2[c].name] = x2[c].port
    PROVE  Pods!PortsInv'
<1> SUFFICES ASSUME Pods!Alone', "two starts" \notin x5'
             PROVE  /\ \A c \in Pods!Starting' : Pods!PortInv(c)'
                    /\ \A model, m \in Name : x1'[model].port = x1'[m].port /\ x1'[model] # Pods!NoModel => model = m
                    /\ \A model \in Name : x1'[model] # Pods!NoModel =>
                           x1'[model].port # 0 /\ x4'[x1'[model].pid].port = x1'[model].port
  BY DEF Pods!PortsInv
<1>1. Pods!Alone /\ "two starts" \notin x5
  BY DEF Pods!Alone, GoesOn
<1>2. \A model \in Name : x1'[model] \in {x1[model], Pods!NoModel}
  BY DEF Lasts
<1>3. ASSUME NEW c \in Pods!Starting' PROVE Pods!PortInv(c)'
  <2>1. /\ c \in Pods!Starting /\ c \in DOMAIN x2 /\ x2'[c].port = x2[c].port /\ Moves(c)
        /\ x2'[c].name = x2[c].name /\ Pods!PortInv(c) /\ Pods!CommandInv(x2[c])
    BY <1>1, PodsActive DEF Likewise, Pods!Starting, Pods!Active, GoesOn, Pods!PortsInv, Pods!PidsInv
  <2>2. x2'[c].port # 0 /\ \A model \in Name : x1'[model].port # x2'[c].port
    BY <1>2, <2>1, PodsNone DEF Pods!PortInv
  <2>3. x2'[c].step = "launch" => x3'[x2'[c].name] = x2'[c].port
    <3>1. ASSUME x2'[c].step = "launch" PROVE x3'[x2[c].name] = x2[c].port
      BY <1>1, <3>1
    <3> QED BY <2>1, <3>1
  <2>4. ASSUME x2'[c].step = "save" PROVE x4'[x2'[c].pid].port = x2'[c].port
    <3>1. x2[c].step = "save" /\ x2'[c].pid = x2[c].pid
      BY <2>1, <2>4 DEF Lasts
    <3>2. x2[c].pid \in DOMAIN x4 /\ Ages(x2[c].pid)
      BY <2>1, <3>1 DEF Pods!CommandInv, GoesOn
    <3> QED BY <2>1, <3>1, <3>2 DEF Pods!PortInv, Ages
  <2> QED BY <2>2, <2>3, <2>4 DEF Pods!PortInv
<1>4. ASSUME NEW model \in Name, NEW m \in Name, x1'[model].port = x1'[m].port, x1'[model] # Pods!NoModel
      PROVE  model = m
  <2>1. x1'[model] = x1[model] /\ x1[model] # Pods!NoModel
    BY <1>2, <1>4
  <2>2. CASE x1'[m] = x1[m]
    BY <1>1, <1>4, <2>1, <2>2 DEF Pods!PortsInv
  <2>3. CASE x1'[m] = Pods!NoModel
    <3>1. x1[model].port = 0
      BY <1>4, <2>1, <2>3, PodsNone
    <3>2. x1[model].port # 0
      BY <1>1, <2>1 DEF Pods!PortsInv
    <3> QED BY <3>1, <3>2
  <2> QED BY <1>2, <2>2, <2>3
<1>5. ASSUME NEW model \in Name, x1'[model] # Pods!NoModel
      PROVE  x1'[model].port # 0 /\ x4'[x1'[model].pid].port = x1'[model].port
  <2>1. x1'[model] = x1[model] /\ x1[model] # Pods!NoModel
    BY <1>2, <1>5
  <2>2. x1[model].pid \in DOMAIN x4 /\ Ages(x1[model].pid)
    BY <2>1, PodsEntry DEF GoesOn
  <2> QED BY <1>1, <2>1, <2>2 DEF Pods!PortsInv, Ages
<1> QED BY <1>3, <1>4, <1>5

LEMMA PodsSpread ==
    ASSUME Pods!SpreadInv, GoesOn, x1' = x1 \/ "removed" \in x5'
    PROVE  Pods!SpreadInv'
<1> SUFFICES ASSUME x5' \cap {"two starts", "removed"} = {}
             PROVE  /\ Pods!Spread({})'
                    /\ \A c \in Pods!Starting' : (x1[x2[c].name] = Pods!NoModel /\ Pods!Spread(x2[c].gpu))'
  BY DEF Pods!SpreadInv
<1>1. x1' = x1 /\ x5 \cap {"two starts", "removed"} = {}
  BY DEF GoesOn
<1>2. \A gpu : \A g \in Pods!Gpu : Pods!UsageWith(gpu, g)' = Pods!UsageWith(gpu, g)
  BY <1>1 DEF Pods!UsageWith, Pods!Usage
<1>3. Pods!Spread({})'
  BY <1>1, <1>2 DEF Pods!Spread, Pods!SpreadInv
<1>4. ASSUME NEW c \in Pods!Starting' PROVE x1'[x2'[c].name] = Pods!NoModel /\ Pods!Spread(x2[c].gpu)'
  <2>1. c \in Pods!Starting /\ x2'[c].name = x2[c].name /\ x2'[c].gpu = x2[c].gpu
    BY PodsActive DEF Likewise, Pods!Starting
  <2>2. x1[x2[c].name] = Pods!NoModel /\ Pods!Spread(x2[c].gpu)
    BY <1>1, <2>1 DEF Pods!SpreadInv
  <2>3. \A g \in Pods!Gpu : Pods!UsageWith(x2[c].gpu, g)' = Pods!UsageWith(x2[c].gpu, g)
    BY <1>1, <2>1 DEF Pods!UsageWith, Pods!Usage
  <2>4. Pods!Spread(x2[c].gpu)'
    BY <2>2, <2>3 DEF Pods!Spread
  <2> QED BY <1>1, <2>1, <2>2, <2>4
<1> QED BY <1>3, <1>4

LEMMA PodsFrame ==
    ASSUME NEW c, Frame(c), Moves(c)
    PROVE  DOMAIN x2' = DOMAIN x2 /\ \A d \in DOMAIN x2 : Moves(d)
  BY DEF Frame, Moves, Likewise

LEMMA PodsSameRunners ==
    ASSUME x4' = x4, Pods!PidsInv
    PROVE  /\ \A p \in DOMAIN x4 : Ages(p)
           /\ \A p \in DOMAIN x4' : Pods!TellsOf(x4[p].said, p)'
<1>1. \A p \in DOMAIN x4 : Ages(p)
  BY DEF Ages, Pods!Ended, Pods!OutOfMemory
<1>2. \A p \in DOMAIN x4' : Pods!TellsOf(x4[p].said, p)'
  BY DEF Pods!PidsInv, Pods!TellsOf, Pods!Ended, Pods!OutOfMemory
<1> QED BY <1>1, <1>2

(* What a watch has heard stays true.                                      *)
LEMMA PodsHears ==
    ASSUME Pods!PidsInv, Pods!KnownInv, Pods!Alone, GoesOn, NEW c \in DOMAIN x2, x2[c].step = "watch",
           x2'[c].pid = x2[c].pid, x2'[c].heard = x2[c].heard,
           x2'[c].failed => x2[c].failed
    PROVE  /\ Pods!TellsOf(x2[c].heard, x2[c].pid)'
           /\ x2'[c].failed => Pods!OutOfMemory(x2[c].pid)'
<1>1. Pods!HearsOwn(c) /\ Pods!CommandInv(x2[c])
  BY DEF Pods!KnownInv, Pods!PidsInv
<1>2. x2[c].pid \in DOMAIN x4 /\ Ages(x2[c].pid)
  BY <1>1 DEF Pods!CommandInv, GoesOn
<1>3. Pods!TellsOf(x2[c].heard, x2[c].pid)
      /\ (x2[c].failed => Pods!OutOfMemory(x2[c].pid))
  BY <1>1 DEF Pods!HearsOwn
<1> QED BY <1>2, <1>3 DEF Pods!TellsOf, Ages, Pods!Ended, Pods!OutOfMemory

LEMMA PodsUpload == ASSUME Pods!PodsInv, NEW c \in DOMAIN x2, Pods!Upload(c) PROVE Pods!PodsInv'
<1>1. /\ Pods!TypeOK /\ Pods!PidsInv /\ Pods!OneStart /\ Pods!KnownInv
      /\ Pods!RunningIsKnown /\ Pods!PortsInv /\ Pods!SpreadInv
      /\ Pods!CommandInv(x2[c]) /\ x2[c] \in Pods!Command
  BY PodsFields DEF Pods!PodsInv, Pods!PidsInv
<1>2. /\ x2[c].step = "upload" /\ Pods!Step(c, "launch") /\ x1' = x1 /\ x4' = x4
      /\ \/ x3' = [x3 EXCEPT ![x2[c].name] = x2[c].port] /\ x5' = x5
         \/ x5' = x5 \cup {"ssh"} /\ x3' = x3
  BY DEF Pods!Upload
<1>3. /\ Frame(c) /\ x2'[c].step = "launch" /\ x2'[c].port = x2[c].port
      /\ x2'[c].gpu = x2[c].gpu /\ x2'[c].pids = x2[c].pids
      /\ x2'[c].pid = x2[c].pid /\ x2'[c].failed = x2[c].failed
      /\ x2'[c].heard = x2[c].heard
  <2>1. "launch" \in Pods!Ssh \cup {"watch", "over"}
    BY DEF Pods!Ssh
  <2> QED BY <1>1, <1>2, <2>1, PodsSteps
<1>4. Moves(c)
  BY <1>2, <1>3 DEF Moves, Frame, Likewise
<1>5. GoesOn
  BY <1>1, <1>2, <1>3, <1>4, PodsFrame, PodsSameRunners DEF GoesOn
<1>6. Lasts
  BY <1>2, <1>3 DEF Lasts, Frame
<1>7. Pods!TypeOK'
  BY <1>1, <1>2, <1>3 DEF Pods!TypeOK, Frame, Pods!Command
<1>8. \A d \in DOMAIN x2 : x2'[d].failed = x2[d].failed /\ x2'[d].heard = x2[d].heard
  BY <1>3 DEF Frame
<1>9. Pods!PidsInv'
  <2>1. ASSUME NEW d \in DOMAIN x2, x2'[d].step = "over", x2'[d].failed
        PROVE  x2[d].step = "over" /\ x2[d].failed
    BY <1>3, <2>1 DEF Frame
  <2>2. \A p \in DOMAIN x4' : Pods!TellsOf(x4[p].said, p)'
    BY <1>1, <1>2, PodsSameRunners
  <2> QED BY <1>1, <1>5, <1>6, <2>1, <2>2, PodsPids
<1>10. Pods!KnownInv'
  <2>1. ASSUME Pods!Alone, Pods!Alone', NEW d \in DOMAIN x2, x2'[d].step = "watch"
        PROVE  /\ Pods!TellsOf(x2[d].heard, x2[d].pid)'
               /\ x2'[d].failed => Pods!OutOfMemory(x2[d].pid)'
    <3>1. x2[d].step = "watch" /\ x2'[d].pid = x2[d].pid
      BY <1>6, <2>1 DEF Lasts
    <3> QED BY <1>1, <1>5, <1>8, <2>1, <3>1, PodsHears
  <2>2. ASSUME Pods!Alone, Pods!Alone', NEW d \in DOMAIN x2, x2'[d].step = "forget"
        PROVE  x2[d].step = "forget" \/ \A p \in x2[d].pids : x4'[p].state = "gone"
    BY <1>3, <2>2 DEF Frame
  <2> QED BY <1>1, <1>2, <1>5, <1>6, <2>1, <2>2, PodsKnown
<1>11. Pods!RunningIsKnown'
  BY <1>1, <1>2, <1>5, <1>6, PodsRuns
<1>12. Pods!PortsInv'
  <2>1. ASSUME Pods!Alone, Pods!Alone', "two starts" \notin x5, NEW d \in Pods!Starting', x2'[d].step = "launch"
        PROVE  x3'[x2[d].name] = x2[d].port
    <3>1. c \in Pods!Starting
      BY <1>1, <1>2 DEF Pods!Starting, Pods!Active, Pods!Ssh, Pods!CommandInv
    <3>2. d = c
      BY <1>1, <1>5, <2>1, <3>1, PodsActive DEF Pods!OneStart
    <3> QED BY <1>1, <1>2, <2>1, <3>2 DEF Pods!Alone, Pods!TypeOK, Pods!Command
  <2> QED BY <1>1, <1>5, <1>6, <2>1, PodsPorts
<1>13. Pods!SpreadInv'
  BY <1>1, <1>2, <1>5, PodsSpread
<1> QED BY <1>1, <1>5, <1>7, <1>9, <1>10, <1>11, <1>12, <1>13, PodsOneStart DEF Pods!PodsInv

(* A step that leaves every script and every start of a runner alone.      *)
LEMMA PodsPortsStay ==
    ASSUME Pods!TypeOK, Pods!PidsInv, Pods!PortsInv, GoesOn, Lasts, x3' = x3,
           \A c \in DOMAIN x2 : x2'[c].step = "launch" => x2[c].step = "launch"
    PROVE  Pods!PortsInv'
<1>1. ASSUME Pods!Alone, Pods!Alone', "two starts" \notin x5, NEW c \in Pods!Starting', x2'[c].step = "launch"
      PROVE  x3'[x2[c].name] = x2[c].port
  <2>1. c \in Pods!Starting /\ c \in DOMAIN x2
    BY PodsActive DEF Pods!Starting, Pods!Active
  <2> QED BY <1>1, <2>1 DEF Pods!PortsInv, Pods!PortInv
<1> QED BY <1>1, PodsPorts

(* Every way in which a watch ends.                                        *)
LEMMA PodsEndsWatch ==
    ASSUME Pods!PodsInv, NEW c \in DOMAIN x2, x2[c].step = "watch", NEW failed \in BOOLEAN,
           Pods!EndsWatch(c, failed), x3' = x3, x4' = x4,
           Pods!Alone /\ failed => Pods!OutOfMemory(x2[c].pid)
    PROVE  Pods!PodsInv'
<1>1. /\ Pods!TypeOK /\ Pods!PidsInv /\ Pods!OneStart /\ Pods!KnownInv
      /\ Pods!RunningIsKnown /\ Pods!PortsInv /\ Pods!SpreadInv
      /\ Pods!CommandInv(x2[c]) /\ x2[c] \in Pods!Command
  BY PodsFields DEF Pods!PodsInv, Pods!PidsInv
<1>2. /\ Frame(c) /\ x2'[c].step = "over" /\ x2'[c].port = 0
      /\ x2'[c].gpu = {} /\ x2'[c].pids = {}
      /\ x2'[c].pid = x2[c].pid /\ x2'[c].failed = failed
  BY <1>1, PodsOver DEF Pods!EndsWatch
<1>3. /\ failed => x1' = [x1 EXCEPT ![x2[c].name] = Pods!NoModel] /\ x5' = x5 \cup {"removed"}
      /\ ~failed => x1' = x1 /\ x5' = x5
  BY DEF Pods!EndsWatch
<1>4. Moves(c)
  BY <1>2 DEF Moves, Frame
<1>5. GoesOn
  BY <1>1, <1>2, <1>3, <1>4, PodsFrame, PodsSameRunners DEF GoesOn
<1>6. /\ x2[c].name \in Name
      /\ \A model \in Name : x1'[model] = IF failed /\ model = x2[c].name THEN Pods!NoModel ELSE x1[model]
  BY <1>1, <1>3 DEF Pods!TypeOK, Pods!Command
<1>7. Lasts
  BY <1>2, <1>6 DEF Lasts, Frame
<1>8. Pods!TypeOK'
  BY <1>1, <1>2, <1>3, PodsNone DEF Pods!TypeOK, Frame
<1>9. Pods!PidsInv'
  <2>1. ASSUME NEW d \in DOMAIN x2, x2'[d].step = "over", x2'[d].failed
        PROVE  \/ x2[d].step = "over" /\ x2[d].failed
               \/ x1'[x2[d].name] = Pods!NoModel
    BY <1>2, <1>6, <2>1 DEF Frame
  <2>2. \A p \in DOMAIN x4' : Pods!TellsOf(x4[p].said, p)'
    BY <1>1, PodsSameRunners
  <2> QED BY <1>1, <1>5, <1>7, <2>1, <2>2, PodsPids
<1>10. Pods!KnownInv'
  <2>1. ASSUME Pods!Alone, Pods!Alone', NEW d \in DOMAIN x2, x2'[d].step = "watch"
        PROVE  /\ Pods!TellsOf(x2[d].heard, x2[d].pid)'
               /\ x2'[d].failed => Pods!OutOfMemory(x2[d].pid)'
    <3>1. d # c /\ x2'[d] = x2[d] /\ x2[d].step = "watch"
      BY <1>2, <2>1 DEF Frame
    <3> QED BY <1>1, <1>5, <2>1, <3>1, PodsHears
  <2>2. ASSUME Pods!Alone, Pods!Alone', NEW d \in DOMAIN x2, x2'[d].step = "forget"
        PROVE  x2[d].step = "forget" \/ \A p \in x2[d].pids : x4'[p].state = "gone"
    BY <1>2, <2>2 DEF Frame
  <2> QED BY <1>1, <1>5, <1>7, <2>1, <2>2, PodsKnown
<1>11. Pods!RunningIsKnown'
  <2>1. ASSUME Pods!Alone, Pods!Alone', NEW model \in Name, x1'[model] # x1[model]
        PROVE  x1[model].pid \notin Pods!Running'
    <3> SUFFICES ASSUME x1[model].pid \in Pods!Running' PROVE FALSE
      OBVIOUS
    <3>1. failed /\ model = x2[c].name /\ x1[model] # Pods!NoModel
      BY <1>6, <2>1
    <3>2. x1[model].pid \in DOMAIN x4 /\ x4[x1[model].pid].name = model /\ ~Pods!Ended(x1[model].pid)
      BY <1>1, <3>1, PodsEntry DEF Pods!Running, Pods!Ended
    <3>3. x1[model].pid = x2[c].pid
      BY <1>1, <2>1, <3>1, <3>2 DEF Pods!KnownInv, Pods!HearsOwn
    <3> QED BY <2>1, <3>1, <3>3 DEF Pods!Running, Pods!OutOfMemory
  <2> QED BY <1>1, <1>5, <1>7, <2>1, PodsRuns
<1>12. Pods!PortsInv'
  <2>1. \A d \in DOMAIN x2 : x2'[d].step = "launch" => x2[d].step = "launch"
    BY <1>2 DEF Frame
  <2> QED BY <1>1, <1>5, <1>7, <2>1, PodsPortsStay
<1>13. Pods!SpreadInv'
  BY <1>1, <1>3, <1>5, PodsSpread
<1> QED BY <1>1, <1>5, <1>8, <1>9, <1>10, <1>11, <1>12, <1>13, PodsOneStart DEF Pods!PodsInv

LEMMA PodsInterrupt == ASSUME Pods!PodsInv, NEW c \in DOMAIN x2, Pods!Interrupt(c) PROVE Pods!PodsInv'
<1>1. /\ x2[c].step = "watch" /\ Pods!EndsWatch(c, x2[c].failed)
      /\ x3' = x3 /\ x4' = x4
  BY DEF Pods!Interrupt
<1>2. x2[c].failed \in BOOLEAN
  BY PodsFields DEF Pods!PodsInv, Pods!Command
<1>3. Pods!Alone /\ x2[c].failed => Pods!OutOfMemory(x2[c].pid)
  BY <1>1 DEF Pods!PodsInv, Pods!KnownInv, Pods!HearsOwn
<1> QED BY <1>1, <1>2, <1>3, PodsEndsWatch

LEMMA PodsTail ==
    ASSUME NEW lines \in Seq(Pods!Line), lines # << >>, NEW p, Pods!TellsOf(lines, p)
    PROVE  /\ Pods!TellsOf(Tail(lines), p)
           /\ Head(lines) = "exited" => Pods!Ended(p)
           /\ Head(lines) = "out of memory" => Pods!OutOfMemory(p)
<1>1. /\ 1 \in DOMAIN lines /\ Head(lines) = lines[1]
      /\ \A i \in DOMAIN Tail(lines) : i + 1 \in DOMAIN lines /\ Tail(lines)[i] = lines[i + 1]
  OBVIOUS
<1> QED BY <1>1 DEF Pods!TellsOf

LEMMA PodsHear == ASSUME Pods!PodsInv, NEW c \in DOMAIN x2, Pods!Hear(c) PROVE Pods!PodsInv'
<1> DEFINE line == Head(x2[c].heard)
<1>1. /\ Pods!TypeOK /\ Pods!PidsInv /\ Pods!OneStart /\ Pods!KnownInv
      /\ Pods!RunningIsKnown /\ Pods!PortsInv /\ Pods!SpreadInv
      /\ Pods!CommandInv(x2[c]) /\ x2[c] \in Pods!Command
  BY PodsFields DEF Pods!PodsInv, Pods!PidsInv
<1>2. /\ x2[c].step = "watch" /\ x2[c].heard # << >> /\ x3' = x3 /\ x4' = x4
  BY DEF Pods!Hear
<1>3. x2[c].heard \in Seq(Pods!Line) /\ Tail(x2[c].heard) \in Seq(Pods!Line)
  <2>1. x2[c].heard \in Seq(Pods!Line) /\ x2[c].heard # << >>
    BY <1>1, <1>2 DEF Pods!Command
  <2> QED BY <2>1
<1>4. Pods!Alone => /\ Pods!TellsOf(Tail(x2[c].heard), x2[c].pid)
                    /\ line = "exited" => Pods!Ended(x2[c].pid)
                    /\ line = "out of memory" => Pods!OutOfMemory(x2[c].pid)
                    /\ x2[c].failed => Pods!OutOfMemory(x2[c].pid)
  <2>1. Pods!Alone => /\ Pods!TellsOf(x2[c].heard, x2[c].pid)
                      /\ x2[c].failed => Pods!OutOfMemory(x2[c].pid)
    BY <1>1, <1>2 DEF Pods!KnownInv, Pods!HearsOwn
  <2> QED BY <1>2, <1>3, <2>1, PodsTail
<1>5. CASE line = "out of memory"
  <2> DEFINE told == [x2[c] EXCEPT !.heard = Tail(@), !.failed = TRUE]
  <2>1. x2' = [x2 EXCEPT ![c] = told] /\ x1' = x1 /\ x5' = x5
    BY <1>1, <1>5 DEF Pods!Hear, Pods!TypeOK
  <2>2. /\ told \in Pods!Command /\ told.kind = x2[c].kind /\ told.name = x2[c].name
        /\ told.step = x2[c].step /\ told.port = x2[c].port /\ told.gpu = x2[c].gpu
        /\ told.pids = x2[c].pids /\ told.pid = x2[c].pid /\ told.failed = TRUE
        /\ told.heard = Tail(x2[c].heard)
    BY <1>1, <1>3 DEF Pods!Command
  <2> HIDE DEF told
  <2>3. Frame(c) /\ x2'[c] = told
    BY <1>1, <2>1, <2>2, ChangedAt DEF Frame, Pods!TypeOK
  <2>4. Moves(c)
    BY <1>2, <2>2, <2>3 DEF Moves, Likewise
  <2>5. GoesOn
    BY <1>1, <1>2, <2>1, <2>3, <2>4, PodsFrame, PodsSameRunners DEF GoesOn
  <2>6. Lasts
    BY <1>2, <2>1, <2>2, <2>3 DEF Lasts, Frame
  <2>7. Pods!TypeOK'
    BY <1>1, <1>2, <2>1, <2>3 DEF Pods!TypeOK, Frame
  <2>8. Pods!PidsInv'
    <3>1. ASSUME NEW d \in DOMAIN x2, x2'[d].step = "over", x2'[d].failed
          PROVE  x2[d].step = "over" /\ x2[d].failed
      BY <1>2, <2>2, <2>3, <3>1 DEF Frame
    <3>2. \A p \in DOMAIN x4' : Pods!TellsOf(x4[p].said, p)'
      BY <1>1, <1>2, PodsSameRunners
    <3> QED BY <1>1, <2>5, <2>6, <3>1, <3>2, PodsPids
  <2>9. Pods!KnownInv'
    <3>1. ASSUME Pods!Alone, Pods!Alone', NEW d \in DOMAIN x2, x2'[d].step = "watch"
          PROVE  /\ Pods!TellsOf(x2[d].heard, x2[d].pid)'
                 /\ x2'[d].failed => Pods!OutOfMemory(x2[d].pid)'
      <4>1. CASE d = c
        <5>1. Pods!TellsOf(Tail(x2[c].heard), x2[c].pid)
          BY <1>4, <3>1
        <5>2. Pods!OutOfMemory(x2[c].pid)
          BY <1>4, <1>5, <3>1
        <5> QED BY <1>2, <2>2, <2>3, <4>1, <5>1, <5>2 DEF Pods!TellsOf, Pods!Ended, Pods!OutOfMemory
      <4>2. CASE d # c
        <5>1. x2'[d] = x2[d]
          BY <2>3, <4>2 DEF Frame
        <5> QED BY <1>1, <2>5, <3>1, <5>1, PodsHears
      <4> QED BY <4>1, <4>2
    <3>2. ASSUME Pods!Alone, Pods!Alone', NEW d \in DOMAIN x2, x2'[d].step = "forget"
          PROVE  x2[d].step = "forget" \/ \A p \in x2[d].pids : x4'[p].state = "gone"
      BY <2>2, <2>3, <3>2 DEF Frame
    <3> QED BY <1>1, <1>2, <2>5, <2>6, <3>1, <3>2, PodsKnown
  <2>10. Pods!RunningIsKnown'
    BY <1>1, <1>2, <2>1, <2>5, <2>6, PodsRuns
  <2>11. Pods!PortsInv'
    <3>1. \A d \in DOMAIN x2 : x2'[d].step = "launch" => x2[d].step = "launch"
      BY <2>2, <2>3 DEF Frame
    <3> QED BY <1>1, <1>2, <2>5, <2>6, <3>1, PodsPortsStay
  <2>12. Pods!SpreadInv'
    BY <1>1, <2>1, <2>5, PodsSpread
  <2> QED BY <1>1, <2>5, <2>7, <2>8, <2>9, <2>10, <2>11, <2>12, PodsOneStart DEF Pods!PodsInv
<1>6. CASE line # "out of memory"
  <2>1. Pods!EndsWatch(c, x2[c].failed \/ line = "exited")
    BY <1>6 DEF Pods!Hear
  <2>2. (x2[c].failed \/ line = "exited") \in BOOLEAN
    BY <1>1 DEF Pods!Command
  <2>3. Pods!Alone /\ (x2[c].failed \/ line = "exited") => Pods!OutOfMemory(x2[c].pid)
    BY <1>4 DEF Pods!Ended, Pods!OutOfMemory
  <2> HIDE DEF line
  <2> QED BY <1>2, <2>1, <2>2, <2>3, PodsEndsWatch
<1> QED BY <1>5, <1>6

LEMMA PodsForget == ASSUME Pods!PodsInv, NEW c \in DOMAIN x2, Pods!Forget(c) PROVE Pods!PodsInv'
<1>1. /\ Pods!TypeOK /\ Pods!PidsInv /\ Pods!OneStart /\ Pods!KnownInv
      /\ Pods!RunningIsKnown /\ Pods!PortsInv /\ Pods!SpreadInv
      /\ Pods!CommandInv(x2[c]) /\ x2[c] \in Pods!Command
  BY PodsFields DEF Pods!PodsInv, Pods!PidsInv
<1>2. /\ x2[c].step = "forget" /\ Pods!Over(c, FALSE) /\ x3' = x3 /\ x4' = x4
      /\ x1' = [model \in Name |-> IF model \in Pods!NamesOf(x2[c].kind, x2[c].name)
                                   THEN Pods!NoModel ELSE x1[model]]
      /\ x5' = x5 \cup {"removed"}
  BY DEF Pods!Forget
<1>3. /\ Frame(c) /\ x2'[c].step = "over" /\ x2'[c].pids = {}
      /\ x2'[c].pid = x2[c].pid /\ x2'[c].failed = FALSE
  BY <1>1, <1>2, PodsOver
<1>4. Moves(c)
  BY <1>2, <1>3 DEF Moves, Frame
<1>5. GoesOn
  BY <1>1, <1>2, <1>3, <1>4, PodsFrame, PodsSameRunners DEF GoesOn
<1>6. Lasts
  BY <1>2, <1>3 DEF Lasts, Frame
<1>7. Pods!TypeOK'
  BY <1>1, <1>2, <1>3, PodsNone DEF Pods!TypeOK, Frame
<1>8. Pods!PidsInv'
  <2>1. ASSUME NEW d \in DOMAIN x2, x2'[d].step = "over", x2'[d].failed
        PROVE  x2[d].step = "over" /\ x2[d].failed
    BY <1>3, <2>1 DEF Frame
  <2>2. \A p \in DOMAIN x4' : Pods!TellsOf(x4[p].said, p)'
    BY <1>1, <1>2, PodsSameRunners
  <2> QED BY <1>1, <1>5, <1>6, <2>1, <2>2, PodsPids
<1>9. Pods!KnownInv'
  <2>1. ASSUME Pods!Alone, Pods!Alone', NEW d \in DOMAIN x2, x2'[d].step = "watch"
        PROVE  /\ Pods!TellsOf(x2[d].heard, x2[d].pid)'
               /\ x2'[d].failed => Pods!OutOfMemory(x2[d].pid)'
    <3>1. x2'[d] = x2[d] /\ x2[d].step = "watch"
      BY <1>3, <2>1 DEF Frame
    <3> QED BY <1>1, <1>5, <2>1, <3>1, PodsHears
  <2>2. ASSUME Pods!Alone, Pods!Alone', NEW d \in DOMAIN x2, x2'[d].step = "forget"
        PROVE  x2[d].step = "forget" \/ \A p \in x2[d].pids : x4'[p].state = "gone"
    BY <1>3, <2>2 DEF Frame
  <2> QED BY <1>1, <1>2, <1>5, <1>6, <2>1, <2>2, PodsKnown
<1>10. Pods!RunningIsKnown'
  <2>1. ASSUME Pods!Alone, Pods!Alone', NEW model \in Name, x1'[model] # x1[model]
        PROVE  x1[model].pid \notin Pods!Running'
    <3>1. model \in Pods!NamesOf(x2[c].kind, x2[c].name) /\ x1[model] # Pods!NoModel
      BY <1>2, <2>1
    <3>2. x1[model].pid \in x2[c].pids /\ \A p \in x2[c].pids : Pods!Ended(p)
      BY <1>1, <1>2, <2>1, <3>1 DEF Pods!KnownInv, Pods!StopsThem
    <3> QED BY <1>2, <3>2 DEF Pods!Running, Pods!Ended
  <2> QED BY <1>1, <1>2, <1>5, <1>6, <2>1, PodsRuns
<1>11. Pods!PortsInv'
  <2>1. \A d \in DOMAIN x2 : x2'[d].step = "launch" => x2[d].step = "launch"
    BY <1>3 DEF Frame
  <2> QED BY <1>1, <1>2, <1>5, <1>6, <2>1, PodsPortsStay
<1>12. Pods!SpreadInv'
  BY <1>1, <1>2, <1>5, PodsSpread
<1> QED BY <1>1, <1>5, <1>7, <1>8, <1>9, <1>10, <1>11, <1>12, PodsOneStart DEF Pods!PodsInv

LEMMA PodsSetup == ASSUME Pods!PodsInv, Pods!Setup PROVE Pods!PodsInv'
<1>1. Pods!TypeOK /\ Pods!PidsInv /\ Pods!OneStart /\ Pods!KnownInv
      /\ Pods!RunningIsKnown /\ Pods!PortsInv /\ Pods!SpreadInv
  BY DEF Pods!PodsInv
<1>2. /\ x1' = [model \in Name |-> Pods!NoModel] /\ x5' = x5 \cup {"setup", "removed"}
      /\ x2' = x2 /\ x3' = x3 /\ x4' = x4
  BY DEF Pods!Setup
<1>3. GoesOn
  BY <1>1, <1>2, PodsSameRunners DEF GoesOn, Moves, Likewise
<1>4. Lasts
  BY <1>2 DEF Lasts
<1>5. Pods!TypeOK'
  BY <1>1, <1>2, PodsNone DEF Pods!TypeOK
<1>6. Pods!PidsInv'
  BY <1>1, <1>2, <1>3, <1>4, PodsSameRunners, PodsPids
<1>7. ~Pods!Alone'
  BY <1>2 DEF Pods!Alone
<1>8. Pods!KnownInv' /\ Pods!RunningIsKnown' /\ Pods!PortsInv'
  BY <1>7 DEF Pods!KnownInv, Pods!RunningIsKnown, Pods!PortsInv, Pods!Alone
<1>9. Pods!SpreadInv'
  BY <1>1, <1>2, <1>3, PodsSpread
<1> QED BY <1>1, <1>3, <1>5, <1>6, <1>8, <1>9, PodsOneStart DEF Pods!PodsInv

(* Sequences that grow by one.                                             *)
LEMMA PodsAppended ==
    ASSUME NEW S, NEW s \in Seq(S), NEW e \in S
    PROVE  /\ Append(s, e) \in Seq(S) /\ Len(Append(s, e)) = Len(s) + 1 /\ Len(s) \in Nat
           /\ DOMAIN Append(s, e) = 1..(Len(s) + 1) /\ DOMAIN s = 1..Len(s)
           /\ \A i \in 1..Len(s) : Append(s, e)[i] = s[i]
           /\ Append(s, e)[Len(s) + 1] = e
  OBVIOUS

LEMMA PodsAppendedAt ==
    ASSUME NEW S, NEW s \in Seq(S), NEW e \in S, NEW i \in DOMAIN Append(s, e)
    PROVE  Append(s, e)[i] = e \/ (i \in DOMAIN s /\ Append(s, e)[i] = s[i])
<1>1. /\ Len(s) \in Nat /\ DOMAIN Append(s, e) = 1..(Len(s) + 1) /\ DOMAIN s = 1..Len(s)
      /\ \A j \in 1..Len(s) : Append(s, e)[j] = s[j]
      /\ Append(s, e)[Len(s) + 1] = e
  BY PodsAppended
<1>2. i \in 1..(Len(s) + 1)
  BY <1>1
<1>3. CASE i = Len(s) + 1
  BY <1>1, <1>3
<1>4. CASE i # Len(s) + 1
  BY <1>1, <1>2, <1>4
<1> QED BY <1>3, <1>4

LEMMA PodsSeqs == ASSUME Pods!TypeOK PROVE x2 \in Seq(Pods!Command) /\ x4 \in Seq(Pods!Runner)
  BY DEF Pods!TypeOK

(* A runner says something, which whoever watches its name hears.          *)
Truly(line, state) ==
    /\ line = "exited" => state = "gone"
    /\ line = "out of memory" => state = "failing"

LEMMA PodsSay ==
    ASSUME Pods!PodsInv, NEW p \in DOMAIN x4, NEW state \in {"up", "failing", "gone"}, NEW line \in Pods!Line,
           Pods!Say(p, state, line), ~Pods!Ended(p), Truly(line, state),
           Pods!OutOfMemory(p) => state \in {"failing", "gone"},
           state = "up" => x4[p].state = "starting"
    PROVE  Pods!PodsInv'
<1>1. /\ Pods!TypeOK /\ Pods!PidsInv /\ Pods!OneStart /\ Pods!KnownInv
      /\ Pods!RunningIsKnown /\ Pods!PortsInv /\ Pods!SpreadInv
      /\ x4[p] \in Pods!Runner /\ x4 \in Seq(Pods!Runner)
  BY PodsFields DEF Pods!PodsInv, Pods!TypeOK
<1> DEFINE said == [x4[p] EXCEPT !.state = state, !.said = Append(@, line)]
<1>2. /\ x4' = [x4 EXCEPT ![p] = said]
      /\ x2' = Pods!Told(x2, {x4[p].name}, line)
      /\ x1' = x1 /\ x3' = x3 /\ x5' = x5
  BY <1>1 DEF Pods!Say
<1>3. /\ said \in Pods!Runner /\ said.name = x4[p].name /\ said.port = x4[p].port
      /\ said.state = state /\ said.said = Append(x4[p].said, line)
      /\ x4[p].said \in Seq(Pods!Line)
  <2>1. x4[p].said \in Seq(Pods!Line)
    BY <1>1 DEF Pods!Runner
  <2>2. Append(x4[p].said, line) \in Seq(Pods!Line)
    BY <2>1, PodsAppended
  <2>3. x4[p] \in Pods!Runner
    BY <1>1
  <2> QED BY <2>1, <2>2, <2>3 DEF Pods!Runner
<1> HIDE DEF said
<1>4. /\ x4' \in Seq(Pods!Runner) /\ DOMAIN x4' = DOMAIN x4 /\ x4'[p] = said
      /\ \A q \in DOMAIN x4 : q # p => x4'[q] = x4[q]
  BY <1>1, <1>2, <1>3, ChangedAt
<1>5. \A q \in DOMAIN x4 : Ages(q)
  <2>1. Ages(p)
    BY <1>1, <1>3, <1>4 DEF Ages, Pods!Ended, Pods!OutOfMemory
  <2>2. \A q \in DOMAIN x4 : q # p => Ages(q)
    BY <1>4 DEF Ages, Pods!Ended, Pods!OutOfMemory
  <2> QED BY <2>1, <2>2
<1>6. /\ x2' \in Seq(Pods!Command) /\ DOMAIN x2' = DOMAIN x2
      /\ \A d \in DOMAIN x2 :
             /\ x2'[d].kind = x2[d].kind /\ x2'[d].name = x2[d].name
             /\ x2'[d].step = x2[d].step /\ x2'[d].port = x2[d].port
             /\ x2'[d].gpu = x2[d].gpu /\ x2'[d].pids = x2[d].pids
             /\ x2'[d].pid = x2[d].pid /\ x2'[d].failed = x2[d].failed
             /\ x2'[d].heard = IF x2[d].step = "watch" /\ x2[d].name \in {x4[p].name}
                                    THEN Append(x2[d].heard, line) ELSE x2[d].heard
  <2> DEFINE names == {x4[p].name}
  <2>1. x2 \in Seq(Pods!Command) /\ x2' = Pods!Told(x2, names, line)
    BY <1>1, <1>2, PodsSeqs
  <2> HIDE DEF names
  <2>2. /\ x2' \in Seq(Pods!Command) /\ DOMAIN x2' = DOMAIN x2
        /\ \A d \in DOMAIN x2 :
               /\ x2'[d].kind = x2[d].kind /\ x2'[d].name = x2[d].name
               /\ x2'[d].step = x2[d].step /\ x2'[d].port = x2[d].port
               /\ x2'[d].gpu = x2[d].gpu /\ x2'[d].pids = x2[d].pids
               /\ x2'[d].pid = x2[d].pid /\ x2'[d].failed = x2[d].failed
               /\ x2'[d].heard = IF x2[d].step = "watch" /\ x2[d].name \in names
                                      THEN Append(x2[d].heard, line) ELSE x2[d].heard
    BY <2>1, PodsTold
  <2> QED BY <2>2 DEF names
<1>7. GoesOn
  BY <1>2, <1>5, <1>6 DEF GoesOn, Moves, Likewise
<1>8. Lasts
  BY <1>2, <1>6 DEF Lasts
<1>9. Pods!TypeOK'
  BY <1>1, <1>2, <1>4, <1>6 DEF Pods!TypeOK
<1>10. ASSUME NEW lines \in Seq(Pods!Line), Pods!TellsOf(lines, p), NEW i \in DOMAIN Append(lines, line)
       PROVE  /\ Append(lines, line)[i] = "exited" => x4'[p].state = "gone"
              /\ Append(lines, line)[i] = "out of memory" => x4'[p].state \in {"failing", "gone"}
  <2>1. Append(lines, line)[i] = line \/ (i \in DOMAIN lines /\ Append(lines, line)[i] = lines[i])
    BY <1>10, PodsAppendedAt
  <2>2. CASE Append(lines, line)[i] = line
    BY <1>3, <1>4, <2>2 DEF Truly
  <2>3. CASE i \in DOMAIN lines /\ Append(lines, line)[i] = lines[i]
    BY <1>5, <1>10, <2>3 DEF Pods!TellsOf, Ages
  <2> QED BY <2>1, <2>2, <2>3
<1>11. Pods!PidsInv'
  <2>1. ASSUME NEW q \in DOMAIN x4' PROVE Pods!TellsOf(x4[q].said, q)'
    <3>1. Pods!TellsOf(x4[q].said, q)
      BY <1>1, <1>4 DEF Pods!PidsInv
    <3>2. CASE q = p
      BY <1>3, <1>4, <1>10, <3>1, <3>2 DEF Pods!TellsOf, Pods!Ended, Pods!OutOfMemory
    <3>3. CASE q # p
      BY <1>4, <3>1, <3>3 DEF Pods!TellsOf, Pods!Ended, Pods!OutOfMemory
    <3> QED BY <3>2, <3>3
  <2>2. ASSUME NEW d \in DOMAIN x2, x2'[d].step = "over", x2'[d].failed
        PROVE  x2[d].step = "over" /\ x2[d].failed
    BY <1>6, <2>2
  <2> QED BY <1>1, <1>7, <1>8, <2>1, <2>2, PodsPids
<1>12. Pods!KnownInv'
  <2>1. ASSUME Pods!Alone, Pods!Alone', NEW d \in DOMAIN x2, x2'[d].step = "watch"
        PROVE  /\ Pods!TellsOf(x2[d].heard, x2[d].pid)'
               /\ x2'[d].failed => Pods!OutOfMemory(x2[d].pid)'
    <3>1. x2[d].step = "watch" /\ x2[d].heard \in Seq(Pods!Line)
      BY <1>1, <1>6, <2>1, PodsFields DEF Pods!Command
    <3>2. CASE x2[d].name = x4[p].name
      <4>1. x2[d].pid = p /\ Pods!TellsOf(x2[d].heard, p) /\ (x2[d].failed => Pods!OutOfMemory(p))
        BY <1>1, <2>1, <3>1, <3>2 DEF Pods!KnownInv, Pods!HearsOwn
      <4>2. x2'[d].heard = Append(x2[d].heard, line) /\ x2'[d].pid = p
            /\ x2'[d].failed = x2[d].failed
        BY <1>6, <3>1, <3>2, <4>1
      <4>3. x2'[d].failed => x4'[p].state \in {"failing", "gone"}
        BY <1>5, <4>1, <4>2 DEF Ages
      <4> QED BY <1>10, <3>1, <4>1, <4>2, <4>3 DEF Pods!TellsOf, Pods!Ended, Pods!OutOfMemory
    <3>3. CASE x2[d].name # x4[p].name
      BY <1>1, <1>6, <1>7, <2>1, <3>1, <3>3, PodsHears
    <3> QED BY <3>2, <3>3
  <2>2. ASSUME Pods!Alone, Pods!Alone', NEW d \in DOMAIN x2, x2'[d].step = "forget"
        PROVE  x2[d].step = "forget" \/ \A q \in x2[d].pids : x4'[q].state = "gone"
    BY <1>6, <2>2
  <2> QED BY <1>1, <1>4, <1>7, <1>8, <2>1, <2>2, PodsKnown
<1>13. Pods!RunningIsKnown'
  BY <1>1, <1>2, <1>4, <1>7, <1>8, PodsRuns
<1>14. Pods!PortsInv'
  BY <1>1, <1>2, <1>6, <1>7, <1>8, PodsPortsStay
<1>15. Pods!SpreadInv'
  BY <1>1, <1>2, <1>7, PodsSpread
<1> QED BY <1>1, <1>7, <1>9, <1>11, <1>12, <1>13, <1>14, <1>15, PodsOneStart DEF Pods!PodsInv

LEMMA PodsRunner ==
    ASSUME Pods!PodsInv, NEW p \in DOMAIN x4, Pods!Up(p) \/ Pods!RunsOut(p) \/ Pods!Exit(p)
    PROVE  Pods!PodsInv'
<1>1. CASE Pods!Up(p)
  <2>1. Pods!Say(p, "up", "complete") /\ x4[p].state = "starting" /\ "complete" \in Pods!Line
    BY <1>1 DEF Pods!Up, Pods!Line
  <2> QED BY <2>1, PodsSay DEF Pods!Ended, Pods!OutOfMemory, Truly
<1>2. CASE Pods!RunsOut(p)
  <2>1. Pods!Say(p, "failing", "out of memory") /\ x4[p].state = "starting" /\ "out of memory" \in Pods!Line
    BY <1>2 DEF Pods!RunsOut, Pods!Line
  <2> QED BY <2>1, PodsSay DEF Pods!Ended, Pods!OutOfMemory, Truly
<1>3. CASE Pods!Exit(p)
  <2>1. Pods!Say(p, "gone", "exited") /\ x4[p].state # "gone" /\ "exited" \in Pods!Line
    BY <1>3 DEF Pods!Exit, Pods!Line
  <2> QED BY <2>1, PodsSay DEF Pods!Ended, Pods!OutOfMemory, Truly
<1> QED BY <1>1, <1>2, <1>3

(* A stop whose ssh goes through.                                          *)
Kills(c, killed, last, line) ==
    /\ x2[c].step = "kill"
    /\ killed = {p \in x2[c].pids : x4[p].state # "gone"} /\ last \subseteq killed
    /\ x4' = [p \in DOMAIN x4 |->
             IF p \in killed
             THEN [x4[p] EXCEPT !.state = "gone",
                      !.said = IF p \in last THEN Append(@, line) ELSE @]
             ELSE x4[p]]
    /\ x2' = Pods!Told([x2 EXCEPT ![c].step = "forget"], {x4[p].name : p \in last}, line)
    /\ x1' = x1 /\ x3' = x3 /\ x5' = x5

LEMMA PodsKills ==
    ASSUME Pods!PodsInv, NEW c \in DOMAIN x2, NEW killed, NEW last, NEW line \in Pods!Line,
           Kills(c, killed, last, line)
    PROVE  Pods!PodsInv'
<1>1. /\ Pods!TypeOK /\ Pods!PidsInv /\ Pods!OneStart /\ Pods!KnownInv
      /\ Pods!RunningIsKnown /\ Pods!PortsInv /\ Pods!SpreadInv
      /\ Pods!CommandInv(x2[c]) /\ x2[c] \in Pods!Command
      /\ x2 \in Seq(Pods!Command) /\ x4 \in Seq(Pods!Runner)
  BY PodsFields, PodsSeqs DEF Pods!PodsInv, Pods!PidsInv
<1>2. /\ killed \subseteq DOMAIN x4 /\ \A p \in killed : ~Pods!Ended(p) /\ p \in x2[c].pids
      /\ \A p \in x2[c].pids : p \notin killed => Pods!Ended(p)
      /\ last \subseteq killed
  BY <1>1 DEF Pods!CommandInv, Pods!Ended, Kills
<1>21. x2[c].step = "kill" /\ x1' = x1 /\ x3' = x3 /\ x5' = x5
  BY DEF Kills
<1> DEFINE stepped == [x2[c] EXCEPT !.step = "forget"]
           commands == [x2 EXCEPT ![c] = stepped]
           names == {x4[p].name : p \in last}
<1>3. /\ stepped \in Pods!Command /\ stepped.kind = x2[c].kind /\ stepped.name = x2[c].name
      /\ stepped.step = "forget" /\ stepped.port = x2[c].port /\ stepped.gpu = x2[c].gpu
      /\ stepped.pids = x2[c].pids /\ stepped.pid = x2[c].pid
      /\ stepped.failed = x2[c].failed /\ stepped.heard = x2[c].heard
  BY <1>1 DEF Pods!Command, Pods!Ssh
<1>4. x2' = Pods!Told(commands, names, line)
  BY <1>1 DEF Kills
<1> HIDE DEF stepped
<1>5. /\ commands \in Seq(Pods!Command) /\ DOMAIN commands = DOMAIN x2
      /\ commands[c] = stepped /\ \A d \in DOMAIN x2 : d # c => commands[d] = x2[d]
  BY <1>1, <1>3, ChangedAt
<1> HIDE DEF commands, names
<1>7. /\ x2' \in Seq(Pods!Command) /\ DOMAIN x2' = DOMAIN x2
      /\ \A d \in DOMAIN x2 :
             /\ x2'[d].kind = commands[d].kind /\ x2'[d].name = commands[d].name
             /\ x2'[d].step = commands[d].step /\ x2'[d].port = commands[d].port
             /\ x2'[d].gpu = commands[d].gpu /\ x2'[d].pids = commands[d].pids
             /\ x2'[d].pid = commands[d].pid /\ x2'[d].failed = commands[d].failed
             /\ x2'[d].heard = IF commands[d].step = "watch" /\ commands[d].name \in names
                                    THEN Append(commands[d].heard, line) ELSE commands[d].heard
  BY <1>4, <1>5, PodsTold
<1>8. /\ x2'[c].step = "forget"
      /\ \A d \in DOMAIN x2 :
             /\ x2'[d].kind = x2[d].kind /\ x2'[d].name = x2[d].name
             /\ x2'[d].port = x2[d].port /\ x2'[d].gpu = x2[d].gpu
             /\ x2'[d].pids = x2[d].pids /\ x2'[d].pid = x2[d].pid
             /\ x2'[d].failed = x2[d].failed
             /\ d # c => x2'[d].step = x2[d].step
             /\ x2[d].step = "watch" /\ x2[d].name \in names =>
                    x2'[d].heard = Append(x2[d].heard, line)
             /\ ~(x2[d].step = "watch" /\ x2[d].name \in names) =>
                    x2'[d].heard = x2[d].heard
  <2>1. c \in DOMAIN x2 /\ x2[c].step = "kill"
    BY <1>21
  <2>2. ASSUME NEW d \in DOMAIN x2, d # c
        PROVE  /\ x2'[d].kind = x2[d].kind /\ x2'[d].name = x2[d].name
               /\ x2'[d].port = x2[d].port /\ x2'[d].gpu = x2[d].gpu
               /\ x2'[d].pids = x2[d].pids /\ x2'[d].pid = x2[d].pid
               /\ x2'[d].failed = x2[d].failed
               /\ x2'[d].step = x2[d].step
               /\ x2[d].step = "watch" /\ x2[d].name \in names =>
                      x2'[d].heard = Append(x2[d].heard, line)
               /\ ~(x2[d].step = "watch" /\ x2[d].name \in names) =>
                      x2'[d].heard = x2[d].heard
    <3>1. commands[d] = x2[d]
      BY <1>5, <2>2
    <3> QED BY <1>7, <3>1
  <2>3. /\ x2'[c].kind = x2[c].kind /\ x2'[c].name = x2[c].name
        /\ x2'[c].port = x2[c].port /\ x2'[c].gpu = x2[c].gpu
        /\ x2'[c].pids = x2[c].pids /\ x2'[c].pid = x2[c].pid
        /\ x2'[c].failed = x2[c].failed /\ x2'[c].step = "forget"
        /\ x2'[c].heard = x2[c].heard
    BY <1>3, <1>5, <1>7
  <2> QED BY <2>1, <2>2, <2>3
<1>9. ASSUME NEW p \in DOMAIN x4
      PROVE  /\ x4'[p] \in Pods!Runner /\ x4'[p].name = x4[p].name
             /\ x4'[p].port = x4[p].port
             /\ p \in killed => x4'[p].state = "gone"
             /\ p \notin killed => x4'[p] = x4[p]
             /\ x4'[p].said = x4[p].said \/ (p \in killed /\ x4'[p].said = Append(x4[p].said, line))
             /\ x4[p].said \in Seq(Pods!Line)
  <2>1. x4[p] \in Pods!Runner /\ x4[p].said \in Seq(Pods!Line)
    BY <1>1, PodsFields DEF Pods!Runner
  <2>2. Append(x4[p].said, line) \in Seq(Pods!Line)
    BY <2>1, PodsAppended
  <2>3. CASE p \in killed
    <3>1. x4'[p] = [x4[p] EXCEPT !.state = "gone",
                            !.said = IF p \in last THEN Append(@, line) ELSE @]
      BY <2>3 DEF Kills
    <3> QED BY <2>1, <2>2, <2>3, <3>1 DEF Pods!Runner
  <2>4. CASE p \notin killed
    BY <2>1, <2>4 DEF Kills
  <2> QED BY <2>3, <2>4
<1>10. DOMAIN x4' = DOMAIN x4 /\ x4' \in Seq(Pods!Runner)
  <2>1. DOMAIN x4 = 1..Len(x4) /\ Len(x4) \in Nat
    BY <1>1, PodsFields
  <2>2. x4' \in [1..Len(x4) -> Pods!Runner] /\ DOMAIN x4' = DOMAIN x4
    <3>1. DOMAIN x4' = DOMAIN x4 /\ x4' = [p \in DOMAIN x4 |-> x4'[p]]
      BY DEF Kills
    <3>2. \A p \in 1..Len(x4) : x4'[p] \in Pods!Runner
      BY <1>9, <2>1
    <3> QED BY <2>1, <3>1, <3>2
  <2> QED BY <2>1, <2>2
<1>11. \A p \in DOMAIN x4 : Ages(p)
  BY <1>9, <1>10 DEF Ages, Pods!Ended, Pods!OutOfMemory
<1>12. GoesOn
  BY <1>7, <1>8, <1>11, <1>21 DEF GoesOn, Moves, Likewise
<1>13. Lasts
  BY <1>8, <1>21 DEF Lasts
<1>14. Pods!TypeOK'
  BY <1>1, <1>7, <1>10, <1>21 DEF Pods!TypeOK
<1>15. ASSUME NEW lines \in Seq(Pods!Line), NEW p \in DOMAIN x4, Pods!TellsOf(lines, p), x4'[p].state = "gone"
       PROVE  Pods!TellsOf(Append(lines, line), p)'
  <2>1. ASSUME NEW i \in DOMAIN Append(lines, line)
        PROVE  Append(lines, line)[i] = line \/ (i \in DOMAIN lines /\ Append(lines, line)[i] = lines[i])
    BY <2>1, PodsAppendedAt
  <2> QED BY <1>15, <2>1 DEF Pods!TellsOf, Pods!Ended, Pods!OutOfMemory
<1>16. Pods!PidsInv'
  <2>1. ASSUME NEW p \in DOMAIN x4' PROVE Pods!TellsOf(x4[p].said, p)'
    <3>1. p \in DOMAIN x4 /\ Pods!TellsOf(x4[p].said, p)
      BY <1>1, <1>10 DEF Pods!PidsInv
    <3>2. CASE x4'[p].said = x4[p].said
      BY <1>11, <3>1, <3>2 DEF Pods!TellsOf, Ages, Pods!Ended, Pods!OutOfMemory
    <3>3. CASE p \in killed /\ x4'[p].said = Append(x4[p].said, line)
      BY <1>9, <1>15, <3>1, <3>3 DEF Pods!TellsOf, Pods!Ended, Pods!OutOfMemory
    <3> QED BY <1>9, <3>1, <3>2, <3>3
  <2>2. ASSUME NEW d \in DOMAIN x2, x2'[d].step = "over", x2'[d].failed
        PROVE  x2[d].step = "over" /\ x2[d].failed
    BY <1>8, <2>2
  <2> QED BY <1>1, <1>12, <1>13, <2>1, <2>2, PodsPids
<1>17. Pods!KnownInv'
  <2>1. ASSUME Pods!Alone, Pods!Alone', NEW d \in DOMAIN x2, x2'[d].step = "watch"
        PROVE  /\ Pods!TellsOf(x2[d].heard, x2[d].pid)'
               /\ x2'[d].failed => Pods!OutOfMemory(x2[d].pid)'
    <3>1. /\ x2[d].step = "watch" /\ x2[d].heard \in Seq(Pods!Line)
          /\ Pods!HearsOwn(d) /\ x2[d].pid \in DOMAIN x4
          /\ x2'[d].pid = x2[d].pid /\ x2'[d].failed = x2[d].failed
      <4>1. x2[d] \in Pods!Command /\ Pods!CommandInv(x2[d])
        BY <1>1, PodsFields DEF Pods!PidsInv
      <4>2. x2[d].step = "watch" /\ x2[d].heard \in Seq(Pods!Line)
            /\ x2'[d].pid = x2[d].pid /\ x2'[d].failed = x2[d].failed
        BY <1>8, <2>1, <4>1 DEF Pods!Command
      <4> QED BY <1>1, <2>1, <4>1, <4>2 DEF Pods!KnownInv, Pods!CommandInv
    <3>2. CASE x2[d].name \in names
      <4>1. PICK p \in last : x2[d].name = x4[p].name
        BY <3>2 DEF names
      <4>2. x2[d].pid = p /\ x4'[p].state = "gone"
        BY <1>2, <1>9, <3>1, <4>1 DEF Pods!HearsOwn
      <4>3. Pods!TellsOf(x2[d].heard, x2[d].pid)
        BY <3>1 DEF Pods!HearsOwn
      <4>4. x2'[d].heard = Append(x2[d].heard, line)
        BY <1>8, <3>1, <3>2
      <4>5. Pods!TellsOf(Append(x2[d].heard, line), p)'
        BY <1>15, <3>1, <4>2, <4>3, <1>2, <4>1 DEF Pods!TellsOf, Pods!Ended, Pods!OutOfMemory
      <4> QED BY <3>1, <4>2, <4>4, <4>5 DEF Pods!TellsOf, Pods!Ended, Pods!OutOfMemory
    <3>3. CASE x2[d].name \notin names
      BY <1>1, <1>8, <1>12, <2>1, <3>1, <3>3, PodsHears
    <3> QED BY <3>2, <3>3
  <2>2. ASSUME Pods!Alone, Pods!Alone', NEW d \in DOMAIN x2, x2'[d].step = "forget"
        PROVE  x2[d].step = "forget" \/ \A p \in x2[d].pids : x4'[p].state = "gone"
    <3>1. ASSUME NEW p \in x2[c].pids PROVE x4'[p].state = "gone"
      BY <1>1, <1>2, <1>9, <3>1 DEF Pods!CommandInv, Pods!Ended
    <3> QED BY <1>8, <2>2, <3>1
  <2> QED BY <1>1, <1>10, <1>12, <1>13, <2>1, <2>2, PodsKnown
<1>18. Pods!RunningIsKnown'
  BY <1>1, <1>21, <1>10, <1>12, <1>13, PodsRuns
<1>19. Pods!PortsInv'
  BY <1>1, <1>21, <1>8, <1>12, <1>13, PodsPortsStay
<1>20. Pods!SpreadInv'
  BY <1>1, <1>21, <1>21, <1>12, PodsSpread
<1> QED BY <1>1, <1>12, <1>14, <1>16, <1>17, <1>18, <1>19, <1>20, PodsOneStart DEF Pods!PodsInv

(* Once names are shared or ssh has failed there is little to show.        *)
LEMMA PodsNotAlone ==
    ASSUME ~Pods!Alone' PROVE Pods!KnownInv' /\ Pods!RunningIsKnown' /\ Pods!PortsInv'
  BY DEF Pods!KnownInv, Pods!RunningIsKnown, Pods!PortsInv, Pods!Alone

LEMMA PodsKill == ASSUME Pods!PodsInv, NEW c \in DOMAIN x2, Pods!Kill(c) PROVE Pods!PodsInv'
<1>1. /\ Pods!TypeOK /\ Pods!PidsInv /\ Pods!OneStart /\ Pods!SpreadInv /\ x2[c].step = "kill"
      /\ x1' = x1 /\ x3' = x3
  BY DEF Pods!PodsInv, Pods!Kill
<1>2. CASE x5' = x5 \cup {"ssh"} /\ Pods!Step(c, "forget") /\ UNCHANGED x4
  <2>1. /\ Frame(c) /\ x2'[c].step = "forget" /\ x2'[c].port = x2[c].port
        /\ x2'[c].gpu = x2[c].gpu /\ x2'[c].pids = x2[c].pids
        /\ x2'[c].pid = x2[c].pid /\ x2'[c].failed = x2[c].failed
    <3>1. "forget" \in Pods!Ssh \cup {"watch", "over"}
      BY DEF Pods!Ssh
    <3> QED BY <1>1, <1>2, <3>1, PodsSteps
  <2>2. Moves(c)
    BY <1>1, <2>1 DEF Moves, Frame, Likewise
  <2>3. GoesOn
    BY <1>1, <1>2, <2>1, <2>2, PodsFrame, PodsSameRunners DEF GoesOn
  <2>4. Lasts
    BY <1>1, <2>1 DEF Lasts, Frame
  <2>5. Pods!TypeOK'
    BY <1>1, <1>2, <2>1 DEF Pods!TypeOK, Frame
  <2>6. Pods!PidsInv'
    <3>1. ASSUME NEW d \in DOMAIN x2, x2'[d].step = "over", x2'[d].failed
          PROVE  x2[d].step = "over" /\ x2[d].failed
      BY <2>1, <3>1 DEF Frame
    <3>2. \A p \in DOMAIN x4' : Pods!TellsOf(x4[p].said, p)'
      BY <1>1, <1>2, PodsSameRunners
    <3> QED BY <1>1, <2>3, <2>4, <3>1, <3>2, PodsPids
  <2>7. Pods!KnownInv' /\ Pods!RunningIsKnown' /\ Pods!PortsInv'
    BY <1>2, PodsNotAlone DEF Pods!Alone
  <2>8. Pods!SpreadInv'
    BY <1>1, <2>3, PodsSpread
  <2> QED BY <1>1, <2>3, <2>5, <2>6, <2>7, <2>8, PodsOneStart DEF Pods!PodsInv
<1>3. ASSUME NEW killed, NEW last, Kills(c, killed, last, "exited") PROVE Pods!PodsInv'
  BY <1>3, PodsKills DEF Pods!Line
<1>4. CASE ~(x5' = x5 \cup {"ssh"} /\ Pods!Step(c, "forget") /\ UNCHANGED x4)
  <2> DEFINE killed == {p \in x2[c].pids : x4[p].state # "gone"}
  <2>1. PICK last \in SUBSET killed :
            /\ x4' = [p \in DOMAIN x4 |->
                   IF p \in killed
                   THEN [x4[p] EXCEPT !.state = "gone",
                            !.said = IF p \in last THEN Append(@, "exited") ELSE @]
                   ELSE x4[p]]
            /\ x2' = Pods!Told([x2 EXCEPT ![c].step = "forget"],
                               {x4[p].name : p \in last}, "exited")
            /\ x5' = x5
    BY <1>4 DEF Pods!Kill
  <2>2. Kills(c, killed, last, "exited")
    BY <1>1, <2>1 DEF Kills
  <2> HIDE DEF killed
  <2> QED BY <1>3, <2>2
<1> QED BY <1>2, <1>4

(* A runner is started.                                                    *)
LEMMA PodsLaunched ==
    ASSUME Pods!TypeOK, Pods!PidsInv, NEW c \in DOMAIN x2, Pods!Launched(c)
    PROVE  /\ x4' \in Seq(Pods!Runner) /\ DOMAIN x4' = DOMAIN x4 \cup {Len(x4')}
           /\ Len(x4') \notin DOMAIN x4 /\ Len(x4') \in Nat \ {0}
           /\ \A p \in DOMAIN x4 : x4'[p] = x4[p]
           /\ x4'[Len(x4')].name = x2[c].name
           /\ x4'[Len(x4')].port = x3[x2[c].name]
           /\ \A p \in DOMAIN x4 : Ages(p)
           /\ \A p \in DOMAIN x4' : Pods!TellsOf(x4[p].said, p)'
<1> DEFINE runner == [name |-> x2[c].name, said |-> << >>,
                      state |-> "starting", port |-> x3[x2[c].name]]
<1>1. x2[c].name \in Name /\ x3[x2[c].name] \in Nat /\ x4 \in Seq(Pods!Runner)
  BY PodsFields, PodsSeqs DEF Pods!Command, Pods!TypeOK
<1>2. << >> \in Seq(Pods!Line)
  OBVIOUS
<1>3. /\ runner \in Pods!Runner /\ runner.name = x2[c].name /\ runner.said = << >>
      /\ runner.port = x3[x2[c].name]
  BY <1>1, <1>2 DEF Pods!Runner
<1>4. x4' = Append(x4, runner)
  BY DEF Pods!Launched
<1> HIDE DEF runner
<1>5. /\ x4' \in Seq(Pods!Runner) /\ Len(x4') = Len(x4) + 1 /\ Len(x4) \in Nat
      /\ DOMAIN x4' = 1..(Len(x4) + 1) /\ DOMAIN x4 = 1..Len(x4)
      /\ \A p \in 1..Len(x4) : x4'[p] = x4[p]
      /\ x4'[Len(x4) + 1] = runner
  BY <1>1, <1>3, <1>4, PodsAppended
<1>6. /\ DOMAIN x4' = DOMAIN x4 \cup {Len(x4')}
      /\ Len(x4') \notin DOMAIN x4 /\ Len(x4') \in Nat \ {0}
      /\ \A p \in DOMAIN x4 : x4'[p] = x4[p]
      /\ x4'[Len(x4')] = runner
  BY <1>5
<1>7. \A p \in DOMAIN x4 : Ages(p)
  BY <1>6 DEF Ages, Pods!Ended, Pods!OutOfMemory
<1>8. ASSUME NEW p \in DOMAIN x4' PROVE Pods!TellsOf(x4[p].said, p)'
  <2>1. CASE p \in DOMAIN x4
    BY <1>6, <2>1 DEF Pods!PidsInv, Pods!TellsOf, Pods!Ended, Pods!OutOfMemory
  <2>2. CASE p = Len(x4')
    <3>1. DOMAIN x4'[p].said = {}
      BY <1>3, <1>6, <2>2
    <3> QED BY <3>1 DEF Pods!TellsOf
  <2> QED BY <1>6, <2>1, <2>2
<1> QED BY <1>3, <1>5, <1>6, <1>7, <1>8

LEMMA PodsLaunchFails ==
    ASSUME Pods!PodsInv, NEW c \in DOMAIN x2, x2[c].step = "launch",
           Pods!Launched(c) \/ UNCHANGED x4, Pods!Over(c, FALSE), x5' = x5 \cup {"ssh"},
           x1' = x1, x3' = x3
    PROVE  Pods!PodsInv'
<1>1. Pods!TypeOK /\ Pods!PidsInv /\ Pods!OneStart /\ Pods!SpreadInv
  BY DEF Pods!PodsInv
<1>2. /\ Frame(c) /\ x2'[c].step = "over" /\ x2'[c].pids = {}
      /\ x2'[c].pid = x2[c].pid /\ x2'[c].failed = FALSE
  BY <1>1, PodsOver
<1>3. /\ x4' \in Seq(Pods!Runner) /\ \A p \in DOMAIN x4 : Ages(p)
      /\ \A p \in DOMAIN x4' : Pods!TellsOf(x4[p].said, p)'
  <2>1. CASE Pods!Launched(c)
    BY <1>1, <2>1, PodsLaunched
  <2>2. CASE x4' = x4
    BY <1>1, <2>2, PodsSameRunners, PodsSeqs
  <2> QED BY <2>1, <2>2
<1>4. Moves(c)
  BY <1>2 DEF Moves, Frame
<1>5. GoesOn
  BY <1>2, <1>3, <1>4, PodsFrame DEF GoesOn
<1>6. Lasts
  BY <1>2 DEF Lasts, Frame
<1>7. Pods!TypeOK'
  BY <1>1, <1>2, <1>3 DEF Pods!TypeOK, Frame
<1>8. Pods!PidsInv'
  <2>1. ASSUME NEW d \in DOMAIN x2, x2'[d].step = "over", x2'[d].failed
        PROVE  x2[d].step = "over" /\ x2[d].failed
    BY <1>2, <2>1 DEF Frame
  <2> QED BY <1>1, <1>3, <1>5, <1>6, <2>1, PodsPids
<1>9. Pods!KnownInv' /\ Pods!RunningIsKnown' /\ Pods!PortsInv'
  BY PodsNotAlone DEF Pods!Alone
<1>10. Pods!SpreadInv'
  BY <1>1, <1>5, PodsSpread
<1> QED BY <1>1, <1>5, <1>7, <1>8, <1>9, <1>10, PodsOneStart DEF Pods!PodsInv

TellsPid(c) == x2' = [x2 EXCEPT ![c].step = "save", ![c].pid = Len(x4')]

LEMMA PodsLaunchSucceeds ==
    ASSUME Pods!PodsInv, NEW c \in DOMAIN x2, x2[c].step = "launch", Pods!Launched(c), TellsPid(c),
           x5' = x5 \cup (IF Pods!LogInUse(x2[c].name) THEN {"same name"} ELSE {}),
           x1' = x1, x3' = x3
    PROVE  Pods!PodsInv'
<1> DEFINE pid == Len(x4')
<1>1. /\ Pods!TypeOK /\ Pods!PidsInv /\ Pods!OneStart /\ Pods!KnownInv
      /\ Pods!RunningIsKnown /\ Pods!PortsInv /\ Pods!SpreadInv
      /\ Pods!CommandInv(x2[c]) /\ x2[c] \in Pods!Command
  BY PodsFields DEF Pods!PodsInv, Pods!PidsInv
<1>2. /\ x4' \in Seq(Pods!Runner) /\ DOMAIN x4' = DOMAIN x4 \cup {pid}
      /\ pid \notin DOMAIN x4 /\ pid \in Nat \ {0}
      /\ \A p \in DOMAIN x4 : x4'[p] = x4[p]
      /\ x4'[pid].name = x2[c].name
      /\ x4'[pid].port = x3[x2[c].name]
      /\ \A p \in DOMAIN x4 : Ages(p)
      /\ \A p \in DOMAIN x4' : Pods!TellsOf(x4[p].said, p)'
  BY <1>1, PodsLaunched
<1> HIDE DEF pid
<1> DEFINE saving == [x2[c] EXCEPT !.step = "save", !.pid = pid]
<1>3. /\ saving \in Pods!Command /\ saving.kind = x2[c].kind /\ saving.name = x2[c].name
      /\ saving.step = "save" /\ saving.port = x2[c].port /\ saving.gpu = x2[c].gpu
      /\ saving.pids = x2[c].pids /\ saving.pid = pid /\ saving.failed = x2[c].failed
  BY <1>1, <1>2 DEF Pods!Command, Pods!Ssh
<1>4. x2' = [x2 EXCEPT ![c] = saving]
  BY <1>1 DEF TellsPid, Pods!TypeOK, pid
<1> HIDE DEF saving
<1>5. Frame(c) /\ x2'[c] = saving
  <2>1. x2 \in Seq(Pods!Command) /\ saving \in Pods!Command
    BY <1>1, <1>3, PodsSeqs
  <2>2. x2' \in Seq(Pods!Command) /\ DOMAIN x2' = DOMAIN x2 /\ x2'[c] = saving
        /\ \A d \in DOMAIN x2 : d # c => x2'[d] = x2[d]
    BY <1>4, <2>1, ChangedAt
  <2> QED BY <1>3, <2>2 DEF Frame
<1>6. Moves(c)
  BY <1>3, <1>5 DEF Moves, Likewise
<1>7. GoesOn
  BY <1>2, <1>5, <1>6, PodsFrame DEF GoesOn
<1>8. Pods!TypeOK'
  BY <1>1, <1>2, <1>5 DEF Pods!TypeOK, Frame
<1>9. \A d \in DOMAIN x2 : d # c => x2'[d] = x2[d]
  BY <1>5 DEF Frame
<1>10. Pods!PidsInv'
  <2>1. Pods!CommandInv(x2[c])'
    BY <1>1, <1>2, <1>3, <1>5 DEF Pods!CommandInv
  <2>2. ASSUME NEW d \in DOMAIN x2, d # c PROVE Pods!CommandInv(x2[d])'
    <3>1. Pods!CommandInv(x2[d]) /\ x2'[d] = x2[d]
      BY <1>1, <1>9, <2>2 DEF Pods!PidsInv
    <3> QED BY <1>2, <3>1 DEF Pods!CommandInv
  <2>3. ASSUME NEW d \in DOMAIN x2, d # c, x2'[d].pid # 0
        PROVE  x2'[d].pid # pid /\ x2'[d].pid = x2[d].pid
    <3>1. Pods!CommandInv(x2[d]) /\ x2'[d] = x2[d]
      BY <1>1, <1>9, <2>3 DEF Pods!PidsInv
    <3> QED BY <1>2, <2>3, <3>1 DEF Pods!CommandInv
  <2>4. x2'[c].pid = pid
    BY <1>3, <1>5
  <2>5. ASSUME NEW a \in DOMAIN x2, NEW b \in DOMAIN x2,
               x2'[a].pid = x2'[b].pid, x2'[a].pid # 0
        PROVE  a = b
    <3>1. CASE a # c /\ b # c
      BY <1>1, <2>3, <2>5, <3>1 DEF Pods!PidsInv
    <3>2. CASE a = c
      BY <2>3, <2>4, <2>5, <3>2
    <3>3. CASE b = c
      BY <2>3, <2>4, <2>5, <3>3
    <3> QED BY <3>1, <3>2, <3>3
  <2>6. ASSUME NEW model \in Name PROVE Pods!EntryInv(model)'
    <3> SUFFICES ASSUME x1[model] # Pods!NoModel PROVE Pods!EntryInv(model)'
      BY DEF Pods!EntryInv
    <3>1. PICK d \in DOMAIN x2 :
              /\ x2[d].name = model /\ x1[model].pid = x2[d].pid /\ x2[d].pid # 0
              /\ x2[d].step \in {"watch", "over"}
              /\ ~(x2[d].step = "over" /\ x2[d].failed)
      BY <1>1 DEF Pods!PidsInv, Pods!EntryInv
    <3>2. x2'[d] = x2[d] /\ d \in DOMAIN x2'
      BY <1>7, <1>9, <3>1 DEF GoesOn
    <3> QED BY <3>1, <3>2 DEF Pods!EntryInv
  <2>7. \A d \in DOMAIN x2 : Pods!CommandInv(x2[d])'
    BY <2>1, <2>2
  <2> QED BY <1>2, <1>7, <2>5, <2>6, <2>7 DEF Pods!PidsInv, GoesOn
<1>11. ASSUME Pods!Alone' PROVE Pods!Alone /\ ~Pods!LogInUse(x2[c].name)
  BY <1>11 DEF Pods!Alone
<1>12. Pods!KnownInv'
  <2> SUFFICES ASSUME Pods!Alone'
               PROVE  /\ \A a, b \in Pods!Active' : a # b => Pods!Apart(a, b)'
                      /\ \A d \in DOMAIN x2' : Pods!HearsOwn(d)' /\ Pods!StopsThem(d)'
    BY DEF Pods!KnownInv
  <2>1. \A a, b \in Pods!Active' : a # b => Pods!Apart(a, b)'
    BY <1>1, <1>7, <1>11, PodsApart DEF Pods!KnownInv
  <2>2. ASSUME NEW q \in DOMAIN x4', x4'[q].state # "gone",
               x4'[q].name = x2[c].name
        PROVE  q = pid
    BY <1>2, <1>11, <2>2 DEF Pods!LogInUse
  <2>3. Pods!HearsOwn(c)' /\ Pods!StopsThem(c)'
    BY <1>3, <1>5, <2>2 DEF Pods!HearsOwn, Pods!StopsThem, Pods!Ended
  <2>4. ASSUME NEW d \in DOMAIN x2, d # c PROVE Pods!HearsOwn(d)' /\ Pods!StopsThem(d)'
    <3>1. /\ x2'[d] = x2[d] /\ Pods!HearsOwn(d) /\ Pods!StopsThem(d) /\ Pods!CommandInv(x2[d])
          /\ x2[d] \in Pods!Command
      BY <1>1, <1>9, <1>11, <2>4, PodsFields DEF Pods!KnownInv, Pods!PidsInv
    <3>2. ASSUME x2[d].step \in {"save", "watch"} PROVE x2[d].name # x2[c].name
      <4>1. CASE x2[d].step = "watch"
        BY <1>11, <4>1 DEF Pods!LogInUse
      <4>2. CASE x2[d].step = "save"
        <5>1. d \in Pods!Active /\ c \in Pods!Active
          BY <4>2 DEF Pods!Active, Pods!Ssh
        <5>2. Pods!Apart(c, d)
          BY <1>1, <1>11, <2>4, <5>1 DEF Pods!KnownInv
        <5>3. x2[c].kind = "start" /\ x2[d].kind = "start"
          BY <1>1, <3>1, <4>2 DEF Pods!CommandInv
        <5> QED BY <5>2, <5>3 DEF Pods!Apart, Pods!NamesOf
      <4> QED BY <3>2, <4>1, <4>2
    <3>3. Pods!HearsOwn(d)'
      <4>1. ASSUME x2'[d].step \in {"save", "watch"}, NEW q \in DOMAIN x4',
                   x4'[q].state # "gone", x4'[q].name = x2'[d].name
            PROVE  q = x2'[d].pid
        BY <1>2, <3>1, <3>2, <4>1 DEF Pods!HearsOwn, Pods!Ended
      <4>2. ASSUME x2'[d].step = "watch"
            PROVE  /\ Pods!TellsOf(x2[d].heard, x2[d].pid)'
                   /\ x2'[d].failed => Pods!OutOfMemory(x2[d].pid)'
        BY <1>1, <1>7, <1>11, <3>1, <4>2, PodsHears
      <4> QED BY <4>1, <4>2 DEF Pods!HearsOwn, Pods!Ended
    <3>4. Pods!StopsThem(d)'
      <4>1. ASSUME x2'[d].step \in {"kill", "forget"}
            PROVE  \A model \in Pods!NamesOf(x2'[d].kind, x2'[d].name) :
                       x1'[model] = Pods!NoModel \/ x1'[model].pid \in x2'[d].pids
        BY <3>1, <4>1 DEF Pods!StopsThem
      <4>2. ASSUME x2'[d].step = "forget", NEW p \in x2'[d].pids
            PROVE  x4'[p].state = "gone"
        <5>1. x2[d].step = "forget" /\ p \in x2[d].pids
          BY <3>1, <4>2
        <5>2. p \in DOMAIN x4 /\ x4[p].state = "gone"
          BY <3>1, <5>1 DEF Pods!StopsThem, Pods!CommandInv, Pods!Ended
        <5> QED BY <1>2, <5>2
      <4> QED BY <4>1, <4>2 DEF Pods!StopsThem, Pods!Ended
    <3> QED BY <3>3, <3>4
  <2> QED BY <1>7, <2>1, <2>3, <2>4 DEF GoesOn
<1>13. Pods!RunningIsKnown'
  <2> SUFFICES ASSUME Pods!Alone', NEW p \in Pods!Running'
               PROVE  \/ \E model \in Name : x1'[model].pid = p
                      \/ \E d \in DOMAIN x2' : x2'[d].step = "save" /\ x2'[d].pid = p
    BY DEF Pods!RunningIsKnown, Pods!Alone
  <2>1. CASE p = pid
    BY <1>3, <1>5, <1>7, <2>1 DEF GoesOn
  <2>2. CASE p # pid
    <3>1. p \in Pods!Running
      BY <1>2, <2>2 DEF Pods!Running
    <3>2. CASE \E model \in Name : x1[model].pid = p
      BY <3>2
    <3>3. CASE \E d \in DOMAIN x2 : x2[d].step = "save" /\ x2[d].pid = p
      <4>1. PICK d \in DOMAIN x2 : x2[d].step = "save" /\ x2[d].pid = p
        BY <3>3
      <4>2. x2'[d] = x2[d] /\ d \in DOMAIN x2'
        BY <1>7, <1>9, <4>1 DEF GoesOn
      <4> QED BY <4>1, <4>2
    <3> QED BY <1>1, <1>11, <3>1, <3>2, <3>3 DEF Pods!RunningIsKnown, Pods!Alone
  <2> QED BY <2>1, <2>2
<1>14. Pods!PortsInv'
  <2> SUFFICES ASSUME Pods!Alone', "two starts" \notin x5'
               PROVE  /\ \A d \in Pods!Starting' : Pods!PortInv(d)'
                      /\ \A model, m \in Name : x1[model].port = x1[m].port /\ x1[model] # Pods!NoModel => model = m
                      /\ \A model \in Name : x1[model] # Pods!NoModel =>
                             x1[model].port # 0 /\ x4'[x1[model].pid].port = x1[model].port
    BY DEF Pods!PortsInv
  <2>1. Pods!Alone /\ "two starts" \notin x5
    BY <1>11
  <2>2. c \in Pods!Starting
    BY <1>1 DEF Pods!Starting, Pods!Active, Pods!Ssh, Pods!CommandInv
  <2>3. ASSUME NEW d \in Pods!Starting' PROVE Pods!PortInv(d)'
    <3>1. d = c
      BY <1>1, <1>7, <2>1, <2>2, PodsActive DEF Pods!OneStart
    <3>2. Pods!PortInv(c)
      BY <1>1, <2>1, <2>2 DEF Pods!PortsInv
    <3> QED BY <1>2, <1>3, <1>5, <3>1, <3>2 DEF Pods!PortInv
  <2>4. ASSUME NEW model \in Name, x1[model] # Pods!NoModel
        PROVE  x1[model].port # 0 /\ x4'[x1[model].pid].port = x1[model].port
    BY <1>1, <1>2, <2>1, <2>4, PodsEntry DEF Pods!PortsInv
  <2> QED BY <1>1, <2>1, <2>3, <2>4 DEF Pods!PortsInv
<1>15. Pods!SpreadInv'
  BY <1>1, <1>7, PodsSpread
<1> QED BY <1>1, <1>7, <1>8, <1>10, <1>12, <1>13, <1>14, <1>15, PodsOneStart DEF Pods!PodsInv

LEMMA PodsLaunch == ASSUME Pods!PodsInv, NEW c \in DOMAIN x2, Pods!Launch(c) PROVE Pods!PodsInv'
<1>1. x2[c].step = "launch" /\ x1' = x1 /\ x3' = x3
  BY DEF Pods!Launch
<1>2. CASE /\ Pods!Launched(c)
           /\ x2' = [x2 EXCEPT ![c].step = "save", ![c].pid = Len(x4')]
           /\ x5' = x5 \cup (IF Pods!LogInUse(x2[c].name) THEN {"same name"} ELSE {})
  BY <1>1, <1>2, PodsLaunchSucceeds DEF TellsPid
<1>3. CASE /\ Pods!Launched(c) \/ UNCHANGED x4
           /\ Pods!Over(c, FALSE) /\ x5' = x5 \cup {"ssh"}
  BY <1>1, <1>3, PodsLaunchFails
<1> QED BY <1>2, <1>3 DEF Pods!Launch

(* How many models a GPU has once another is saved.                        *)
LEMMA PodsUsage ==
    ASSUME x1 \in [Name -> Pods!Entry], NEW model \in Name, x1[model] = Pods!NoModel, NEW entry \in Pods!Entry,
           x1' = [x1 EXCEPT ![model] = entry], NEW g
    PROVE  Pods!Usage(g)' = Pods!UsageWith(entry.gpu, g) /\ Pods!UsageWith(entry.gpu, g) \in Nat
<1> DEFINE users == {m \in Name : g \in x1[m].gpu}
<1>1. IsFiniteSet(users) /\ model \notin users
  <2>1. IsFiniteSet(users)
    BY PodsAssumption, FS_Subset
  <2> QED BY <2>1, PodsNone
<1>2. Cardinality(users) \in Nat /\ Cardinality(users \cup {model}) = Cardinality(users) + 1
  BY <1>1, FS_AddElement, FS_CardinalityType
<1>3. {m \in Name : g \in x1'[m].gpu} = IF g \in entry.gpu THEN users \cup {model} ELSE users
  <2>1. \A m \in Name : x1'[m] = IF m = model THEN entry ELSE x1[m]
    OBVIOUS
  <2> QED BY <1>1, <2>1
<1>4. Pods!Usage(g) = Cardinality(users) /\ Pods!Usage(g)' = Cardinality({m \in Name : g \in x1'[m].gpu})
  BY DEF Pods!Usage, Cardinality, Pods!Cardinality
<1> HIDE DEF users
<1>5. CASE g \in entry.gpu
  <2>1. Pods!UsageWith(entry.gpu, g) = Pods!Usage(g) + 1
    BY <1>5 DEF Pods!UsageWith
  <2>2. {m \in Name : g \in x1'[m].gpu} = users \cup {model}
    BY <1>3, <1>5
  <2>3. Pods!Usage(g)' = Cardinality(users \cup {model})
    BY <1>4, <2>2
  <2> QED BY <1>2, <1>4, <2>1, <2>3
<1>6. CASE g \notin entry.gpu
  <2>1. Pods!UsageWith(entry.gpu, g) = Pods!Usage(g) + 0
    BY <1>6 DEF Pods!UsageWith
  <2>2. {m \in Name : g \in x1'[m].gpu} = users
    BY <1>3, <1>6
  <2>3. Pods!Usage(g)' = Cardinality(users)
    BY <1>4, <2>2
  <2> QED BY <1>2, <1>4, <2>1, <2>3
<1> QED BY <1>5, <1>6

LEMMA PodsZero == \A u \in Nat : u + 0 = u
  OBVIOUS

LEMMA PodsSave == ASSUME Pods!PodsInv, NEW c \in DOMAIN x2, Pods!Save(c) PROVE Pods!PodsInv'
<1> DEFINE name == x2[c].name
           pid == x2[c].pid
           entry == Pods!EntryOf(c)
<1>1. /\ Pods!TypeOK /\ Pods!PidsInv /\ Pods!OneStart /\ Pods!KnownInv
      /\ Pods!RunningIsKnown /\ Pods!PortsInv /\ Pods!SpreadInv
      /\ Pods!CommandInv(x2[c]) /\ x2[c] \in Pods!Command
  BY PodsFields DEF Pods!PodsInv, Pods!PidsInv
<1>2. /\ x2[c].step = "save" /\ x3' = x3 /\ x4' = x4 /\ x5' = x5
      /\ x1' = [x1 EXCEPT ![name] = entry]
  BY DEF Pods!Save
<1>3. /\ pid # 0 /\ pid \in DOMAIN x4 /\ x4[pid].name = name /\ name \in Name
      /\ x2[c].kind = "start" /\ ~x2[c].failed /\ x4[pid].said \in Seq(Pods!Line)
  BY <1>1, <1>2, PodsFields DEF Pods!CommandInv, Pods!Command, Pods!Runner
<1>4. /\ entry \in Pods!Entry /\ entry.port = x2[c].port /\ entry.gpu = x2[c].gpu
      /\ entry.pid = pid /\ entry # Pods!NoModel
  BY <1>1, <1>3, PodsNone DEF Pods!EntryOf, Pods!Entry, Pods!Command
<1> DEFINE watching == [x2[c] EXCEPT !.step = "watch", !.heard = x4[pid].said]
<1>5. /\ watching \in Pods!Command /\ watching.kind = x2[c].kind /\ watching.name = x2[c].name
      /\ watching.step = "watch" /\ watching.port = x2[c].port /\ watching.gpu = x2[c].gpu
      /\ watching.pids = x2[c].pids /\ watching.pid = pid /\ watching.failed = x2[c].failed
      /\ watching.heard = x4[pid].said
  BY <1>1, <1>3 DEF Pods!Command
<1>6. x2' = [x2 EXCEPT ![c] = watching]
  BY <1>1 DEF Pods!Save, Pods!TypeOK
<1> HIDE DEF watching, entry
<1>7. Frame(c) /\ x2'[c] = watching
  <2>1. x2 \in Seq(Pods!Command) /\ watching \in Pods!Command
    BY <1>1, <1>5, PodsSeqs
  <2>2. x2' \in Seq(Pods!Command) /\ DOMAIN x2' = DOMAIN x2 /\ x2'[c] = watching
        /\ \A d \in DOMAIN x2 : d # c => x2'[d] = x2[d]
    BY <1>6, <2>1, ChangedAt
  <2> QED BY <1>5, <2>2 DEF Frame
<1>8. Moves(c)
  BY <1>2, <1>5, <1>7 DEF Moves
<1>9. GoesOn
  BY <1>1, <1>2, <1>7, <1>8, PodsFrame, PodsSameRunners DEF GoesOn
<1>10. \A model \in Name : x1'[model] = IF model = name THEN entry ELSE x1[model]
  BY <1>1, <1>2 DEF Pods!TypeOK
<1>11. Pods!TypeOK'
  <2>1. x1' \in [Name -> Pods!Entry]
    BY <1>1, <1>2, <1>4 DEF Pods!TypeOK
  <2> QED BY <1>1, <1>2, <1>7, <2>1 DEF Pods!TypeOK, Frame
<1>12. \A d \in DOMAIN x2 : d # c => x2'[d] = x2[d]
  BY <1>7 DEF Frame
<1>13. Pods!PidsInv'
  <2>1. ASSUME NEW d \in DOMAIN x2 PROVE Pods!CommandInv(x2[d])' /\ x2'[d].pid = x2[d].pid
    <3>1. CASE d = c
      BY <1>1, <1>2, <1>3, <1>5, <1>7, <3>1 DEF Pods!CommandInv
    <3>2. CASE d # c
      BY <1>1, <1>2, <1>12, <3>2 DEF Pods!CommandInv, Pods!PidsInv
    <3> QED BY <3>1, <3>2
  <2>2. ASSUME NEW model \in Name PROVE Pods!EntryInv(model)'
    <3>1. CASE model = name
      <4>1. c \in DOMAIN x2' /\ x1'[model].pid = x2'[c].pid /\ x2'[c].name = model
            /\ x2'[c].step = "watch" /\ x2'[c].pid # 0
        BY <1>3, <1>4, <1>5, <1>7, <1>9, <1>10, <3>1 DEF GoesOn
      <4> QED BY <4>1 DEF Pods!EntryInv
    <3>2. CASE model # name
      <4> SUFFICES ASSUME x1[model] # Pods!NoModel PROVE Pods!EntryInv(model)'
        BY <1>10, <3>2 DEF Pods!EntryInv
      <4>1. PICK d \in DOMAIN x2 :
                /\ x2[d].name = model /\ x1[model].pid = x2[d].pid /\ x2[d].pid # 0
                /\ x2[d].step \in {"watch", "over"}
                /\ ~(x2[d].step = "over" /\ x2[d].failed)
        BY <1>1 DEF Pods!PidsInv, Pods!EntryInv
      <4>2. x2'[d] = x2[d] /\ d \in DOMAIN x2' /\ x1'[model] = x1[model]
        BY <1>2, <1>9, <1>10, <1>12, <3>2, <4>1 DEF GoesOn
      <4> QED BY <4>1, <4>2 DEF Pods!EntryInv
    <3> QED BY <3>1, <3>2
  <2>3. \A p \in DOMAIN x4' : Pods!TellsOf(x4[p].said, p)'
    BY <1>1, <1>2, PodsSameRunners
  <2> QED BY <1>1, <1>9, <2>1, <2>2, <2>3 DEF Pods!PidsInv, GoesOn
<1>14. c \in Pods!Active /\ c \in Pods!Starting
  BY <1>2, <1>3 DEF Pods!Starting, Pods!Active, Pods!Ssh
<1>15. Pods!KnownInv'
  <2> SUFFICES ASSUME Pods!Alone'
               PROVE  /\ \A a, b \in Pods!Active' : a # b => Pods!Apart(a, b)'
                      /\ \A d \in DOMAIN x2' : Pods!HearsOwn(d)' /\ Pods!StopsThem(d)'
    BY DEF Pods!KnownInv
  <2>1. Pods!Alone
    BY <1>2 DEF Pods!Alone
  <2>2. \A a, b \in Pods!Active' : a # b => Pods!Apart(a, b)'
    BY <1>1, <1>9, <2>1, PodsApart DEF Pods!KnownInv
  <2>3. Pods!HearsOwn(c)' /\ Pods!StopsThem(c)'
    <3>1. Pods!HearsOwn(c) /\ Pods!TellsOf(x4[pid].said, pid)
      BY <1>1, <1>3, <2>1 DEF Pods!KnownInv, Pods!PidsInv
    <3> QED BY <1>2, <1>3, <1>5, <1>7, <3>1 DEF Pods!HearsOwn, Pods!StopsThem, Pods!Ended, Pods!TellsOf, Pods!OutOfMemory
  <2>4. ASSUME NEW d \in DOMAIN x2, d # c PROVE Pods!HearsOwn(d)' /\ Pods!StopsThem(d)'
    <3>1. x2'[d] = x2[d] /\ Pods!HearsOwn(d) /\ Pods!StopsThem(d) /\ x2[d] \in Pods!Command
      BY <1>1, <1>12, <2>1, <2>4, PodsFields DEF Pods!KnownInv
    <3>2. Pods!HearsOwn(d)'
      BY <1>2, <3>1 DEF Pods!HearsOwn, Pods!Ended, Pods!TellsOf, Pods!OutOfMemory
    <3>3. ASSUME x2[d].step \in {"kill", "forget"} PROVE name \notin Pods!NamesOf(x2[d].kind, x2[d].name)
      <4>1. d \in Pods!Active
        BY <3>3 DEF Pods!Active, Pods!Ssh
      <4>2. Pods!Apart(c, d)
        BY <1>1, <1>14, <2>1, <2>4, <4>1 DEF Pods!KnownInv
      <4> QED BY <1>3, <4>2 DEF Pods!Apart, Pods!NamesOf
    <3>4. Pods!NamesOf(x2[d].kind, x2[d].name) \subseteq Name
      BY <3>1 DEF Pods!NamesOf, Pods!Command
    <3>5. Pods!StopsThem(d)'
      BY <1>2, <1>10, <3>1, <3>3, <3>4 DEF Pods!StopsThem, Pods!Ended
    <3> QED BY <3>2, <3>5
  <2> QED BY <1>9, <2>2, <2>3, <2>4 DEF GoesOn
<1>16. Pods!RunningIsKnown'
  <2> SUFFICES ASSUME Pods!Alone, NEW p \in Pods!Running
               PROVE  \/ \E model \in Name : x1'[model].pid = p
                      \/ \E d \in DOMAIN x2' : x2'[d].step = "save" /\ x2'[d].pid = p
    BY <1>2 DEF Pods!RunningIsKnown, Pods!Alone, Pods!Running
  <2>1. CASE \E model \in Name : x1[model].pid = p
    <3>1. PICK model \in Name : x1[model].pid = p
      BY <2>1
    <3>2. CASE model # name
      BY <1>10, <3>1, <3>2
    <3>3. CASE model = name
      <4>1. p \in DOMAIN x4 /\ p # 0 /\ ~Pods!Ended(p)
        BY <1>1, PodsFields DEF Pods!Running, Pods!Ended
      <4>2. x4[p].name = name
        BY <1>1, <3>1, <3>3, <4>1, PodsEntry, PodsNone
      <4>3. p = pid
        BY <1>1, <1>2, <4>1, <4>2 DEF Pods!KnownInv, Pods!HearsOwn
      <4> QED BY <1>3, <1>4, <1>10, <4>3
    <3> QED BY <3>2, <3>3
  <2>2. CASE \E d \in DOMAIN x2 : x2[d].step = "save" /\ x2[d].pid = p
    <3>1. PICK d \in DOMAIN x2 : x2[d].step = "save" /\ x2[d].pid = p
      BY <2>2
    <3>2. CASE d = c
      BY <1>3, <1>4, <1>10, <3>1, <3>2
    <3>3. CASE d # c
      <4>1. x2'[d] = x2[d] /\ d \in DOMAIN x2'
        BY <1>9, <1>12, <3>1, <3>3 DEF GoesOn
      <4> QED BY <3>1, <4>1
    <3> QED BY <3>2, <3>3
  <2> QED BY <1>1, <2>1, <2>2 DEF Pods!RunningIsKnown, Pods!Alone
<1>17. ASSUME "two starts" \notin x5 PROVE Pods!Starting' = {}
  <2>1. Pods!Starting' \subseteq Pods!Starting /\ c \notin Pods!Starting'
    BY <1>5, <1>7, <1>9, PodsActive DEF Pods!Starting, Pods!Active, Pods!Ssh
  <2>2. \A d \in Pods!Starting : d = c
    BY <1>1, <1>14, <1>17 DEF Pods!OneStart
  <2> QED BY <2>1, <2>2
<1>18. Pods!PortsInv'
  <2> SUFFICES ASSUME Pods!Alone, "two starts" \notin x5
               PROVE  /\ \A model, m \in Name : x1'[model].port = x1'[m].port /\ x1'[model] # Pods!NoModel => model = m
                      /\ \A model \in Name : x1'[model] # Pods!NoModel =>
                             x1'[model].port # 0 /\ x4[x1'[model].pid].port = x1'[model].port
    BY <1>2, <1>17 DEF Pods!PortsInv, Pods!Alone
  <2>1. /\ entry.port # 0 /\ \A model \in Name : x1[model].port # entry.port
        /\ x4[pid].port = entry.port
    BY <1>1, <1>2, <1>4, <1>14 DEF Pods!PortsInv, Pods!PortInv
  <2>2. ASSUME NEW model \in Name, NEW m \in Name, x1'[model].port = x1'[m].port, x1'[model] # Pods!NoModel
        PROVE  model = m
    BY <1>1, <1>10, <2>1, <2>2 DEF Pods!PortsInv
  <2>3. ASSUME NEW model \in Name, x1'[model] # Pods!NoModel
        PROVE  x1'[model].port # 0 /\ x4[x1'[model].pid].port = x1'[model].port
    BY <1>1, <1>4, <1>10, <2>1, <2>3 DEF Pods!PortsInv
  <2> QED BY <2>2, <2>3
<1>19. Pods!SpreadInv'
  <2> SUFFICES ASSUME x5 \cap {"two starts", "removed"} = {} PROVE Pods!Spread({})'
    BY <1>2, <1>17 DEF Pods!SpreadInv
  <2>1. x1[name] = Pods!NoModel /\ Pods!Spread(x2[c].gpu)
    BY <1>1, <1>14 DEF Pods!SpreadInv
  <2>2. \A g \in Pods!Gpu : Pods!Usage(g)' = Pods!UsageWith(entry.gpu, g) /\ Pods!UsageWith(entry.gpu, g) \in Nat
    BY <1>1, <1>2, <1>3, <1>4, <2>1, PodsUsage DEF Pods!TypeOK
  <2>3. \A g \in Pods!Gpu : Pods!UsageWith({}, g)' = Pods!UsageWith(x2[c].gpu, g)
    <3> SUFFICES ASSUME NEW g \in Pods!Gpu PROVE Pods!UsageWith({}, g)' = Pods!UsageWith(x2[c].gpu, g)
      OBVIOUS
    <3>1. Pods!UsageWith({}, g)' = Pods!Usage(g)' + 0
      BY DEF Pods!UsageWith
    <3>2. Pods!Usage(g)' = Pods!UsageWith(x2[c].gpu, g) /\ Pods!UsageWith(x2[c].gpu, g) \in Nat
      BY <1>4, <2>2
    <3> QED BY <3>1, <3>2, PodsZero
  <2> QED BY <2>1, <2>3 DEF Pods!Spread
<1> QED BY <1>1, <1>9, <1>11, <1>13, <1>15, <1>16, <1>18, <1>19, PodsOneStart DEF Pods!PodsInv

(* A command that may begin.                                               *)
Fit(kind, model, step, port, gpu, pids) ==
    /\ model \in Name /\ port \in Nat /\ gpu \in SUBSET Pods!Gpu /\ pids \in SUBSET DOMAIN x4
    /\ \/ /\ kind = "start" /\ step = "upload" /\ port # 0
          /\ x1[model] = Pods!NoModel /\ \A m \in Name : x1[m].port # port
          /\ Pods!Spread({}) => Pods!Spread(gpu)
       \/ /\ kind \in {"stop", "stopAll"} /\ step = "kill"
          /\ \A m \in Pods!NamesOf(kind, model) : x1[m] = Pods!NoModel \/ x1[m].pid \in pids

LEMMA PodsBegin ==
    ASSUME Pods!PodsInv, NEW kind, NEW model, NEW step, NEW port, NEW gpu, NEW pids,
           Fit(kind, model, step, port, gpu, pids), Pods!Begin(kind, model, step, port, gpu, pids)
    PROVE  Pods!PodsInv'
<1> DEFINE new == [kind |-> kind, name |-> model, step |-> step, port |-> port, gpu |-> gpu,
                   pids |-> pids, pid |-> 0, failed |-> FALSE, heard |-> << >>]
           starts == kind = "start" /\ \E d \in Pods!Active : x2[d].kind = "start"
           shares == \E d \in Pods!Active : Pods!NamesOf(x2[d].kind, x2[d].name) \cap Pods!NamesOf(kind, model) # {}
<1>1. /\ Pods!TypeOK /\ Pods!PidsInv /\ Pods!OneStart /\ Pods!KnownInv
      /\ Pods!RunningIsKnown /\ Pods!PortsInv /\ Pods!SpreadInv
      /\ x2 \in Seq(Pods!Command)
  BY PodsSeqs DEF Pods!PodsInv
<1>2. /\ x2' = Append(x2, new)
      /\ x5' = x5 \cup (IF starts THEN {"two starts"} ELSE {})
                    \cup (IF shares THEN {"same name"} ELSE {})
      /\ x1' = x1 /\ x3' = x3 /\ x4' = x4
  BY DEF Pods!Begin
<1>3. << >> \in Seq(Pods!Line)
  OBVIOUS
<1>4. /\ new \in Pods!Command /\ new.kind = kind /\ new.name = model /\ new.step = step /\ new.port = port
      /\ new.gpu = gpu /\ new.pids = pids /\ new.pid = 0 /\ ~new.failed
  <2>1. pids \in SUBSET Nat
    BY <1>1, PodsFields DEF Fit
  <2> QED BY <1>3, <2>1 DEF Fit, Pods!Command, Pods!Ssh
<1> HIDE DEF new
<1>15. PICK c \in Nat : c = Len(x2) + 1
  BY <1>1
<1>5. /\ x2' \in Seq(Pods!Command) /\ DOMAIN x2' = DOMAIN x2 \cup {c} /\ c \notin DOMAIN x2
      /\ \A d \in DOMAIN x2 : x2'[d] = x2[d]
      /\ x2'[c] = new
  <2>1. /\ Append(x2, new) \in Seq(Pods!Command) /\ Len(x2) \in Nat
        /\ DOMAIN Append(x2, new) = 1..(Len(x2) + 1) /\ DOMAIN x2 = 1..Len(x2)
        /\ \A i \in 1..Len(x2) : Append(x2, new)[i] = x2[i]
        /\ Append(x2, new)[Len(x2) + 1] = new
    BY <1>1, <1>4, PodsAppended
  <2>2. c = Len(x2) + 1 /\ x2' = Append(x2, new)
    BY <1>2, <1>15
  <2> QED BY <2>1, <2>2
<1>6. Pods!TypeOK'
  BY <1>1, <1>2, <1>5 DEF Pods!TypeOK
<1>7. Pods!Active' \subseteq Pods!Active \cup {c} /\ Pods!Starting' \subseteq Pods!Starting \cup {c}
      /\ (c \in Pods!Starting' => kind = "start")
  BY <1>4, <1>5 DEF Pods!Active, Pods!Starting
<1>8. Pods!PidsInv'
  <2>1. Pods!CommandInv(x2[c])'
    BY <1>2, <1>4, <1>5 DEF Pods!CommandInv, Fit
  <2>2. \A d \in DOMAIN x2 : Pods!CommandInv(x2[d])'
    BY <1>1, <1>2, <1>5 DEF Pods!PidsInv, Pods!CommandInv
  <2>3. \A a, b \in DOMAIN x2' : x2'[a].pid = x2'[b].pid /\ x2'[a].pid # 0 => a = b
    BY <1>1, <1>4, <1>5 DEF Pods!PidsInv
  <2>4. ASSUME NEW m \in Name PROVE Pods!EntryInv(m)'
    <3> SUFFICES ASSUME x1[m] # Pods!NoModel PROVE Pods!EntryInv(m)'
      BY <1>2 DEF Pods!EntryInv
    <3>1. PICK d \in DOMAIN x2 :
              /\ x2[d].name = m /\ x1[m].pid = x2[d].pid /\ x2[d].pid # 0
              /\ x2[d].step \in {"watch", "over"}
              /\ ~(x2[d].step = "over" /\ x2[d].failed)
      BY <1>1 DEF Pods!PidsInv, Pods!EntryInv
    <3>2. x2'[d] = x2[d] /\ d \in DOMAIN x2'
      BY <1>5
    <3> QED BY <1>2, <3>1, <3>2 DEF Pods!EntryInv
  <2>5. \A p \in DOMAIN x4' : Pods!TellsOf(x4[p].said, p)'
    BY <1>1, <1>2, PodsSameRunners
  <2> QED BY <1>5, <2>1, <2>2, <2>3, <2>4, <2>5 DEF Pods!PidsInv
<1>9. Pods!OneStart'
  <2> SUFFICES ASSUME "two starts" \notin x5' PROVE \A a, b \in Pods!Starting' : a = b
    BY DEF Pods!OneStart
  <2>1. "two starts" \notin x5 /\ ~starts
    BY <1>2
  <2>2. \A a, b \in Pods!Starting : a = b
    BY <1>1, <2>1 DEF Pods!OneStart
  <2>3. c \in Pods!Starting' => Pods!Starting = {}
    BY <1>7, <2>1 DEF Pods!Starting
  <2> QED BY <1>7, <2>2, <2>3
<1>10. ASSUME Pods!Alone' PROVE Pods!Alone /\ ~shares
  BY <1>2, <1>10 DEF Pods!Alone
<1> HIDE DEF starts, shares
<1>11. Pods!KnownInv'
  <2> SUFFICES ASSUME Pods!Alone'
               PROVE  /\ \A a, b \in Pods!Active' : a # b => Pods!Apart(a, b)'
                      /\ \A d \in DOMAIN x2' : Pods!HearsOwn(d)' /\ Pods!StopsThem(d)'
    BY DEF Pods!KnownInv
  <2>1. Pods!Alone /\ ~shares
    BY <1>10
  <2>2. ASSUME NEW a \in Pods!Active, NEW b \in Pods!Active, a # b PROVE Pods!Apart(a, b)'
    BY <1>1, <1>5, <2>1, <2>2 DEF Pods!KnownInv, Pods!Apart, Pods!Active
  <2>3. ASSUME NEW a \in Pods!Active PROVE Pods!Apart(a, c)' /\ Pods!Apart(c, a)'
    BY <1>4, <1>5, <2>1, <2>3 DEF Pods!Apart, Pods!Active, shares
  <2>4. Pods!HearsOwn(c)' /\ Pods!StopsThem(c)'
    <3>1. x2'[c] = new /\ new.kind = kind /\ new.name = model /\ new.step = step /\ new.pids = pids
      BY <1>4, <1>5
    <3>2. step \notin {"save", "watch", "forget"}
      BY DEF Fit
    <3>3. step = "kill" => \A m \in Pods!NamesOf(kind, model) : x1[m] = Pods!NoModel \/ x1[m].pid \in pids
      BY DEF Fit
    <3>4. Pods!HearsOwn(c)'
      BY <3>1, <3>2 DEF Pods!HearsOwn
    <3>5. Pods!StopsThem(c)'
      BY <1>2, <3>1, <3>2, <3>3 DEF Pods!StopsThem
    <3> QED BY <3>4, <3>5
  <2>5. ASSUME NEW d \in DOMAIN x2 PROVE Pods!HearsOwn(d)' /\ Pods!StopsThem(d)'
    <3>1. x2'[d] = x2[d] /\ Pods!HearsOwn(d) /\ Pods!StopsThem(d)
      BY <1>1, <1>5, <2>1 DEF Pods!KnownInv
    <3>2. Pods!HearsOwn(d)'
      BY <1>2, <3>1 DEF Pods!HearsOwn, Pods!Ended, Pods!TellsOf, Pods!OutOfMemory
    <3>3. Pods!StopsThem(d)'
      BY <1>2, <3>1 DEF Pods!StopsThem, Pods!Ended
    <3> QED BY <3>2, <3>3
  <2> QED BY <1>5, <1>7, <2>2, <2>3, <2>4, <2>5
<1>12. Pods!RunningIsKnown'
  <2> SUFFICES ASSUME Pods!Alone', NEW p \in Pods!Running'
               PROVE  \/ \E m \in Name : x1'[m].pid = p
                      \/ \E d \in DOMAIN x2' : x2'[d].step = "save" /\ x2'[d].pid = p
    BY DEF Pods!RunningIsKnown, Pods!Alone
  <2>2. p \in Pods!Running
    BY <1>2 DEF Pods!Running
  <2>1. \/ \E m \in Name : x1[m].pid = p
        \/ \E d \in DOMAIN x2 : x2[d].step = "save" /\ x2[d].pid = p
    BY <1>1, <1>10, <2>2 DEF Pods!RunningIsKnown, Pods!Alone
  <2> QED BY <1>2, <1>5, <2>1
<1>13. Pods!PortsInv'
  <2> SUFFICES ASSUME Pods!Alone', "two starts" \notin x5'
               PROVE  /\ \A d \in Pods!Starting' : Pods!PortInv(d)'
                      /\ \A m, k \in Name : x1[m].port = x1[k].port /\ x1[m] # Pods!NoModel => m = k
                      /\ \A m \in Name : x1[m] # Pods!NoModel =>
                             x1[m].port # 0 /\ x4[x1[m].pid].port = x1[m].port
    BY <1>2 DEF Pods!PortsInv
  <2>1. Pods!Alone /\ "two starts" \notin x5
    BY <1>2, <1>10
  <2>2. ASSUME NEW d \in Pods!Starting PROVE Pods!PortInv(d)'
    <3>1. x2'[d] = x2[d] /\ Pods!PortInv(d)
      BY <1>1, <1>5, <2>1 DEF Pods!PortsInv, Pods!Starting, Pods!Active
    <3> QED BY <1>2, <3>1 DEF Pods!PortInv
  <2>3. ASSUME c \in Pods!Starting' PROVE Pods!PortInv(c)'
    <3>1. step = "upload" /\ port # 0 /\ \A m \in Name : x1[m].port # port
      BY <1>7, <2>3 DEF Fit
    <3> QED BY <1>2, <1>4, <1>5, <3>1 DEF Pods!PortInv
  <2> QED BY <1>1, <1>7, <2>1, <2>2, <2>3 DEF Pods!PortsInv
<1>14. Pods!SpreadInv'
  <2> SUFFICES ASSUME x5' \cap {"two starts", "removed"} = {}
               PROVE  /\ Pods!Spread({})'
                      /\ \A d \in Pods!Starting' : (x1[x2[d].name] = Pods!NoModel /\ Pods!Spread(x2[d].gpu))'
    BY DEF Pods!SpreadInv
  <2>1. x5 \cap {"two starts", "removed"} = {}
    BY <1>2
  <2>2. \A gs : \A g \in Pods!Gpu : Pods!UsageWith(gs, g)' = Pods!UsageWith(gs, g)
    BY <1>2 DEF Pods!UsageWith, Pods!Usage
  <2>3. \A gs : Pods!Spread(gs)' <=> Pods!Spread(gs)
    BY <2>2 DEF Pods!Spread
  <2>4. Pods!Spread({})
    BY <1>1, <2>1 DEF Pods!SpreadInv
  <2>5. ASSUME NEW d \in Pods!Starting PROVE x1'[x2'[d].name] = Pods!NoModel /\ Pods!Spread(x2[d].gpu)'
    <3>1. x2'[d] = x2[d] /\ x1[x2[d].name] = Pods!NoModel /\ Pods!Spread(x2[d].gpu)
      BY <1>1, <1>5, <2>1 DEF Pods!SpreadInv, Pods!Starting, Pods!Active
    <3>2. \A g \in Pods!Gpu : Pods!UsageWith(x2[d].gpu, g)' = Pods!UsageWith(x2[d].gpu, g)
      BY <1>2, <3>1 DEF Pods!UsageWith, Pods!Usage
    <3>3. Pods!Spread(x2[d].gpu)'
      BY <3>1, <3>2 DEF Pods!Spread
    <3> QED BY <1>2, <3>1, <3>3
  <2>6. ASSUME c \in Pods!Starting' PROVE x1'[x2'[c].name] = Pods!NoModel /\ Pods!Spread(x2[c].gpu)'
    <3>1. x1[model] = Pods!NoModel /\ Pods!Spread(gpu) /\ x2'[c].name = model /\ x2'[c].gpu = gpu
      BY <1>4, <1>5, <1>7, <2>4, <2>6 DEF Fit
    <3>2. \A g \in Pods!Gpu : Pods!UsageWith(x2[c].gpu, g)' = Pods!UsageWith(gpu, g)
      BY <1>2, <3>1 DEF Pods!UsageWith, Pods!Usage
    <3>3. Pods!Spread(x2[c].gpu)'
      BY <3>1, <3>2 DEF Pods!Spread
    <3> QED BY <1>2, <3>1, <3>3
  <2> QED BY <1>7, <2>3, <2>4, <2>5, <2>6
<1> QED BY <1>6, <1>8, <1>9, <1>11, <1>12, <1>13, <1>14 DEF Pods!PodsInv

(* Of so many numbers one more than there are names, one is free.          *)
LEMMA PodsFree ==
    ASSUME NEW S, IsFiniteSet(S), NEW f \in [S -> Nat], NEW from \in Nat
    PROVE  \E p \in from..(from + Cardinality(S)) : \A s \in S : f[s] # p
<1> DEFINE T == {f[s] : s \in S}
           I == from..(from + Cardinality(S))
<1> SUFFICES ASSUME \A p \in I : \E s \in S : f[s] = p PROVE FALSE
  OBVIOUS
<1>1. f \in Surjection(S, T)
  BY DEF Surjection
<1>2. IsFiniteSet(T) /\ Cardinality(T) <= Cardinality(S)
  <2> HIDE DEF T
  <2> QED BY <1>1, FS_Surjection
<1>3. Cardinality(S) \in Nat /\ Cardinality(T) \in Nat
  BY <1>2, FS_CardinalityType
<1>4. I \in SUBSET T
  OBVIOUS
<1>5. Cardinality(I) = Cardinality(S) + 1
  <2>1. from \in Int /\ from + Cardinality(S) \in Int /\ ~(from > from + Cardinality(S))
    BY <1>3
  <2>2. Cardinality(I) = (from + Cardinality(S)) - from + 1
    BY <2>1, FS_Interval
  <2> QED BY <1>3, <2>2
<1>6. Cardinality(I) <= Cardinality(T)
  <2> HIDE DEF I, T
  <2> QED BY <1>2, <1>4, FS_Subset
<1> HIDE DEF I, T
<1> QED BY <1>2, <1>3, <1>5, <1>6

LEMMA PodsNextPort ==
    ASSUME Pods!TypeOK
    PROVE  Pods!NextPort \in Nat /\ Pods!NextPort # 0 /\ \A model \in Name : x1[model].port # Pods!NextPort
<1> DEFINE portOf == [model \in Name |-> x1[model].port]
           last == Pods!FirstPort + Cardinality(Name)
           free == {p \in Pods!FirstPort..last : \A model \in Name : x1[model].port # p}
<1>1. portOf \in [Name -> Nat]
  BY DEF Pods!TypeOK, Pods!Entry
<1>2. Pods!FirstPort \in Nat /\ Pods!FirstPort # 0 /\ Cardinality(Name) \in Nat
  BY PodsAssumption, FS_CardinalityType DEF Pods!FirstPort
<1>3. \E p \in Pods!FirstPort..last : \A model \in Name : portOf[model] # p
  <2> HIDE DEF portOf
  <2> QED BY <1>1, <1>2, PodsAssumption, PodsFree
<1>4. free \in SUBSET Nat /\ free # {}
  BY <1>2, <1>3
<1>5. PICK p \in free : \A q \in free : p <= q
  <2> HIDE DEF free
  <2> QED BY <1>4, Least
<1>6. /\ p \in Pods!FirstPort..last /\ \A model \in Name : x1[model].port # p
      /\ \A q \in Pods!FirstPort..(p - 1) : \E model \in Name : x1[model].port = q
  <2>1. p \in Pods!FirstPort..last /\ p \in Nat /\ last \in Nat
    BY <1>2
  <2>2. ASSUME NEW q \in Pods!FirstPort..(p - 1) PROVE \E model \in Name : x1[model].port = q
    <3>1. q \in Pods!FirstPort..last /\ ~(p <= q)
      BY <1>2, <2>1
    <3> QED BY <1>5, <3>1
  <2> QED BY <2>1, <2>2
<1>7. /\ Pods!NextPort \in Pods!FirstPort..last /\ \A model \in Name : x1[model].port # Pods!NextPort
  <2> HIDE DEF free
  <2> QED BY <1>6 DEF Pods!NextPort, Cardinality, Pods!Cardinality
<1> QED BY <1>2, <1>7

LEMMA PodsUsageType ==
    ASSUME NEW g PROVE Pods!Usage(g) \in Nat
<1>1. {model \in Name : g \in x1[model].gpu} \in SUBSET Name
  OBVIOUS
<1>2. IsFiniteSet({model \in Name : g \in x1[model].gpu})
  BY <1>1, PodsAssumption, FS_Subset
<1> QED BY <1>2, FS_CardinalityType DEF Pods!Usage, Cardinality, Pods!Cardinality

(* GPUs of which no other is used less keep the models spread.             *)
LEMMA PodsStaysSpread ==
    ASSUME NEW gpu, Pods!Spread({}), \A g \in Pods!Gpu \cap gpu, h \in Pods!Gpu \ gpu : Pods!Usage(g) <= Pods!Usage(h)
    PROVE  Pods!Spread(gpu)
<1> SUFFICES ASSUME NEW g \in Pods!Gpu, NEW h \in Pods!Gpu
             PROVE  Pods!UsageWith(gpu, g) <= Pods!UsageWith(gpu, h) + 1
  BY DEF Pods!Spread
<1>1. PICK a \in Nat, b \in Nat : Pods!Usage(g) = a /\ Pods!Usage(h) = b
  BY PodsUsageType
<1>2. a + 0 <= b + 0 + 1
  <2>1. Pods!UsageWith({}, g) <= Pods!UsageWith({}, h) + 1
    BY DEF Pods!Spread
  <2>2. Pods!UsageWith({}, g) = a + 0 /\ Pods!UsageWith({}, h) = b + 0
    BY <1>1 DEF Pods!UsageWith
  <2> QED BY <2>1, <2>2
<1>3. Pods!UsageWith(gpu, g) = a + (IF g \in gpu THEN 1 ELSE 0) /\ Pods!UsageWith(gpu, h) = b + (IF h \in gpu THEN 1 ELSE 0)
  BY <1>1 DEF Pods!UsageWith
<1>4. CASE g \in gpu /\ h \notin gpu
  <2>1. a <= b
    BY <1>1, <1>4
  <2> QED BY <1>3, <1>4, <2>1
<1>5. CASE ~(g \in gpu /\ h \notin gpu)
  BY <1>2, <1>3, <1>5
<1> QED BY <1>4, <1>5

Before(g, h) == Pods!Usage(g) < Pods!Usage(h) \/ (Pods!Usage(g) = Pods!Usage(h) /\ g < h)

LEMMA PodsSelect ==
    ASSUME NEW count \in Nat, NEW g \in Pods!Gpu \cap Pods!SelectGpus(count), NEW h \in Pods!Gpu \ Pods!SelectGpus(count)
    PROVE  Pods!Usage(g) <= Pods!Usage(h)
<1> DEFINE G == {k \in Pods!Gpu : Before(k, g)}
           H == {k \in Pods!Gpu : Before(k, h)}
<1>1. Cardinality(G) < count /\ ~(Cardinality(H) < count)
  BY DEF Pods!SelectGpus, Before, Cardinality, Pods!Cardinality
<1> SUFFICES ASSUME ~(Pods!Usage(g) <= Pods!Usage(h)) PROVE FALSE
  OBVIOUS
<1>2. Pods!Usage(g) \in Nat /\ Pods!Usage(h) \in Nat /\ \A k \in Pods!Gpu : Pods!Usage(k) \in Nat
  BY PodsUsageType
<1>3. ASSUME NEW k \in Pods!Gpu, Before(k, h) PROVE Before(k, g)
  <2>1. Pods!Usage(k) <= Pods!Usage(h) /\ Pods!Usage(k) \in Nat
    BY <1>2, <1>3 DEF Before
  <2>2. Pods!Usage(k) < Pods!Usage(g)
    BY <1>2, <2>1
  <2> QED BY <2>2 DEF Before
<1>4. H \in SUBSET G
  BY <1>3
<1>5. IsFiniteSet(G)
  <2>1. IsFiniteSet(Pods!Gpu)
    BY PodsAssumption, FS_Interval DEF Pods!Gpu
  <2>2. G \in SUBSET Pods!Gpu
    OBVIOUS
  <2> HIDE DEF G
  <2> QED BY <2>1, <2>2, FS_Subset
<1> HIDE DEF G, H
<1>6. Cardinality(H) <= Cardinality(G) /\ Cardinality(G) \in Nat /\ Cardinality(H) \in Nat
  BY <1>4, <1>5, FS_Subset, FS_CardinalityType
<1> QED BY <1>1, <1>6

LEMMA PodsBeginStart == ASSUME Pods!PodsInv, NEW model \in Name, Pods!BeginStart(model) PROVE Pods!PodsInv'
<1>1. Pods!TypeOK /\ x1[model] = Pods!NoModel
  BY DEF Pods!PodsInv, Pods!BeginStart
<1>2. PICK gpu \in {Pods!SelectGpus(count) : count \in 1..(Gpus - 1)} \cup {Pods!Gpu, {}} :
          Pods!Begin("start", model, "upload", Pods!NextPort, gpu, {})
  BY DEF Pods!BeginStart
<1>3. gpu \in SUBSET Pods!Gpu
  BY <1>2 DEF Pods!SelectGpus
<1>4. ASSUME Pods!Spread({}) PROVE Pods!Spread(gpu)
  <2>1. CASE \E count \in 1..(Gpus - 1) : gpu = Pods!SelectGpus(count)
    <3>1. PICK count \in 1..(Gpus - 1) : gpu = Pods!SelectGpus(count)
      BY <2>1
    <3>2. count \in Nat
      OBVIOUS
    <3>3. \A g \in Pods!Gpu \cap gpu, h \in Pods!Gpu \ gpu : Pods!Usage(g) <= Pods!Usage(h)
      BY <3>1, <3>2, PodsSelect
    <3> QED BY <1>4, <3>3, PodsStaysSpread
  <2>2. CASE gpu = Pods!Gpu \/ gpu = {}
    <3>1. \A g \in Pods!Gpu \cap gpu, h \in Pods!Gpu \ gpu : Pods!Usage(g) <= Pods!Usage(h)
      BY <2>2
    <3> QED BY <1>4, <3>1, PodsStaysSpread
  <2> QED BY <2>1, <2>2
<1>5. Fit("start", model, "upload", Pods!NextPort, gpu, {})
  BY <1>1, <1>3, <1>4, PodsNextPort DEF Fit
<1> QED BY <1>2, <1>5, PodsBegin

LEMMA PodsBeginStop == ASSUME Pods!PodsInv, NEW model \in Name, Pods!BeginStop(model) PROVE Pods!PodsInv'
<1>1. x1[model] # Pods!NoModel /\ Pods!Begin("stop", model, "kill", 0, {}, {x1[model].pid})
  BY DEF Pods!BeginStop
<1>2. x1[model].pid \in DOMAIN x4
  BY <1>1, PodsEntry DEF Pods!PodsInv
<1>3. Fit("stop", model, "kill", 0, {}, {x1[model].pid})
  BY <1>2 DEF Fit, Pods!NamesOf
<1> QED BY <1>1, <1>3, PodsBegin

LEMMA PodsBeginStopAll == ASSUME Pods!PodsInv, NEW model \in Name, Pods!BeginStopAll(model) PROVE Pods!PodsInv'
<1> DEFINE pids == {x1[m].pid : m \in Name} \ {0}
<1>1. Pods!Begin("stopAll", model, "kill", 0, {}, pids)
  BY DEF Pods!BeginStopAll
<1>2. \A m \in Name : x1[m] # Pods!NoModel => x1[m].pid \in DOMAIN x4 /\ x1[m].pid # 0
  BY PodsEntry DEF Pods!PodsInv
<1>3. pids \in SUBSET DOMAIN x4 /\ \A m \in Name : x1[m] = Pods!NoModel \/ x1[m].pid \in pids
  BY <1>2, PodsNone
<1>4. Fit("stopAll", model, "kill", 0, {}, pids)
  BY <1>3 DEF Fit, Pods!NamesOf
<1> HIDE DEF pids
<1> QED BY <1>1, <1>4, PodsBegin

LEMMA PodsStart == ASSUME Pods!Init PROVE Pods!PodsInv
<1>1. /\ x1 = [model \in Name |-> Pods!NoModel] /\ x2 = << >> /\ x4 = << >> /\ x5 = {}
      /\ x3 = [model \in Name |-> 0]
  BY DEF Pods!Init
<1>2. x2 \in Seq(Pods!Command) /\ x4 \in Seq(Pods!Runner) /\ DOMAIN x2 = {} /\ DOMAIN x4 = {}
  BY <1>1
<1>3. Pods!TypeOK
  BY <1>1, <1>2, PodsNone DEF Pods!TypeOK
<1>4. Pods!PidsInv
  BY <1>1, <1>2 DEF Pods!PidsInv, Pods!EntryInv
<1>5. Pods!Active = {} /\ Pods!Starting = {} /\ Pods!Running = {}
  BY <1>2 DEF Pods!Active, Pods!Starting, Pods!Running
<1>6. Pods!OneStart /\ Pods!KnownInv /\ Pods!RunningIsKnown
  BY <1>2, <1>5 DEF Pods!OneStart, Pods!KnownInv, Pods!RunningIsKnown
<1>7. Pods!PortsInv
  BY <1>1, <1>5 DEF Pods!PortsInv
<1>8. Pods!SpreadInv
  <2>1. \A g \in Pods!Gpu : Pods!UsageWith({}, g) = 0
    <3> SUFFICES ASSUME NEW g \in Pods!Gpu PROVE Pods!UsageWith({}, g) = 0
      OBVIOUS
    <3>1. {model \in Name : g \in x1[model].gpu} = {}
      BY <1>1, PodsNone
    <3>2. Pods!Usage(g) = 0
      BY <3>1, FS_EmptySet DEF Pods!Usage, Cardinality, Pods!Cardinality
    <3> QED BY <3>2 DEF Pods!UsageWith
  <2>2. Pods!Spread({})
    BY <2>1 DEF Pods!Spread
  <2> QED BY <1>5, <2>2 DEF Pods!SpreadInv
<1> QED BY <1>3, <1>4, <1>6, <1>7, <1>8 DEF Pods!PodsInv

LEMMA PodsStays == ASSUME Pods!PodsInv, UNCHANGED Pods!vars PROVE Pods!PodsInv'
<1>1. /\ Pods!TypeOK /\ Pods!PidsInv /\ Pods!OneStart /\ Pods!KnownInv
      /\ Pods!RunningIsKnown /\ Pods!PortsInv /\ Pods!SpreadInv
      /\ x1' = x1 /\ x2' = x2 /\ x3' = x3 /\ x4' = x4 /\ x5' = x5
  BY DEF Pods!PodsInv, Pods!vars
<1>2. GoesOn /\ Lasts
  BY <1>1, PodsSameRunners DEF GoesOn, Moves, Likewise, Lasts
<1>3. Pods!TypeOK'
  BY <1>1 DEF Pods!TypeOK
<1>4. Pods!PidsInv'
  BY <1>1, <1>2, PodsSameRunners, PodsPids
<1>5. Pods!KnownInv'
  <2>1. ASSUME Pods!Alone, Pods!Alone', NEW d \in DOMAIN x2, x2'[d].step = "watch"
        PROVE  /\ Pods!TellsOf(x2[d].heard, x2[d].pid)'
               /\ x2'[d].failed => Pods!OutOfMemory(x2[d].pid)'
    BY <1>1, <1>2, <2>1, PodsHears
  <2> QED BY <1>1, <1>2, <2>1, PodsKnown
<1>6. Pods!RunningIsKnown'
  BY <1>1, <1>2, PodsRuns
<1>7. Pods!PortsInv'
  BY <1>1, <1>2, PodsPortsStay
<1>8. Pods!SpreadInv'
  BY <1>1, <1>2, PodsSpread
<1> QED BY <1>1, <1>2, <1>3, <1>4, <1>5, <1>6, <1>7, <1>8, PodsOneStart DEF Pods!PodsInv

LEMMA PodsNextSteps == ASSUME Pods!PodsInv, Pods!Next PROVE Pods!PodsInv'
<1>1. CASE \E model \in Name : Pods!BeginStart(model) \/ Pods!BeginStop(model) \/ Pods!BeginStopAll(model)
  BY <1>1, PodsBeginStart, PodsBeginStop, PodsBeginStopAll
<1>2. CASE \E c \in DOMAIN x2 :
               \/ Pods!Upload(c) \/ Pods!Launch(c) \/ Pods!Save(c) \/ Pods!Hear(c) \/ Pods!Interrupt(c)
               \/ Pods!Kill(c) \/ Pods!Forget(c)
  BY <1>2, PodsUpload, PodsLaunch, PodsSave, PodsHear, PodsInterrupt, PodsKill, PodsForget
<1>3. CASE Pods!Setup
  BY <1>3, PodsSetup
<1>4. CASE \E p \in DOMAIN x4 : Pods!Up(p) \/ Pods!RunsOut(p) \/ Pods!Exit(p)
  BY <1>4, PodsRunner
<1> QED BY <1>1, <1>2, <1>3, <1>4 DEF Pods!Next

LEMMA PodsHoldAll ==
    ASSUME Pods!PodsInv
    PROVE  Pods!PortsHold /\ Pods!RunningIsKnown /\ Pods!FailedIsForgotten /\ Pods!GpusAreSpread
<1>1. /\ Pods!TypeOK /\ Pods!PidsInv /\ Pods!OneStart /\ Pods!KnownInv
      /\ Pods!RunningIsKnown /\ Pods!PortsInv /\ Pods!SpreadInv
  BY DEF Pods!PodsInv
<1>2. Pods!PortsHold
  <2> SUFFICES ASSUME x5 \cap {"two starts", "same name", "ssh", "setup"} = {}
               PROVE  /\ \A p, q \in Pods!Running : x4[p].port = x4[q].port => p = q
                      /\ \A model \in Name : x1[model] # Pods!NoModel =>
                             x4[x1[model].pid].port = x1[model].port
    BY DEF Pods!PortsHold
  <2>1. Pods!Alone /\ "two starts" \notin x5 /\ x5 \cap {"same name", "ssh", "setup"} = {}
    BY DEF Pods!Alone
  <2>2. /\ \A c \in Pods!Starting : Pods!PortInv(c)
        /\ \A model, m \in Name : x1[model].port = x1[m].port /\ x1[model] # Pods!NoModel => model = m
        /\ \A model \in Name : x1[model] # Pods!NoModel =>
               x1[model].port # 0 /\ x4[x1[model].pid].port = x1[model].port
    BY <1>1, <2>1 DEF Pods!PortsInv
  <2>3. ASSUME NEW p \in Pods!Running
        PROVE  \/ \E model \in Name : x1[model] # Pods!NoModel /\ x1[model].pid = p /\ x4[p].port = x1[model].port
               \/ \E c \in Pods!Starting : /\ x2[c].step = "save" /\ x2[c].pid = p
                                           /\ x4[p].port = x2[c].port
    <3>1. p # 0
      BY <1>1, PodsFields DEF Pods!Running
    <3>2. CASE \E model \in Name : x1[model].pid = p
      BY <2>2, <3>1, <3>2, PodsNone
    <3>3. CASE \E c \in DOMAIN x2 : x2[c].step = "save" /\ x2[c].pid = p
      <4>1. PICK c \in DOMAIN x2 : x2[c].step = "save" /\ x2[c].pid = p
        BY <3>3
      <4>2. c \in Pods!Starting
        BY <1>1, <4>1 DEF Pods!Starting, Pods!Active, Pods!Ssh, Pods!PidsInv, Pods!CommandInv
      <4> QED BY <2>2, <4>1, <4>2 DEF Pods!PortInv
    <3> QED BY <1>1, <2>1, <3>2, <3>3 DEF Pods!RunningIsKnown
  <2>4. ASSUME NEW p \in Pods!Running, NEW q \in Pods!Running, x4[p].port = x4[q].port PROVE p = q
    <3>1. CASE \E c \in Pods!Starting : /\ x2[c].step = "save" /\ x2[c].pid = p
                                        /\ x4[p].port = x2[c].port
      <4>1. PICK c \in Pods!Starting : x2[c].step = "save" /\ x2[c].pid = p /\ x4[p].port = x2[c].port
        BY <3>1
      <4>2. \A model \in Name : x1[model].port # x4[q].port
        BY <2>2, <2>4, <4>1 DEF Pods!PortInv
      <4>3. PICK d \in Pods!Starting : x2[d].pid = q
        BY <2>3, <4>2
      <4> QED BY <1>1, <2>1, <4>1, <4>3 DEF Pods!OneStart
    <3>2. CASE \E c \in Pods!Starting : /\ x2[c].step = "save" /\ x2[c].pid = q
                                        /\ x4[q].port = x2[c].port
      <4>1. PICK c \in Pods!Starting : x2[c].step = "save" /\ x2[c].pid = q /\ x4[q].port = x2[c].port
        BY <3>2
      <4>2. \A model \in Name : x1[model].port # x4[p].port
        BY <2>2, <2>4, <4>1 DEF Pods!PortInv
      <4>3. PICK d \in Pods!Starting : x2[d].pid = p
        BY <2>3, <4>2
      <4> QED BY <1>1, <2>1, <4>1, <4>3 DEF Pods!OneStart
    <3>3. CASE /\ \E model \in Name : x1[model] # Pods!NoModel /\ x1[model].pid = p /\ x4[p].port = x1[model].port
               /\ \E model \in Name : x1[model] # Pods!NoModel /\ x1[model].pid = q /\ x4[q].port = x1[model].port
      <4>1. PICK model \in Name : x1[model] # Pods!NoModel /\ x1[model].pid = p /\ x4[p].port = x1[model].port
        BY <3>3
      <4>2. PICK m \in Name : x1[m] # Pods!NoModel /\ x1[m].pid = q /\ x4[q].port = x1[m].port
        BY <3>3
      <4> QED BY <2>2, <2>4, <4>1, <4>2
    <3> QED BY <2>3, <3>1, <3>2, <3>3
  <2> QED BY <2>2, <2>4
<1>3. Pods!FailedIsForgotten
  <2> SUFFICES ASSUME NEW c \in DOMAIN x2, x2[c].step = "over", x2[c].failed, NEW model \in Name,
                      x1[model].pid = x2[c].pid
               PROVE  FALSE
    BY DEF Pods!FailedIsForgotten
  <2>1. x2[c].pid # 0
    BY <1>1 DEF Pods!PidsInv, Pods!CommandInv
  <2>2. x1[model] # Pods!NoModel
    BY <2>1, PodsNone
  <2>3. PICK d \in DOMAIN x2 :
            /\ x1[model].pid = x2[d].pid /\ x2[d].pid # 0
            /\ ~(x2[d].step = "over" /\ x2[d].failed)
    BY <1>1, <2>2 DEF Pods!PidsInv, Pods!EntryInv
  <2> QED BY <1>1, <2>3 DEF Pods!PidsInv
<1>4. Pods!GpusAreSpread
  <2> SUFFICES ASSUME x5 \cap {"two starts", "removed"} = {}, NEW g \in Pods!Gpu, NEW h \in Pods!Gpu
               PROVE  Pods!Usage(g) <= Pods!Usage(h) + 1
    BY DEF Pods!GpusAreSpread
  <2>1. Pods!UsageWith({}, g) <= Pods!UsageWith({}, h) + 1
    BY <1>1 DEF Pods!SpreadInv, Pods!Spread
  <2>2. PICK a \in Nat, b \in Nat : Pods!Usage(g) = a /\ Pods!Usage(h) = b
    BY PodsUsageType
  <2>3. Pods!UsageWith({}, g) = a + 0 /\ Pods!UsageWith({}, h) = b + 0
    BY <2>2 DEF Pods!UsageWith
  <2>4. a + 0 <= b + 0 + 1
    BY <2>1, <2>3
  <2>5. a + 0 = a /\ b + 0 = b
    BY PodsZero
  <2> QED BY <2>2, <2>4, <2>5
<1> QED BY <1>1, <1>2, <1>3, <1>4

(* What runs on a pod is known and has a port of its own, what failed to   *)
(* start is not known, and models are spread over the GPUs (startModel,    *)
(* stopModel, stopAllModels, setupPod): for pods alone, and for the        *)
(* behaviours of MCServices.                                               *)
THEOREM PodsAlwaysHold ==
    /\ Pods!Spec => [](/\ Pods!PortsHold /\ Pods!RunningIsKnown
                       /\ Pods!FailedIsForgotten /\ Pods!GpusAreSpread)
    /\ ServicesSpec => []PodsHold
<1>1. Pods!PodsInv /\ [Pods!Next]_Pods!vars => Pods!PodsInv'
  BY PodsNextSteps, PodsStays
<1>2. Pods!Spec => [](/\ Pods!PortsHold /\ Pods!RunningIsKnown
                      /\ Pods!FailedIsForgotten /\ Pods!GpusAreSpread)
  BY <1>1, PodsStart, PodsHoldAll, PTL DEF Pods!Spec
<1> DEFINE Inv == part = "pods" => Pods!PodsInv
<1>3. ServicesInit => Inv
  BY PodsStart DEF ServicesInit
<1>4. Inv /\ [ServicesNext]_services => Inv'
  <2> SUFFICES ASSUME part' = "pods", Inv, [ServicesNext]_services PROVE Pods!PodsInv'
    OBVIOUS
  <2>1. part = "pods" /\ (Pods!Next \/ UNCHANGED Pods!vars)
    BY DEF ServicesNext, PodsNext, services, xs, Pods!vars
  <2> QED BY <2>1, <1>1
<1>5. Inv => PodsHold
  BY PodsHoldAll DEF PodsHold
<1>6. ServicesSpec => []PodsHold
  BY <1>3, <1>4, <1>5, PTL DEF ServicesSpec
<1> QED BY <1>2, <1>6
-----------------------------------------------------------------------------
(* AuthStorageProofs, about this instance of AuthStorage.                  *)
AuthP == INSTANCE AuthStorageProofs WITH
    Process <- {P1, P2}, Caller <- {C1, C2},
    HostOf <- [c \in {C1, C2} |-> IF c = C1 THEN P1 ELSE P2],
    Provider <- {"anthropic", "google"}, MaxTokens <- 3, SlowNet <- FALSE,
    file <- x1, lock <- x2, running <- x3, data <- x4, loadError <- x5, call <- x6,
    issued <- x7, expired <- x8, spent <- x9, lost <- x10

LEMMA AuthSetting == AuthP!Setting
  BY CallersAssumption DEF AuthP!Setting

LEMMA AuthStart == Auth!Init => AuthP!Inv
<1>1. Auth!Init => AuthP!Init
  BY DEF Auth!Init, AuthP!Init, Auth!Broken, AuthP!Broken, Auth!ApiKey,
     AuthP!ApiKey, Auth!Token, AuthP!Token, Auth!Free, AuthP!Free,
     Auth!Nothing, AuthP!Nothing, Auth!None, AuthP!None, Auth!Idle,
     AuthP!Idle, Auth!Garbage, AuthP!Garbage
<1> QED BY <1>1, AuthSetting, AuthP!InitInv

LEMMA AuthActions == Auth!Next <=> AuthP!Next
<1> USE DEF Auth!CanLock, AuthP!CanLock, Auth!Passed, AuthP!Passed,
        Auth!Unaliased, AuthP!Unaliased, Auth!Load, AuthP!Load,
        Auth!Change, AuthP!Change, Auth!CanAcquire, AuthP!CanAcquire,
        Auth!Released, AuthP!Released, Auth!HeldBy, AuthP!HeldBy,
        Auth!None, AuthP!None, Auth!Token, AuthP!Token, Auth!ApiKey,
        AuthP!ApiKey, Auth!Garbage, AuthP!Garbage, Auth!Broken,
        AuthP!Broken, Auth!Nothing, AuthP!Nothing, Auth!Credential,
        AuthP!Credential, Auth!Contents, AuthP!Contents, Auth!Idle,
        AuthP!Idle, Auth!Free, AuthP!Free, Auth!Dead, AuthP!Dead
<1>1. ASSUME NEW p
      PROVE  Auth!Start(p) <=> AuthP!Start(p)
  BY DEF Auth!Start, AuthP!Start
<1>2. ASSUME NEW p
      PROVE  Auth!Reload(p) <=> AuthP!Reload(p)
  BY DEF Auth!Reload, AuthP!Reload
<1>3. ASSUME NEW p
      PROVE  Auth!Kill(p) <=> AuthP!Kill(p)
  BY DEF Auth!Kill, AuthP!Kill
<1>4. ASSUME NEW p, NEW q
      PROVE  Auth!LoginOAuth(p, q) <=> AuthP!LoginOAuth(p, q)
  BY DEF Auth!LoginOAuth, AuthP!LoginOAuth
<1>5. ASSUME NEW p, NEW q
      PROVE  Auth!SetApiKey(p, q) <=> AuthP!SetApiKey(p, q)
  BY DEF Auth!SetApiKey, AuthP!SetApiKey
<1>6. ASSUME NEW p, NEW q
      PROVE  Auth!Logout(p, q) <=> AuthP!Logout(p, q)
  BY DEF Auth!Logout, AuthP!Logout
<1>7. ASSUME NEW c, NEW q
      PROVE  Auth!GetApiKey(c, q) <=> AuthP!GetApiKey(c, q)
  BY DEF Auth!GetApiKey, AuthP!GetApiKey
<1>8. ASSUME NEW c
      PROVE  Auth!Acquire(c) <=> AuthP!Acquire(c)
  BY DEF Auth!Acquire, AuthP!Acquire
<1>9. ASSUME NEW c
      PROVE  Auth!GiveUp(c) <=> AuthP!GiveUp(c)
  BY DEF Auth!GiveUp, AuthP!GiveUp
<1>10. ASSUME NEW c
      PROVE  Auth!Exchange(c) <=> AuthP!Exchange(c)
  BY DEF Auth!Exchange, AuthP!Exchange
<1>11. ASSUME NEW c
      PROVE  Auth!Write(c) <=> AuthP!Write(c)
  BY DEF Auth!Write, AuthP!Write
<1>12. ASSUME NEW c
      PROVE  Auth!RefreshFails(c) <=> AuthP!RefreshFails(c)
  BY DEF Auth!RefreshFails, AuthP!RefreshFails
<1>13. ASSUME NEW c
      PROVE  Auth!Renew(c) <=> AuthP!Renew(c)
  BY DEF Auth!Renew, AuthP!Renew
<1>14. ASSUME NEW t
      PROVE  Auth!Expire(t) <=> AuthP!Expire(t)
  BY DEF Auth!Expire, AuthP!Expire
<1>15. Auth!Age <=> AuthP!Age
  BY DEF Auth!Age, AuthP!Age
<1> HIDE DEF Auth!CanLock, AuthP!CanLock, Auth!Passed, AuthP!Passed,
        Auth!Unaliased, AuthP!Unaliased, Auth!Load, AuthP!Load,
        Auth!Change, AuthP!Change, Auth!CanAcquire, AuthP!CanAcquire,
        Auth!Released, AuthP!Released, Auth!HeldBy, AuthP!HeldBy,
        Auth!None, AuthP!None, Auth!ApiKey, AuthP!ApiKey,
        Auth!Garbage, AuthP!Garbage, Auth!Broken, AuthP!Broken,
        Auth!Nothing, AuthP!Nothing, Auth!Credential,
        AuthP!Credential, Auth!Contents, AuthP!Contents, Auth!Idle,
        AuthP!Idle, Auth!Free, AuthP!Free, Auth!Dead, AuthP!Dead
<1> QED BY <1>1, <1>2, <1>3, <1>4, <1>5, <1>6, <1>7, <1>8, <1>9, <1>10, <1>11, <1>12, <1>13, <1>14, <1>15 DEF Auth!Next, AuthP!Next

(* A refresh token is exchanged once, unless its newer one was lost, and a *)
(* refresh writes nothing over what others have put into the file          *)
(* (refreshOAuthTokenWithLock), as long as no refresh outlasts its lock.   *)
THEOREM TokensAlwaysKept == ServicesSpec => TokensKept
<1> DEFINE Inv == part = "auth" => AuthP!Inv
<1>1. ServicesInit => Inv
  BY AuthStart DEF ServicesInit
<1>2. Inv /\ [ServicesNext]_services => Inv' /\ [TokensStep]_services
  <2> SUFFICES ASSUME Inv, ServicesNext PROVE Inv' /\ TokensStep
    <3>1. Inv /\ UNCHANGED services => Inv'
      BY AuthP!Stutter DEF services, xs, AuthP!vars
    <3> QED BY <3>1
  <2>1. part' = part
    BY DEF ServicesNext
  <2>2. part = "auth" => Auth!Next
    BY DEF ServicesNext, AuthNext
  <2>3. part = "auth" => AuthP!Inv' /\ AuthP!ExchangesUnspent /\ AuthP!TouchesOwn
    BY <2>2, AuthActions, AuthSetting, AuthP!NextStep
  <2>4. AuthP!ExchangesUnspent /\ AuthP!TouchesOwn => Auth!ExchangesUnspent /\ Auth!TouchesOwn
    BY DEF AuthP!ExchangesUnspent, AuthP!TouchesOwn, Auth!ExchangesUnspent, Auth!TouchesOwn, Auth!Broken, AuthP!Broken, Auth!Garbage, AuthP!Garbage
  <2> QED BY <2>1, <2>3, <2>4 DEF TokensStep
<1>3. ServicesSpec => [][TokensStep]_services
  BY <1>1, <1>2, PTL DEF ServicesSpec
<1> QED BY <1>3 DEF TokensKept
-----------------------------------------------------------------------------
(* SettingsProofs, about this instance of Settings.                        *)
SettingsP == INSTANCE SettingsProofs WITH
    Process <- SettingsProcess,
    file <- x1, lock <- x2, running <- x3, settings <- x4, loadError <- x5,
    modified <- x6, writeQueue <- x7, begun <- x8, failed <- x9, unsaved <- x10,
    fresh <- x11

LEMMA SettingsSetting == SettingsP!Setting
  BY ProcessAssumption DEF SettingsP!Setting, SettingsP!Free, SettingsP!Stale

LEMMA SettingsStart == Settings!Init => SettingsP!SettingsInv
<1>1. Settings!Init => SettingsP!Init
  BY DEF Settings!Init, SettingsP!Init, Settings!Empty, SettingsP!Empty,
     Settings!Contents, SettingsP!Contents, Settings!Missing,
     SettingsP!Missing, Settings!Broken, SettingsP!Broken, Settings!There,
     SettingsP!There, Settings!Free, SettingsP!Free, Settings!NotBegun,
     SettingsP!NotBegun
<1> QED BY <1>1, SettingsSetting, SettingsP!SettingsStart

LEMMA SettingsActions == Settings!Next <=> SettingsP!Next
<1> USE DEF Settings!Empty, SettingsP!Empty, Settings!Contents,
        SettingsP!Contents, Settings!Missing, SettingsP!Missing,
        Settings!Broken, SettingsP!Broken, Settings!There,
        SettingsP!There, Settings!Free, SettingsP!Free,
        Settings!Stale, SettingsP!Stale, Settings!NotBegun,
        SettingsP!NotBegun, Settings!Unreadable, SettingsP!Unreadable,
        Settings!Merged, SettingsP!Merged
<1>1. ASSUME NEW p
      PROVE  Settings!Create(p) <=> SettingsP!Create(p)
  BY DEF Settings!Create, SettingsP!Create
<1>2. ASSUME NEW p
      PROVE  Settings!Reload(p) <=> SettingsP!Reload(p)
  BY DEF Settings!Reload, SettingsP!Reload
<1>3. ASSUME NEW p
      PROVE  Settings!Exit(p) <=> SettingsP!Exit(p)
  BY DEF Settings!Exit, SettingsP!Exit
<1>4. ASSUME NEW p
      PROVE  Settings!BeginWrite(p) <=> SettingsP!BeginWrite(p)
  BY DEF Settings!BeginWrite, SettingsP!BeginWrite
<1>5. ASSUME NEW p
      PROVE  Settings!EndWrite(p) <=> SettingsP!EndWrite(p)
  BY DEF Settings!EndWrite, SettingsP!EndWrite
<1>6. ASSUME NEW p
      PROVE  Settings!FailWrite(p) <=> SettingsP!FailWrite(p)
  BY DEF Settings!FailWrite, SettingsP!FailWrite
<1>7. ASSUME NEW p, NEW s, NEW k, NEW v
      PROVE  Settings!Set(p, s, k, v) <=> SettingsP!Set(p, s, k, v)
  BY DEF Settings!Set, SettingsP!Set
<1>8. ASSUME NEW s
      PROVE  Settings!BreakLock(s) <=> SettingsP!BreakLock(s)
  BY DEF Settings!BreakLock, SettingsP!BreakLock
<1>9. ASSUME NEW s, NEW k, NEW v
      PROVE  Settings!Edit(s, k, v) <=> SettingsP!Edit(s, k, v)
  BY DEF Settings!Edit, SettingsP!Edit
<1> QED BY <1>1, <1>2, <1>3, <1>4, <1>5, <1>6, <1>7, <1>8, <1>9 DEF Settings!Next, SettingsP!Next

(* What a process has set is in the file when no write is left and none    *)
(* failed, and others' changes are kept (persistScopedSettings), in the    *)
(* behaviours of MCServices.                                               *)
THEOREM SettingsAlwaysKept == ServicesSpec => SettingsKept
<1> DEFINE Inv == part = "settings" => SettingsP!SettingsInv
<1>1. ServicesInit => Inv
  BY SettingsStart DEF ServicesInit
<1>2. Inv /\ [ServicesNext]_services => Inv' /\ SettingsStep
  <2> SUFFICES ASSUME Inv, [ServicesNext]_services PROVE Inv' /\ SettingsStep
    OBVIOUS
  <2>1. part' = part
    BY DEF ServicesNext, services
  <2>2. part = "settings" => [SettingsP!Next]_SettingsP!vars
    <3>1. part = "settings" /\ ServicesNext => Settings!Next
      BY DEF ServicesNext, SettingsNext
    <3>2. UNCHANGED services => UNCHANGED SettingsP!vars
      BY DEF services, xs, SettingsP!vars
    <3> QED BY <3>1, <3>2, SettingsActions
  <2>3. part = "settings" => SettingsP!SettingsInv' /\ SettingsP!KeepsOthers
    BY <2>2, SettingsSetting, SettingsP!SettingsSteps
  <2>4. SettingsP!SettingsInv' => SettingsP!AllSaved'
    <3> SUFFICES ASSUME SettingsP!SettingsInv', NEW p \in SettingsProcess, NEW s \in Scope,
                        x7'[p] = << >>, ~x9'[p][s], NEW k \in x10'[p][s]
                 PROVE  FALSE
      BY DEF SettingsP!AllSaved
    <3>1. SettingsP!Saves(p, s, k)'
      BY DEF SettingsP!SettingsInv, SettingsP!ProcessInv, SettingsP!SavedInv
    <3> QED BY <3>1 DEF SettingsP!Saves
  <2>5. SettingsP!AllSaved' /\ SettingsP!KeepsOthers => Settings!AllSaved' /\ Settings!KeepsOthers
    BY DEF SettingsP!AllSaved, Settings!AllSaved, SettingsP!KeepsOthers, Settings!KeepsOthers,
           SettingsP!NotBegun, Settings!NotBegun, SettingsP!Empty, Settings!Empty
  <2> QED BY <2>1, <2>3, <2>4, <2>5 DEF SettingsStep
<1>3. ServicesSpec => [][SettingsStep]_services
  BY <1>1, <1>2, PTL DEF ServicesSpec
<1> QED BY <1>3 DEF SettingsKept
=============================================================================
