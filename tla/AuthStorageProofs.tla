------------------------- MODULE AuthStorageProofs -------------------------
(***************************************************************************)
(* Proofs about AuthStorage, for any processes, calls, providers and       *)
(* tokens: a refresh token is exchanged once, and a refresh writes nothing *)
(* over what other processes have put into the file.                       *)
(***************************************************************************)
EXTENDS AuthStorage, TLAPS

(* No refresh outlasts its lock: see README.                               *)
Setting ==
    /\ MaxTokens \in Nat
    /\ Provider # {}
    /\ HostOf \in [Caller -> Process]
    /\ {"nobody", "a dead process"} \cap Caller = {}
    /\ ~SlowNet

Going(c) == call[c].step \in {"refreshing", "exchanged"}

Call == [step : {"idle", "waiting", "refreshing", "exchanged"}, provider : Provider,
         read : Contents, aliased : BOOLEAN, sent : Credential, new : Credential,
         told : SUBSET Provider, compromised : BOOLEAN]

Lock == [by : Caller \cup {"nobody", "a dead process"}, old : BOOLEAN]

TypeInv ==
    /\ file = Broken \/ file \in Contents
    /\ lock \in Lock
    /\ data \in [Process -> Contents]
    /\ loadError \in [Process -> BOOLEAN]
    /\ call \in [Caller -> Call]
    /\ issued \in 0 .. MaxTokens
    /\ expired \subseteq 1 .. issued
    /\ spent \subseteq 1 .. issued

(* The lock is held by the call that refreshes, and does not get old.      *)
LockInv ==
    /\ \A c \in Caller : Going(c) <=> lock.by = c
    /\ lock.old => lock.by = "a dead process"

(* No token stands twice in what a file or a call holds, nor one that has  *)
(* not been issued.                                                        *)
Distinct(at, last) ==
    /\ \A q, r \in Provider : q # r /\ at[q] \in Token => at[q] # at[r]
    /\ \A q \in Provider : at[q] \in Token => at[q] <= last

Exchanging(t, q) ==
    \E c \in Caller : call[c].step = "exchanged" /\ call[c].provider = q /\ call[c].sent = t

(* A token that was exchanged is out of the file, or the newer one is on   *)
(* its way there, or was lost.                                             *)
FileInv ==
    /\ Distinct(file, issued)
    /\ \A q \in Provider :
          file[q] \in spent \ lost => Exchanging(file[q], q)

(* What a call is going to write.                                          *)
Reads(k) ==
    /\ file # Broken
    /\ k.sent \in Token /\ k.sent <= issued /\ k.sent = file[k.provider]
    /\ Distinct(k.read, issued)
    /\ \A q \in Provider : q \notin k.told => k.read[q] = file[q]
    /\ \A q \in Provider :
          q # k.provider => k.read[q] \notin spent \ lost /\ k.read[q] # k.sent
    /\ k.step = "exchanged" =>
          /\ k.new \in Token /\ k.new <= issued /\ k.new \notin spent
          /\ \A q \in Provider : q # k.provider => k.read[q] # k.new

CallInv == \A c \in Caller : Going(c) => Reads(call[c])

Inv == TypeInv /\ LockInv /\ FileInv /\ CallInv
-----------------------------------------------------------------------------
(* What a call is about to write is the same.                              *)
Same(a, b) ==
    /\ a.step = b.step /\ a.provider = b.provider /\ a.read = b.read
    /\ a.sent = b.sent /\ a.new = b.new /\ a.told = b.told

LEMMA IdleIs ==
    ASSUME Setting
    PROVE  Idle \in Call /\ Idle.step = "idle" /\ Nothing \in Contents
<1>1. None \in Credential
  <2>1. MaxTokens \in Nat
    BY DEF Setting
  <2> QED BY <2>1 DEF Credential, None
<1>2. Nothing \in Contents
  BY <1>1 DEF Nothing, Contents
<1>3. (CHOOSE q \in Provider : TRUE) \in Provider
  BY DEF Setting
<1> QED BY <1>1, <1>2, <1>3 DEF Idle, Call

LEMMA UnaliasedIs ==
    ASSUME NEW p, NEW calls \in [Caller -> Call]
    PROVE  /\ Unaliased(p, calls) \in [Caller -> Call]
           /\ \A c \in Caller : Same(Unaliased(p, calls)[c], calls[c])
<1>1. ASSUME NEW c \in Caller
      PROVE  /\ Unaliased(p, calls)[c] \in Call
             /\ Same(Unaliased(p, calls)[c], calls[c])
  <2> DEFINE k == calls[c]
  <2>1. k \in Call
    OBVIOUS
  <2>2. Unaliased(p, calls)[c] = IF HostOf[c] = p THEN [k EXCEPT !.aliased = FALSE] ELSE k
    BY DEF Unaliased
  <2> HIDE DEF k
  <2>3. [k EXCEPT !.aliased = FALSE] \in Call /\ Same([k EXCEPT !.aliased = FALSE], k)
    BY <2>1 DEF Call, Same
  <2>4. Same(k, k)
    BY DEF Same
  <2> QED BY <2>1, <2>2, <2>3, <2>4 DEF k
<1>2. Unaliased(p, calls) = [c \in Caller |-> Unaliased(p, calls)[c]]
  BY DEF Unaliased
<1> QED BY <1>1, <1>2

(* reload() writes nothing into the file.                                  *)
LEMMA LoadIs ==
    ASSUME TypeInv, NEW p, NEW l, NEW memory \in Contents,
           NEW calls \in [Caller -> Call], Load(p, l, memory, calls)
    PROVE  /\ lock' = Passed(l)
           /\ data' \in [Process -> Contents] /\ loadError' \in [Process -> BOOLEAN]
           /\ call' \in [Caller -> Call]
           /\ \A c \in Caller : Same(call'[c], calls[c])
<1>1. \A c \in Caller : Same(calls[c], calls[c])
  BY DEF Same
<1>2. CASE CanLock(l) /\ file # Broken
  <2>1. /\ lock' = Passed(l) /\ data' = [data EXCEPT ![p] = file]
        /\ loadError' = [loadError EXCEPT ![p] = FALSE] /\ call' = Unaliased(p, calls)
    BY <1>2 DEF Load
  <2>2. data' \in [Process -> Contents] /\ loadError' \in [Process -> BOOLEAN]
    BY <1>2, <2>1 DEF TypeInv
  <2> QED BY <2>1, <2>2, UnaliasedIs
<1>3. CASE ~(CanLock(l) /\ file # Broken)
  BY <1>1, <1>3 DEF Load, TypeInv
<1> QED BY <1>2, <1>3 DEF Load

(* The file stays, and who was about to write is still, or has given up.   *)
Still ==
    /\ file' = file /\ issued' = issued /\ spent' = spent /\ lost \subseteq lost'
    /\ \A c \in Caller : Going(c)' => Same(call'[c], call[c])
    /\ \A c \in Caller :
          call[c].step = "exchanged" => Same(call'[c], call[c]) \/ call[c].sent \in lost'

LEMMA StillKeeps ==
    ASSUME FileInv, CallInv, Still
    PROVE  FileInv' /\ CallInv'
<1>1. \A x : x \in (spent \ lost)' => x \in spent \ lost
  BY DEF Still
<1>2. Distinct(file, issued)'
  BY DEF FileInv, Still, Distinct
<1>3. ASSUME NEW q \in Provider, (file[q] \in spent \ lost)' PROVE Exchanging(file[q], q)'
  <2>1. file'[q] = file[q] /\ file[q] \in spent \ lost /\ ~(file[q] \in lost')
    BY <1>1, <1>3 DEF Still
  <2>2. PICK c \in Caller : /\ call[c].step = "exchanged" /\ call[c].provider = q
                            /\ call[c].sent = file[q]
    BY <2>1 DEF FileInv, Exchanging
  <2>3. Same(call'[c], call[c])
    BY <2>1, <2>2 DEF Still
  <2> QED BY <2>1, <2>2, <2>3 DEF Same, Exchanging
<1>4. ASSUME NEW c \in Caller, Going(c)' PROVE Reads(call[c])'
  <2>1. Same(call'[c], call[c])
    BY <1>4 DEF Still
  <2>2. Reads(call[c])
    BY <1>4, <2>1 DEF CallInv, Going, Same
  <2>3. file' = file /\ issued' = issued /\ spent' = spent
    BY DEF Still
  <2> QED BY <1>1, <2>1, <2>2, <2>3 DEF Reads, Same, Distinct
<1> QED BY <1>2, <1>3, <1>4 DEF FileInv, CallInv
(* A reload by a process, of whose calls one may have given up.            *)
LEMMA LoadStill ==
    ASSUME Setting, TypeInv, NEW p, NEW l \in Lock, NEW memory \in Contents,
           NEW calls \in [Caller -> Call], Load(p, l, memory, calls),
           UNCHANGED <<file, issued, expired, spent>>, lost \subseteq lost',
           \A c \in Caller : calls[c].step \in {"refreshing", "exchanged"} <=> l.by = c,
           l.old => l.by = "a dead process",
           \A c \in Caller :
               \/ Same(calls[c], call[c])
               \/ /\ calls[c].step \notin {"refreshing", "exchanged"}
                  /\ call[c].step = "exchanged" => call[c].sent \in lost'
    PROVE  TypeInv' /\ LockInv' /\ Still
<1>1. /\ lock' = Passed(l)
      /\ data' \in [Process -> Contents] /\ loadError' \in [Process -> BOOLEAN]
      /\ call' \in [Caller -> Call]
      /\ \A c \in Caller : Same(call'[c], calls[c])
  BY LoadIs
<1>2. /\ Free \in Lock /\ Free.by \notin Caller /\ ~Free.old
      /\ "a dead process" \notin Caller
  BY DEF Setting, Lock, Free
<1>3. /\ lock' \in Lock
      /\ lock'.old => lock'.by = "a dead process"
      /\ \A c \in Caller : lock'.by = c <=> l.by = c
  <2>1. CASE CanLock(l)
    <3>1. lock' = Free
      BY <1>1, <2>1 DEF Passed
    <3>2. l.by \notin Caller
      BY <1>2, <2>1 DEF CanLock
    <3> QED BY <1>2, <3>1, <3>2
  <2>2. CASE ~CanLock(l)
    BY <1>1, <2>2 DEF Passed
  <2> QED BY <2>1, <2>2
<1>4. TypeInv'
  <2>1. file' = file /\ issued' = issued /\ expired' = expired /\ spent' = spent
    OBVIOUS
  <2> QED BY <1>1, <1>3, <2>1 DEF TypeInv
<1>5. LockInv'
  <2>1. ASSUME NEW c \in Caller PROVE Going(c)' <=> lock'.by = c
    <3>1. Same(call'[c], calls[c])
      BY <1>1
    <3>2. call'[c].step = calls[c].step
      BY <3>1 DEF Same
    <3> QED BY <1>3, <3>2 DEF Going
  <2> QED BY <1>3, <2>1 DEF LockInv
<1>6. ASSUME NEW c \in Caller, Going(c)' PROVE Same(call'[c], call[c])
  BY <1>1, <1>6 DEF Going, Same
<1>7. ASSUME NEW c \in Caller, call[c].step = "exchanged"
      PROVE  Same(call'[c], call[c]) \/ call[c].sent \in lost'
  BY <1>1, <1>7 DEF Same
<1> QED BY <1>4, <1>5, <1>6, <1>7 DEF Still

LEMMA ReloadStep ==
    ASSUME Setting, TypeInv, LockInv, NEW p \in Process, Start(p) \/ Reload(p)
    PROVE  TypeInv' /\ LockInv' /\ Still
<1>1. /\ Load(p, lock, data[p], call)
      /\ UNCHANGED <<file, issued, expired, spent>> /\ lost \subseteq lost'
  BY DEF Start, Reload
<1>2. lock \in Lock /\ data[p] \in Contents /\ call \in [Caller -> Call]
  BY DEF TypeInv
<1>3. \A c \in Caller : Same(call[c], call[c])
  BY DEF Same
<1>4. /\ \A c \in Caller : call[c].step \in {"refreshing", "exchanged"} <=> lock.by = c
      /\ lock.old => lock.by = "a dead process"
  BY DEF LockInv, Going
<1> QED BY <1>1, <1>2, <1>3, <1>4, LoadStill

LEMMA GiveUpStep ==
    ASSUME Setting, TypeInv, LockInv, NEW c \in Caller, GiveUp(c)
    PROVE  TypeInv' /\ LockInv' /\ Still
<1> DEFINE p == HostOf[c]
           calls == [call EXCEPT ![c] = Idle]
<1>1. /\ call[c].step = "waiting" /\ Load(p, lock, data[p], calls)
      /\ UNCHANGED <<file, issued, expired, spent>> /\ lost \subseteq lost'
  BY DEF GiveUp
<1>2. lock \in Lock /\ data[p] \in Contents /\ call \in [Caller -> Call]
  BY DEF TypeInv, Setting
<1>3. /\ calls \in [Caller -> Call] /\ calls[c].step = "idle"
      /\ \A d \in Caller : d # c => calls[d] = call[d]
  BY <1>2, IdleIs
<1> HIDE DEF calls
<1>4. \A d \in Caller :
          \/ Same(calls[d], call[d])
          \/ calls[d].step = "idle" /\ call[d].step = "waiting"
  BY <1>1, <1>3 DEF Same
<1>5. /\ \A d \in Caller : calls[d].step \in {"refreshing", "exchanged"} <=> lock.by = d
      /\ lock.old => lock.by = "a dead process"
  BY <1>4 DEF LockInv, Going, Same
<1> QED BY <1>1, <1>2, <1>3, <1>4, <1>5, LoadStill

LEMMA FailStep ==
    ASSUME Setting, TypeInv, LockInv, NEW c \in Caller, RefreshFails(c)
    PROVE  TypeInv' /\ LockInv' /\ Still
<1> DEFINE p == HostOf[c]
           answered == call[c].step = "exchanged" /\ call[c].compromised
           merged == [call[c].read EXCEPT ![call[c].provider] = call[c].new]
           memory == IF answered THEN merged ELSE data[p]
           calls == [IF answered THEN Unaliased(p, call) ELSE call EXCEPT ![c] = Idle]
<1>1. call \in [Caller -> Call] /\ data[p] \in Contents
  BY DEF TypeInv, Setting
<1>2. Going(c) /\ lock.by = c
  BY DEF RefreshFails, LockInv, Going
<1>3. Released(c) = {Free}
  BY <1>2 DEF Released
<1>4. /\ Load(p, Free, memory, calls)
      /\ UNCHANGED <<file, issued, expired, spent>>
      /\ lost' = IF call[c].step = "exchanged" THEN lost \cup {call[c].sent} ELSE lost
  BY <1>3 DEF RefreshFails
<1>5. /\ calls \in [Caller -> Call] /\ calls[c].step = "idle"
      /\ \A d \in Caller : d # c => Same(calls[d], call[d])
  <2> DEFINE before == IF answered THEN Unaliased(p, call) ELSE call
  <2>1. before \in [Caller -> Call] /\ \A d \in Caller : Same(before[d], call[d])
    <3>1. \A d \in Caller : Same(call[d], call[d])
      BY DEF Same
    <3> QED BY <1>1, <3>1, UnaliasedIs
  <2> HIDE DEF before
  <2>2. [before EXCEPT ![c] = Idle] \in [Caller -> Call]
    BY <2>1, IdleIs
  <2> QED BY <2>1, <2>2, IdleIs DEF before
<1>6. memory \in Contents
  <2>1. /\ call[c].read \in Contents /\ call[c].provider \in Provider
        /\ call[c].new \in Credential
    BY <1>1 DEF Call
  <2> QED BY <1>1, <2>1 DEF Contents
<1> HIDE DEF calls, memory, answered, merged
<1>7. Free \in Lock /\ Free.by \notin Caller /\ ~Free.old
  BY DEF Setting, Lock, Free
<1>8. \A d \in Caller : d # c => call[d].step \notin {"refreshing", "exchanged"}
  BY <1>2 DEF LockInv, Going
<1>9. /\ \A d \in Caller : calls[d].step \in {"refreshing", "exchanged"} <=> Free.by = d
      /\ Free.old => Free.by = "a dead process"
  BY <1>5, <1>7, <1>8 DEF Same
<1>10. \A d \in Caller :
          \/ Same(calls[d], call[d])
          \/ /\ calls[d].step \notin {"refreshing", "exchanged"}
             /\ call[d].step = "exchanged" => call[d].sent \in lost'
  BY <1>4, <1>5
<1>11. lost \subseteq lost'
  BY <1>4
<1> HIDE DEF p
<1> QED BY <1>4, <1>5, <1>6, <1>7, <1>9, <1>10, <1>11, LoadStill
LEMMA WaitStep ==
    ASSUME Setting, TypeInv, LockInv, NEW c \in Caller, NEW q \in Provider, GetApiKey(c, q)
    PROVE  TypeInv' /\ LockInv' /\ Still
<1> DEFINE k == [Idle EXCEPT !.step = "waiting", !.provider = q]
<1>1. k \in Call /\ k.step = "waiting"
  BY IdleIs DEF Call
<1>2. /\ call[c].step = "idle" /\ call' = [call EXCEPT ![c] = k]
      /\ UNCHANGED <<file, lock, running, data, loadError, issued, expired, spent, lost>>
  BY DEF GetApiKey
<1> HIDE DEF k
<1>3. call \in [Caller -> Call]
  BY DEF TypeInv
<1>4. call' \in [Caller -> Call] /\ call'[c] = k /\ \A d \in Caller : d # c => call'[d] = call[d]
  BY <1>1, <1>2, <1>3
<1>5. TypeInv'
  BY <1>2, <1>4 DEF TypeInv
<1>6. \A d \in Caller : /\ Going(d)' <=> Going(d)
                        /\ Same(call'[d], call[d]) \/ (call[d].step = "idle" /\ ~Going(d)')
  BY <1>1, <1>2, <1>4 DEF Going, Same
<1>7. LockInv'
  BY <1>2, <1>6 DEF LockInv
<1>8. Still
  BY <1>2, <1>6 DEF Still
<1> QED BY <1>5, <1>7, <1>8

LEMMA AgeStep ==
    ASSUME Setting, TypeInv, LockInv,
           Age \/ (\E t \in Token : Expire(t)) \/ (\E c \in Caller : Renew(c))
    PROVE  TypeInv' /\ LockInv' /\ Still
<1>1. \A c \in Caller : Same(call[c], call[c])
  BY DEF Same
<1>2. ASSUME NEW t \in Token, Expire(t) PROVE TypeInv' /\ LockInv' /\ Still
  <2>1. /\ t \in 1 .. issued /\ expired' = expired \cup {t}
        /\ UNCHANGED <<file, lock, running, data, loadError, call, issued, spent, lost>>
    BY <1>2 DEF Expire
  <2>2. TypeInv'
    BY <2>1 DEF TypeInv
  <2> QED BY <1>1, <2>1, <2>2 DEF LockInv, Going, Still
<1>3. CASE Age
  <2>1. /\ lock # Free /\ lock.by \notin Caller /\ lock' = [lock EXCEPT !.old = TRUE]
        /\ UNCHANGED <<file, running, data, loadError, call, issued, expired, spent, lost>>
    BY <1>3 DEF Age, Setting
  <2>2. lock \in Lock /\ lock' \in Lock /\ lock'.by = lock.by
    BY <2>1 DEF TypeInv, Lock
  <2>3. lock.by = "a dead process"
    <3>1. lock.by = "nobody" => lock.old = FALSE
      BY <2>2 DEF LockInv, Lock
    <3>2. lock = [by |-> lock.by, old |-> lock.old]
      BY <2>2 DEF Lock
    <3>3. lock.by # "nobody"
      BY <2>1, <3>1, <3>2 DEF Free
    <3> QED BY <2>1, <2>2, <3>3 DEF Lock
  <2>4. TypeInv'
    BY <2>1, <2>2 DEF TypeInv
  <2> QED BY <1>1, <2>1, <2>2, <2>3, <2>4 DEF LockInv, Going, Still
<1>4. ASSUME NEW c \in Caller, Renew(c) PROVE TypeInv' /\ LockInv' /\ Still
  <2>1. lock.by = c
    BY <1>4 DEF Renew, LockInv, Going
  <2>2. /\ lock' = HeldBy(c)
        /\ UNCHANGED <<file, running, data, loadError, call, issued, expired, spent, lost>>
    BY <1>4, <2>1 DEF Renew
  <2>3. lock' \in Lock /\ lock'.by = lock.by /\ lock'.old = FALSE
    BY <2>1, <2>2 DEF HeldBy, Lock
  <2>4. TypeInv'
    BY <2>2, <2>3 DEF TypeInv
  <2> QED BY <1>1, <2>2, <2>3, <2>4 DEF LockInv, Going, Still
<1> QED BY <1>2, <1>3, <1>4

(* Nobody is about to write, and what stands in the file was exchanged by  *)
(* nobody, or in vain.                                                     *)
Settled ==
    /\ Distinct(file, issued)'
    /\ \A q \in Provider : file'[q] \notin spent' \ lost'
    /\ \A c \in Caller : ~Going(c)'

LEMMA SettledKeeps ==
    ASSUME Settled
    PROVE  FileInv' /\ CallInv'
  BY DEF Settled, FileInv, CallInv

LEMMA NoTokens ==
    ASSUME Setting, NEW last
    PROVE  /\ \A q \in Provider : Nothing[q] \notin Token /\ Broken[q] \notin Token
           /\ Distinct(Nothing, last) /\ Distinct(Broken, last)
<1>1. MaxTokens \in Nat
  BY DEF Setting
<1>2. \A q \in Provider : Nothing[q] \notin Token
  BY DEF Nothing, None, Token
<1>3. \A q \in Provider : Broken[q] \notin Token
  BY <1>1 DEF Broken, Garbage, Token
<1> QED BY <1>2, <1>3 DEF Distinct

LEMMA KillStep ==
    ASSUME Setting, TypeInv, LockInv, NEW p \in Process, Kill(p)
    PROVE  /\ TypeInv' /\ LockInv'
           /\ Still \/ (Settled /\ spent' = spent)
           /\ \A c \in Caller : \/ HostOf[c] \notin running' /\ call'[c] = Idle
                                \/ call'[c] = call[c]
<1> DEFINE own == {c \in Caller : HostOf[c] = p}
           writing == {c \in own : call[c].step = "exchanged"}
<1>1. /\ running' = running \ {p}
      /\ file' \in {file} \cup (IF writing = {} THEN {} ELSE {Nothing, Broken})
      /\ lock' = IF lock.by \in own THEN Dead ELSE lock
      /\ data' = [data EXCEPT ![p] = Nothing]
      /\ loadError' = [loadError EXCEPT ![p] = FALSE]
      /\ call' = [c \in Caller |-> IF c \in own THEN Idle ELSE call[c]]
      /\ lost' = lost \cup {call[c].sent : c \in writing}
      /\ issued' = issued /\ expired' = expired /\ spent' = spent
  BY DEF Kill
<1>2. Idle \in Call /\ Idle.step = "idle" /\ Nothing \in Contents
  BY IdleIs
<1>3. file' = Broken \/ file' \in Contents
  BY <1>1, <1>2 DEF TypeInv
<1>4. lock' \in Lock
  BY <1>1 DEF TypeInv, Dead, Lock
<1>5. data' \in [Process -> Contents] /\ loadError' \in [Process -> BOOLEAN]
  BY <1>1, <1>2 DEF TypeInv
<1>6. call' \in [Caller -> Call]
  BY <1>1, <1>2 DEF TypeInv
<1>7. TypeInv'
  <2>1. issued' \in 0 .. MaxTokens /\ expired' \subseteq 1 .. issued' /\ spent' \subseteq 1 .. issued'
    BY <1>1 DEF TypeInv
  <2> QED BY <1>3, <1>4, <1>5, <1>6, <2>1 DEF TypeInv
<1>8. \A c \in Caller : Going(c)' <=> Going(c) /\ c \notin own
  BY <1>1, <1>2 DEF Going
<1>9. LockInv'
  <2>1. Dead.by \notin Caller /\ Dead.by = "a dead process"
    BY DEF Dead, Setting
  <2> QED BY <1>1, <1>8, <2>1 DEF LockInv
<1>10. ASSUME file' = file PROVE Still
  <2>1. ASSUME NEW c \in Caller, Going(c)' PROVE Same(call'[c], call[c])
    BY <1>1, <1>8, <2>1 DEF Same
  <2>2. ASSUME NEW c \in Caller, call[c].step = "exchanged"
        PROVE  Same(call'[c], call[c]) \/ call[c].sent \in lost'
    BY <1>1, <2>2 DEF Same
  <2>3. lost \subseteq lost'
    BY <1>1
  <2> QED BY <1>1, <1>10, <2>1, <2>2, <2>3 DEF Still
<1>11. ASSUME file' # file PROVE Settled
  <2>1. writing # {} /\ file' \in {Nothing, Broken}
    BY <1>1, <1>11
  <2>2. PICK c \in Caller : c \in own /\ call[c].step = "exchanged"
    BY <2>1
  <2>3. \A d \in Caller : Going(d) => d = c
    BY <2>2 DEF LockInv, Going
  <2>4. \A d \in Caller : ~Going(d)'
    BY <1>8, <2>2, <2>3
  <2>5. Distinct(file', issued')
    BY <2>1, NoTokens
  <2>6. \A q \in Provider : file'[q] \notin spent'
    <3>1. MaxTokens \in Nat /\ issued \in 0 .. MaxTokens /\ spent' \subseteq 1 .. issued
      BY <1>1 DEF TypeInv, Setting
    <3>2. spent' \subseteq Token
      BY <3>1 DEF Token
    <3> QED BY <2>1, <3>2, NoTokens
  <2>7. Distinct(file, issued)'
    BY <2>5 DEF Distinct
  <2> QED BY <2>4, <2>6, <2>7 DEF Settled
<1>12. \A c \in Caller : \/ HostOf[c] \notin running' /\ call'[c] = Idle
                         \/ call'[c] = call[c]
  BY <1>1
<1> QED BY <1>1, <1>7, <1>9, <1>10, <1>11, <1>12
(* A login or logout: what it puts into the file is new, or no token.      *)
LEMMA ChangeStep ==
    ASSUME Setting, Inv, NEW p \in Process, NEW q \in Provider, NEW v \in Credential,
           Change(p, q, v), expired' = expired, issued' \in issued .. MaxTokens,
           v \in Token => v = issued + 1 /\ issued' = issued + 1
    PROVE  Inv' /\ \A c \in Caller : call'[c].step = call[c].step
<1> DEFINE told(k) == [k EXCEPT !.read[q] = IF k.aliased THEN v ELSE @,
                                !.told = @ \cup {q}]
<1>1. TypeInv /\ LockInv /\ FileInv /\ CallInv
  BY DEF Inv
<1>2. /\ data' = [data EXCEPT ![p][q] = v]
      /\ call' = [c \in Caller |->
           IF HostOf[c] = p /\ call[c].step \in {"refreshing", "exchanged"}
           THEN told(call[c]) ELSE call[c]]
      /\ lock' = IF loadError[p] THEN lock ELSE Passed(lock)
      /\ file' = IF ~loadError[p] /\ CanLock(lock) /\ file # Broken
                 THEN [file EXCEPT ![q] = v] ELSE file
      /\ loadError' = loadError /\ spent' = spent /\ lost' = lost
  BY DEF Change
<1>3. ASSUME NEW k \in Call
      PROVE  /\ told(k) \in Call
             /\ told(k).step = k.step /\ told(k).provider = k.provider
             /\ told(k).sent = k.sent /\ told(k).new = k.new
             /\ told(k).told = k.told \cup {q}
             /\ told(k).read = k.read \/ told(k).read = [k.read EXCEPT ![q] = v]
  <2>1. /\ [k.read EXCEPT ![q] = v] \in Contents /\ k.told \cup {q} \in SUBSET Provider
        /\ [k.read EXCEPT ![q] = k.read[q]] = k.read
    BY DEF Call, Contents
  <2>2. told(k) = [k EXCEPT !.read = IF k.aliased THEN [k.read EXCEPT ![q] = v] ELSE k.read,
                            !.told = k.told \cup {q}]
    BY <2>1 DEF Call
  <2> HIDE DEF told
  <2> QED BY <2>1, <2>2 DEF Call
<1> HIDE DEF told
<1>4. call \in [Caller -> Call] /\ issued \in Nat /\ MaxTokens \in Nat /\ issued' \in Nat
      /\ issued <= issued' /\ issued' <= MaxTokens
  <2>1. MaxTokens \in Nat
    BY DEF Setting
  <2>2. call \in [Caller -> Call] /\ issued \in 0 .. MaxTokens
    BY <1>1 DEF TypeInv
  <2> QED BY <2>1, <2>2
<1>5. /\ call' \in [Caller -> Call]
      /\ \A c \in Caller : /\ call'[c].step = call[c].step
                           /\ call'[c].provider = call[c].provider
                           /\ call'[c].sent = call[c].sent /\ call'[c].new = call[c].new
                           /\ \/ /\ call'[c].told = call[c].told
                                 /\ call'[c].read = call[c].read
                              \/ /\ call'[c].told = call[c].told \cup {q}
                                 /\ \/ call'[c].read = call[c].read
                                    \/ call'[c].read = [call[c].read EXCEPT ![q] = v]
  <2>1. ASSUME NEW c \in Caller PROVE call'[c] = call[c] \/ call'[c] = told(call[c])
    BY <1>2
  <2>2. \A c \in Caller : call[c] \in Call
    BY <1>4
  <2>3. call' \in [Caller -> Call]
    BY <1>2, <1>3, <2>2
  <2> QED BY <1>3, <2>1, <2>2, <2>3
<1>6. file' = Broken \/ file' \in Contents
  BY <1>1, <1>2 DEF TypeInv, Contents
<1>7. lock' \in Lock
  <2>1. Free \in Lock
    BY DEF Free, Lock
  <2> QED BY <1>1, <1>2, <2>1 DEF TypeInv, Passed
<1>8. TypeInv'
  <2>1. data' \in [Process -> Contents]
    BY <1>1, <1>2 DEF TypeInv, Contents
  <2>2. issued' \in 0 .. MaxTokens /\ expired' \subseteq 1 .. issued' /\ spent' \subseteq 1 .. issued'
    BY <1>1, <1>2, <1>4 DEF TypeInv
  <2>3. loadError' \in [Process -> BOOLEAN]
    BY <1>1, <1>2 DEF TypeInv
  <2> QED BY <1>5, <1>6, <1>7, <2>1, <2>2, <2>3 DEF TypeInv
<1>9. \A c \in Caller : Going(c)' <=> Going(c)
  BY <1>5 DEF Going
<1>10. CanLock(lock) => \A c \in Caller : ~Going(c)
  <2>1. {"nobody", "a dead process"} \cap Caller = {} /\ Free.by = "nobody"
    BY DEF Setting, Free
  <2>2. CanLock(lock) => lock.by \notin Caller
    BY <1>1, <2>1 DEF CanLock, LockInv
  <2> QED BY <1>1, <2>2 DEF LockInv
<1>11. LockInv'
  <2>1. Free.by \notin Caller /\ ~Free.old
    BY DEF Free, Setting
  <2>2. CASE CanLock(lock)
    <3>1. lock' \in {lock, Free}
      BY <1>2, <2>2 DEF Passed
    <3> QED BY <1>1, <1>9, <1>10, <2>1, <2>2, <3>1 DEF LockInv
  <2>3. CASE ~CanLock(lock)
    <3>1. lock' = lock
      BY <1>2, <2>3 DEF Passed
    <3> QED BY <1>1, <1>9, <3>1 DEF LockInv
  <2> QED BY <2>2, <2>3
<1>12. v \notin spent
  <2>1. spent \subseteq 1 .. issued
    BY <1>1 DEF TypeInv
  <2>2. v \notin 1 .. issued
    BY <1>4 DEF Token
  <2> QED BY <2>1, <2>2
<1>13. ASSUME NEW at \in [Provider -> Nat], Distinct(at, issued)
       PROVE  Distinct(at, issued') /\ Distinct([at EXCEPT ![q] = v], issued')
  <2>1. Distinct(at, issued')
    BY <1>4, <1>13 DEF Distinct, Token
  <2> DEFINE new == [at EXCEPT ![q] = v]
  <2>2. new[q] = v /\ \A r \in Provider : r # q => new[r] = at[r]
    BY <1>13
  <2> HIDE DEF new
  <2>3. \A r \in Provider : new[r] \in Token => new[r] <= issued'
    BY <1>4, <2>1, <2>2 DEF Distinct
  <2>4. v \in Token => \A r \in Provider : r # q => at[r] # v
    BY <1>4, <1>13 DEF Distinct
  <2>5. ASSUME NEW r \in Provider, NEW s \in Provider, r # s, new[r] \in Token
        PROVE  new[r] # new[s]
    <3>1. CASE r = q
      BY <2>2, <2>4, <2>5, <3>1
    <3>2. CASE s = q
      BY <2>2, <2>4, <2>5, <3>2
    <3>3. CASE r # q /\ s # q
      BY <1>13, <2>2, <2>5, <3>3 DEF Distinct
    <3> QED BY <3>1, <3>2, <3>3
  <2>6. Distinct(new, issued')
    BY <2>3, <2>5 DEF Distinct
  <2> QED BY <2>1, <2>6 DEF new
<1>14. file \in [Provider -> Nat] /\ \A c \in Caller : call[c].read \in [Provider -> Nat]
  <2>1. Broken \in [Provider -> Nat]
    BY <1>4 DEF Broken, Garbage
  <2>2. \A at \in Contents : at \in [Provider -> Nat]
    BY <1>4 DEF Contents, Credential
  <2>3. \A c \in Caller : call[c].read \in Contents
    BY <1>4 DEF Call
  <2> QED BY <1>1, <2>1, <2>2, <2>3 DEF TypeInv
<1>15. FileInv' /\ CallInv'
  <2>1. CASE CanLock(lock)
    <3>1. \A c \in Caller : ~Going(c)'
      BY <1>9, <1>10, <2>1
    <3>2. \A r \in Provider : file[r] \notin spent \ lost
      BY <1>1, <1>10, <2>1 DEF FileInv, Exchanging, Going
    <3>3. file' = file \/ file' = [file EXCEPT ![q] = v]
      BY <1>2
    <3>4. Distinct(file', issued')
      BY <1>1, <1>13, <1>14, <3>3 DEF FileInv
    <3>5. \A r \in Provider : file'[r] \notin spent' \ lost'
      BY <1>2, <1>12, <1>14, <3>2, <3>3
    <3> QED BY <3>1, <3>4, <3>5, SettledKeeps DEF Settled, Distinct
  <2>2. CASE ~CanLock(lock)
    <3>1. file' = file /\ spent' = spent /\ lost' = lost
      BY <1>2, <2>2
    <3>2. FileInv'
      <4>1. Distinct(file', issued')
        BY <1>1, <1>13, <1>14, <3>1 DEF FileInv
      <4>2. \A r \in Provider : Exchanging(file[r], r) => Exchanging(file[r], r)'
        BY <1>5, <3>1 DEF Exchanging
      <4> QED BY <1>1, <3>1, <4>1, <4>2 DEF FileInv, Distinct
    <3>3. ASSUME NEW c \in Caller, Going(c)' PROVE Reads(call[c])'
      <4> DEFINE k == call[c]
                 l == call'[c]
      <4>1. Reads(k)
        BY <1>1, <1>9, <3>3 DEF CallInv
      <4>2. /\ l.step = k.step /\ l.provider = k.provider /\ l.sent = k.sent /\ l.new = k.new
            /\ k.read \in [Provider -> Nat]
            /\ \/ l.told = k.told /\ l.read = k.read
               \/ l.told = k.told \cup {q} /\ l.read = k.read
               \/ l.told = k.told \cup {q} /\ l.read = [k.read EXCEPT ![q] = v]
        BY <1>5, <1>14
      <4> HIDE DEF k, l
      <4>3. /\ file' # Broken
            /\ l.sent \in Token /\ l.sent <= issued' /\ l.sent = file'[l.provider]
            /\ l.step = "exchanged" =>
                 l.new \in Token /\ l.new <= issued' /\ l.new \notin spent'
        BY <1>4, <3>1, <4>1, <4>2 DEF Reads, Token
      <4>4. Distinct(l.read, issued')
        BY <1>13, <4>1, <4>2 DEF Reads
      <4>5. \A r \in Provider : r \notin l.told => l.read[r] = file'[r]
        BY <3>1, <4>1, <4>2 DEF Reads
      <4>6. /\ k.sent <= issued /\ k.sent \in Token
            /\ k.step = "exchanged" => k.new <= issued /\ k.new \in Token
        BY <4>1 DEF Reads
      <4>7. v # k.sent /\ (k.step = "exchanged" => v # k.new)
        BY <1>4, <4>6
      <4>8. ASSUME NEW r \in Provider, r # l.provider
            PROVE  /\ l.read[r] \notin spent' \ lost' /\ l.read[r] # l.sent
                   /\ l.step = "exchanged" => l.read[r] # l.new
        <5>1. l.read[r] = k.read[r] \/ l.read[r] = v
          BY <4>2
        <5> QED BY <1>12, <3>1, <4>1, <4>2, <4>7, <4>8, <5>1 DEF Reads
      <4> QED BY <4>3, <4>4, <4>5, <4>8 DEF Reads, Distinct, k, l
    <3> QED BY <3>2, <3>3 DEF CallInv
  <2> QED BY <2>1, <2>2
<1> QED BY <1>5, <1>8, <1>11, <1>15 DEF Inv
LEMMA TokenIs ==
    ASSUME Setting, TypeInv
    PROVE  /\ issued \in Nat /\ MaxTokens \in Nat /\ issued <= MaxTokens
           /\ Token \subseteq Credential
           /\ \A t \in 1 .. issued : t \in Token /\ t <= issued
           /\ spent \subseteq 1 .. issued
<1>1. MaxTokens \in Nat
  BY DEF Setting
<1>2. issued \in 0 .. MaxTokens /\ spent \subseteq 1 .. issued
  BY DEF TypeInv
<1> QED BY <1>1, <1>2 DEF Token, Credential

(* The lock is got: nobody else is about to write.                         *)
LEMMA AcquireStep ==
    ASSUME Setting, Inv, NEW c \in Caller, Acquire(c)
    PROVE  /\ Inv' /\ \A d \in Caller : ~Going(d)
           /\ \A d \in Caller : call'[d].step # "exchanged"
<1>1. TypeInv /\ LockInv /\ FileInv /\ CallInv
  BY DEF Inv
<1> DEFINE p == HostOf[c]
           q == call[c].provider
           k == [call[c] EXCEPT !.step = "refreshing", !.read = file,
                                !.aliased = TRUE, !.sent = file[q]]
<1>2. /\ call[c].step = "waiting" /\ file # Broken
      /\ lock = Free \/ lock = [Dead EXCEPT !.old = TRUE]
      /\ data' = [data EXCEPT ![p] = file]
      /\ loadError' = [loadError EXCEPT ![p] = FALSE]
      /\ lock' = IF file[q] \in expired THEN HeldBy(c) ELSE Free
      /\ call' = [Unaliased(p, call) EXCEPT ![c] = IF file[q] \in expired THEN k ELSE Idle]
      /\ UNCHANGED <<file, running, issued, expired, spent, lost>>
  BY DEF Acquire, CanAcquire
<1>3. /\ call \in [Caller -> Call] /\ call[c] \in Call /\ q \in Provider
      /\ file \in Contents
  <2>1. call \in [Caller -> Call] /\ file \in Contents
    BY <1>1, <1>2 DEF TypeInv
  <2>2. \A j \in Call : j.provider \in Provider
    BY DEF Call
  <2> QED BY <2>1, <2>2
<1>4. /\ k \in Call /\ k.step = "refreshing" /\ k.read = file /\ k.sent = file[q]
      /\ k.provider = q
  <2>1. file[q] \in Credential
    BY <1>3 DEF Contents
  <2> QED BY <1>3, <2>1 DEF Call
<1>5. /\ Unaliased(p, call) \in [Caller -> Call]
      /\ \A d \in Caller : Same(Unaliased(p, call)[d], call[d])
  BY <1>3, UnaliasedIs
<1>6. Idle \in Call /\ Idle.step = "idle"
  BY IdleIs
<1> DEFINE to == IF file[q] \in expired THEN k ELSE Idle
<1>7. to \in Call /\ (file[q] \in expired => to = k) /\ (file[q] \notin expired => to = Idle)
  BY <1>4, <1>6
<1> HIDE DEF k, to
<1>8. /\ call' \in [Caller -> Call] /\ call'[c] = to
      /\ \A d \in Caller : d # c => Same(call'[d], call[d])
  BY <1>2, <1>5, <1>7 DEF to
<1> HIDE DEF q
<1>9. lock.by \notin Caller
  <2>1. /\ {"nobody", "a dead process"} \cap Caller = {} /\ Free.by = "nobody"
        /\ [Dead EXCEPT !.old = TRUE].by = "a dead process"
    BY DEF Setting, Free, Dead
  <2> QED BY <1>2, <2>1
<1>10. \A d \in Caller : ~Going(d)
  BY <1>1, <1>9 DEF LockInv
<1>11. \A d \in Caller : d # c => ~Going(d)' /\ call'[d].step # "exchanged"
  BY <1>8, <1>10 DEF Going, Same
<1>12. \A r \in Provider : file[r] \notin spent \ lost
  BY <1>1, <1>10 DEF FileInv, Exchanging, Going
<1>13. Distinct(file, issued)
  BY <1>1 DEF FileInv
<1>14. /\ data' \in [Process -> Contents] /\ loadError' \in [Process -> BOOLEAN]
       /\ issued' = issued /\ expired' = expired /\ spent' = spent /\ lost' = lost
       /\ file' = file
  BY <1>1, <1>2, <1>3 DEF TypeInv
<1>15. Distinct(file, issued)'
  BY <1>13, <1>14 DEF Distinct
<1>16. CASE file[q] \notin expired
  <2>1. /\ lock' = Free /\ call'[c].step = "idle"
    BY <1>2, <1>6, <1>7, <1>8, <1>16
  <2>2. Free \in Lock /\ Free.by \notin Caller /\ ~Free.old
    BY DEF Free, Lock, Setting
  <2>3. TypeInv'
    BY <1>1, <1>8, <1>14, <2>1, <2>2 DEF TypeInv
  <2>4. \A d \in Caller : ~Going(d)' /\ call'[d].step # "exchanged"
    BY <1>11, <2>1 DEF Going
  <2>5. LockInv'
    BY <2>1, <2>2, <2>4 DEF LockInv
  <2>6. Settled
    BY <1>12, <1>14, <1>15, <2>4 DEF Settled
  <2> QED BY <1>10, <2>3, <2>4, <2>5, <2>6, SettledKeeps DEF Inv
<1>17. CASE file[q] \in expired
  <2>1. lock' = HeldBy(c) /\ call'[c] = k
    BY <1>2, <1>7, <1>8, <1>17
  <2>2. HeldBy(c) \in Lock /\ HeldBy(c).by = c /\ ~HeldBy(c).old
    BY DEF HeldBy, Lock
  <2>3. TypeInv'
    BY <1>1, <1>8, <1>14, <2>1, <2>2 DEF TypeInv
  <2>4. Going(c)' /\ call'[c].step # "exchanged"
    BY <1>4, <2>1 DEF Going
  <2>5. LockInv'
    BY <1>11, <2>1, <2>2, <2>4 DEF LockInv
  <2>6. FileInv'
    BY <1>12, <1>14, <1>15 DEF FileInv
  <2>7. k.sent \in Token /\ k.sent <= issued
    <3>1. file[q] \in 1 .. issued
      BY <1>1, <1>17 DEF TypeInv
    <3> QED BY <1>1, <1>4, <3>1, TokenIs
  <2>8. \A r \in Provider : r # q => file[r] # k.sent
    BY <1>3, <1>4, <1>13, <2>7 DEF Distinct
  <2>9. Reads(call[c])'
    <3>1. /\ call'[c] = k /\ k.provider = q /\ k.read = file /\ k.sent = file[q]
          /\ k.step # "exchanged"
      BY <1>4, <2>1
    <3>2. /\ file' # Broken
          /\ k.sent \in Token /\ k.sent <= issued' /\ k.sent = file'[k.provider]
          /\ \A r \in Provider : k.read[r] = file'[r]
          /\ \A r \in Provider :
                r # k.provider => k.read[r] \notin spent' \ lost' /\ k.read[r] # k.sent
      BY <1>2, <1>12, <1>14, <2>7, <2>8, <3>1
    <3>3. Distinct(k.read, issued')
      BY <1>13, <1>14, <3>1
    <3> QED BY <3>1, <3>2, <3>3 DEF Reads, Distinct
  <2>10. CallInv'
    BY <1>11, <2>9 DEF CallInv
  <2> QED BY <1>10, <1>11, <2>3, <2>4, <2>5, <2>6, <2>10 DEF Inv
<1> QED BY <1>16, <1>17
(* The provider answers with a newer token.                                *)
LEMMA ExchangeStep ==
    ASSUME Setting, Inv, NEW c \in Caller, Exchange(c)
    PROVE  /\ Inv' /\ call[c].sent \notin spent \ lost
           /\ \A d \in Caller : d # c => call'[d] = call[d]
           /\ call'[c].step = "exchanged"
<1>1. TypeInv /\ LockInv /\ FileInv /\ CallInv
  BY DEF Inv
<1> DEFINE k == call[c]
           l == [call[c] EXCEPT !.step = "exchanged", !.new = issued + 1]
<1>2. /\ k.step = "refreshing" /\ issued < MaxTokens /\ issued' = issued + 1
      /\ spent' = spent \cup {k.sent}
      /\ call' = [call EXCEPT ![c].step = "exchanged", ![c].new = issued + 1]
      /\ UNCHANGED <<file, lock, running, data, loadError, expired, lost>>
  BY DEF Exchange
<1>3. call \in [Caller -> Call] /\ k \in Call
  BY <1>1 DEF TypeInv
<1>4. /\ issued \in Nat /\ MaxTokens \in Nat /\ Token \subseteq Credential
      /\ spent \subseteq 1 .. issued
  BY <1>1, TokenIs
<1>5. issued + 1 \in Token
  BY <1>2, <1>4 DEF Token
<1>6. /\ l \in Call /\ l.step = "exchanged" /\ l.new = issued + 1
      /\ l.provider = k.provider /\ l.read = k.read /\ l.sent = k.sent /\ l.told = k.told
  BY <1>3, <1>4, <1>5 DEF Call
<1>7. call' = [call EXCEPT ![c] = l]
  BY <1>2, <1>3 DEF Call
<1> HIDE DEF k, l
<1>8. /\ call' \in [Caller -> Call] /\ call'[c] = l
      /\ \A d \in Caller : d # c => call'[d] = call[d]
  BY <1>3, <1>6, <1>7
<1>9. Going(c) /\ \A d \in Caller : d # c => ~Going(d)
  BY <1>1, <1>2 DEF Going, LockInv, k
<1>10. Reads(k)
  BY <1>1, <1>9 DEF CallInv, k
<1>11. k.sent \in Token /\ k.sent <= issued /\ k.sent = file[k.provider] /\ file # Broken
  BY <1>10 DEF Reads
<1>12. \A r \in Provider : file[r] \notin spent \ lost
  <2>1. \A d \in Caller : call[d].step # "exchanged"
    BY <1>2, <1>9 DEF Going, k
  <2> QED BY <1>1, <2>1 DEF FileInv, Exchanging
<1>13. k.provider \in Provider
  BY <1>3 DEF Call
<1>14. TypeInv'
  <2>1. issued' \in 0 .. MaxTokens /\ expired' \subseteq 1 .. issued'
    BY <1>1, <1>2, <1>4 DEF TypeInv
  <2>2. spent' \subseteq 1 .. issued'
    <3>1. k.sent \in 1 .. issued + 1
      BY <1>4, <1>11 DEF Token
    <3> QED BY <1>2, <1>4, <3>1
  <2> QED BY <1>1, <1>2, <1>8, <2>1, <2>2 DEF TypeInv
<1>15. LockInv'
  <2>1. \A d \in Caller : Going(d)' <=> Going(d)
    BY <1>6, <1>8, <1>9 DEF Going
  <2> QED BY <1>1, <1>2, <2>1 DEF LockInv
<1>16. \A at : Distinct(at, issued) => Distinct(at, issued + 1)
  BY <1>4 DEF Distinct, Token
<1>17. FileInv'
  <2>1. Distinct(file', issued')
    BY <1>1, <1>2, <1>16 DEF FileInv
  <2>2. ASSUME NEW r \in Provider, file[r] \in spent' \ lost PROVE Exchanging(file[r], r)'
    <3>1. file[r] = k.sent
      BY <1>2, <1>12, <2>2
    <3>2. r = k.provider
      BY <1>1, <1>11, <1>13, <3>1 DEF FileInv, Distinct
    <3>3. file' = file
      BY <1>2
    <3> QED BY <1>6, <1>8, <3>1, <3>2, <3>3 DEF Exchanging
  <2> QED BY <1>2, <2>1, <2>2 DEF FileInv, Distinct
<1>18. Reads(call[c])'
  <2>1. ASSUME NEW r \in Provider, r # l.provider
        PROVE  l.read[r] \notin spent' \ lost' /\ l.read[r] # l.sent /\ l.read[r] # l.new
    <3>1. /\ k.read[r] \notin spent \ lost /\ k.read[r] # k.sent
          /\ k.read[r] \in Token => k.read[r] <= issued
      BY <1>6, <1>10, <2>1 DEF Reads, Distinct
    <3>2. k.read[r] # issued + 1
      BY <1>4, <1>5, <3>1
    <3> QED BY <1>2, <1>6, <3>1, <3>2
  <2>2. l.new \in Token /\ l.new <= issued' /\ l.new \notin spent'
    <3>1. issued + 1 \notin spent
      BY <1>4
    <3>2. issued + 1 # k.sent
      BY <1>4, <1>11 DEF Token
    <3> QED BY <1>2, <1>4, <1>5, <1>6, <3>1, <3>2
  <2>3. /\ file' # Broken
        /\ l.sent \in Token /\ l.sent <= issued' /\ l.sent = file'[l.provider]
    BY <1>2, <1>4, <1>6, <1>11 DEF Token
  <2>4. Distinct(l.read, issued')
    BY <1>2, <1>6, <1>10, <1>16 DEF Reads
  <2>5. \A r \in Provider : r \notin l.told => l.read[r] = file'[r]
    BY <1>2, <1>6, <1>10 DEF Reads
  <2> QED BY <1>8, <2>1, <2>2, <2>3, <2>4, <2>5 DEF Reads, Distinct
<1>19. CallInv'
  BY <1>8, <1>9, <1>18 DEF CallInv, Going
<1>20. call[c].sent \notin spent \ lost
  BY <1>11, <1>12, <1>13 DEF k
<1> QED BY <1>6, <1>8, <1>14, <1>15, <1>17, <1>19, <1>20 DEF Inv

(* The answer gets into the file, and what stands in its place leaves it.  *)
LEMMA WriteStep ==
    ASSUME Setting, Inv, NEW c \in Caller, Write(c)
    PROVE  /\ Inv' /\ file # Broken
           /\ \A r \in Provider :
                 file'[r] # file[r] => r \in {call[c].provider} \cup call[c].told
           /\ \A d \in Caller : ~Going(d)'
           /\ \A d \in Caller : d # c => ~Going(d)
<1>1. TypeInv /\ LockInv /\ FileInv /\ CallInv
  BY DEF Inv
<1> DEFINE p == HostOf[c]
           k == call[c]
           merged == [call[c].read EXCEPT ![call[c].provider] = call[c].new]
<1>2. /\ k.step = "exchanged" /\ file' = merged
      /\ data' = [data EXCEPT ![p] = merged]
      /\ loadError' = [loadError EXCEPT ![p] = FALSE]
      /\ call' = [Unaliased(p, call) EXCEPT ![c] = Idle]
      /\ lock' \in Released(c)
      /\ UNCHANGED <<running, issued, expired, spent, lost>>
  BY DEF Write
<1>3. /\ call \in [Caller -> Call] /\ k \in Call
  BY <1>1 DEF TypeInv
<1>4. /\ k.read \in Contents /\ k.provider \in Provider /\ k.new \in Credential
  BY <1>3 DEF Call
<1>5. /\ merged \in Contents /\ merged[k.provider] = k.new
      /\ \A r \in Provider : r # k.provider => merged[r] = k.read[r]
  BY <1>4 DEF Contents
<1> HIDE DEF k, merged
<1>6. Going(c) /\ lock.by = c /\ \A d \in Caller : d # c => ~Going(d)
  BY <1>1, <1>2 DEF Going, LockInv, k
<1>7. lock' = Free
  BY <1>2, <1>6 DEF Released
<1>8. /\ Unaliased(p, call) \in [Caller -> Call]
      /\ \A d \in Caller : Same(Unaliased(p, call)[d], call[d])
  BY <1>3, UnaliasedIs
<1>9. Idle \in Call /\ Idle.step = "idle"
  BY IdleIs
<1>10. /\ call' \in [Caller -> Call] /\ call'[c] = Idle
       /\ \A d \in Caller : d # c => Same(call'[d], call[d])
  BY <1>2, <1>8, <1>9
<1>11. \A d \in Caller : ~Going(d)'
  BY <1>6, <1>9, <1>10 DEF Going, Same
<1>12. TypeInv'
  <2>1. Free \in Lock
    BY DEF Free, Lock
  <2>2. data' \in [Process -> Contents] /\ loadError' \in [Process -> BOOLEAN]
    BY <1>1, <1>2, <1>5 DEF TypeInv
  <2> QED BY <1>1, <1>2, <1>5, <1>7, <1>10, <2>1, <2>2 DEF TypeInv
<1>13. LockInv'
  <2>1. Free.by \notin Caller /\ ~Free.old
    BY DEF Free, Setting
  <2> QED BY <1>7, <1>11, <2>1 DEF LockInv
<1>14. /\ Reads(k) /\ k.new \in Token /\ k.new <= issued /\ k.new \notin spent
       /\ \A r \in Provider : r # k.provider => k.read[r] # k.new
  <2>1. Reads(k)
    BY <1>1, <1>6 DEF CallInv, k
  <2> QED BY <1>2, <2>1 DEF Reads
<1>15. Distinct(merged, issued)
  <2>1. Distinct(k.read, issued)
    BY <1>14 DEF Reads
  <2>2. \A r \in Provider : merged[r] \in Token => merged[r] <= issued
    BY <1>5, <1>14, <2>1 DEF Distinct
  <2>3. ASSUME NEW r \in Provider, NEW s \in Provider, r # s, merged[r] \in Token
        PROVE  merged[r] # merged[s]
    <3>1. CASE r = k.provider
      BY <1>5, <1>14, <2>3, <3>1
    <3>2. CASE s = k.provider
      BY <1>5, <1>14, <2>3, <3>2
    <3>3. CASE r # k.provider /\ s # k.provider
      BY <1>5, <2>1, <2>3, <3>3 DEF Distinct
    <3> QED BY <3>1, <3>2, <3>3
  <2> QED BY <2>2, <2>3 DEF Distinct
<1>16. \A r \in Provider : merged[r] \notin spent \ lost
  <2>1. \A r \in Provider : r # k.provider => k.read[r] \notin spent \ lost
    BY <1>14 DEF Reads
  <2> QED BY <1>5, <1>14, <2>1
<1>17. Settled
  BY <1>2, <1>11, <1>15, <1>16 DEF Settled, Distinct
<1>18. ASSUME NEW r \in Provider, file'[r] # file[r]
       PROVE  r \in {call[c].provider} \cup call[c].told
  <2>1. r # k.provider => k.read[r] # file[r]
    BY <1>2, <1>5, <1>18
  <2>2. r # k.provider => r \in k.told
    BY <1>14, <2>1 DEF Reads
  <2> QED BY <2>2 DEF k
<1>19. file # Broken
  BY <1>14 DEF Reads
<1> QED BY <1>6, <1>11, <1>12, <1>13, <1>17, <1>18, <1>19, SettledKeeps DEF Inv
-----------------------------------------------------------------------------
LEMMA NextStep ==
    ASSUME Setting, Inv, Next
    PROVE  Inv' /\ ExchangesUnspent /\ TouchesOwn
<1>1. TypeInv /\ LockInv /\ FileInv /\ CallInv
  BY DEF Inv
<1>2. ASSUME TypeInv' /\ LockInv' /\ Still PROVE Inv' /\ ExchangesUnspent /\ TouchesOwn
  <2>1. Inv'
    BY <1>1, <1>2, StillKeeps DEF Inv
  <2>2. ExchangesUnspent
    BY <1>2 DEF ExchangesUnspent, Still, Same, Going
  <2>3. TouchesOwn
    BY <1>2 DEF TouchesOwn, Still
  <2> QED BY <2>1, <2>2, <2>3
<1>3. ASSUME NEW p \in Process, NEW q \in Provider,
             LoginOAuth(p, q) \/ SetApiKey(p, q) \/ Logout(p, q)
      PROVE  Inv' /\ ExchangesUnspent /\ TouchesOwn
  <2>1. /\ issued \in Nat /\ MaxTokens \in Nat /\ issued <= MaxTokens
        /\ Token \subseteq Credential
    BY <1>1, TokenIs
  <2>2. PICK v \in Credential :
            /\ Change(p, q, v) /\ expired' = expired /\ issued' \in issued .. MaxTokens
            /\ v \in Token => v = issued + 1 /\ issued' = issued + 1
    <3>1. CASE LoginOAuth(p, q)
      <4>1. /\ issued < MaxTokens /\ issued' = issued + 1 /\ expired' = expired
            /\ Change(p, q, issued + 1)
        BY <3>1 DEF LoginOAuth
      <4>2. issued + 1 \in Credential
        BY <2>1, <4>1 DEF Credential
      <4> QED BY <2>1, <4>1, <4>2
    <3>2. CASE SetApiKey(p, q)
      <4>1. Change(p, q, ApiKey) /\ issued' = issued /\ expired' = expired
        BY <3>2 DEF SetApiKey
      <4>2. ApiKey \in Credential /\ ApiKey \notin Token
        BY <2>1 DEF ApiKey, Credential, Token
      <4> QED BY <2>1, <4>1, <4>2
    <3>3. CASE Logout(p, q)
      <4>1. Change(p, q, None) /\ issued' = issued /\ expired' = expired
        BY <3>3 DEF Logout
      <4>2. None \in Credential /\ None \notin Token
        BY <2>1 DEF None, Credential, Token
      <4> QED BY <2>1, <4>1, <4>2
    <3> QED BY <1>3, <3>1, <3>2, <3>3
  <2>3. Inv' /\ \A c \in Caller : call'[c].step = call[c].step
    BY <2>2, ChangeStep
  <2> QED BY <2>3 DEF ExchangesUnspent, TouchesOwn
<1>4. ASSUME NEW p \in Process, Kill(p) PROVE Inv' /\ ExchangesUnspent /\ TouchesOwn
  <2>1. /\ TypeInv' /\ LockInv' /\ (Still \/ Settled)
        /\ \A c \in Caller : \/ HostOf[c] \notin running' /\ call'[c] = Idle
                             \/ call'[c] = call[c]
    BY <1>1, <1>4, KillStep
  <2>2. CASE Still
    BY <1>2, <2>1, <2>2
  <2>3. CASE Settled
    <3>1. Inv'
      BY <2>1, <2>3, SettledKeeps DEF Inv
    <3>2. ExchangesUnspent
      BY <2>3 DEF ExchangesUnspent, Settled, Going
    <3>3. TouchesOwn
      BY <2>1 DEF TouchesOwn
    <3> QED BY <3>1, <3>2, <3>3
  <2> QED BY <2>1, <2>2, <2>3
<1>5. ASSUME NEW c \in Caller, Acquire(c) PROVE Inv' /\ ExchangesUnspent /\ TouchesOwn
  <2>1. /\ Inv' /\ \A d \in Caller : ~Going(d) /\ call'[d].step # "exchanged"
    BY <1>5, AcquireStep
  <2> QED BY <2>1 DEF ExchangesUnspent, TouchesOwn, Going
<1>6. ASSUME NEW c \in Caller, Exchange(c) PROVE Inv' /\ ExchangesUnspent /\ TouchesOwn
  <2>1. /\ Inv' /\ call[c].sent \notin spent \ lost
        /\ \A d \in Caller : d # c => call'[d] = call[d]
        /\ call'[c].step = "exchanged"
    BY <1>6, ExchangeStep
  <2> QED BY <2>1 DEF ExchangesUnspent, TouchesOwn
<1>7. ASSUME NEW c \in Caller, Write(c) PROVE Inv' /\ ExchangesUnspent /\ TouchesOwn
  <2>1. /\ Inv' /\ file # Broken
        /\ \A r \in Provider :
              file'[r] # file[r] => r \in {call[c].provider} \cup call[c].told
        /\ \A d \in Caller : ~Going(d)'
        /\ \A d \in Caller : d # c => ~Going(d)
    BY <1>7, WriteStep
  <2> QED BY <2>1 DEF ExchangesUnspent, TouchesOwn, Going
<1>8. ASSUME NEW c \in Caller, GiveUp(c) \/ RefreshFails(c)
      PROVE  Inv' /\ ExchangesUnspent /\ TouchesOwn
  BY <1>1, <1>2, <1>8, GiveUpStep, FailStep
<1>9. ASSUME NEW c \in Caller, NEW q \in Provider, GetApiKey(c, q)
      PROVE  Inv' /\ ExchangesUnspent /\ TouchesOwn
  BY <1>1, <1>2, <1>9, WaitStep
<1>10. ASSUME NEW p \in Process, Start(p) \/ Reload(p)
       PROVE  Inv' /\ ExchangesUnspent /\ TouchesOwn
  BY <1>1, <1>2, <1>10, ReloadStep
<1>11. ASSUME Age \/ (\E t \in Token : Expire(t)) \/ (\E c \in Caller : Renew(c))
       PROVE  Inv' /\ ExchangesUnspent /\ TouchesOwn
  BY <1>1, <1>2, <1>11, AgeStep
<1> QED BY <1>3, <1>4, <1>5, <1>6, <1>7, <1>8, <1>9, <1>10, <1>11 DEF Next

LEMMA InitInv ==
    ASSUME Setting, Init
    PROVE  Inv
<1>1. /\ issued \in 0 .. MaxTokens /\ expired \subseteq 1 .. issued
      /\ file \in {Broken} \cup
           {at \in [Provider -> (0 .. issued) \cup {ApiKey}] :
              \A q, r \in Provider : q # r /\ at[q] \in Token => at[q] # at[r]}
      /\ lock = Free /\ spent = {}
      /\ data = [p \in Process |-> Nothing] /\ loadError = [p \in Process |-> FALSE]
      /\ call = [c \in Caller |-> Idle]
  BY DEF Init
<1>2. MaxTokens \in Nat /\ issued \in Nat /\ issued <= MaxTokens
  <2>1. MaxTokens \in Nat
    BY DEF Setting
  <2> QED BY <1>1, <2>1
<1>3. Idle \in Call /\ Idle.step = "idle" /\ Nothing \in Contents
  BY IdleIs
<1>4. /\ Free \in Lock /\ Free.by \notin Caller /\ ~Free.old
  BY DEF Free, Lock, Setting
<1>5. CASE file = Broken
  <2>1. TypeInv
    BY <1>1, <1>3, <1>4, <1>5 DEF TypeInv
  <2>2. Distinct(file, issued)
    BY <1>5, NoTokens
  <2> QED BY <1>1, <1>3, <1>4, <2>1, <2>2 DEF Inv, LockInv, FileInv, CallInv, Going
<1>6. CASE file # Broken
  <2>1. /\ file \in [Provider -> (0 .. issued) \cup {ApiKey}]
        /\ \A q, r \in Provider : q # r /\ file[q] \in Token => file[q] # file[r]
    BY <1>1, <1>6
  <2>2. (0 .. issued) \cup {ApiKey} \subseteq Credential
    BY <1>2 DEF ApiKey, Credential
  <2>3. file \in Contents
    BY <2>1, <2>2 DEF Contents
  <2>4. TypeInv
    BY <1>1, <1>3, <1>4, <2>3 DEF TypeInv
  <2>5. \A q \in Provider : file[q] \in Token => file[q] <= issued
    BY <1>2, <2>1 DEF ApiKey, Token
  <2> QED BY <1>1, <1>3, <1>4, <2>1, <2>4, <2>5
          DEF Inv, LockInv, FileInv, CallInv, Going, Distinct
<1> QED BY <1>5, <1>6

LEMMA Stutter ==
    ASSUME Inv, UNCHANGED vars
    PROVE  Inv'
<1>1. TypeInv' /\ LockInv'
  BY DEF vars, Inv, TypeInv, LockInv, Going
<1>2. Still
  BY DEF vars, Still, Same
<1> QED BY <1>1, <1>2, StillKeeps DEF Inv

(* refreshOAuthTokenWithLock: however many processes find a token expired, *)
(* and whenever they crash, log in or out, a refresh token is sent once,   *)
(* unless what came for it was lost; and what other processes have put     *)
(* into the file is there after a refresh.                                 *)
THEOREM TokensAreKept == Setting => (Spec => UsedOnce /\ OthersUntouched)
<1> SUFFICES ASSUME Setting PROVE Spec => UsedOnce /\ OthersUntouched
  OBVIOUS
<1>1. Init => Inv
  BY InitInv
<1>2. Inv /\ [Next]_vars => Inv' /\ [ExchangesUnspent]_vars /\ [TouchesOwn]_vars
  BY NextStep, Stutter
<1> QED BY <1>1, <1>2, PTL DEF Spec, UsedOnce, OthersUntouched
=============================================================================
