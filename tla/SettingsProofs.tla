--------------------------- MODULE SettingsProofs ---------------------------
(***************************************************************************)
(* Proofs about Settings, for any processes, scopes, keys and values: its  *)
(* type invariant, that what was set is in the file when the queue is      *)
(* empty, and that writes keep what others have put into the file.         *)
(***************************************************************************)
EXTENDS Settings, SequenceTheorems, TLAPS

(* What marks a lock that is free or left behind is not a process.         *)
Setting == {Free, Stale} \cap Process = {}

LEMMA SettingsConstants ==
    /\ Empty \in Contents /\ Missing \in File /\ Broken \in File
    /\ NotBegun.step = "not begun" /\ NotBegun.at = Empty
    /\ NotBegun \in [step : {"not begun", "locked", "unlocked"}, at : Contents]
    /\ \A at : There(at).at = at /\ There(at).state = "there"
    /\ \A at \in Contents : There(at) \in File
    /\ Free # Stale /\ (Setting => Free \notin Process /\ Stale \notin Process)
<1>1. Empty \in Contents
  BY DEF Empty, Contents
<1>2. NotBegun.step = "not begun" /\ NotBegun.at = Empty
  BY DEF NotBegun
<1> QED BY <1>1, <1>2
    DEF Setting, Missing, Broken, There, File, NotBegun, Free, Stale

(* The writes to come.                                                     *)
Write == [scope : Scope, snapshot : Contents, fields : SUBSET Key]

LEMMA WritesToCome ==
    ASSUME TypeOK, NEW p \in Process
    PROVE  /\ writeQueue[p] \in Seq(Write)
           /\ Len(writeQueue[p]) \in Nat
           /\ \A i \in 1..Len(writeQueue[p]) :
                  /\ writeQueue[p][i] \in Write
                  /\ writeQueue[p][i].scope \in Scope
                  /\ writeQueue[p][i].snapshot \in Contents
                  /\ writeQueue[p][i].fields \subseteq Key
           /\ writeQueue[p] # << >> =>
                  /\ Len(writeQueue[p]) > 0
                  /\ Head(writeQueue[p]) = writeQueue[p][1]
                  /\ Head(writeQueue[p]) \in Write
                  /\ Head(writeQueue[p]).scope \in Scope
                  /\ Tail(writeQueue[p]) \in Seq(Write)
                  /\ Len(Tail(writeQueue[p])) = Len(writeQueue[p]) - 1
                  /\ \A i \in 1..Len(Tail(writeQueue[p])) :
                        Tail(writeQueue[p])[i] = writeQueue[p][i + 1]
<1>1. writeQueue[p] \in Seq(Write)
  BY DEF TypeOK, Write
<1>2. \A w \in Write : w.scope \in Scope /\ w.snapshot \in Contents /\ w.fields \subseteq Key
  BY DEF Write
<1> QED BY <1>1, <1>2, EmptySeq, ElementOfSeq, LenProperties, HeadTailProperties

(* A process that takes no part in a step, and has its lock before and     *)
(* after it.                                                               *)
LEMMA OthersStay ==
    ASSUME Setting, SettingsInv, NEW p \in Process,
           settings'[p] = settings[p], loadError'[p] = loadError[p],
           modified'[p] = modified[p], writeQueue'[p] = writeQueue[p],
           begun'[p] = begun[p], failed'[p] = failed[p],
           unsaved'[p] = unsaved[p], fresh'[p] = fresh[p],
           p \in running' <=> p \in running,
           \A s \in Scope : lock'[s] = p <=> lock[s] = p,
           \A s \in Scope : lock[s] = p => file'[s] = file[s]
    PROVE  ProcessInv(p)'
<1>1. TypeOK /\ LockInv(p) /\ MarksInv(p) /\ SavedInv(p)
  BY DEF SettingsInv, ProcessInv
<1>2. LockInv(p)'
  <2>1. begun[p].step = "locked" =>
            LET s == Head(writeQueue[p]).scope
            IN s \in Scope /\ lock[s] = p /\ file[s] = There(begun[p].at)
    BY <1>1, WritesToCome, SettingsConstants DEF LockInv
  <2>2. begun'[p].step = "locked" =>
            LET s == Head(writeQueue'[p]).scope
            IN lock'[s] = p /\ file'[s] = There(begun'[p].at)
    BY <2>1
  <2>3. \A s \in Scope : lock'[s] = p => /\ begun'[p].step = "locked"
                                         /\ Head(writeQueue'[p]).scope = s
    BY <1>1 DEF LockInv
  <2>4. /\ begun'[p].step = "not begun" => begun'[p] = NotBegun
        /\ begun'[p] # NotBegun => writeQueue'[p] # << >>
    BY <1>1 DEF LockInv
  <2> HIDE DEF There, NotBegun
  <2> QED BY <2>2, <2>3, <2>4 DEF LockInv
<1>3. MarksInv(p)'
  BY <1>1 DEF MarksInv
<1>4. SavedInv(p)'
  BY <1>1 DEF SavedInv, Saves
<1>5. p \notin running' => NothingLeft(p)'
  BY DEF SettingsInv, ProcessInv, NothingLeft
<1> QED BY <1>2, <1>3, <1>4, <1>5 DEF ProcessInv

LEMMA SettingsStart == Setting /\ Init => SettingsInv
<1> SUFFICES ASSUME Setting, Init PROVE SettingsInv
  OBVIOUS
<1>1. TypeOK
  <2>1. file \in [Scope -> File]
    <3>1. {Missing, Broken} \cup {There(at) : at \in Contents} \subseteq File
      BY SettingsConstants
    <3> QED BY <3>1 DEF Init
  <2>2. << >> \in Seq([scope : Scope, snapshot : Contents, fields : SUBSET Key])
    OBVIOUS
  <2>3. /\ lock \in [Scope -> Process \cup {Free, Stale}] /\ running \in SUBSET Process
        /\ settings \in [Process -> [Scope -> Contents]]
        /\ loadError \in [Process -> [Scope -> BOOLEAN]]
        /\ modified \in [Process -> [Scope -> SUBSET Key]]
    BY SettingsConstants DEF Init
  <2>4. /\ writeQueue \in [Process -> Seq([scope : Scope, snapshot : Contents, fields : SUBSET Key])]
        /\ begun \in [Process -> [step : {"not begun", "locked", "unlocked"}, at : Contents]]
    BY <2>2, SettingsConstants DEF Init
  <2>5. /\ failed \in [Process -> [Scope -> BOOLEAN]]
        /\ unsaved \in [Process -> [Scope -> SUBSET Key]]
        /\ fresh \in [Process -> [Scope -> SUBSET Key]]
    BY DEF Init
  <2> QED BY <2>1, <2>3, <2>4, <2>5 DEF TypeOK
<1>2. ASSUME NEW p \in Process PROVE ProcessInv(p)
  <2>1. NothingLeft(p)
    BY DEF Init, NothingLeft
  <2>2. Len(writeQueue[p]) = 0
    BY <2>1 DEF NothingLeft
  <2>3. LockInv(p)
    BY <2>1, SettingsConstants DEF Init, LockInv, NothingLeft
  <2>4. MarksInv(p) /\ SavedInv(p)
    BY <2>1, <2>2 DEF Init, MarksInv, SavedInv, NothingLeft
  <2> QED BY <2>1, <2>3, <2>4 DEF ProcessInv
<1> QED BY <1>1, <1>2 DEF SettingsInv

(* A step that keeps the writes begun, or the files, keeps what others     *)
(* have put into them.                                                     *)
LEMMA NoWriteEnds ==
    ASSUME file' = file \/ \A p \in Process : begun'[p] = begun[p] \/ p \notin running'
    PROVE  KeepsOthers
  BY SettingsConstants DEF KeepsOthers

LEMMA SettingsCreate ==
    ASSUME Setting, SettingsInv, NEW p \in Process, Create(p)
    PROVE  SettingsInv' /\ KeepsOthers
<1>1. TypeOK /\ NothingLeft(p)
  BY DEF SettingsInv, ProcessInv, Create
<1>2. settings' = [settings EXCEPT ![p] =
         [s \in Scope |-> IF Unreadable(s) THEN Empty ELSE file[s].at]]
  BY DEF Create
<1>3. /\ UNCHANGED <<file, lock, modified, writeQueue, begun, failed, unsaved, fresh>>
      /\ running' = running \cup {p}
      /\ loadError' = [loadError EXCEPT ![p] = [s \in Scope |-> Unreadable(s)]]
  BY DEF Create
<1>4. \A s \in Scope : Unreadable(s) \in BOOLEAN
  BY DEF Unreadable
<1>5. TypeOK'
  <2>1. [s \in Scope |-> IF Unreadable(s) THEN Empty ELSE file[s].at] \in [Scope -> Contents]
    BY <1>1, SettingsConstants DEF TypeOK, File
  <2>2. [s \in Scope |-> Unreadable(s)] \in [Scope -> BOOLEAN]
    BY <1>4
  <2>3. settings' \in [Process -> [Scope -> Contents]]
    BY <1>1, <1>2, <2>1 DEF TypeOK
  <2>4. loadError' \in [Process -> [Scope -> BOOLEAN]]
    BY <1>1, <1>3, <2>2 DEF TypeOK
  <2> QED BY <1>1, <1>3, <2>3, <2>4 DEF TypeOK
<1>6. ASSUME NEW r \in Process, r # p PROVE ProcessInv(r)'
  <2>1. settings'[r] = settings[r] /\ loadError'[r] = loadError[r]
    BY <1>1, <1>2, <1>3, <1>6 DEF TypeOK
  <2> QED BY <1>3, <1>6, <2>1, OthersStay
<1>7. ProcessInv(p)'
  <2>1. LockInv(p)'
    BY <1>3 DEF SettingsInv, ProcessInv, LockInv
  <2>2. Len(writeQueue'[p]) = 0 /\ \A s \in Scope : modified'[p][s] = {} /\ unsaved'[p][s] = {}
    BY <1>1, <1>3 DEF NothingLeft
  <2>3. MarksInv(p)' /\ SavedInv(p)'
    BY <2>2 DEF MarksInv, SavedInv
  <2> QED BY <1>3, <2>1, <2>3 DEF ProcessInv
<1> QED BY <1>3, <1>5, <1>6, <1>7, NoWriteEnds DEF SettingsInv

LEMMA SettingsReload ==
    ASSUME Setting, SettingsInv, NEW p \in Process, Reload(p)
    PROVE  SettingsInv' /\ KeepsOthers
<1>1. TypeOK /\ ProcessInv(p) /\ p \in running
  BY DEF SettingsInv, Reload
<1>2. settings' = [settings EXCEPT ![p] =
         [s \in Scope |-> IF Unreadable(s) THEN @[s] ELSE file[s].at]]
  BY DEF Reload
<1>3. /\ UNCHANGED <<file, lock, running, writeQueue, begun, failed, fresh>>
      /\ loadError' = [loadError EXCEPT ![p] = [s \in Scope |-> Unreadable(s)]]
      /\ modified' = [modified EXCEPT ![p] = [s \in Scope |-> {}]]
      /\ unsaved' = [unsaved EXCEPT ![p] = [s \in Scope |-> {}]]
  BY DEF Reload
<1>4. \A s \in Scope : Unreadable(s) \in BOOLEAN
  BY DEF Unreadable
<1>5. TypeOK'
  <2>1. [s \in Scope |-> IF Unreadable(s) THEN settings[p][s] ELSE file[s].at] \in [Scope -> Contents]
    <3>1. \A s \in Scope : settings[p][s] \in Contents /\ file[s].at \in Contents
      BY <1>1 DEF TypeOK, File
    <3> QED BY <3>1
  <2>2. settings' \in [Process -> [Scope -> Contents]]
    BY <1>1, <1>2, <2>1 DEF TypeOK
  <2>3. loadError' \in [Process -> [Scope -> BOOLEAN]]
    BY <1>1, <1>3, <1>4 DEF TypeOK
  <2>4. /\ modified' \in [Process -> [Scope -> SUBSET Key]]
        /\ unsaved' \in [Process -> [Scope -> SUBSET Key]]
    BY <1>1, <1>3 DEF TypeOK
  <2> QED BY <1>1, <1>3, <2>2, <2>3, <2>4 DEF TypeOK
<1>6. ASSUME NEW r \in Process, r # p PROVE ProcessInv(r)'
  <2>1. /\ settings'[r] = settings[r] /\ loadError'[r] = loadError[r]
        /\ modified'[r] = modified[r] /\ unsaved'[r] = unsaved[r]
    BY <1>1, <1>2, <1>3, <1>6 DEF TypeOK
  <2> QED BY <1>3, <1>6, <2>1, OthersStay
<1>7. ProcessInv(p)'
  <2>1. LockInv(p)'
    BY <1>1, <1>3 DEF ProcessInv, LockInv
  <2>2. \A s \in Scope : modified'[p][s] = {} /\ unsaved'[p][s] = {}
    BY <1>1, <1>3 DEF TypeOK
  <2>3. MarksInv(p)' /\ SavedInv(p)'
    BY <1>1, <1>3, <2>2 DEF ProcessInv, MarksInv, SavedInv
  <2> QED BY <1>1, <1>3, <2>1, <2>3 DEF ProcessInv
<1> QED BY <1>3, <1>5, <1>6, <1>7, NoWriteEnds DEF SettingsInv

(* A key that is set with an error of loading is not written...            *)
LEMMA SettingsSetUnloaded ==
    ASSUME Setting, SettingsInv, NEW p \in Process, NEW s \in Scope, NEW k \in Key,
           NEW v \in Value \cup {Unset}, Set(p, s, k, v), loadError[p][s]
    PROVE  SettingsInv' /\ KeepsOthers
<1>1. TypeOK /\ ProcessInv(p) /\ p \in running
  BY DEF SettingsInv, Set
<1>2. /\ settings' = [settings EXCEPT ![p][s][k] = v]
      /\ modified' = [modified EXCEPT ![p][s] = @ \cup {k}]
      /\ UNCHANGED <<file, lock, running, loadError, writeQueue, begun, failed, unsaved, fresh>>
  BY DEF Set
<1>3. TypeOK'
  <2>1. settings' \in [Process -> [Scope -> Contents]]
    BY <1>1, <1>2 DEF TypeOK, Contents
  <2>2. modified' \in [Process -> [Scope -> SUBSET Key]]
    <3>1. modified \in [Process -> [Scope -> SUBSET Key]]
      BY <1>1 DEF TypeOK
    <3>2. modified[p][s] \cup {k} \in SUBSET Key
      BY <3>1
    <3> QED BY <1>2, <3>1, <3>2
  <2> QED BY <1>1, <1>2, <2>1, <2>2 DEF TypeOK
<1>4. ASSUME NEW r \in Process, r # p PROVE ProcessInv(r)'
  <2>1. settings'[r] = settings[r] /\ modified'[r] = modified[r]
    BY <1>1, <1>2, <1>4 DEF TypeOK
  <2> QED BY <1>2, <1>4, <2>1, OthersStay
<1>5. ProcessInv(p)'
  <2>1. LockInv(p)'
    BY <1>1, <1>2 DEF ProcessInv, LockInv
  <2>2. unsaved'[p][s] = {}
    BY <1>1, <1>2 DEF ProcessInv, MarksInv
  <2>3. \A t \in Scope : t # s => /\ settings'[p][t] = settings[p][t]
                                  /\ modified'[p][t] = modified[p][t]
    BY <1>1, <1>2 DEF TypeOK
  <2>4. MarksInv(p)'
    BY <1>1, <1>2, <2>2, <2>3 DEF ProcessInv, MarksInv
  <2>5. SavedInv(p)'
    BY <1>1, <1>2, <2>2, <2>3 DEF ProcessInv, SavedInv, Saves
  <2> QED BY <1>1, <1>2, <2>1, <2>4, <2>5 DEF ProcessInv
<1> QED BY <1>2, <1>3, <1>4, <1>5, NoWriteEnds DEF SettingsInv

(* ... and any other goes to the end of the queue, with the marks.         *)
LEMMA SettingsSetLoaded ==
    ASSUME Setting, SettingsInv, NEW p \in Process, NEW s \in Scope, NEW k \in Key,
           NEW v \in Value \cup {Unset}, Set(p, s, k, v), ~loadError[p][s]
    PROVE  SettingsInv' /\ KeepsOthers
<1> DEFINE write == [scope |-> s, snapshot |-> settings'[p][s], fields |-> modified'[p][s]]
<1>1. TypeOK /\ ProcessInv(p) /\ p \in running /\ begun[p] = NotBegun
  BY DEF SettingsInv, Set
<1>2. /\ settings' = [settings EXCEPT ![p][s][k] = v]
      /\ modified' = [modified EXCEPT ![p][s] = @ \cup {k}]
      /\ unsaved' = [unsaved EXCEPT ![p][s] = @ \cup {k}]
      /\ fresh' = [fresh EXCEPT ![p][s] = @ \cup {k}]
      /\ UNCHANGED <<file, lock, running, loadError, begun, failed>>
  BY DEF Set
<1>3. writeQueue' = [writeQueue EXCEPT ![p] = Append(@, write)]
  BY DEF Set
<1>4. /\ settings' \in [Process -> [Scope -> Contents]]
      /\ settings'[p][s][k] = v
      /\ \A j \in Key : j # k => settings'[p][s][j] = settings[p][s][j]
      /\ \A t \in Scope : t # s => settings'[p][t] = settings[p][t]
  <2>1. settings \in [Process -> [Scope -> [Key -> Value \cup {Unset}]]]
    BY <1>1 DEF TypeOK, Contents
  <2>2. settings'[p][s] = [settings[p][s] EXCEPT ![k] = v]
    BY <1>2, <2>1
  <2>3. settings' \in [Process -> [Scope -> Contents]]
    BY <1>2, <2>1 DEF Contents
  <2>4. \A t \in Scope : t # s => settings'[p][t] = settings[p][t]
    BY <1>2, <2>1
  <2> QED BY <2>1, <2>2, <2>3, <2>4
<1>5. /\ modified' \in [Process -> [Scope -> SUBSET Key]]
      /\ unsaved' \in [Process -> [Scope -> SUBSET Key]]
      /\ fresh' \in [Process -> [Scope -> SUBSET Key]]
      /\ modified'[p][s] = modified[p][s] \cup {k}
      /\ unsaved'[p][s] = unsaved[p][s] \cup {k}
      /\ fresh'[p][s] = fresh[p][s] \cup {k}
      /\ \A t \in Scope : t # s => /\ modified'[p][t] = modified[p][t]
                                   /\ unsaved'[p][t] = unsaved[p][t]
                                   /\ fresh'[p][t] = fresh[p][t]
  BY <1>1, <1>2 DEF TypeOK
<1>6. write \in Write
  BY <1>4, <1>5 DEF Write
<1>7. /\ write.scope = s /\ write.snapshot = settings'[p][s] /\ write.fields = modified'[p][s]
      /\ k \in write.fields
  BY <1>5
<1> HIDE DEF write
<1>8. /\ writeQueue' \in [Process -> Seq(Write)]
      /\ writeQueue'[p] = Append(writeQueue[p], write)
      /\ Len(writeQueue'[p]) = Len(writeQueue[p]) + 1
      /\ writeQueue'[p][Len(writeQueue[p]) + 1] = write
      /\ \A i \in 1..Len(writeQueue[p]) : writeQueue'[p][i] = writeQueue[p][i]
      /\ Len(writeQueue[p]) \in Nat
  <2>1. writeQueue \in [Process -> Seq(Write)]
    BY <1>1 DEF TypeOK, Write
  <2>2. Append(writeQueue[p], write) \in Seq(Write) /\ writeQueue[p] \in Seq(Write)
    BY <1>6, <2>1
  <2>3. writeQueue'[p] = Append(writeQueue[p], write)
    BY <1>3, <2>1
  <2>4. writeQueue' \in [Process -> Seq(Write)]
    BY <1>3, <2>1, <2>2
  <2> QED BY <1>6, <2>2, <2>3, <2>4, AppendProperties, LenProperties
<1>9. TypeOK'
  BY <1>1, <1>2, <1>4, <1>5, <1>8 DEF TypeOK, Write
<1>10. ASSUME NEW r \in Process, r # p PROVE ProcessInv(r)'
  <2>1. /\ settings'[r] = settings[r] /\ modified'[r] = modified[r]
        /\ unsaved'[r] = unsaved[r] /\ fresh'[r] = fresh[r]
        /\ writeQueue'[r] = writeQueue[r]
    BY <1>1, <1>2, <1>3, <1>10 DEF TypeOK
  <2> QED BY <1>2, <1>10, <2>1, OthersStay
<1>11. ProcessInv(p)'
  <2>1. LockInv(p)'
    <3>1. \A t \in Scope : lock[t] # p
      BY <1>1, SettingsConstants DEF ProcessInv, LockInv
    <3> QED BY <1>1, <1>2, <3>1, SettingsConstants DEF LockInv
  <2>2. MarksInv(p)'
    <3>1. \A i \in 1..Len(writeQueue[p]) : writeQueue[p][i].scope \in Scope
      BY <1>1, WritesToCome
    <3>2. \A i \in 1..Len(writeQueue[p]) :
             writeQueue'[p][i].fields \subseteq fresh'[p][writeQueue'[p][i].scope]
      <4>1. \A t \in Scope : fresh[p][t] \subseteq fresh'[p][t]
        BY <1>5
      <4>2. \A i \in 1..Len(writeQueue[p]) :
               writeQueue[p][i].fields \subseteq fresh[p][writeQueue[p][i].scope]
        BY <1>1 DEF ProcessInv, MarksInv
      <4>3. \A i \in 1..Len(writeQueue[p]) :
               writeQueue[p][i].fields \subseteq fresh'[p][writeQueue[p][i].scope]
        BY <3>1, <4>1, <4>2
      <4> QED BY <1>8, <4>3
    <3>3. modified'[p][s] \subseteq fresh'[p][s]
      BY <1>1, <1>5 DEF ProcessInv, MarksInv
    <3>4. \A i \in 1..Len(writeQueue'[p]) :
             writeQueue'[p][i].fields \subseteq fresh'[p][writeQueue'[p][i].scope]
      BY <1>7, <1>8, <3>2, <3>3
    <3>5. \A t \in Scope : IF loadError'[p][t] THEN unsaved'[p][t] = {}
                           ELSE modified'[p][t] \subseteq fresh'[p][t]
      BY <1>1, <1>2, <1>5, <3>3 DEF ProcessInv, MarksInv
    <3> QED BY <3>4, <3>5 DEF MarksInv
  <2>3. SavedInv(p)'
    <3> SUFFICES ASSUME NEW t \in Scope, ~failed[p][t], NEW j \in unsaved'[p][t]
                 PROVE  Saves(p, t, j)'
      BY <1>2 DEF SavedInv
    <3>1. CASE t = s /\ j = k
      BY <1>7, <1>8, <3>1 DEF Saves
    <3>2. CASE ~(t = s /\ j = k)
      <4>1. j \in unsaved[p][t] /\ settings'[p][t][j] = settings[p][t][j]
        <5>1. unsaved'[p][t] \subseteq Key
          BY <1>5
        <5>2. CASE t # s
          BY <1>4, <1>5, <5>2
        <5>3. CASE t = s
          BY <1>4, <1>5, <3>2, <5>1, <5>3
        <5> QED BY <5>2, <5>3
      <4>2. Saves(p, t, j)
        BY <1>1, <4>1 DEF ProcessInv, SavedInv
      <4> QED BY <1>8, <4>1, <4>2 DEF Saves
    <3> QED BY <3>1, <3>2
  <2> QED BY <1>1, <1>2, <2>1, <2>2, <2>3 DEF ProcessInv
<1> QED BY <1>2, <1>9, <1>10, <1>11, NoWriteEnds DEF SettingsInv

LEMMA SettingsBeginWrite ==
    ASSUME Setting, SettingsInv, NEW p \in Process, BeginWrite(p)
    PROVE  SettingsInv' /\ KeepsOthers
<1> DEFINE s == Head(writeQueue[p]).scope
           step == IF file[s].state = "there" THEN "locked" ELSE "unlocked"
<1>1. TypeOK /\ ProcessInv(p) /\ writeQueue[p] # << >> /\ begun[p] = NotBegun
  BY DEF SettingsInv, BeginWrite
<1>2. /\ file[s].state = "there" => lock[s] = Free
      /\ begun' = [begun EXCEPT ![p] = [step |-> step, at |-> file[s].at]]
      /\ lock' = IF file[s].state = "there" THEN [lock EXCEPT ![s] = p] ELSE lock
      /\ UNCHANGED <<file, running, settings, loadError, modified, writeQueue,
                     failed, unsaved, fresh>>
  BY DEF BeginWrite
<1>3. s \in Scope /\ file[s] \in File /\ file[s].at \in Contents
  BY <1>1, WritesToCome DEF TypeOK, File
<1>4. begun'[p].step = step /\ begun'[p].at = file[s].at
  BY <1>1, <1>2 DEF TypeOK
<1>5. file[s].state = "there" => file[s] = There(file[s].at)
  BY <1>3 DEF File, There
<1> HIDE DEF s
<1>6. TypeOK'
  <2>1. [step |-> step, at |-> file[s].at] \in [step : {"not begun", "locked", "unlocked"}, at : Contents]
    BY <1>3
  <2>2. begun' \in [Process -> [step : {"not begun", "locked", "unlocked"}, at : Contents]]
    BY <1>1, <1>2, <2>1 DEF TypeOK
  <2>3. lock' \in [Scope -> Process \cup {Free, Stale}]
    BY <1>1, <1>2 DEF TypeOK
  <2> QED BY <1>1, <1>2, <2>2, <2>3 DEF TypeOK
<1>7. \A t \in Scope : \/ lock'[t] = lock[t]
                       \/ t = s /\ lock[t] = Free /\ lock'[t] = p /\ step = "locked"
  BY <1>1, <1>2, <1>3 DEF TypeOK
<1>8. step = "locked" => lock'[s] = p
  BY <1>1, <1>2, <1>3 DEF TypeOK
<1>9. step \in {"locked", "unlocked"}
  OBVIOUS
<1>10. step = "locked" => file[s].state = "there"
  OBVIOUS
<1> HIDE DEF step
<1>11. ASSUME NEW r \in Process, r # p PROVE ProcessInv(r)'
  <2>1. begun'[r] = begun[r]
    BY <1>1, <1>2, <1>11 DEF TypeOK
  <2>2. \A t \in Scope : lock'[t] = r <=> lock[t] = r
    BY <1>7, <1>11, SettingsConstants
  <2> QED BY <1>2, <1>11, <2>1, <2>2, OthersStay
<1>12. ProcessInv(p)'
  <2>1. LockInv(p)'
    <3>1. \A t \in Scope : lock[t] # p
      BY <1>1, SettingsConstants DEF ProcessInv, LockInv
    <3>2. \A t \in Scope : lock'[t] = p => t = s /\ step = "locked"
      BY <1>7, <3>1
    <3>3. step = "locked" => lock'[s] = p /\ file'[s] = There(begun'[p].at)
      BY <1>2, <1>4, <1>5, <1>8, <1>10
    <3>4. Head(writeQueue'[p]).scope = s
      BY <1>2 DEF s
    <3>5. begun'[p].step # "not begun"
      BY <1>4, <1>9
    <3> QED BY <1>1, <1>2, <1>4, <3>2, <3>3, <3>4, <3>5 DEF LockInv
  <2>2. MarksInv(p)' /\ SavedInv(p)'
    BY <1>1, <1>2 DEF ProcessInv, MarksInv, SavedInv, Saves
  <2>3. p \in running
    BY <1>1 DEF ProcessInv, NothingLeft
  <2> QED BY <1>2, <2>1, <2>2, <2>3 DEF ProcessInv
<1> QED BY <1>2, <1>6, <1>11, <1>12, NoWriteEnds DEF SettingsInv

(* The queue without the write that ended.                                 *)
LEMMA QueueGoesOn ==
    ASSUME TypeOK, NEW p \in Process, writeQueue[p] # << >>,
           writeQueue' = [writeQueue EXCEPT ![p] = Tail(@)]
    PROVE  /\ writeQueue' \in [Process -> Seq(Write)]
           /\ Len(writeQueue'[p]) = Len(writeQueue[p]) - 1
           /\ \A i \in 1..Len(writeQueue'[p]) : /\ i + 1 \in 1..Len(writeQueue[p])
                                                /\ writeQueue'[p][i] = writeQueue[p][i + 1]
           /\ \A i \in 1..Len(writeQueue[p]) :
                  i = 1 \/ /\ i - 1 \in 1..Len(writeQueue'[p])
                           /\ writeQueue'[p][i - 1] = writeQueue[p][i]
           /\ \A r \in Process : r # p => writeQueue'[r] = writeQueue[r]
<1>1. writeQueue \in [Process -> Seq(Write)]
  BY DEF TypeOK, Write
<1>2. writeQueue' \in [Process -> Seq(Write)] /\ writeQueue'[p] = Tail(writeQueue[p])
  BY <1>1, WritesToCome
<1>3. \A r \in Process : r # p => writeQueue'[r] = writeQueue[r]
  BY <1>1
<1> DEFINE q == writeQueue[p]
           t == Tail(q)
<1>4. /\ Len(q) \in Nat /\ Len(q) > 0 /\ Len(t) = Len(q) - 1
      /\ \A i \in 1..Len(t) : t[i] = q[i + 1]
  BY WritesToCome
<1> HIDE DEF q, t
<1>5. /\ \A i \in 1..Len(t) : i + 1 \in 1..Len(q)
      /\ \A i \in 1..Len(q) : i = 1 \/ (i - 1 \in 1..Len(t) /\ t[i - 1] = q[i])
  BY <1>4
<1>6. writeQueue'[p] = t /\ writeQueue[p] = q
  BY <1>2 DEF q, t
<1> QED BY <1>2, <1>3, <1>4, <1>5, <1>6

LEMMA SettingsFailWrite ==
    ASSUME Setting, SettingsInv, NEW p \in Process, FailWrite(p)
    PROVE  SettingsInv' /\ KeepsOthers
<1> DEFINE s == Head(writeQueue[p]).scope
<1>1. TypeOK /\ ProcessInv(p) /\ writeQueue[p] # << >>
  BY DEF SettingsInv, FailWrite
<1>2. /\ begun[p].step # "locked"
      /\ writeQueue' = [writeQueue EXCEPT ![p] = Tail(@)]
      /\ begun' = [begun EXCEPT ![p] = NotBegun]
      /\ failed' = [failed EXCEPT ![p][s] = TRUE]
      /\ UNCHANGED <<file, lock, running, settings, loadError, modified, unsaved, fresh>>
  BY SettingsConstants DEF FailWrite
<1>3. s \in Scope /\ s = writeQueue[p][1].scope
  BY <1>1, WritesToCome
<1> HIDE DEF s
<1>4. /\ writeQueue' \in [Process -> Seq(Write)]
      /\ \A i \in 1..Len(writeQueue'[p]) : /\ i + 1 \in 1..Len(writeQueue[p])
                                           /\ writeQueue'[p][i] = writeQueue[p][i + 1]
      /\ \A i \in 1..Len(writeQueue[p]) :
             i = 1 \/ /\ i - 1 \in 1..Len(writeQueue'[p])
                      /\ writeQueue'[p][i - 1] = writeQueue[p][i]
      /\ \A r \in Process : r # p => writeQueue'[r] = writeQueue[r]
  BY <1>1, <1>2, QueueGoesOn
<1>5. /\ begun' \in [Process -> [step : {"not begun", "locked", "unlocked"}, at : Contents]]
      /\ begun'[p] = NotBegun
      /\ \A r \in Process : r # p => begun'[r] = begun[r]
  BY <1>1, <1>2, SettingsConstants DEF TypeOK
<1>6. /\ failed' \in [Process -> [Scope -> BOOLEAN]] /\ failed'[p][s]
      /\ \A t \in Scope : t # s => failed'[p][t] = failed[p][t]
      /\ \A r \in Process : r # p => failed'[r] = failed[r]
  BY <1>1, <1>2, <1>3 DEF TypeOK
<1>7. TypeOK'
  BY <1>1, <1>2, <1>4, <1>5, <1>6 DEF TypeOK, Write
<1>8. ASSUME NEW r \in Process, r # p PROVE ProcessInv(r)'
  BY <1>2, <1>4, <1>5, <1>6, <1>8, OthersStay
<1>9. ProcessInv(p)'
  <2>1. LockInv(p)'
    BY <1>1, <1>2, <1>5, SettingsConstants DEF ProcessInv, LockInv
  <2>2. MarksInv(p)'
    BY <1>1, <1>2, <1>4 DEF ProcessInv, MarksInv
  <2>3. SavedInv(p)'
    <3> SUFFICES ASSUME NEW t \in Scope, ~failed'[p][t], NEW k \in unsaved[p][t]
                 PROVE  Saves(p, t, k)'
      BY <1>2 DEF SavedInv
    <3>1. t # s /\ Saves(p, t, k)
      BY <1>1, <1>6 DEF ProcessInv, SavedInv
    <3> QED BY <1>2, <1>3, <1>4, <3>1 DEF Saves
  <2>4. p \in running
    BY <1>1 DEF ProcessInv, NothingLeft
  <2> QED BY <1>2, <2>1, <2>2, <2>3, <2>4 DEF ProcessInv
<1> QED BY <1>2, <1>7, <1>8, <1>9, NoWriteEnds DEF SettingsInv

(* A write that ends has the lock, unless the file was missing when it     *)
(* began and nobody has taken the lock since.                              *)
LEMMA SettingsEndWrite ==
    ASSUME Setting, SettingsInv, NEW p \in Process, EndWrite(p)
    PROVE  SettingsInv' /\ KeepsOthers
<1> DEFINE task == Head(writeQueue[p])
           s == task.scope
           merged == Merged(begun[p].at, task)
<1>1. TypeOK /\ ProcessInv(p) /\ begun[p] # NotBegun /\ writeQueue[p] # << >>
  BY DEF SettingsInv, ProcessInv, LockInv, EndWrite
<1>2. /\ lock[s] = IF begun[p].step = "locked" THEN p ELSE Free
      /\ file' = [file EXCEPT ![s] = There(merged)]
      /\ lock' = [lock EXCEPT ![s] = Free]
      /\ modified' = [modified EXCEPT ![p][s] = {}]
      /\ unsaved' = [unsaved EXCEPT ![p][s] = {k \in @ : merged[k] # settings[p][s][k]}]
      /\ fresh' = [fresh EXCEPT ![p][s] =
               IF Len(writeQueue[p]) = 1 /\ ~failed[p][s] THEN {} ELSE @]
      /\ writeQueue' = [writeQueue EXCEPT ![p] = Tail(@)]
      /\ begun' = [begun EXCEPT ![p] = NotBegun]
      /\ UNCHANGED <<running, settings, loadError, failed>>
  BY DEF EndWrite
<1>3. task = writeQueue[p][1] /\ task \in Write /\ s \in Scope
  BY <1>1, WritesToCome
<1>4. merged \in Contents /\ \A k \in Key : merged[k] = IF k \in task.fields THEN task.snapshot[k]
                                                        ELSE begun[p].at[k]
  <2>1. begun[p].at \in Contents /\ task.snapshot \in Contents
    BY <1>1, <1>3 DEF TypeOK, Write
  <2> QED BY <2>1 DEF Merged, Contents
<1>5. 1 \in 1..Len(writeQueue[p]) /\ Len(writeQueue[p]) \in Nat
  BY <1>1, WritesToCome
<1>6. task.fields \subseteq fresh[p][s]
  <2>1. writeQueue[p][1].fields \subseteq fresh[p][writeQueue[p][1].scope]
    BY <1>1, <1>5 DEF ProcessInv, MarksInv
  <2> QED BY <1>3, <2>1
<1>7. begun[p].step = "locked" => lock[s] = p /\ file[s] = There(begun[p].at)
  BY <1>1 DEF ProcessInv, LockInv
<1> HIDE DEF task, merged
<1>8. \A i \in 1..Len(writeQueue[p]) : i # 1 \/ writeQueue[p][i] = task
  BY <1>3
<1> DEFINE t == s
<1> HIDE DEF t
<1>9. t \in Scope /\ t = task.scope
  BY <1>3 DEF t
<1>10. /\ file' = [file EXCEPT ![t] = There(merged)]
       /\ lock' = [lock EXCEPT ![t] = Free]
       /\ modified' = [modified EXCEPT ![p][t] = {}]
       /\ unsaved' = [unsaved EXCEPT ![p][t] = {k \in @ : merged[k] # settings[p][t][k]}]
       /\ fresh' = [fresh EXCEPT ![p][t] =
               IF Len(writeQueue[p]) = 1 /\ ~failed[p][t] THEN {} ELSE @]
       /\ lock[t] = IF begun[p].step = "locked" THEN p ELSE Free
  BY <1>2 DEF t
<1>11. /\ writeQueue' \in [Process -> Seq(Write)]
       /\ Len(writeQueue'[p]) = Len(writeQueue[p]) - 1
       /\ \A i \in 1..Len(writeQueue'[p]) : /\ i + 1 \in 1..Len(writeQueue[p])
                                            /\ writeQueue'[p][i] = writeQueue[p][i + 1]
       /\ \A i \in 1..Len(writeQueue[p]) :
              i = 1 \/ /\ i - 1 \in 1..Len(writeQueue'[p])
                       /\ writeQueue'[p][i - 1] = writeQueue[p][i]
       /\ \A r \in Process : r # p => writeQueue'[r] = writeQueue[r]
  BY <1>1, <1>2, QueueGoesOn
<1>12. /\ begun' \in [Process -> [step : {"not begun", "locked", "unlocked"}, at : Contents]]
       /\ begun'[p] = NotBegun
       /\ \A r \in Process : r # p => begun'[r] = begun[r]
  BY <1>1, <1>2, SettingsConstants DEF TypeOK
<1>13. /\ modified' \in [Process -> [Scope -> SUBSET Key]]
       /\ modified'[p][t] = {}
       /\ \A u \in Scope : u # t => modified'[p][u] = modified[p][u]
       /\ \A r \in Process : r # p => modified'[r] = modified[r]
  <2>1. modified \in [Process -> [Scope -> SUBSET Key]]
    BY <1>1 DEF TypeOK
  <2> QED BY <1>9, <1>10, <2>1
<1>14. /\ unsaved' \in [Process -> [Scope -> SUBSET Key]]
       /\ unsaved'[p][t] = {k \in unsaved[p][t] : merged[k] # settings[p][t][k]}
       /\ \A u \in Scope : u # t => unsaved'[p][u] = unsaved[p][u]
       /\ \A r \in Process : r # p => unsaved'[r] = unsaved[r]
  <2>1. unsaved \in [Process -> [Scope -> SUBSET Key]]
    BY <1>1 DEF TypeOK
  <2>2. {k \in unsaved[p][t] : merged[k] # settings[p][t][k]} \in SUBSET Key
    BY <1>9, <2>1
  <2> QED BY <1>9, <1>10, <2>1, <2>2
<1>15. /\ fresh' \in [Process -> [Scope -> SUBSET Key]]
       /\ Len(writeQueue[p]) # 1 => fresh'[p][t] = fresh[p][t]
       /\ \A u \in Scope : u # t => fresh'[p][u] = fresh[p][u]
       /\ \A r \in Process : r # p => fresh'[r] = fresh[r]
  <2>1. fresh \in [Process -> [Scope -> SUBSET Key]]
    BY <1>1 DEF TypeOK
  <2> QED BY <1>9, <1>10, <2>1
<1>16. /\ file' \in [Scope -> File] /\ lock' \in [Scope -> Process \cup {Free, Stale}]
       /\ file'[t] = There(merged) /\ lock'[t] = Free
       /\ \A u \in Scope : u # t => file'[u] = file[u] /\ lock'[u] = lock[u]
  BY <1>1, <1>4, <1>9, <1>10, SettingsConstants DEF TypeOK
<1>17. TypeOK'
  BY <1>1, <1>2, <1>11, <1>12, <1>13, <1>14, <1>15, <1>16 DEF TypeOK, Write
<1>18. ASSUME NEW r \in Process, r # p PROVE ProcessInv(r)'
  <2>1. \A u \in Scope : /\ lock'[u] = r <=> lock[u] = r
                         /\ lock[u] = r => file'[u] = file[u]
    <3>1. lock[t] # r /\ lock'[t] # r
      BY <1>10, <1>16, <1>18, SettingsConstants
    <3> QED BY <1>16, <3>1
  <2> QED BY <1>2, <1>11, <1>12, <1>13, <1>14, <1>15, <1>18, <2>1, OthersStay
<1>19. LockInv(p)'
  <2>1. \A u \in Scope : lock[u] = p => u = t
    BY <1>1, <1>9 DEF ProcessInv, LockInv, task
  <2>2. \A u \in Scope : lock'[u] # p
    BY <1>16, <2>1, SettingsConstants
  <2> QED BY <1>12, <2>2, SettingsConstants DEF LockInv
<1>20. MarksInv(p)'
  <2>1. ASSUME NEW i \in 1..Len(writeQueue'[p])
        PROVE  writeQueue'[p][i].fields \subseteq fresh'[p][writeQueue'[p][i].scope]
    <3>1. i + 1 \in 1..Len(writeQueue[p]) /\ writeQueue'[p][i] = writeQueue[p][i + 1]
      BY <1>11
    <3>2. writeQueue[p][i + 1].fields \subseteq fresh[p][writeQueue[p][i + 1].scope]
      BY <1>1, <3>1 DEF ProcessInv, MarksInv
    <3>3. writeQueue[p][i + 1].scope \in Scope
      BY <1>1, <3>1, WritesToCome
    <3>4. Len(writeQueue[p]) # 1
      BY <1>5, <1>11
    <3>5. fresh'[p][writeQueue[p][i + 1].scope] = fresh[p][writeQueue[p][i + 1].scope]
      BY <1>15, <3>3, <3>4
    <3> QED BY <3>1, <3>2, <3>5
  <2>2. \A u \in Scope : IF loadError'[p][u] THEN unsaved'[p][u] = {}
                         ELSE modified'[p][u] \subseteq fresh'[p][u]
    <3> SUFFICES ASSUME NEW u \in Scope
                 PROVE  IF loadError'[p][u] THEN unsaved'[p][u] = {}
                        ELSE modified'[p][u] \subseteq fresh'[p][u]
      OBVIOUS
    <3>1. IF loadError[p][u] THEN unsaved[p][u] = {} ELSE modified[p][u] \subseteq fresh[p][u]
      BY <1>1 DEF ProcessInv, MarksInv
    <3>2. CASE u = t
      BY <1>2, <1>13, <1>14, <3>1, <3>2
    <3>3. CASE u # t
      BY <1>2, <1>13, <1>14, <1>15, <3>1, <3>3
    <3> QED BY <3>2, <3>3
  <2> QED BY <2>1, <2>2 DEF MarksInv
<1>21. SavedInv(p)'
  <2> SUFFICES ASSUME NEW u \in Scope, ~failed[p][u], NEW k \in unsaved'[p][u]
               PROVE  Saves(p, u, k)'
    BY <1>2 DEF SavedInv
  <2>1. k \in unsaved[p][u] /\ (u = t => merged[k] # settings[p][t][k])
    BY <1>14
  <2>2. k \in Key
    BY <1>14
  <2>3. PICK i \in 1..Len(writeQueue[p]) :
             /\ writeQueue[p][i].scope = u /\ k \in writeQueue[p][i].fields
             /\ writeQueue[p][i].snapshot[k] = settings[p][u][k]
    BY <1>1, <2>1 DEF ProcessInv, SavedInv, Saves
  <2>4. i # 1
    <3> SUFFICES ASSUME i = 1 PROVE FALSE
      OBVIOUS
    <3>1. writeQueue[p][i] = task
      BY <1>8
    <3>2. u = t /\ k \in task.fields /\ task.snapshot[k] = settings[p][t][k]
      BY <1>9, <2>3, <3>1
    <3>3. merged[k] = task.snapshot[k]
      BY <1>4, <2>2, <3>2
    <3> QED BY <2>1, <3>2, <3>3
  <2>5. i - 1 \in 1..Len(writeQueue'[p]) /\ writeQueue'[p][i - 1] = writeQueue[p][i]
    BY <1>11, <2>4
  <2>6. settings'[p][u][k] = settings[p][u][k]
    BY <1>2
  <2> QED BY <2>3, <2>5, <2>6 DEF Saves
<1>22. ProcessInv(p)'
  <2>1. p \in running
    BY <1>1 DEF ProcessInv, NothingLeft
  <2> QED BY <1>2, <1>19, <1>20, <1>21, <2>1 DEF ProcessInv
<1>23. KeepsOthers
  <2> SUFFICES ASSUME NEW r \in Process, NEW u \in Scope, begun[r].step = "locked",
                      begun'[r] = NotBegun, file'[u] # file[u]
               PROVE  /\ file[u].state = "there"
                      /\ \A k \in Key : file'[u].at[k] # file[u].at[k] => k \in fresh[r][u]
    BY DEF KeepsOthers
  <2>1. r = p /\ u = t
    BY <1>12, <1>16, SettingsConstants
  <2>2. file[t] = There(begun[p].at) /\ file'[t] = There(merged)
    BY <1>7, <1>16, <2>1 DEF t
  <2>3. file[t].state = "there" /\ file[t].at = begun[p].at /\ file'[t].at = merged
    BY <2>2, SettingsConstants
  <2>4. task.fields \subseteq fresh[p][t]
    BY <1>6 DEF t
  <2> QED BY <1>4, <2>1, <2>3, <2>4
<1> QED BY <1>17, <1>18, <1>22, <1>23 DEF SettingsInv

LEMMA SettingsExit ==
    ASSUME Setting, SettingsInv, NEW p \in Process, Exit(p)
    PROVE  SettingsInv' /\ KeepsOthers
<1> DEFINE written == {s \in Scope : \/ lock[s] = p
                                     \/ /\ begun[p].step = "unlocked" /\ lock[s] = Free
                                        /\ Head(writeQueue[p]).scope = s}
<1>1. TypeOK /\ ProcessInv(p)
  BY DEF SettingsInv
<1>2. /\ running' = running \ {p}
      /\ lock' = [s \in Scope |-> IF s \in written /\ begun[p].step = "locked"
                                  THEN Stale ELSE lock[s]]
      /\ \E left \in [written -> {"as it was", "empty", "cut short"}] :
               file' = [s \in Scope |->
                  IF s \notin written \/ left[s] = "as it was" THEN file[s]
                  ELSE IF left[s] = "empty" THEN There(Empty) ELSE Broken]
      /\ settings' = [settings EXCEPT ![p] = [s \in Scope |-> Empty]]
      /\ loadError' = [loadError EXCEPT ![p] = [s \in Scope |-> FALSE]]
      /\ modified' = [modified EXCEPT ![p] = [s \in Scope |-> {}]]
      /\ writeQueue' = [writeQueue EXCEPT ![p] = << >>]
      /\ begun' = [begun EXCEPT ![p] = NotBegun]
      /\ failed' = [failed EXCEPT ![p] = [s \in Scope |-> FALSE]]
      /\ unsaved' = [unsaved EXCEPT ![p] = [s \in Scope |-> {}]]
      /\ fresh' = [fresh EXCEPT ![p] = [s \in Scope |-> {}]]
  BY DEF Exit
<1>3. /\ \A s \in Scope : lock[s] = p => begun[p].step = "locked"
      /\ \A s \in written : lock[s] = p \/ lock[s] = Free
  BY <1>1 DEF ProcessInv, LockInv
<1>4. /\ file' \in [Scope -> File] /\ \A s \in Scope : s \notin written => file'[s] = file[s]
  <2>1. PICK left \in [written -> {"as it was", "empty", "cut short"}] :
               file' = [s \in Scope |->
                  IF s \notin written \/ left[s] = "as it was" THEN file[s]
                  ELSE IF left[s] = "empty" THEN There(Empty) ELSE Broken]
    BY <1>2
  <2> HIDE DEF written
  <2> QED BY <1>1, <2>1, SettingsConstants DEF TypeOK
<1>5. /\ lock' \in [Scope -> Process \cup {Free, Stale}]
      /\ \A s \in Scope : lock'[s] # p
      /\ \A s \in Scope : lock[s] \notin {p, Free} => lock'[s] = lock[s]
      /\ \A s \in Scope : lock'[s] = lock[s] \/ lock'[s] = Stale
  BY <1>1, <1>2, <1>3, SettingsConstants DEF TypeOK
<1>6. \A s \in Scope : lock[s] \notin {p, Free} => file'[s] = file[s]
  BY <1>3, <1>4
<1>7. /\ \A s \in Scope : lock'[s] # Stale => lock'[s] = lock[s]
      /\ \A r \in Process : r # p => r # Free /\ r # Stale
  BY <1>5, SettingsConstants
<1> HIDE DEF written
<1>8. /\ writeQueue' \in [Process -> Seq([scope : Scope, snapshot : Contents, fields : SUBSET Key])]
      /\ writeQueue'[p] = << >>
      /\ \A r \in Process : r # p => writeQueue'[r] = writeQueue[r]
  <2>1. writeQueue \in [Process -> Seq([scope : Scope, snapshot : Contents, fields : SUBSET Key])]
    BY <1>1 DEF TypeOK
  <2>2. << >> \in Seq([scope : Scope, snapshot : Contents, fields : SUBSET Key])
    OBVIOUS
  <2> QED BY <1>2, <2>1, <2>2
<1>9. /\ begun' \in [Process -> [step : {"not begun", "locked", "unlocked"}, at : Contents]]
      /\ begun'[p] = NotBegun
      /\ \A r \in Process : r # p => begun'[r] = begun[r]
  BY <1>1, <1>2, SettingsConstants DEF TypeOK
<1>10. /\ settings' \in [Process -> [Scope -> Contents]]
       /\ loadError' \in [Process -> [Scope -> BOOLEAN]]
       /\ failed' \in [Process -> [Scope -> BOOLEAN]]
       /\ \A r \in Process : r # p => /\ settings'[r] = settings[r]
                                      /\ loadError'[r] = loadError[r]
                                      /\ failed'[r] = failed[r]
  BY <1>1, <1>2, SettingsConstants DEF TypeOK
<1>11. /\ modified' \in [Process -> [Scope -> SUBSET Key]]
       /\ unsaved' \in [Process -> [Scope -> SUBSET Key]]
       /\ fresh' \in [Process -> [Scope -> SUBSET Key]]
       /\ \A s \in Scope : modified'[p][s] = {} /\ unsaved'[p][s] = {}
       /\ \A r \in Process : r # p => /\ modified'[r] = modified[r]
                                      /\ unsaved'[r] = unsaved[r]
                                      /\ fresh'[r] = fresh[r]
  BY <1>1, <1>2 DEF TypeOK
<1>12. TypeOK'
  BY <1>1, <1>2, <1>4, <1>5, <1>8, <1>9, <1>10, <1>11 DEF TypeOK
<1>13. ASSUME NEW r \in Process, r # p PROVE ProcessInv(r)'
  <2>1. \A s \in Scope : /\ lock'[s] = r <=> lock[s] = r
                         /\ lock[s] = r => file'[s] = file[s]
    BY <1>5, <1>6, <1>7, <1>13
  <2>2. r \in running' <=> r \in running
    BY <1>2, <1>13
  <2> QED BY <1>8, <1>9, <1>10, <1>11, <1>13, <2>1, <2>2, OthersStay
<1>14. ProcessInv(p)'
  <2>1. Len(writeQueue'[p]) = 0
    BY <1>8
  <2>2. LockInv(p)'
    BY <1>5, <1>9, SettingsConstants DEF LockInv
  <2>3. MarksInv(p)' /\ SavedInv(p)'
    BY <1>11, <2>1 DEF MarksInv, SavedInv
  <2>4. NothingLeft(p)'
    BY <1>8, <1>9, <1>11 DEF NothingLeft
  <2> QED BY <2>2, <2>3, <2>4 DEF ProcessInv
<1>15. \A r \in Process : begun'[r] = begun[r] \/ r \notin running'
  BY <1>2, <1>9
<1> QED BY <1>12, <1>13, <1>14, <1>15, NoWriteEnds DEF SettingsInv

LEMMA SettingsBreakLock ==
    ASSUME Setting, SettingsInv, NEW s \in Scope, BreakLock(s)
    PROVE  SettingsInv' /\ KeepsOthers
<1>1. TypeOK
  BY DEF SettingsInv
<1>2. /\ lock[s] = Stale /\ lock' = [lock EXCEPT ![s] = Free]
      /\ UNCHANGED <<file, running, settings, loadError, modified, writeQueue, begun,
                     failed, unsaved, fresh>>
  BY DEF BreakLock
<1>3. lock' \in [Scope -> Process \cup {Free, Stale}]
  BY <1>1, <1>2 DEF TypeOK
<1>4. TypeOK'
  BY <1>1, <1>2, <1>3 DEF TypeOK
<1>5. ASSUME NEW r \in Process PROVE ProcessInv(r)'
  <2>1. \A t \in Scope : lock'[t] = r <=> lock[t] = r
    BY <1>1, <1>2, SettingsConstants DEF TypeOK
  <2> QED BY <1>2, <2>1, OthersStay
<1> QED BY <1>2, <1>4, <1>5, NoWriteEnds DEF SettingsInv

LEMMA SettingsEdit ==
    ASSUME Setting, SettingsInv, NEW s \in Scope, NEW k \in Key, NEW v \in Value \cup {Unset}, Edit(s, k, v)
    PROVE  SettingsInv' /\ KeepsOthers
<1>1. TypeOK
  BY DEF SettingsInv
<1>2. /\ lock[s] = Free /\ file' = [file EXCEPT ![s] = There([@.at EXCEPT ![k] = v])]
      /\ UNCHANGED <<lock, running, settings, loadError, modified, writeQueue, begun,
                     failed, unsaved, fresh>>
  BY DEF Edit
<1>3. file' \in [Scope -> File] /\ \A t \in Scope : t # s => file'[t] = file[t]
  <2>1. [file[s].at EXCEPT ![k] = v] \in Contents
    BY <1>1 DEF TypeOK, File, Contents
  <2>2. There([file[s].at EXCEPT ![k] = v]) \in File
    BY <2>1, SettingsConstants
  <2> QED BY <1>1, <1>2, <2>2 DEF TypeOK
<1>4. TypeOK'
  BY <1>1, <1>2, <1>3 DEF TypeOK
<1>5. ASSUME NEW r \in Process PROVE ProcessInv(r)'
  BY <1>2, <1>3, OthersStay, SettingsConstants
<1> QED BY <1>2, <1>4, <1>5, NoWriteEnds DEF SettingsInv

LEMMA SettingsSteps ==
    ASSUME Setting, SettingsInv, [Next]_vars
    PROVE  SettingsInv' /\ KeepsOthers
<1>1. CASE UNCHANGED vars
  <2>1. UNCHANGED <<file, lock, running, settings, loadError, modified, writeQueue, begun,
                    failed, unsaved, fresh>>
    BY <1>1 DEF vars
  <2>2. TypeOK'
    BY <2>1 DEF SettingsInv, TypeOK
  <2>3. \A p \in Process : ProcessInv(p)'
    BY <2>1, OthersStay
  <2> QED BY <2>1, <2>2, <2>3, NoWriteEnds DEF SettingsInv
<1>2. CASE Next
  BY <1>2, SettingsCreate, SettingsReload, SettingsExit, SettingsBeginWrite, SettingsEndWrite,
     SettingsFailWrite, SettingsSetUnloaded, SettingsSetLoaded, SettingsBreakLock, SettingsEdit
  DEF Next
<1> QED BY <1>1, <1>2

LEMMA SettingsAllSaved == SettingsInv => AllSaved
<1> SUFFICES ASSUME SettingsInv, NEW p \in Process, NEW s \in Scope,
                    writeQueue[p] = << >>, ~failed[p][s], NEW k \in unsaved[p][s]
             PROVE  FALSE
  BY DEF AllSaved
<1>1. Saves(p, s, k)
  BY DEF SettingsInv, ProcessInv, SavedInv
<1> QED BY <1>1 DEF Saves

(* When a process has no write left and none failed, all it has set is in  *)
(* the file, or was for others to change (save, flush); and a write to a   *)
(* file that was there changes only what its process has set since all it  *)
(* had set was written (persistScopedSettings): in any order of setters,   *)
(* writes, reloads, edits by users, and processes that die.                *)
THEOREM SettingsAreKept == Setting => (Spec => []TypeOK /\ []AllSaved /\ OthersKept)
<1> SUFFICES ASSUME Setting PROVE Spec => []TypeOK /\ []AllSaved /\ OthersKept
  OBVIOUS
<1>1. SettingsInv /\ [Next]_vars => SettingsInv' /\ KeepsOthers
  BY SettingsSteps
<1>2. SettingsInv => TypeOK /\ AllSaved
  BY SettingsAllSaved DEF SettingsInv
<1>3. Spec => []TypeOK /\ []AllSaved /\ [][KeepsOthers]_vars
  BY <1>1, <1>2, SettingsStart, PTL DEF Spec
<1> QED BY <1>3 DEF OthersKept
=============================================================================
