------------------------------ MODULE Settings ------------------------------
(***************************************************************************)
(* The settings files (packages/coding-agent/src/core/settings-manager.ts) *)
(* and the processes that share them: each keeps a copy in memory, marks   *)
(* what it changes, and merges the marked keys into the file from a queue  *)
(* of writes.  Users edit the files too; a process may die at any time and *)
(* leave its lock, and in the middle of a write a file that is empty or    *)
(* not JSON.                                                               *)
(*                                                                         *)
(* A key is what is merged as one: a field, or a nested field such as      *)
(* compaction.enabled, which is marked and merged on its own.              *)
(***************************************************************************)
EXTENDS Naturals, Sequences

CONSTANTS Process,  \* the processes
          Scope,    \* global and project, a file each
          Key,      \* the keys of a settings file
          Value,    \* what a key may be set to
          Unset     \* the key is not there: not in Value

VARIABLES
  file,        \* scope -> whether its file is there and readable, and its keys
  lock,        \* scope -> free, or who has the lock
  running,     \* the processes that run
  settings,    \* process, scope -> globalSettings and projectSettings
  loadError,   \* process, scope -> the file could not be loaded
  modified,    \* process, scope -> modifiedFields, modifiedNestedFields
  writeQueue,  \* process -> the writes to come, the first maybe begun
  begun,       \* process -> what the first write has read
  failed,      \* history: a write of this scope failed
  unsaved,     \* history: keys set and not in the file as they were set
  fresh        \* history: keys set since all of the queue was written

vars == <<file, lock, running, settings, loadError, modified, writeQueue, begun,
          failed, unsaved, fresh>>

Empty == [k \in Key |-> Unset]
Contents == [Key -> Value \cup {Unset}]
Missing == [state |-> "missing", at |-> Empty]
Broken == [state |-> "broken", at |-> Empty]
There(at) == [state |-> "there", at |-> at]

Free == "free"    \* nobody has the lock
Stale == "stale"  \* a dead process has it

NotBegun == [step |-> "not begun", at |-> Empty]

Init ==
    /\ file \in [Scope -> {Missing, Broken} \cup {There(at) : at \in Contents}]
    /\ lock = [s \in Scope |-> Free]
    /\ running = {}
    /\ settings = [p \in Process |-> [s \in Scope |-> Empty]]
    /\ loadError = [p \in Process |-> [s \in Scope |-> FALSE]]
    /\ modified = [p \in Process |-> [s \in Scope |-> {}]]
    /\ writeQueue = [p \in Process |-> << >>]
    /\ begun = [p \in Process |-> NotBegun]
    /\ failed = [p \in Process |-> [s \in Scope |-> FALSE]]
    /\ unsaved = [p \in Process |-> [s \in Scope |-> {}]]
    /\ fresh = [p \in Process |-> [s \in Scope |-> {}]]
-----------------------------------------------------------------------------
(* Loading fails on a file that is not JSON, and on one whose lock is not  *)
(* given up within ten attempts.  A missing file needs no lock.            *)
Unreadable(s) == \/ file[s].state = "broken"
                 \/ file[s].state = "there" /\ lock[s] # Free

(* SettingsManager.create: what cannot be loaded is as if it were empty.   *)
Create(p) ==
    /\ p \notin running
    /\ running' = running \cup {p}
    /\ settings' = [settings EXCEPT ![p] =
         [s \in Scope |-> IF Unreadable(s) THEN Empty ELSE file[s].at]]
    /\ loadError' = [loadError EXCEPT ![p] = [s \in Scope |-> Unreadable(s)]]
    /\ UNCHANGED <<file, lock, modified, writeQueue, begun, failed, unsaved, fresh>>

(* reload(): what cannot be loaded stays as it was; all marks are dropped. *)
Reload(p) ==
    /\ p \in running
    /\ begun[p] = NotBegun
    /\ settings' = [settings EXCEPT ![p] =
         [s \in Scope |-> IF Unreadable(s) THEN @[s] ELSE file[s].at]]
    /\ loadError' = [loadError EXCEPT ![p] = [s \in Scope |-> Unreadable(s)]]
    /\ modified' = [modified EXCEPT ![p] = [s \in Scope |-> {}]]
    /\ unsaved' = [unsaved EXCEPT ![p] = [s \in Scope |-> {}]]
    /\ UNCHANGED <<file, lock, running, writeQueue, begun, failed, fresh>>

(* A plausible bug: the marks of earlier failures are dropped.             *)
SetMarksOnlyLast(p, s, k, v) ==
    /\ p \in running
    /\ begun[p] = NotBegun
    /\ settings' = [settings EXCEPT ![p][s][k] = v]
    /\ modified' = [modified EXCEPT ![p][s] = {k}]
    /\ IF loadError[p][s]
       THEN UNCHANGED <<writeQueue, unsaved, fresh>>
       ELSE /\ writeQueue' = [writeQueue EXCEPT ![p] =
                 Append(@, [scope |-> s, snapshot |-> settings[p][s],
                            fields |-> modified'[p][s]])]
            /\ unsaved' = [unsaved EXCEPT ![p][s] = @ \cup {k}]
            /\ fresh' = [fresh EXCEPT ![p][s] = @ \cup {k}]
    /\ UNCHANGED <<file, lock, running, loadError, begun, failed>>

(* A setter, then save or saveProjectSettings: the write takes a copy of   *)
(* the settings and of the marks with it.                                  *)
Set(p, s, k, v) ==
    /\ p \in running
    /\ begun[p] = NotBegun
    /\ settings' = [settings EXCEPT ![p][s][k] = v]
    /\ modified' = [modified EXCEPT ![p][s] = @ \cup {k}]
    /\ IF loadError[p][s]
       THEN UNCHANGED <<writeQueue, unsaved, fresh>>
       ELSE /\ writeQueue' = [writeQueue EXCEPT ![p] =
                 Append(@, [scope |-> s, snapshot |-> settings'[p][s],
                            fields |-> modified'[p][s]])]
            /\ unsaved' = [unsaved EXCEPT ![p][s] = @ \cup {k}]
            /\ fresh' = [fresh EXCEPT ![p][s] = @ \cup {k}]
    /\ UNCHANGED <<file, lock, running, loadError, begun, failed>>

-----------------------------------------------------------------------------
(* withLock, up to the call of its function: a file that is there is       *)
(* locked, then read; a missing one is taken for empty without the lock.   *)
BeginWrite(p) ==
    /\ writeQueue[p] # << >>
    /\ begun[p] = NotBegun
    /\ LET s == Head(writeQueue[p]).scope
       IN /\ file[s].state = "there" => lock[s] = Free
          /\ file[s].state # "broken"
          /\ begun' = [begun EXCEPT ![p] =
               [step |-> IF file[s].state = "there" THEN "locked" ELSE "unlocked",
                at |-> file[s].at]]
          /\ lock' = IF file[s].state = "there" THEN [lock EXCEPT ![s] = p] ELSE lock
    /\ UNCHANGED <<file, running, settings, loadError, modified, writeQueue,
                   failed, unsaved, fresh>>

(* A plausible bug: the copy in memory is written as it is.                *)
MergedAll(current, task) ==
    [k \in Key |-> IF task.fields # {} THEN task.snapshot[k] ELSE current[k]]

(* The marked keys of the snapshot over what was read.                     *)
Merged(current, task) ==
    [k \in Key |-> IF k \in task.fields THEN task.snapshot[k] ELSE current[k]]

(* The write is done, the lock released and the marks of the scope are     *)
(* dropped.                                                                *)
EndWrite(p) ==
    /\ begun[p] # NotBegun
    /\ LET task == Head(writeQueue[p])
           s == task.scope
           merged == Merged(begun[p].at, task)
       IN /\ lock[s] = IF begun[p].step = "locked" THEN p ELSE Free
          /\ file' = [file EXCEPT ![s] = There(merged)]
          /\ lock' = [lock EXCEPT ![s] = Free]
          /\ modified' = [modified EXCEPT ![p][s] = {}]
          /\ unsaved' = [unsaved EXCEPT ![p][s] =
               {k \in @ : merged[k] # settings[p][s][k]}]
          /\ fresh' = [fresh EXCEPT ![p][s] =
               IF Len(writeQueue[p]) = 1 /\ ~failed[p][s] THEN {} ELSE @]
    /\ writeQueue' = [writeQueue EXCEPT ![p] = Tail(@)]
    /\ begun' = [begun EXCEPT ![p] = NotBegun]
    /\ UNCHANGED <<running, settings, loadError, failed>>

(* The lock was not to be had, or the file is not JSON: the error is       *)
(* recorded and the next write begins.                                     *)
FailWrite(p) ==
    /\ writeQueue[p] # << >>
    /\ LET s == Head(writeQueue[p]).scope
       IN /\ \/ begun[p] = NotBegun /\ Unreadable(s)
             \/ begun[p].step = "unlocked" /\ lock[s] # Free
          /\ failed' = [failed EXCEPT ![p][s] = TRUE]
    /\ writeQueue' = [writeQueue EXCEPT ![p] = Tail(@)]
    /\ begun' = [begun EXCEPT ![p] = NotBegun]
    /\ UNCHANGED <<file, lock, running, settings, loadError, modified, unsaved, fresh>>
-----------------------------------------------------------------------------
(* A process ends, or is killed: a lock it has stays until it is stale     *)
(* (one it takes for a missing file, only to write, is not told apart from *)
(* none), and a file it was writing may be left empty or cut short.        *)
Exit(p) ==
    /\ p \in running
    /\ running' = running \ {p}
    /\ LET written == {s \in Scope : \/ lock[s] = p
                                     \/ /\ begun[p].step = "unlocked" /\ lock[s] = Free
                                        /\ Head(writeQueue[p]).scope = s}
       IN /\ lock' = [s \in Scope |-> IF s \in written /\ begun[p].step = "locked"
                                      THEN Stale ELSE lock[s]]
          /\ \E left \in [written -> {"as it was", "empty", "cut short"}] :
               file' = [s \in Scope |->
                  IF s \notin written \/ left[s] = "as it was" THEN file[s]
                  ELSE IF left[s] = "empty" THEN There(Empty) ELSE Broken]
    /\ settings' = [settings EXCEPT ![p] = [s \in Scope |-> Empty]]
    /\ loadError' = [loadError EXCEPT ![p] = [s \in Scope |-> FALSE]]
    /\ modified' = [modified EXCEPT ![p] = [s \in Scope |-> {}]]
    /\ writeQueue' = [writeQueue EXCEPT ![p] = << >>]
    /\ begun' = [begun EXCEPT ![p] = NotBegun]
    /\ failed' = [failed EXCEPT ![p] = [s \in Scope |-> FALSE]]
    /\ unsaved' = [unsaved EXCEPT ![p] = [s \in Scope |-> {}]]
    /\ fresh' = [fresh EXCEPT ![p] = [s \in Scope |-> {}]]

(* proper-lockfile lets go of a lock its holder no longer renews.          *)
BreakLock(s) ==
    /\ lock[s] = Stale
    /\ lock' = [lock EXCEPT ![s] = Free]
    /\ UNCHANGED <<file, running, settings, loadError, modified, writeQueue, begun,
                   failed, unsaved, fresh>>

(* A user saves a file from an editor, while no process is writing it.     *)
Edit(s, k, v) ==
    /\ lock[s] = Free
    /\ \A p \in Process : begun[p] # NotBegun => Head(writeQueue[p]).scope # s
    /\ file' = [file EXCEPT ![s] = There([@.at EXCEPT ![k] = v])]
    /\ UNCHANGED <<lock, running, settings, loadError, modified, writeQueue, begun,
                   failed, unsaved, fresh>>
-----------------------------------------------------------------------------
Next ==
    \/ \E p \in Process : \/ Create(p) \/ Reload(p) \/ Exit(p)
                          \/ BeginWrite(p) \/ EndWrite(p) \/ FailWrite(p)
                          \/ \E s \in Scope, k \in Key, v \in Value \cup {Unset} :
                                Set(p, s, k, v)
    \/ \E s \in Scope : \/ BreakLock(s)
                        \/ \E k \in Key, v \in Value \cup {Unset} : Edit(s, k, v)

Spec == Init /\ [][Next]_vars
-----------------------------------------------------------------------------
File == [state : {"missing", "broken", "there"}, at : Contents]

TypeOK ==
    /\ file \in [Scope -> File]
    /\ lock \in [Scope -> Process \cup {Free, Stale}]
    /\ running \in SUBSET Process
    /\ settings \in [Process -> [Scope -> Contents]]
    /\ loadError \in [Process -> [Scope -> BOOLEAN]]
    /\ modified \in [Process -> [Scope -> SUBSET Key]]
    /\ writeQueue \in [Process -> Seq([scope : Scope, snapshot : Contents,
                                       fields : SUBSET Key])]
    /\ begun \in [Process -> [step : {"not begun", "locked", "unlocked"}, at : Contents]]
    /\ failed \in [Process -> [Scope -> BOOLEAN]]
    /\ unsaved \in [Process -> [Scope -> SUBSET Key]]
    /\ fresh \in [Process -> [Scope -> SUBSET Key]]

(* A process that writes changes only keys it has set since all it had set *)
(* was written: what other processes and users put into the file meanwhile *)
(* stays.  (The exception is a file that was missing when it was read: two *)
(* processes may both take it for empty, and the later write wins.)        *)
KeepsOthers ==
    \A p \in Process, s \in Scope :
        (begun[p].step = "locked" /\ begun'[p] = NotBegun /\ p \in running'
           /\ file'[s] # file[s])
        => /\ file[s].state = "there"
           /\ \A k \in Key : file'[s].at[k] # file[s].at[k] => k \in fresh[p][s]
OthersKept == [][KeepsOthers]_vars

(* When a process has no write left and none failed, all it has set is in  *)
(* the file, or was for others to change.                                  *)
AllSaved ==
    \A p \in Process, s \in Scope :
        writeQueue[p] = << >> /\ ~failed[p][s] => unsaved[p][s] = {}

(* Why it is so.  A file that is locked is as its writer has read it.      *)
LockInv(p) ==
    /\ begun[p].step = "not begun" => begun[p] = NotBegun
    /\ begun[p] # NotBegun => writeQueue[p] # << >>
    /\ begun[p].step = "locked" =>
           LET s == Head(writeQueue[p]).scope
           IN lock[s] = p /\ file[s] = There(begun[p].at)
    /\ \A s \in Scope : lock[s] = p => /\ begun[p].step = "locked"
                                       /\ Head(writeQueue[p]).scope = s

(* What is marked was set lately, but for settings that are not written    *)
(* because they could not be loaded.                                       *)
MarksInv(p) ==
    /\ \A i \in 1..Len(writeQueue[p]) :
           writeQueue[p][i].fields \subseteq fresh[p][writeQueue[p][i].scope]
    /\ \A s \in Scope : IF loadError[p][s] THEN unsaved[p][s] = {}
                        ELSE modified[p][s] \subseteq fresh[p][s]

(* A write to come saves key k as it is now.                               *)
Saves(p, s, k) ==
    \E i \in 1..Len(writeQueue[p]) :
        /\ writeQueue[p][i].scope = s /\ k \in writeQueue[p][i].fields
        /\ writeQueue[p][i].snapshot[k] = settings[p][s][k]

SavedInv(p) == \A s \in Scope : ~failed[p][s] => \A k \in unsaved[p][s] : Saves(p, s, k)

NothingLeft(p) == /\ writeQueue[p] = << >> /\ begun[p] = NotBegun
                  /\ \A s \in Scope : modified[p][s] = {} /\ unsaved[p][s] = {}

ProcessInv(p) == /\ LockInv(p) /\ MarksInv(p) /\ SavedInv(p)
                 /\ p \notin running => NothingLeft(p)

SettingsInv == TypeOK /\ \A p \in Process : ProcessInv(p)
=============================================================================
