----------------------------- MODULE MomEvents ------------------------------
(***************************************************************************)
(* The Slack bot's scheduled events (packages/mom/src/events.ts): a JSON   *)
(* file that other programs write, change and remove, watched with a       *)
(* debounce of 100 ms, is an event to run at once, at a later time or on a *)
(* schedule.  A file that cannot be parsed is read again 100 ms and 300 ms *)
(* later, while other handlers may start for it.  Reading is instantaneous *)
(* beside those delays.  The bot keeps everything by file name, so this is *)
(* about one name.  There is no clock: a timer goes off at any time.       *)
(***************************************************************************)
EXTENDS Naturals

CONSTANTS Kind,        \* "immediate", "one-shot" and "periodic", or some of them
          MaxWrites,   \* bound on what is written to the file
          MaxStarts,   \* bound on starts of the bot
          SlowWriters  \* whether a change may come while a handler waits to read again

VARIABLES
  file,      \* what it holds: an event, Partial or Absent
  up,        \* the bot runs
  startedAt, \* startTime: the writes there had been then
  noticing,  \* debounceTimers has the file: a change is yet to be handled
  known,     \* knownFiles has the file
  reading,   \* the handlers between two tries
  armed,     \* the timers and cron jobs that will go off; kept: the map has it
  executed,  \* how often each event was run
  writes, starts

bot == <<startedAt, known, reading, armed, executed>>
vars == <<file, up, noticing, bot, writes, starts>>

MaxRetries == 3

Event == [kind : Kind, id : 1..MaxWrites]
Partial == [kind |-> "partial", id |-> 0]
Absent == [kind |-> "absent", id |-> 0]
Readable == file.kind \in Kind

TypeOK ==
    /\ file \in Event \cup {Partial, Absent}
    /\ reading \subseteq [tries : 1..MaxRetries - 1, id : 0..MaxWrites]
    /\ armed \subseteq [event : Event, kept : BOOLEAN]
    /\ ~up => armed = {} /\ reading = {} /\ ~noticing /\ ~known

Init ==
    /\ file \in {Absent} \cup [kind : Kind, id : {1}]
    /\ up = FALSE /\ startedAt = 0 /\ noticing = FALSE /\ known = FALSE
    /\ reading = {} /\ armed = {} /\ executed = [i \in 1..MaxWrites |-> 0]
    /\ writes = 1 /\ starts = 0
-----------------------------------------------------------------------------
(* Other programs.  A new content restarts the debounce.                   *)
Put(content) ==
    /\ file' = content /\ noticing' = up
    /\ UNCHANGED <<up, bot, starts>>

Write ==
    /\ writes < MaxWrites /\ writes' = writes + 1
    /\ \E k \in Kind : Put([kind |-> k, id |-> writes + 1])

BeginWrite ==
    /\ writes < MaxWrites /\ writes' = writes + 1
    /\ Put(Partial)

Remove == file # Absent /\ Put(Absent) /\ UNCHANGED writes
-----------------------------------------------------------------------------
Kept == {t \in armed : t.kept}

(* Timers and jobs are kept in a map each: a new one takes the entry.      *)
Overwritten(timers, kind) ==
    {IF t.event.kind = kind THEN [t EXCEPT !.kept = FALSE] ELSE t : t \in timers}

(* deleteFile; the watcher sees it like any other change.                  *)
DeleteFile(pending) ==
    /\ file' = Absent /\ noticing' = (pending \/ file # Absent) /\ known' = FALSE

(* What handleFile does with an event: handleImmediate runs it unless it   *)
(* was there before the bot started; handleOneShot and handlePeriodic set  *)
(* a timer whatever others there are, unless its time is over or its       *)
(* schedule invalid.                                                       *)
Handle(pending, timers, over) ==
    IF file.kind = "immediate" \/ over
    THEN /\ DeleteFile(pending) /\ armed' = timers
         /\ executed' = IF file.kind = "immediate" /\ file.id > startedAt'
                        THEN [executed EXCEPT ![file.id] = @ + 1] ELSE executed
    ELSE /\ known' = TRUE /\ noticing' = pending
         /\ armed' = Overwritten(timers, file.kind) \cup {[event |-> file, kept |-> TRUE]}
         /\ UNCHANGED <<file, executed>>

(* handleFile: the first try.                                              *)
HandleFile(timers, over) ==
    IF Readable
    THEN Handle(FALSE, timers, over) /\ UNCHANGED reading
    ELSE /\ reading' = reading \cup {[tries |-> 1, id |-> writes]}
         /\ noticing' = FALSE /\ armed' = timers
         /\ UNCHANGED <<file, known, executed>>

(* start, with scanExisting.                                               *)
Start(over) ==
    /\ ~up /\ starts < MaxStarts
    /\ up' = TRUE /\ starts' = starts + 1 /\ startedAt' = writes
    /\ IF file = Absent THEN UNCHANGED <<file, noticing, known, reading, armed, executed>>
                        ELSE HandleFile(armed, over)
    /\ UNCHANGED writes

(* A plausible bug: the timer of a changed file stays armed.               *)
HandleFileChangeKeeping(over) ==
    /\ noticing /\ (SlowWriters \/ reading = {})
    /\ UNCHANGED <<up, startedAt, writes, starts>>
    /\ IF file = Absent
       THEN /\ armed' = (IF known THEN armed \ Kept ELSE armed)
            /\ known' = FALSE /\ noticing' = FALSE
            /\ UNCHANGED <<file, reading, executed>>
       ELSE HandleFile(armed, over)

(* handleFileChange, when the debounce is over.                            *)
HandleFileChange(over) ==
    LET timers == IF known THEN armed \ Kept ELSE armed IN
    /\ noticing /\ (SlowWriters \/ reading = {})
    /\ UNCHANGED <<up, startedAt, writes, starts>>
    /\ IF file = Absent
       THEN /\ armed' = timers /\ known' = FALSE /\ noticing' = FALSE
            /\ UNCHANGED <<file, reading, executed>>
       ELSE HandleFile(timers, over)

(* A plausible bug: what could be parsed is read again.                    *)
RetryOn(r, over) ==
    /\ UNCHANGED <<up, startedAt, writes, starts>>
    /\ reading' = (reading \ {r}) \cup {x \in {[r EXCEPT !.tries = @ + 1]} : x.tries < MaxRetries}
    /\ IF Readable
       THEN Handle(noticing, armed, over)
       ELSE UNCHANGED <<file, noticing, known, armed, executed>>

(* A further try of handleFile; after the last one the file is deleted.    *)
Retry(r, over) ==
    /\ UNCHANGED <<up, startedAt, writes, starts>>
    /\ IF Readable
       THEN /\ reading' = reading \ {r}
            /\ Handle(noticing, armed, over)
       ELSE IF r.tries + 1 < MaxRetries
       THEN /\ reading' = (reading \ {r}) \cup {[r EXCEPT !.tries = @ + 1]}
            /\ UNCHANGED <<file, noticing, known, armed, executed>>
       ELSE /\ reading' = reading \ {r} /\ DeleteFile(noticing)
            /\ UNCHANGED <<armed, executed>>

(* A timer goes off: execute, and for a one-shot event the file goes.  The *)
(* callback drops the map's entry, which may be another timer's.  A job    *)
(* that goes off changes nothing here.                                     *)
FireTimer(t) ==
    /\ t.event.kind = "one-shot"
    /\ armed' = Overwritten(armed \ {t}, "one-shot")
    /\ executed' = [executed EXCEPT ![t.event.id] = @ + 1]
    /\ DeleteFile(noticing)
    /\ UNCHANGED <<up, startedAt, reading, writes, starts>>

(* stop, or a crash.                                                       *)
Stop ==
    /\ up /\ up' = FALSE
    /\ noticing' = FALSE /\ known' = FALSE /\ reading' = {} /\ armed' = {}
    /\ UNCHANGED <<file, startedAt, executed, writes, starts>>

(* Whether the time of the event in the file can be over: not while its    *)
(* timer is armed, and surely once it went off.                            *)
Fits(over) ==
    /\ over => \A t \in armed : t.event # file
    /\ Readable /\ file.kind = "one-shot" /\ executed[file.id] > 0 => over

Next ==
    \/ Write \/ BeginWrite \/ Remove
    \/ \E over \in BOOLEAN : Fits(over) /\ Start(over)
    \/ \E over \in BOOLEAN : Fits(over) /\ HandleFileChange(over)
    \/ \E r \in reading, over \in BOOLEAN : Fits(over) /\ Retry(r, over)
    \/ \E t \in armed : FireTimer(t)
    \/ Stop

Spec == Init /\ [][Next]_vars
-----------------------------------------------------------------------------
(* Of writers that are not slow there is one timer at most, which the map  *)
(* has, and none while a handler waits; and what is yet to run has not run.*)
OneTimer ==
    /\ \A s, t \in armed : s = t /\ t.kept
    /\ \A r, s \in reading : r = s
    /\ armed # {} => known /\ reading = {} /\ (file # Absent \/ noticing)

YetToRun ==
    /\ executed \in [1..MaxWrites -> {0, 1}]
    /\ \A i \in 1..MaxWrites : executed[i] = 1 => i <= writes
    /\ file.kind = "immediate" => executed[file.id] = 0
    /\ \A t \in armed : t.event.kind = "one-shot" => executed[t.event.id] = 0

EventsInv ==
    /\ TypeOK /\ OneTimer /\ YetToRun
    /\ writes \in 1..MaxWrites /\ startedAt \in 0..writes /\ starts \in Nat
    /\ up \in BOOLEAN /\ noticing \in BOOLEAN /\ known \in BOOLEAN
    /\ file.id <= writes /\ \A t \in armed : t.event.id <= writes

(* An event to run once is run once, however often its file is read,       *)
(* changed, cancelled, found half written and found again after a restart. *)
RunOnce ==
    \A i \in 1..MaxWrites : executed[i] <= 1

(* Once the watcher has noticed that the file is gone, nothing is armed    *)
(* for it any more.                                                        *)
DeletedIsCancelled ==
    up /\ file = Absent /\ ~noticing => armed = {}
=============================================================================
