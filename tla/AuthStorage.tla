----------------------------- MODULE AuthStorage -----------------------------
(***************************************************************************)
(* The credentials file (packages/coding-agent/src/core/auth-storage.ts)   *)
(* and the processes that share it.  Each keeps the file's contents in     *)
(* memory; a login or logout merges one provider into the file under a     *)
(* lock that is tried for 200 ms; an expired OAuth token is refreshed      *)
(* under a lock that is held across the network call.                      *)
(*                                                                         *)
(* The lock is proper-lockfile's: a directory whose time of modification   *)
(* its holder renews.  The refresh asks for a lock that is stale after     *)
(* 30 s, and renews it every 15; the others take any lock for stale that   *)
(* was not renewed for 10 s (Age), and remove it.                          *)
(***************************************************************************)
EXTENDS Naturals, FiniteSets

CONSTANTS Process,    \* the processes
          Caller,     \* the calls of getApiKey
          HostOf,     \* caller -> the process it runs in
          Provider,   \* the providers
          MaxTokens,  \* bound: OAuth tokens ever issued
          SlowNet     \* a refresh may take more than 10 seconds

VARIABLES
  file,      \* what auth.json holds: a credential per provider, or Broken
  lock,      \* who has its lock, and whether that was renewed lately
  running,   \* the processes that run
  data,      \* process -> data
  loadError, \* process -> loadError
  call,      \* caller -> the refresh under way
  issued,    \* the OAuth tokens issued so far
  expired,   \* those that have expired
  spent,     \* history: those a refresh has exchanged for a newer one
  lost       \* history: those whose newer one never got into the file

vars == <<file, lock, running, data, loadError, call, issued, expired, spent, lost>>

Token == 1 .. MaxTokens
None == 0                         \* the provider has no credential
ApiKey == MaxTokens + 1           \* it has a key that never expires
Credential == 0 .. MaxTokens + 1
Contents == [Provider -> Credential]
Nothing == [q \in Provider |-> None]
Garbage == MaxTokens + 2
Broken == [q \in Provider |-> Garbage]  \* not JSON

(* read: what the call has read of the file; aliased: data of the process  *)
(* is still that object; sent: the token it asks to exchange, told: what   *)
(* its process was told of other logins meanwhile.                         *)
Idle == [step |-> "idle", provider |-> CHOOSE q \in Provider : TRUE,
         read |-> Nothing, aliased |-> FALSE, sent |-> None, new |-> None,
         told |-> {}, compromised |-> FALSE]

Free == [by |-> "nobody", old |-> FALSE]
Dead == [by |-> "a dead process", old |-> FALSE]
HeldBy(c) == [by |-> c, old |-> FALSE]

Init ==
    /\ issued \in 0 .. MaxTokens
    /\ expired \in SUBSET (1 .. issued)
    /\ file \in {Broken} \cup
         {at \in [Provider -> (0 .. issued) \cup {ApiKey}] :
            \A q, r \in Provider : q # r /\ at[q] \in Token => at[q] # at[r]}
    /\ lock = Free
    /\ running = {}
    /\ data = [p \in Process |-> Nothing]
    /\ loadError = [p \in Process |-> FALSE]
    /\ call = [c \in Caller |-> Idle]
    /\ spent = {}
    /\ lost = {}
-----------------------------------------------------------------------------
(* withLock: the lock is free, or so old that it is removed.  It is gone   *)
(* again when the operation is.                                            *)
CanLock(l) == l = Free \/ l.old
Passed(l) == IF CanLock(l) THEN Free ELSE l

(* data of the process becomes another object than the calls have.         *)
Unaliased(p, calls) ==
    [c \in Caller |-> IF HostOf[c] = p THEN [calls[c] EXCEPT !.aliased = FALSE]
                      ELSE calls[c]]

(* reload(), with the lock as it is by then: what cannot be locked or read *)
(* leaves data as it was, here `memory'.                                   *)
Load(p, l, memory, calls) ==
    /\ lock' = Passed(l)
    /\ IF CanLock(l) /\ file # Broken
       THEN /\ data' = [data EXCEPT ![p] = file]
            /\ loadError' = [loadError EXCEPT ![p] = FALSE]
            /\ call' = Unaliased(p, calls)
       ELSE /\ data' = [data EXCEPT ![p] = memory]
            /\ loadError' = [loadError EXCEPT ![p] = TRUE]
            /\ call' = calls

Start(p) ==
    /\ p \notin running
    /\ running' = running \cup {p}
    /\ Load(p, lock, data[p], call)
    /\ UNCHANGED <<file, issued, expired, spent, lost>>

Reload(p) ==
    /\ p \in running
    /\ Load(p, lock, data[p], call)
    /\ UNCHANGED <<file, running, issued, expired, spent, lost>>

(* set and remove: memory changes at once, and with it what a refresh has  *)
(* read as long as both are one object; then the file, unless loading has  *)
(* failed, or the lock is not to be had, or the file is not JSON.          *)
Change(p, q, v) ==
    /\ data' = [data EXCEPT ![p][q] = v]
    /\ call' = [c \in Caller |->
         IF HostOf[c] = p /\ call[c].step \in {"refreshing", "exchanged"}
         THEN [call[c] EXCEPT !.read[q] = IF call[c].aliased THEN v ELSE @,
                              !.told = @ \cup {q}]
         ELSE call[c]]
    /\ lock' = IF loadError[p] THEN lock ELSE Passed(lock)
    /\ file' = IF ~loadError[p] /\ CanLock(lock) /\ file # Broken
               THEN [file EXCEPT ![q] = v] ELSE file
    /\ UNCHANGED <<running, loadError, spent, lost>>

LoginOAuth(p, q) ==
    /\ p \in running
    /\ issued < MaxTokens
    /\ issued' = issued + 1
    /\ Change(p, q, issued + 1)
    /\ UNCHANGED expired

SetApiKey(p, q) == p \in running /\ Change(p, q, ApiKey) /\ UNCHANGED <<issued, expired>>

Logout(p, q) == p \in running /\ Change(p, q, None) /\ UNCHANGED <<issued, expired>>

Expire(t) ==
    /\ t \in (1 .. issued) \ expired
    /\ expired' = expired \cup {t}
    /\ UNCHANGED <<file, lock, running, data, loadError, call, issued, spent, lost>>
-----------------------------------------------------------------------------
(* getApiKey of a provider whose token has expired; any other returns at   *)
(* once.                                                                   *)
GetApiKey(c, q) ==
    /\ HostOf[c] \in running
    /\ call[c].step = "idle"
    /\ data[HostOf[c]][q] \in expired
    /\ call' = [call EXCEPT ![c] = [Idle EXCEPT !.step = "waiting", !.provider = q]]
    /\ UNCHANGED <<file, lock, running, data, loadError, issued, expired, spent, lost>>

(* The lock is got and the file read: data is what it holds.  Unless its   *)
(* token is still one that has expired, the lock is released and the call  *)
(* returns.                                                                *)
CanAcquire(c) == /\ call[c].step = "waiting"
                 /\ lock = Free \/ lock = [Dead EXCEPT !.old = TRUE]
                 /\ file # Broken

(* A plausible bug: what is in memory is trusted under the lock.           *)
AcquireUnread(c) ==
    LET p == HostOf[c]
        q == call[c].provider
    IN /\ CanAcquire(c)
       /\ loadError' = [loadError EXCEPT ![p] = FALSE]
       /\ lock' = IF data[p][q] \in expired THEN HeldBy(c) ELSE Free
       /\ call' = [call EXCEPT ![c] =
            IF data[p][q] \in expired
            THEN [@ EXCEPT !.step = "refreshing", !.read = data[p],
                           !.aliased = TRUE, !.sent = data[p][q]]
            ELSE Idle]
       /\ UNCHANGED <<file, running, data, issued, expired, spent, lost>>

Acquire(c) ==
    LET p == HostOf[c]
        q == call[c].provider
    IN /\ CanAcquire(c)
       /\ data' = [data EXCEPT ![p] = file]
       /\ loadError' = [loadError EXCEPT ![p] = FALSE]
       /\ lock' = IF file[q] \in expired THEN HeldBy(c) ELSE Free
       /\ call' = [Unaliased(p, call) EXCEPT ![c] =
            IF file[q] \in expired
            THEN [call[c] EXCEPT !.step = "refreshing", !.read = file,
                                 !.aliased = TRUE, !.sent = file[q]]
            ELSE Idle]
       /\ UNCHANGED <<file, running, issued, expired, spent, lost>>

(* The ten retries are over, or the file is not JSON: getApiKey catches    *)
(* the error, reloads, and returns.                                        *)
GiveUp(c) ==
    /\ call[c].step = "waiting"
    /\ lock # Free \/ file = Broken
    /\ Load(HostOf[c], lock, data[HostOf[c]], [call EXCEPT ![c] = Idle])
    /\ UNCHANGED <<file, running, issued, expired, spent, lost>>

(* The provider exchanges the token for a newer one.                       *)
Exchange(c) ==
    /\ call[c].step = "refreshing"
    /\ issued < MaxTokens
    /\ issued' = issued + 1
    /\ spent' = spent \cup {call[c].sent}
    /\ call' = [call EXCEPT ![c].step = "exchanged", ![c].new = issued + 1]
    /\ UNCHANGED <<file, lock, running, data, loadError, expired, lost>>

(* What release() leaves: a lock that was taken from the call meanwhile is *)
(* left alone if the timer noticed; else it may be removed all the same.   *)
Released(c) == IF lock.by = c THEN {Free}
               ELSE {lock} \cup (IF call[c].compromised THEN {} ELSE {Free})

(* The answer has come: the new token is merged into what was read, and    *)
(* written, and the lock released.                                         *)
Write(c) ==
    LET p == HostOf[c]
        merged == [call[c].read EXCEPT ![call[c].provider] = call[c].new]
    IN /\ call[c].step = "exchanged"
       /\ ~call[c].compromised
       /\ file' = merged
       /\ data' = [data EXCEPT ![p] = merged]
       /\ loadError' = [loadError EXCEPT ![p] = FALSE]
       /\ call' = [Unaliased(p, call) EXCEPT ![c] = Idle]
       /\ lock' \in Released(c)
       /\ UNCHANGED <<running, issued, expired, spent, lost>>

(* The request fails, its answer is lost, or the lock was taken away:      *)
(* nothing is written, the lock is released, and getApiKey reloads.        *)
RefreshFails(c) ==
    LET p == HostOf[c]
        answered == call[c].step = "exchanged" /\ call[c].compromised
        merged == [call[c].read EXCEPT ![call[c].provider] = call[c].new]
    IN /\ call[c].step \in {"refreshing", "exchanged"}
       /\ \E l \in Released(c) :
             Load(p, l, IF answered THEN merged ELSE data[p],
                  [IF answered THEN Unaliased(p, call) ELSE call EXCEPT ![c] = Idle])
       /\ lost' = IF call[c].step = "exchanged" THEN lost \cup {call[c].sent} ELSE lost
       /\ UNCHANGED <<file, running, issued, expired, spent>>
-----------------------------------------------------------------------------
(* Ten seconds pass without a renewal.                                     *)
Age ==
    /\ lock # Free
    /\ lock.by \in Caller => SlowNet
    /\ lock' = [lock EXCEPT !.old = TRUE]
    /\ UNCHANGED <<file, running, data, loadError, call, issued, expired, spent, lost>>

(* The timer of proper-lockfile, after fifteen: renews the lock, or notices*)
(* that it is another's.                                                   *)
Renew(c) ==
    /\ call[c].step \in {"refreshing", "exchanged"}
    /\ IF lock.by = c
       THEN lock' = HeldBy(c) /\ UNCHANGED call
       ELSE call' = [call EXCEPT ![c].compromised = TRUE] /\ UNCHANGED lock
    /\ UNCHANGED <<file, running, data, loadError, issued, expired, spent, lost>>

(* A process dies, or is killed, perhaps in the middle of a write.         *)
Kill(p) ==
    LET own == {c \in Caller : HostOf[c] = p}
        writing == {c \in own : call[c].step = "exchanged"}
    IN /\ p \in running
       /\ running' = running \ {p}
       /\ file' \in {file} \cup (IF writing = {} THEN {} ELSE {Nothing, Broken})
       /\ lock' = IF lock.by \in own THEN Dead ELSE lock
       /\ data' = [data EXCEPT ![p] = Nothing]
       /\ loadError' = [loadError EXCEPT ![p] = FALSE]
       /\ call' = [c \in Caller |-> IF c \in own THEN Idle ELSE call[c]]
       /\ lost' = lost \cup {call[c].sent : c \in writing}
       /\ UNCHANGED <<issued, expired, spent>>
-----------------------------------------------------------------------------
Next ==
    \/ \E p \in Process :
          \/ Start(p) \/ Reload(p) \/ Kill(p)
          \/ \E q \in Provider : LoginOAuth(p, q) \/ SetApiKey(p, q) \/ Logout(p, q)
    \/ \E c \in Caller :
          \/ \E q \in Provider : GetApiKey(c, q)
          \/ Acquire(c) \/ GiveUp(c) \/ Exchange(c) \/ Write(c) \/ RefreshFails(c)
          \/ Renew(c)
    \/ \E t \in Token : Expire(t)
    \/ Age

Spec == Init /\ [][Next]_vars
-----------------------------------------------------------------------------
(* The lock is held by the call that waits for the provider, or by a dead  *)
(* process; nothing is left of a process that does not run.                *)
TypeOK ==
    /\ file = Broken \/ file \in Contents
    /\ \A p \in Process : data[p] \in Contents /\ loadError[p] \in BOOLEAN
    /\ \A p \in Process \ running : data[p] = Nothing
    /\ \A c \in Caller :
        /\ call[c].step \in {"idle", "waiting", "refreshing", "exchanged"}
        /\ call[c].step # "idle" => HostOf[c] \in running
        /\ lock.by = c => call[c].step \in {"refreshing", "exchanged"}
    /\ expired \cup spent \subseteq 1 .. issued

(* A refresh token is sent to the provider once, unless what came for it   *)
(* was lost: providers revoke a login whose refresh token is used twice.   *)
(* Two processes that find a token expired must not both exchange it, nor  *)
(* may one that waited exchange what it still has in memory.               *)
ExchangesUnspent ==
    \A c \in Caller :
        call[c].step = "refreshing" /\ call'[c].step = "exchanged"
        => call[c].sent \notin spent \ lost
UsedOnce == [][ExchangesUnspent]_vars

(* A refresh writes the provider it was for, and what its own process was  *)
(* told while it waited for the network; what other processes have put     *)
(* into the file stays.                                                    *)
TouchesOwn ==
    \A c \in Caller :
        call[c].step = "exchanged" /\ call'[c].step = "idle" /\ HostOf[c] \in running'
        => /\ file = Broken => file' = Broken
           /\ \A q \in Provider :
                file # Broken /\ file'[q] # file[q]
                => q \in {call[c].provider} \cup call[c].told
OthersUntouched == [][TouchesOwn]_vars
=============================================================================
