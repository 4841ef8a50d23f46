--------------------------- MODULE CodexTransport ---------------------------
(***************************************************************************)
(* How a request reaches the server in                                     *)
(* packages/ai/src/providers/openai-codex-responses.ts: over a WebSocket   *)
(* that the requests of a session share, or by fetch with retries.  The    *)
(* answer itself is in ProviderStreams; all requests are of one session.   *)
(***************************************************************************)
EXTENDS Integers, Sequences, FiniteSets

CONSTANTS Request,
          MaxSockets,  \* bound on the sockets ever opened
          MaxRetries   \* MAX_RETRIES

VARIABLES transport,  \* options.transport of each request
          step,       \* where each request is
          uses,       \* its socket
          branch,     \* which release() it got
          attempt,    \* of the fetch loop
          aborted,    \* signal.aborted
          told,       \* its events
          sent,       \* history: requests the server began to answer
          state,      \* of each socket
          cached,     \* websocketSessionCache.get(sessionId), by its socket
          busy,       \* the entries with busy set
          idleTimer   \* the entries with a timer

request == <<transport, step, uses, branch, attempt, aborted, told, sent>>
sockets == <<state, cached, busy, idleTimer>>
vars == <<request, sockets>>

Socket == 1..MaxSockets
None == 0

TypeOK ==
    /\ transport \in [Request -> {"sse", "auto", "websocket"}]
    /\ step \in [Request -> {"idle", "connecting", "sending", "streaming",
                             "fetching", "sleeping", "reading", "over"}]
    /\ uses \in [Request -> Socket \cup {None}]
    /\ branch \in [Request -> {"none", "reused", "extra", "fresh"}]
    /\ attempt \in [Request -> 0..MaxRetries] /\ aborted \subseteq Request
    /\ told \in [Request -> Seq({"start", "done", "error", "aborted"})]
    /\ sent \in [Request -> Nat]
    /\ state \in [Socket -> {"none", "connecting", "open", "closed"}]
    /\ cached \in Socket \cup {None} /\ busy \cup idleTimer \subseteq Socket

Init == /\ transport \in [Request -> {"sse", "auto", "websocket"}]
        /\ step = [r \in Request |-> "idle"] /\ uses = [r \in Request |-> None]
        /\ branch = [r \in Request |-> "none"] /\ attempt = [r \in Request |-> 0]
        /\ aborted = {} /\ told = [r \in Request |-> << >>]
        /\ sent = [r \in Request |-> 0]
        /\ state = [s \in Socket |-> "none"] /\ cached = None
        /\ busy = {} /\ idleTimer = {}
-----------------------------------------------------------------------------
Go(r, to) == step' = [step EXCEPT ![r] = to]
Tell(r, events) == told' = [told EXCEPT ![r] = @ \o events]
Set(s, to) == state' = [state EXCEPT ![s] = to]

Finish(r, event) == Go(r, "over") /\ Tell(r, <<event>>)

(* The catch of the stream function.                                       *)
Throw(r) == Finish(r, IF r \in aborted' THEN "aborted" ELSE "error")

(* A socket that could not be used: fetch is tried, unless the caller      *)
(* wants a socket.  The loop looks at the signal first.                    *)
FallBack(r) ==
    IF transport[r] = "websocket" \/ r \in aborted' THEN Throw(r)
    ELSE Go(r, "fetching") /\ UNCHANGED told

Connect(r, how) ==
    \E s \in Socket :
       /\ state[s] = "none" /\ \A t \in 1..(s - 1) : state[t] # "none"
       /\ Go(r, "connecting")
       /\ uses' = [uses EXCEPT ![r] = s] /\ branch' = [branch EXCEPT ![r] = how]
       /\ Set(s, "connecting")

AcquireBusy(r) ==  \* mutant: busy is not asked
    LET entry == cached
    IN /\ idleTimer' = idleTimer \ {entry}
       /\ IF entry # None /\ state[entry] = "open" THEN
              /\ Go(r, "sending") /\ busy' = busy \cup {entry}
              /\ uses' = [uses EXCEPT ![r] = entry]
              /\ branch' = [branch EXCEPT ![r] = "reused"]
              /\ UNCHANGED <<state, cached>>
          ELSE Connect(r, "fresh") /\ cached' = None /\ UNCHANGED busy

(* acquireWebSocket, up to its await: the session's socket if it is free,  *)
(* another one beside it if not, a new one in place of one that is closed. *)
Acquire(r) ==
    LET entry == cached
    IN /\ idleTimer' = idleTimer \ {entry}
       /\ IF entry # None /\ entry \notin busy /\ state[entry] = "open" THEN
              /\ Go(r, "sending") /\ busy' = busy \cup {entry}
              /\ uses' = [uses EXCEPT ![r] = entry]
              /\ branch' = [branch EXCEPT ![r] = "reused"]
              /\ UNCHANGED <<state, cached>>
          ELSE IF entry \in busy THEN
              Connect(r, "extra") /\ UNCHANGED <<busy, cached>>
          ELSE Connect(r, "fresh") /\ cached' = None /\ UNCHANGED busy

Begin(r) ==
    /\ step[r] = "idle" /\ UNCHANGED <<transport, attempt, aborted, told, sent>>
    /\ IF transport[r] = "sse"
       THEN Go(r, "fetching") /\ UNCHANGED <<uses, branch, sockets>>
       ELSE Acquire(r)

(* The entry is made when the socket is open, in place of one that another *)
(* request may have made meanwhile.                                        *)
Open(r) ==
    LET s == uses[r]
    IN /\ step[r] = "connecting" /\ Go(r, "sending") /\ Set(s, "open")
       /\ IF branch[r] = "fresh" THEN cached' = s /\ busy' = busy \cup {s}
          ELSE UNCHANGED <<cached, busy>>
       /\ UNCHANGED <<transport, uses, branch, attempt, aborted, told, sent, idleTimer>>

ConnectFails(r) ==
    /\ step[r] = "connecting" /\ Set(uses[r], "closed")
    /\ UNCHANGED aborted /\ FallBack(r)
    /\ UNCHANGED <<transport, uses, branch, attempt, sent, cached, busy, idleTimer>>

ReleaseBusy(r, keep) ==  \* mutant: the entry stays busy
    LET s == uses[r]
        stays == keep /\ state[s] = "open" /\ branch[r] # "extra"
    IN /\ Set(s, IF stays THEN "open" ELSE "closed")
       /\ idleTimer' = IF stays THEN idleTimer \cup {s} ELSE idleTimer \ {s}
       /\ UNCHANGED <<busy, cached>>

(* release: the socket stays, with a timer, if all went well.  A request   *)
(* that reused it takes out of the cache whatever is there.                *)
Release(r, keep) ==
    LET s == uses[r]
        stays == keep /\ state[s] = "open" /\ branch[r] # "extra"
        dropped == /\ ~stays /\ branch[r] # "extra"
                   /\ branch[r] = "fresh" => cached = s
    IN /\ Set(s, IF stays THEN "open" ELSE "closed")
       /\ busy' = IF stays THEN busy \ {s} ELSE busy
       /\ idleTimer' = IF stays THEN idleTimer \cup {s} ELSE idleTimer \ {s}
       /\ cached' = IF dropped THEN None ELSE cached

SendAgain(r) ==  \* mutant: onStart is called when the answer begins
    /\ step[r] = "sending"
    /\ \/ /\ Go(r, "streaming") /\ Tell(r, <<"start">>)
          /\ sent' = [sent EXCEPT ![r] = @ + 1] /\ UNCHANGED <<aborted, sockets>>
       \/ /\ UNCHANGED aborted /\ Release(r, FALSE) /\ FallBack(r)
          /\ sent' = [sent EXCEPT ![r] = @ + 1]
    /\ UNCHANGED <<transport, uses, branch, attempt>>

(* send() gives the request to the server, or throws.                      *)
Send(r) ==
    /\ step[r] = "sending" /\ UNCHANGED aborted
    /\ \/ /\ Go(r, "streaming") /\ Tell(r, <<"start">>)
          /\ sent' = [sent EXCEPT ![r] = @ + 1] /\ UNCHANGED sockets
       \/ Release(r, FALSE) /\ FallBack(r) /\ UNCHANGED sent
    /\ UNCHANGED <<transport, uses, branch, attempt>>

(* response.completed came, or the answer is an error.                     *)
Complete(r) ==
    /\ step[r] = "streaming" /\ Release(r, TRUE) /\ Finish(r, "done")
    /\ UNCHANGED <<transport, uses, branch, attempt, aborted, sent>>

Fail(r) ==
    /\ step[r] = "streaming" /\ Release(r, FALSE) /\ Finish(r, "error")
    /\ UNCHANGED <<transport, uses, branch, attempt, aborted, sent>>

(* A socket closes under nobody or under the request that reads from it.   *)
ServerCloses(s) ==
    /\ state[s] = "open" /\ \A r \in Request : uses[r] = s => step[r] # "sending"
    /\ IF \E r \in Request : uses[r] = s /\ step[r] = "streaming"
       THEN \E r \in Request : uses[r] = s /\ Fail(r)
       ELSE Set(s, "closed") /\ UNCHANGED <<request, cached, busy, idleTimer>>

(* The timer of an entry takes out of the cache whatever is there.         *)
Timer(s) ==
    /\ s \in idleTimer /\ idleTimer' = idleTimer \ {s}
    /\ IF s \in busy THEN UNCHANGED <<state, cached>>
       ELSE Set(s, "closed") /\ cached' = None
    /\ UNCHANGED <<request, busy>>
-----------------------------------------------------------------------------
(* The loop of fetches.  Every error is retried, but for usage limits:     *)
(* what is thrown for one that is not worth it is caught by the same try.  *)
Refused(r, usageLimit) ==
    /\ step[r] = "fetching" /\ UNCHANGED aborted
    /\ IF attempt[r] < MaxRetries /\ ~usageLimit
       THEN Go(r, "sleeping") /\ UNCHANGED told
       ELSE Throw(r)
    /\ UNCHANGED <<transport, uses, branch, attempt, sent, sockets>>

Wake(r) ==
    /\ step[r] = "sleeping" /\ Go(r, "fetching")
    /\ attempt' = [attempt EXCEPT ![r] = @ + 1]
    /\ UNCHANGED <<transport, uses, branch, aborted, told, sent, sockets>>

Answered(r) ==
    /\ step[r] = "fetching" /\ Go(r, "reading") /\ Tell(r, <<"start">>)
    /\ sent' = [sent EXCEPT ![r] = @ + 1]
    /\ UNCHANGED <<transport, uses, branch, attempt, aborted, sockets>>

Read(r, event) ==
    /\ step[r] = "reading" /\ Finish(r, event)
    /\ UNCHANGED <<transport, uses, branch, attempt, aborted, sent, sockets>>

(* The signal ends whatever is awaited.                                    *)
Abort(r) ==
    /\ step[r] \in {"connecting", "streaming", "fetching", "sleeping", "reading"}
    /\ aborted' = aborted \cup {r}
    /\ CASE step[r] = "connecting" ->
              /\ Set(uses[r], "closed") /\ FallBack(r)
              /\ UNCHANGED <<cached, busy, idleTimer>>
         [] step[r] = "streaming" -> Release(r, FALSE) /\ Throw(r)
         [] OTHER -> Throw(r) /\ UNCHANGED sockets
    /\ UNCHANGED <<transport, uses, branch, attempt, sent>>

Next == \/ \E r \in Request :
              \/ Begin(r) \/ Open(r) \/ ConnectFails(r) \/ Send(r)
              \/ Complete(r) \/ Fail(r) \/ Wake(r) \/ Answered(r) \/ Abort(r)
              \/ \E usageLimit \in BOOLEAN : Refused(r, usageLimit)
              \/ \E event \in {"done", "error"} : Read(r, event)
        \/ \E s \in Socket : ServerCloses(s) \/ Timer(s)

Spec == Init /\ [][Next]_vars
-----------------------------------------------------------------------------
Holds(r, s) == uses[r] = s /\ step[r] \in {"connecting", "sending", "streaming"}
UsedBy(s) == {r \in Request : Holds(r, s)}

(* Answers are not told apart by the socket, so two requests never read    *)
(* from one; and one that is read from is not closed under the reader.     *)
OneReader == \A s \in Socket : /\ Cardinality(UsedBy(s)) <= 1
                               /\ UsedBy(s) # {} => state[s] \in {"connecting", "open"}

(* No socket stays open for ever: one that nobody uses has a timer.  And   *)
(* none is kept that no request can get any more: who is busy is in use.   *)
NoneLeftOpen == \A s \in Socket :
    /\ state[s] = "open" => UsedBy(s) # {} \/ s \in idleTimer
    /\ s = cached /\ s \in busy => UsedBy(s) # {}

Over == {<<"error">>, <<"aborted">>} \cup {<<"start", e>> : e \in {"done", "error", "aborted"}}

(* However often it is tried, and whichever way: the server answers a      *)
(* request at most once, and its stream has one start and one end.         *)
AnsweredOnce == \A r \in Request :
    /\ sent[r] <= 1
    /\ told[r] \in {<< >>, <<"start">>} \cup Over

(* Why it is so: who works on a socket has it alone, and what the cache    *)
(* knows of it is right as long as it is open.                             *)
UseInv(r, s) ==
    Holds(r, s) =>
    /\ s \in Socket /\ branch[r] # "none"
    /\ IF step[r] = "connecting"
       THEN state[s] = "connecting" /\ branch[r] # "reused"
       ELSE state[s] = "open" /\ (branch[r] = "extra" \/ s \in busy)
    /\ branch[r] = "extra" => s \notin busy /\ s # cached
    /\ \A q \in Request : Holds(q, s) => q = r

SocketInv(s) ==
    /\ s = cached \/ s \in busy \cup idleTimer => state[s] \in {"open", "closed"}
    /\ s \in idleTimer => UsedBy(s) = {}
    /\ s \in busy /\ (state[s] = "open" \/ s = cached) => UsedBy(s) # {}
    /\ state[s] = "open" => UsedBy(s) # {} \/ s \in idleTimer

(* Who is answered once was not answered before.                           *)
AnswerInv(r) ==
    /\ step[r] = "sleeping" => attempt[r] < MaxRetries
    /\ step[r] \notin {"streaming", "reading", "over"} => sent[r] = 0 /\ told[r] = << >>
    /\ step[r] \in {"streaming", "reading"} => sent[r] = 1 /\ told[r] = <<"start">>
    /\ step[r] = "over" => sent[r] <= 1 /\ told[r] \in Over

SocketsInv == /\ \A r \in Request, s \in Socket \cup {None} : UseInv(r, s)
              /\ \A s \in Socket : SocketInv(s)

CodexInv == TypeOK /\ SocketsInv /\ \A r \in Request : AnswerInv(r)
=============================================================================
