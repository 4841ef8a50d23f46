----------------------------- MODULE MCServices -----------------------------
(* Small instances of the parts around the agent that serve it, or others: *)
(* settings and credentials, logins, requests to providers, the Slack bot, *)
(* models on a GPU pod, the FAQ bot.  They have no state in common: a      *)
(* behaviour is about one of them (part), x1, x2... are its variables, and *)
(* n counts the steps that a bound is on.  MCParts adds more parts.  The   *)
(* variables of ToolExecution, one of them, have their own names.          *)
EXTENDS ToolExecution

CONSTANTS P1, P2,             \* processes
          C1, C2,             \* callers, one in each
          SettingsProcess, Scope, Key, Value, Unset, \* of the settings
          Document, PageSize, \* of the FAQ bot, and blobs in a page of its store
          MaxSessions, MaxSaid, MaxTitles,   \* bounds on its conversations
          MaxLogins,
          Name, Gpus, MaxCommands,           \* of the models on a pod
          EventKind, MaxWrites, MaxStarts,   \* of the events of the Slack bot
          MaxMessages, MaxEvents, MaxQueue, MaxCrashes, \* of a channel of it
          Request, MaxSockets, MaxResends,   \* of requests to Codex
          Endpoints, MaxFetches, MaxEmptyRetries, MaxPieces \* of one to Gemini

ASSUME ProcessAssumption == {"free", "stale"} \cap SettingsProcess = {}
ASSUME DocumentAssumption == Document \subseteq Nat /\ PageSize \in Nat
ASSUME SessionsAssumption == MaxSessions \in Nat \ {0}
ASSUME CallersAssumption == {"nobody", "a dead process"} \cap {C1, C2} = {}
ASSUME PodsAssumption == IsFiniteSet(Name) /\ Gpus \in Nat
ASSUME EventsAssumption == MaxWrites \in Nat \ {0} /\ {"partial", "absent"} \cap EventKind = {}
ASSUME ChannelAssumption == MaxMessages \in Nat /\ MaxEvents \in Nat /\ MaxQueue \in Nat
ASSUME SocketsAssumption == MaxSockets \in Nat /\ MaxResends \in Nat
ASSUME EndpointsAssumption ==
    /\ Endpoints \in Nat \ {0} /\ MaxFetches \in Nat /\ Endpoints <= MaxFetches + 1
    /\ MaxEmptyRetries \in Nat /\ MaxPieces \in Nat

VARIABLES part, x1, x2, x3, x4, x5, x6, x7, x8, x9, x10, x11, x12, n

xs == <<x1, x2, x3, x4, x5, x6, x7, x8, x9, x10, x11, x12>>
services == <<part, xs, n>>

Unused == 0

Settings == INSTANCE Settings WITH
    Process <- SettingsProcess,
    file <- x1, lock <- x2, running <- x3, settings <- x4, loadError <- x5,
    modified <- x6, writeQueue <- x7, begun <- x8, failed <- x9, unsaved <- x10,
    fresh <- x11

Auth == INSTANCE AuthStorage WITH
    Process <- {P1, P2}, Caller <- {C1, C2},
    HostOf <- [c \in {C1, C2} |-> IF c = C1 THEN P1 ELSE P2],
    Provider <- {"anthropic", "google"}, MaxTokens <- 3, SlowNet <- FALSE,
    file <- x1, lock <- x2, running <- x3, data <- x4, loadError <- x5, call <- x6,
    issued <- x7, expired <- x8, spent <- x9, lost <- x10

Login == INSTANCE OAuthLogin WITH
    Hasty <- FALSE,
    provider <- x1, login <- x2, port <- x3, taken <- x4, dialog <- x5,
    code <- x6, escaped <- x7, stored <- x8, logins <- x9

Documents == INSTANCE SchoolDocuments WITH
    blobs <- x1, uploading <- x2, confirmed <- x3, deleted <- x4,
    knowledge <- x5, fetching <- x6

Sessions == INSTANCE SchoolSessions WITH
    MaxLoads <- 2,
    data <- x1, meta <- x2, current <- x3, title <- x4, agent <- x5,
    loads <- x6, renaming <- x7, begun <- x8, titles <- x9,
    astray <- x10

Pods == INSTANCE PodModels WITH
    models <- x1, command <- x2, script <- x3, process <- x4, odd <- x5

MomEvents == INSTANCE MomEvents WITH
    Kind <- EventKind,
    SlowWriters <- FALSE,
    file <- x1, up <- x2, startedAt <- x3, noticing <- x4, known <- x5,
    reading <- x6, armed <- x7, executed <- x8, writes <- x9, starts <- x10

TextOf == [m \in 1..MaxMessages |-> <<"text", m>>]

MomChannel == INSTANCE MomChannel WITH
    sent <- x1, log <- x2, context <- x3, saved <- x4, answered <- x5,
    queue <- x6, current <- x7, phase <- x8, up <- x9, started <- x10,
    come <- x11, crashes <- x12

Codex == INSTANCE CodexTransport WITH
    MaxRetries <- MaxResends,
    transport <- x1, step <- x2, uses <- x3, branch <- x4, attempt <- x5,
    aborted <- x6, told <- x7, sent <- x8, state <- x9, cached <- x10,
    busy <- x11, idleTimer <- x12

Gemini == INSTANCE GeminiTransport WITH
    MaxRetries <- MaxFetches,
    step <- x1, attempt <- x2, endpointIndex <- x3, emptyAttempt <- x4,
    content <- x5, hasContent <- x6, aborted <- x7, told <- x8, posts <- x9,
    refusals <- x10

-----------------------------------------------------------------------------
(* The first k variables are in use.                                       *)
OnlyFirst(k) == /\ k < 3 => x1 = Unused /\ x2 = Unused /\ x3 = Unused
                /\ k < 4 => x4 = Unused
                /\ k < 5 => x5 = Unused
                /\ k < 6 => x6 = Unused
                /\ k < 7 => x7 = Unused
                /\ k < 8 => x8 = Unused
                /\ k < 9 => x9 = Unused
                /\ k < 10 => x10 = Unused
                /\ k < 11 => x11 = Unused
                /\ k < 12 => x12 = Unused

(* Settings: files that are not there, broken or empty; few setters, edits *)
(* and exits.  Credentials: at most two, of which one is a token.  Of the  *)
(* requests to Codex one falls back to fetch and the others do not.        *)
ServicesInit ==
    \/ /\ part = "settings" /\ Settings!Init /\ OnlyFirst(11)
       /\ \A s \in Scope :
              x1[s] \in {Settings!Missing, Settings!Broken, Settings!There(Settings!Empty)}
       /\ n = [sets |-> 0, edits |-> 0, exits |-> 0]
    \/ /\ part = "auth" /\ Auth!Init /\ OnlyFirst(10) /\ n = Unused
       /\ x7 = 1
       /\ x1 = Auth!Broken \/ x1["anthropic"] = 1
    \/ part = "mom events" /\ MomEvents!Init /\ OnlyFirst(10) /\ n = Unused
    \/ part = "mom channel" /\ MomChannel!Init /\ OnlyFirst(12) /\ n = Unused
    \/ part = "documents" /\ Documents!Init /\ OnlyFirst(6) /\ n = Unused
    \/ part = "sessions" /\ Sessions!Init /\ OnlyFirst(10) /\ n = 0
    \/ /\ part = "codex" /\ Codex!Init /\ OnlyFirst(12) /\ n = Unused
       /\ x1 = <<"websocket", "websocket", "auto">>
    \/ part = "gemini" /\ Gemini!Init /\ OnlyFirst(10) /\ n = Unused
    \/ part = "login" /\ Login!Init /\ OnlyFirst(9) /\ n = Unused
    \/ part = "pods" /\ Pods!Init /\ OnlyFirst(5) /\ n = Unused

SettingsNext ==
    LET set == \E p \in SettingsProcess : Len(x7'[p]) > Len(x7[p])
        exit == x3' # x3 /\ x3' \subseteq x3
        edit == x1' # x1 /\ ~exit /\ x8' = x8
    IN /\ Settings!Next
       /\ n' = [sets |-> n.sets + IF set THEN 1 ELSE 0,
                edits |-> n.edits + IF edit THEN 1 ELSE 0,
                exits |-> n.exits + IF exit THEN 1 ELSE 0]
       /\ n'.sets <= 2 /\ n'.edits <= 1 /\ n'.exits <= 1

(* One process stays up, and one provider has no OAuth.                    *)
AuthNext == /\ Auth!Next
            /\ P1 \in x3 => P1 \in x3'
            /\ x1'["google"] \notin Auth!Token
            /\ \A c \in {C1, C2} : x6'[c].step # "idle" => x6'[c].provider = "anthropic"

(* Of two requests that are alike, the first one comes first.              *)
CodexNext == Codex!Next /\ (x2'[2] # "idle" => x2'[1] # "idle")

(* At most two commands at a time, the first on "a"; what excuses every    *)
(* property but one is the end.                                            *)
PodsNext ==
    /\ x5 \cap {"ssh", "same name", "setup"} = {} /\ Pods!Next
    /\ Cardinality(Pods!Active') <= 2
    /\ Len(x2') = 1 => x2'[1].name = "a" /\ x2'[1].gpu # Pods!Gpu

ServicesNext ==
    /\ UNCHANGED part
    /\ \/ part = "settings" /\ SettingsNext /\ UNCHANGED x12
       \/ part = "auth" /\ AuthNext /\ UNCHANGED <<x11, x12, n>>
       \/ part = "mom events" /\ MomEvents!Next /\ UNCHANGED <<x11, x12, n>>
       \/ part = "mom channel" /\ MomChannel!Next /\ UNCHANGED n
       \/ /\ part = "documents" /\ Documents!Next
          /\ UNCHANGED <<x7, x8, x9, x10, x11, x12, n>>
       \/ part = "sessions" /\ Sessions!Next /\ n < 16 /\ n' = n + 1 /\ UNCHANGED <<x11, x12>>
       \/ part = "codex" /\ CodexNext /\ UNCHANGED n
       \/ part = "gemini" /\ Gemini!Next /\ UNCHANGED <<x11, x12, n>>
       \/ part = "login" /\ Login!Next /\ UNCHANGED <<x10, x11, x12, n>>
       \/ part = "pods" /\ PodsNext /\ UNCHANGED <<x6, x7, x8, x9, x10, x11, x12, n>>

ServicesSpec == ServicesInit /\ [][ServicesNext]_services
-----------------------------------------------------------------------------
(* SettingsManager: what a process has set is in the file when all its     *)
(* writes are over (flush), and others' changes are kept (persistScoped-   *)
(* Settings).                                                              *)
SettingsStep == part = "settings" => Settings!AllSaved' /\ Settings!KeepsOthers
SettingsKept == [][SettingsStep]_services

(* AuthStorage.refreshOAuthTokenWithLock: no refresh token is sent twice,  *)
(* and only the credential it was for is written.                          *)
TokensStep == part = "auth" => Auth!ExchangesUnspent /\ Auth!TouchesOwn
TokensKept == [][TokensStep]_services

(* The Slack bot runs a one-shot event once and arms nothing for a file    *)
(* that is gone (EventsWatcher); no message is in the conversation twice.  *)
HeardOnce ==
    /\ part = "mom events" => MomEvents!RunOnce /\ MomEvents!DeletedIsCancelled
    /\ part = "mom channel" => MomChannel!NothingSaidTwice

(* The FAQ bot asks with every confirmed document; its stored              *)
(* conversations are kept apart, and lose nothing.                         *)
SchoolStep ==
    /\ part = "documents" => Documents!AsksWithConfirmed
    /\ part = "sessions" => Sessions!KeepsItsOwn' /\ Sessions!OnlyGrows
SchoolKeeps == [][SchoolStep]_services

(* A request that is retried, over sockets that requests share or at one   *)
(* endpoint after the other, is answered once; no socket is read by two,   *)
(* or left open.                                                           *)
RequestsAnswered ==
    /\ part = "codex" => /\ Codex!OneReader
                         /\ Codex!NoneLeftOpen
                         /\ Codex!AnsweredOnce
    /\ part = "gemini" => Gemini!ToldOnce /\ Gemini!AllEndpointsTried

(* A login can be given up until there is a code, which is its own.        *)
LoginsHold == part = "login" => Login!EscapeEndsLogin /\ Login!OwnCode

(* Models on a GPU pod: what runs is known and has a port of its own, what *)
(* failed to start is not known, and models are spread over the GPUs.      *)
PodsHold ==
    part = "pods" => /\ Pods!PortsHold
                     /\ Pods!RunningIsKnown
                     /\ Pods!FailedIsForgotten
                     /\ Pods!GpusAreSpread
=============================================================================
