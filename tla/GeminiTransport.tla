--------------------------- MODULE GeminiTransport --------------------------
(***************************************************************************)
(* How a request gets an answer in                                         *)
(* packages/ai/src/providers/google-gemini-cli.ts: several endpoints,      *)
(* retries with delays the server may ask for, and once more when an       *)
(* answer was empty.                                                       *)
(***************************************************************************)
EXTENDS Integers, Sequences, FiniteSets

CONSTANTS Endpoints,        \* the number of endpoints
          MaxRetries,       \* MAX_RETRIES
          MaxEmptyRetries,  \* MAX_EMPTY_STREAM_RETRIES
          MaxPieces         \* bound on the pieces of an answer

VARIABLES step,           \* where the request is
          attempt,        \* of the loop that fetches
          endpointIndex,
          emptyAttempt,   \* of the loop that reads
          content,        \* the pieces in output.content
          hasContent,     \* of the answer that is read
          aborted,        \* signal.aborted
          told,           \* the events
          posts,          \* history: the endpoints the request was sent to
          refusals        \* history: what they refused it with

vars == <<step, attempt, endpointIndex, emptyAttempt, content, hasContent,
          aborted, told, posts, refusals>>

(* 403 and 404; 429 and 5xx, the latter with a delay that may be too long; *)
(* anything else.  A lost connection is like the last.                     *)
Refusal == {"elsewhere", "later", "muchLater", "never"}

TypeOK ==
    /\ step \in {"fetching", "sleeping", "reading", "pausing", "refetching", "over"}
    /\ attempt \in 0..(MaxRetries + 1) /\ endpointIndex \in 1..Endpoints
    /\ emptyAttempt \in 0..MaxEmptyRetries
    /\ content \in 0..MaxPieces /\ {hasContent, aborted} \subseteq BOOLEAN
    /\ told \in Seq({"start", "content", "done", "error", "aborted"})
    /\ posts \in Seq(1..Endpoints) /\ refusals \in Seq(Refusal)

Init == /\ step = "fetching" /\ attempt = 0 /\ endpointIndex = 1
        /\ emptyAttempt = 0 /\ content = 0 /\ hasContent = FALSE
        /\ aborted = FALSE /\ told = << >> /\ posts = << >> /\ refusals = << >>
-----------------------------------------------------------------------------
Throw == /\ step' = "over"
         /\ told' = Append(told, IF aborted' THEN "aborted" ELSE "error")

Post == posts' = Append(posts, endpointIndex)

Answer ==
    /\ step = "fetching" /\ Post /\ step' = "reading" /\ hasContent' = FALSE
    /\ UNCHANGED <<attempt, endpointIndex, emptyAttempt, content, aborted, told, refusals>>

AdvanceLater(how) ==  \* mutant: the endpoint changes after a delay only
    IF how \in {"later", "muchLater"} /\ attempt < MaxRetries /\ endpointIndex < Endpoints
    THEN endpointIndex + 1 ELSE endpointIndex

(* The next endpoint is asked next, if there is one.                       *)
Advance(how) ==
    IF /\ endpointIndex < Endpoints
       /\ how = "elsewhere" \/ (how \in {"later", "muchLater"} /\ attempt < MaxRetries)
    THEN endpointIndex + 1 ELSE endpointIndex

(* At once, or after a while.  All that is thrown in the loop, because the *)
(* delay is too long or because it is no use, is caught by it and tried    *)
(* again.                                                                  *)
Refuse(how) ==
    /\ step = "fetching" /\ Post /\ refusals' = Append(refusals, how)
    /\ endpointIndex' = Advance(how) /\ UNCHANGED aborted
    /\ LET cascades == how = "elsewhere" /\ endpointIndex < Endpoints
       IN /\ attempt' = IF cascades THEN attempt + 1 ELSE attempt
          /\ IF attempt < MaxRetries
             THEN /\ step' = IF cascades THEN "fetching" ELSE "sleeping"
                  /\ UNCHANGED told
             ELSE Throw
    /\ UNCHANGED <<emptyAttempt, content, hasContent>>

Wake ==
    /\ step = "sleeping" /\ step' = "fetching" /\ attempt' = attempt + 1
    /\ UNCHANGED <<endpointIndex, emptyAttempt, content, hasContent, aborted,
                   told, posts, refusals>>

(* streamResponse: a piece of the answer, before the first one "start"...  *)
Piece ==
    /\ step = "reading" /\ content < MaxPieces
    /\ content' = content + 1 /\ hasContent' = TRUE
    /\ told' = told \o (IF content = 0 THEN <<"start", "content">> ELSE <<"content">>)
    /\ UNCHANGED <<step, attempt, endpointIndex, emptyAttempt, aborted, posts, refusals>>

CloseAnyEmpty ==  \* mutant: whether there was content is not asked
    /\ step = "reading" /\ UNCHANGED aborted
    /\ IF emptyAttempt < MaxEmptyRetries
       THEN /\ step' = "pausing" /\ emptyAttempt' = emptyAttempt + 1
            /\ content' = 0 /\ UNCHANGED told
       ELSE Throw /\ UNCHANGED <<emptyAttempt, content>>
    /\ UNCHANGED <<attempt, endpointIndex, hasContent, posts, refusals>>

(* ... and its end: an answer with nothing in it is asked for again, with  *)
(* what came so far put away.                                              *)
Close ==
    /\ step = "reading" /\ UNCHANGED aborted
    /\ IF hasContent THEN /\ step' = "over" /\ told' = Append(told, "done")
                          /\ UNCHANGED <<emptyAttempt, content>>
       ELSE IF emptyAttempt < MaxEmptyRetries
       THEN /\ step' = "pausing" /\ emptyAttempt' = emptyAttempt + 1
            /\ content' = 0 /\ UNCHANGED told
       ELSE Throw /\ UNCHANGED <<emptyAttempt, content>>
    /\ UNCHANGED <<attempt, endpointIndex, hasContent, posts, refusals>>

(* The connection breaks, or the answer ends with an error.                *)
Break ==
    /\ step = "reading" /\ UNCHANGED aborted /\ Throw
    /\ UNCHANGED <<attempt, endpointIndex, emptyAttempt, content, hasContent, posts, refusals>>

Resume ==
    /\ step = "pausing" /\ step' = "refetching"
    /\ UNCHANGED <<attempt, endpointIndex, emptyAttempt, content, hasContent,
                   aborted, told, posts, refusals>>

(* This time a refusal is final.                                           *)
Refetch ==
    /\ step = "refetching" /\ Post /\ UNCHANGED aborted
    /\ \/ step' = "reading" /\ hasContent' = FALSE /\ UNCHANGED told
       \/ Throw /\ UNCHANGED hasContent
    /\ UNCHANGED <<attempt, endpointIndex, emptyAttempt, content, refusals>>

Abort ==
    /\ step # "over" /\ aborted' = TRUE /\ Throw
    /\ UNCHANGED <<attempt, endpointIndex, emptyAttempt, content, hasContent, posts, refusals>>

Next == \/ Answer \/ (\E how \in Refusal : Refuse(how)) \/ Wake
        \/ Piece \/ Close \/ Break \/ Resume \/ Refetch \/ Abort

Spec == Init /\ [][Next]_vars
-----------------------------------------------------------------------------
Ends == {"done", "error", "aborted"}

(* Whatever is asked for again, the reader sees one start, content, and    *)
(* one end; all the content it sees is in the message; and a request that  *)
(* got content is not sent again.                                          *)
ToldOnce ==
    /\ Cardinality({i \in DOMAIN told : told[i] = "content"}) = content
    /\ \A i \in DOMAIN told : /\ told[i] = "start" => i = 1
                              /\ told[i] = "content" => told[1] = "start"
                              /\ told[i] \in Ends => i = Len(told)
    /\ content > 0 => step \in {"reading", "over"}

(* "On 403/404, immediately try the next endpoint": the request fails for  *)
(* that reason only when every endpoint refused it.                        *)
AllEndpointsTried ==
    /\ step = "over" /\ told = <<"error">> /\ refusals # << >> /\ emptyAttempt = 0
    /\ Len(posts) = Len(refusals)
    /\ \A i \in DOMAIN refusals : refusals[i] = "elsewhere"
    => {posts[i] : i \in DOMAIN posts} = 1..Endpoints

(* Why it is so: what was told is "start" and one event for each piece of  *)
(* the answer, which was empty if it was asked for again.                  *)
Before == IF content = 0 THEN 0 ELSE content + 1

ToldInv ==
    /\ Len(told) = Before + (IF step = "over" THEN 1 ELSE 0)
    /\ \A i \in 1..Before : told[i] = IF i = 1 THEN "start" ELSE "content"
    /\ step = "over" => told[Len(told)] \in Ends
    /\ content > 0 => step \in {"reading", "over"}
    /\ step = "reading" => (hasContent <=> content > 0)

(* The n-th time the request is sent, if it was never answered and always  *)
(* refused for the endpoint's sake.                                        *)
Nth(i) == IF i < Endpoints THEN i ELSE Endpoints

PostsInv ==
    /\ Len(refusals) <= Len(posts)
    /\ step \in {"pausing", "refetching"} => emptyAttempt > 0
    /\ step \in {"fetching", "sleeping"} => attempt <= MaxRetries
    /\ step = "sleeping" => attempt < MaxRetries
    /\ emptyAttempt = 0 /\ Len(posts) = Len(refusals) => step # "reading"
    /\ step \in {"fetching", "sleeping"} => emptyAttempt = 0 /\ Len(posts) = Len(refusals)
    /\ emptyAttempt = 0 /\ Len(posts) = Len(refusals)
       /\ (\A i \in 1..Len(refusals) : refusals[i] = "elsewhere")
       => /\ \A i \in 1..Len(posts) : posts[i] = Nth(i)
          /\ endpointIndex = Nth(Len(posts) + 1)
          /\ step = "fetching" => attempt = Len(posts)
          /\ step = "sleeping" => attempt = Len(posts) - 1
          /\ step = "over" /\ told = <<"error">> => Len(posts) > MaxRetries

GeminiInv == TypeOK /\ ToldInv /\ PostsInv
=============================================================================
