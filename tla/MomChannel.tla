----------------------------- MODULE MomChannel -----------------------------
(***************************************************************************)
(* One Slack channel of the bot (packages/mom/src): slack.ts logs every    *)
(* message and queues work, main.ts handles one piece of work at a time,   *)
(* agent.ts and context.ts bring what was logged into the conversation     *)
(* before the agent is prompted.  Messages come while the bot is busy, is  *)
(* down (they are fetched when it starts) or again (Slack replays what it  *)
(* thinks was missed).  A message is known in the log by its time stamp    *)
(* and in the conversation by its text only.                               *)
(* The session underneath writes nothing before the first answer.          *)
(***************************************************************************)
EXTENDS Naturals, Sequences, SequencesExt

CONSTANTS MaxMessages, \* bound on messages of users; they are numbered by time
          TextOf,      \* the author and text of each message
          MaxEvents,   \* bound on scheduled events for the channel, numbered after messages
          MaxQueue,    \* enqueueEvent refuses when so many wait (5)
          MaxCrashes   \* bound on crashes

VARIABLES
  sent,     \* messages users have sent
  log,      \* log.jsonl
  context,  \* messages of users and events in the conversation
  saved,    \* the same in context.jsonl
  answered, \* the session has an answer, from then on it writes
  queue,    \* ChannelQueue: the events that wait
  current,  \* what the handler is at, or Nothing
  phase,    \* "none", or where the run is
  up,       \* the bot is connected
  started,  \* messages sent when it was: older ones are only logged
  come,     \* events that came
  crashes

run == <<context, saved, answered, queue, current, phase>>
vars == <<sent, log, run, up, started, come, crashes>>

Message == 1..MaxMessages
Event == MaxMessages + 1..MaxMessages + MaxEvents
Nothing == 0

TypeOK ==
    /\ log \in Seq(1..sent) /\ ToSet(context) \subseteq 1..sent \cup Event
    /\ IsPrefix(saved, context) /\ queue \in Seq(Event) /\ Len(queue) <= MaxQueue
    /\ (phase = "none") <=> (current = Nothing)
    /\ queue # << >> => current # Nothing

Init ==
    /\ sent = 0 /\ log = << >> /\ context = << >> /\ saved = << >> /\ answered = FALSE
    /\ queue = << >> /\ current = Nothing /\ phase = "none"
    /\ up = TRUE /\ started = 0 /\ come = {} /\ crashes = 0
-----------------------------------------------------------------------------
(* The handler for app_mention and direct messages: the message is logged, *)
(* and turned down or handled at once.                                     *)
Mention ==
    /\ up /\ sent < MaxMessages
    /\ sent' = sent + 1 /\ log' = Append(log, sent')
    /\ IF current # Nothing THEN UNCHANGED <<current, phase>>
       ELSE current' = sent' /\ phase' = "typing"
    /\ UNCHANGED <<context, saved, answered, queue, up, started, come, crashes>>

(* The handler for other messages of a channel.                            *)
Chatter ==
    /\ up /\ sent < MaxMessages
    /\ sent' = sent + 1 /\ log' = Append(log, sent')
    /\ UNCHANGED <<run, up, started, come, crashes>>

(* A message from before the connection is delivered, perhaps again.       *)
Replay(m) ==
    /\ up /\ m <= started /\ Len(log) < 2 * MaxMessages
    /\ log' = Append(log, m)
    /\ UNCHANGED <<sent, run, up, started, come, crashes>>

(* enqueueEvent.                                                           *)
Enqueue(e) ==
    /\ up /\ e \notin come /\ come' = come \cup {e}
    /\ IF Len(queue) >= MaxQueue THEN UNCHANGED <<queue, current, phase>>
       ELSE IF current = Nothing THEN current' = e /\ phase' = "typing" /\ UNCHANGED queue
       ELSE queue' = Append(queue, e) /\ UNCHANGED <<current, phase>>
    /\ UNCHANGED <<sent, log, context, saved, answered, up, started, crashes>>
-----------------------------------------------------------------------------
Texts(s) == {TextOf[m] : m \in ToSet(s) \cap Message}

(* A plausible bug: the message at hand is synced like the others.         *)
UnsyncedAll ==
    {m \in ToSet(log) : TextOf[m] \notin Texts(context)
                        /\ \A k \in ToSet(log) : TextOf[k] = TextOf[m] => k >= m}

(* syncLogToSessionManager: what is logged, is not the message at hand and *)
(* has a text the conversation does not have yet; of equal texts the first.*)
Unsynced ==
    LET new == {m \in ToSet(log) \ {current} : TextOf[m] \notin Texts(context)}
    IN {m \in new : \A k \in new : TextOf[k] = TextOf[m] => k >= m}

Save == saved' = IF answered' THEN context' ELSE saved

Ascending(S) ==
    {s \in [1..Cardinality(S) -> S] : \A i, j \in DOMAIN s : i < j => s[i] < s[j]}

(* run, to the prompt: the log is synced, in the order of time stamps.     *)
Sync ==
    /\ phase = "typing" /\ phase' = "synced"
    /\ \E s \in Ascending(Unsynced) : context' = context \o s
    /\ UNCHANGED answered /\ Save
    /\ UNCHANGED <<sent, log, queue, current, up, started, come, crashes>>

Prompt ==
    /\ phase = "synced" /\ phase' = "prompting"
    /\ context' = Append(context, current)
    /\ UNCHANGED answered /\ Save
    /\ UNCHANGED <<sent, log, queue, current, up, started, come, crashes>>

(* A plausible bug: a handler that is done forgets the queue.              *)
HandleNextNothing == current' = Nothing /\ phase' = "none" /\ UNCHANGED queue

(* The handler is done; the queue goes on with what waits.                 *)
HandleNext ==
    IF queue = << >>
    THEN current' = Nothing /\ phase' = "none" /\ UNCHANGED queue
    ELSE current' = Head(queue) /\ queue' = Tail(queue) /\ phase' = "typing"

(* Any answer, also a failure or an aborted one, is an answer to the       *)
(* session.                                                                *)
Answer ==
    /\ phase = "prompting" /\ HandleNext
    /\ answered' = TRUE /\ saved' = context
    /\ UNCHANGED <<sent, log, context, up, started, come, crashes>>

(* The prompt is refused (no key): the handler catches it.                 *)
Refuse ==
    /\ phase = "synced" /\ HandleNext
    /\ UNCHANGED <<sent, log, context, saved, answered, up, started, come, crashes>>
-----------------------------------------------------------------------------
Crash ==
    /\ up /\ crashes < MaxCrashes /\ crashes' = crashes + 1
    /\ up' = FALSE /\ context' = saved /\ queue' = << >>
    /\ current' = Nothing /\ phase' = "none"
    /\ UNCHANGED <<sent, log, saved, answered, started, come>>

SendToNobody ==
    /\ ~up /\ sent < MaxMessages /\ sent' = sent + 1
    /\ UNCHANGED <<log, run, up, started, come, crashes>>

(* start, with backfillChannel: what is later than all that is logged is   *)
(* fetched, for a channel that has a log.                                  *)
Start ==
    /\ ~up /\ up' = TRUE /\ started' = sent
    /\ LET latest == IF log = << >> THEN sent ELSE CHOOSE m \in ToSet(log) : \A k \in ToSet(log) : k <= m
       IN log' = log \o [i \in 1..(sent - latest) |-> latest + i]
    /\ UNCHANGED <<sent, run, come, crashes>>

Next ==
    \/ Mention \/ Chatter \/ (\E m \in Message : Replay(m))
    \/ \E e \in Event : Enqueue(e)
    \/ Sync \/ Prompt \/ Answer \/ Refuse
    \/ Crash \/ SendToNobody \/ Start

Spec == Init /\ [][Next]_vars
-----------------------------------------------------------------------------
(* What is yet to be prompted is in one place, and not in the conversation.*)
ChannelInv ==
    /\ TypeOK /\ sent \in 0..MaxMessages /\ started \in 0..sent
    /\ come \subseteq Event /\ context \in Seq(Message \cup Event)
    /\ saved \in Seq(Message \cup Event)
    /\ phase \in {"none", "typing", "synced", "prompting"}
    /\ current \in 0..sent \cup come
    /\ ToSet(queue) \subseteq come \ {current} /\ ToSet(context) \cap Event \subseteq come
    /\ IsInjective(queue) /\ IsInjective(context)
    /\ ToSet(queue) \cap ToSet(context) = {}
    /\ phase \in {"typing", "synced"} => current \notin ToSet(context)

(* No message is in the conversation twice: not by being logged and        *)
(* prompted, replayed, fetched after a crash, or read from a session that  *)
(* lost what had no answer yet.                                            *)
NothingSaidTwice == IsInjective(context)
=============================================================================
