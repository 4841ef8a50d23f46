--------------------------- MODULE SchoolSessions ----------------------------
(***************************************************************************)
(* The conversations of the school bot's page (apps/school-faq-bot/src/    *)
(* main.ts) and their store in the browser (sessions-store.ts): a          *)
(* conversation gets an identity and a title with its first answer and is  *)
(* saved with every one; it can be loaded, renamed and deleted while an    *)
(* answer is on its way.  Transactions of the store are done in the order  *)
(* they are asked for, and answered later: the page goes on in between,    *)
(* and what it does next (the steps of a load or of updateTitle) is based  *)
(* on what was read.                                                       *)
(***************************************************************************)
EXTENDS Naturals, Sequences, SequencesExt

CONSTANTS MaxSessions, \* bound on conversations, numbered as they begin
          MaxSaid,     \* bound on the messages of one
          MaxTitles,   \* bound on titles given
          MaxLoads     \* bound on the loads under way

VARIABLES
  data,      \* "sessions": conversations and their titles
  meta,      \* "sessions-metadata": their titles
  current,   \* currentSessionId; None: undefined
  title,     \* currentTitle
  agent,     \* the conversation of the agent, and whether it is answering
  loads,     \* calls of loadSession under way: what each has read so far
  renaming,  \* what is being renamed, and what of it was read; or Idle
  begun,     \* conversations begun
  titles,    \* titles given
  astray     \* history: sessions of which the page uses what is out of date

vars == <<data, meta, current, title, agent, loads, renaming, begun, titles, astray>>

Session == 1..MaxSessions
None == 0
NoTitle == [of |-> None, nr |-> 0]
Empty(s) == [of |-> s, said |-> << >>, on |-> FALSE]
Gone == [of |-> None, said |-> << >>, title |-> NoTitle]
Idle == [id |-> None, read |-> Gone, title |-> NoTitle, step |-> "none"]

Title == [of : Session, nr : 0..MaxTitles] \cup {NoTitle}

TypeOK ==
    /\ \A s \in Session : /\ data[s].said \in Seq({"question", "answer", "card"})
                          /\ data[s].title \in Title /\ meta[s] \in Title
    /\ current \in Session \cup {None} /\ title \in Title
    /\ agent.of \in 1..begun /\ begun <= MaxSessions /\ titles <= MaxTitles
    /\ Len(loads) <= MaxLoads
    /\ \A i \in DOMAIN loads : /\ loads[i].id \in 1..begun
                               /\ loads[i].step \in {"data", "metadata"}
    /\ renaming.step \in {"none", "metadata", "title", "data", "written"}
    /\ astray \subseteq 1..begun

Init ==
    /\ data = [s \in Session |-> Gone] /\ meta = [s \in Session |-> NoTitle]
    /\ current = None /\ title = NoTitle /\ agent = Empty(1)
    /\ loads = << >> /\ renaming = Idle /\ begun = 1 /\ titles = 0 /\ astray = {}
-----------------------------------------------------------------------------
(* What was read of session s is still to be used.                         *)
InHand(s) == \/ \E i \in DOMAIN loads : loads[i].id = s
             \/ renaming.id = s /\ renaming.step = "data"

(* saveSession, with a title given or left alone.                          *)
Save(id, conversation, name) ==
    /\ data' = [data EXCEPT ![id] = [of |-> conversation.of, said |-> conversation.said,
                                     title |-> name]]
    /\ meta' = [meta EXCEPT ![id] = name]

(* submitRecommendedQuestion and the chat's own input.                     *)
Ask ==
    /\ ~agent.on /\ Len(agent.said) + 3 <= MaxSaid
    /\ agent' = [agent EXCEPT !.said = Append(@, "question"), !.on = TRUE]
    /\ UNCHANGED <<data, meta, current, title, loads, renaming, begun, titles, astray>>

(* The listener at message_end and at agent_end: a card follows the        *)
(* answer, the conversation gets its title and identity and is saved, be   *)
(* it under an identity that another one is being loaded for.              *)
Answered ==
    /\ agent.on
    /\ agent' = [agent EXCEPT !.said = @ \o <<"answer", "card">>, !.on = FALSE]
    /\ title' = (IF title = NoTitle THEN [of |-> agent.of, nr |-> 0] ELSE title)
    /\ current' = (IF current = None THEN agent.of ELSE current)
    /\ Save(current', agent', title')
    /\ astray' = IF InHand(current') THEN astray \cup {current'} ELSE astray
    /\ UNCHANGED <<loads, renaming, begun, titles>>
-----------------------------------------------------------------------------
(* loadSession asks for the session; one that is not there is not loaded.  *)
BeginLoad(id) ==
    /\ data[id] # Gone /\ Len(loads) < MaxLoads
    /\ loads' = Append(loads, [id |-> id, read |-> data[id], title |-> NoTitle,
                               step |-> "data"])
    /\ UNCHANGED <<data, meta, current, title, agent, renaming, begun, titles, astray>>

(* It is here: from now on current is another one, while the agent stays,  *)
(* and its metadata are asked for.                                         *)
SetCurrent ==
    \E i \in DOMAIN loads :
        /\ loads[i].step = "data"
        /\ \A j \in 1..(i - 1) : loads[j].step = "metadata"
        /\ current' = loads[i].id
        /\ loads' = [loads EXCEPT ![i].step = "metadata", ![i].title = meta[current']]
        /\ UNCHANGED <<data, meta, title, agent, renaming, begun, titles, astray>>

(* A plausible bug: createAgent keeps the old agent when the new one has   *)
(* as many messages.                                                       *)
LoadKeepingAgent ==
    /\ loads # << >> /\ Head(loads).step = "metadata" /\ loads' = Tail(loads)
    /\ title' = Head(loads).title
    /\ agent' = IF Len(agent.said) = Len(Head(loads).read.said) THEN agent
                ELSE [of |-> Head(loads).read.of, said |-> Head(loads).read.said, on |-> FALSE]
    /\ UNCHANGED <<data, meta, current, renaming, begun, titles, astray>>

(* They are here as well.  createAgent: the old agent is no longer         *)
(* listened to.                                                            *)
Load ==
    /\ loads # << >> /\ Head(loads).step = "metadata" /\ loads' = Tail(loads)
    /\ title' = Head(loads).title
    /\ agent' = [of |-> Head(loads).read.of, said |-> Head(loads).read.said, on |-> FALSE]
    /\ UNCHANGED <<data, meta, current, renaming, begun, titles, astray>>

(* newSession: the page is loaded without a session, whatever it awaits.   *)
New ==
    /\ begun < MaxSessions /\ begun' = begun + 1
    /\ current' = None /\ title' = NoTitle /\ agent' = Empty(begun')
    /\ loads' = << >> /\ renaming' = Idle
    /\ UNCHANGED <<data, meta, titles, astray>>

(* The list of sessions: delete.  The page is left for a new session when  *)
(* the list is closed, if this was the one in use.                         *)
Delete(id) ==
    /\ data[id] # Gone
    /\ data' = [data EXCEPT ![id] = Gone] /\ meta' = [meta EXCEPT ![id] = NoTitle]
    /\ astray' = IF renaming.id = id THEN astray \cup {id} ELSE astray
    /\ UNCHANGED <<current, title, agent, loads, renaming, begun, titles>>
-----------------------------------------------------------------------------
(* The title field, with updateTitle: the metadata are read and written,   *)
(* if there, then the session, then the page has the title.                *)
BeginRename ==
    /\ renaming = Idle /\ titles < MaxTitles /\ title # NoTitle /\ current # None
    /\ titles' = titles + 1
    /\ renaming' = [Idle EXCEPT !.id = current, !.title = [of |-> current, nr |-> titles'],
                                !.step = IF meta[current] = NoTitle THEN "title"
                                         ELSE "metadata"]
    /\ UNCHANGED <<data, meta, current, title, agent, loads, begun, astray>>

WriteMetadata ==
    /\ renaming.step = "metadata" /\ renaming' = [renaming EXCEPT !.step = "title"]
    /\ meta' = [meta EXCEPT ![renaming.id] = renaming.title]
    /\ UNCHANGED <<data, current, title, agent, loads, begun, titles, astray>>

ReadToRename ==
    /\ renaming.step = "title"
    /\ renaming' = [renaming EXCEPT !.step = "data", !.read = data[renaming.id]]
    /\ UNCHANGED <<data, meta, current, title, agent, loads, begun, titles, astray>>

(* A plausible bug: the session is written from its metadata, which has no *)
(* messages.                                                               *)
RenameUnread ==
    /\ renaming.step = "data" /\ renaming' = [renaming EXCEPT !.step = "written"]
    /\ data' = IF renaming.read = Gone THEN data
               ELSE [data EXCEPT ![renaming.id] = [renaming.read EXCEPT !.said = << >>]]
    /\ UNCHANGED <<meta, current, title, agent, loads, begun, titles, astray>>

WriteData ==
    /\ renaming.step = "data" /\ renaming' = [renaming EXCEPT !.step = "written"]
    /\ data' = IF renaming.read = Gone THEN data
               ELSE [data EXCEPT ![renaming.id] = [renaming.read EXCEPT !.title = renaming.title]]
    /\ UNCHANGED <<meta, current, title, agent, loads, begun, titles, astray>>

(* currentTitle is set, whatever session is current by now.                *)
EndRename ==
    /\ renaming.step = "written" /\ renaming' = Idle
    /\ title' = renaming.title
    /\ astray' = IF current = renaming.id \/ (loads # << >> /\ Head(loads).step = "metadata")
                 THEN astray ELSE astray \cup {current}
    /\ UNCHANGED <<data, meta, current, agent, loads, begun, titles>>

Next ==
    \/ Ask \/ Answered
    \/ (\E id \in Session : BeginLoad(id)) \/ SetCurrent \/ Load \/ New
    \/ \E id \in Session : Delete(id)
    \/ BeginRename \/ WriteMetadata \/ ReadToRename \/ WriteData \/ EndRename

Spec == Init /\ [][Next]_vars
-----------------------------------------------------------------------------
(* What is stored under a session is its own conversation, and both titles *)
(* of it were given to it.  It is not so of a session that was astray:     *)
(* answered while it was being loaded or written back for its new title,   *)
(* deleted while it was renamed, or in use when a title given to another   *)
(* came to be set.                                                         *)
KeepsItsOwn ==
    \A s \in Session \ astray : data[s] # Gone =>
        data[s].of = s /\ data[s].title.of = s /\ meta[s].of = s

(* Nothing stored of a conversation is lost, but by deleting it, and but   *)
(* for the same sessions.                                                  *)
OnlyGrows ==
    \A s \in Session \ astray' :
        data'[s] # Gone => IsPrefix(data[s].said, data'[s].said)
NothingUnsaid == [][OnlyGrows]_vars

(* Why it is so.  While another one is loaded, current is the last of      *)
(* those whose metadata are awaited; otherwise the identity and the title  *)
(* the page has are those of the agent's conversation, and the agent has   *)
(* said all that is stored of it.  What was read and is still to be used   *)
(* is what is stored.                                                      *)
Titles == [of : 0..MaxSessions, nr : Nat]
Said == Seq({"question", "answer", "card"})
Conversation == [of : Session, said : Said, on : BOOLEAN]
Stored == [of : 0..MaxSessions, said : Said, title : Titles]
Loading == [id : Session, read : Stored, title : Titles, step : {"data", "metadata"}]
Renaming == [id : 0..MaxSessions, read : Stored, title : Titles,
             step : {"none", "metadata", "title", "data", "written"}]

FieldsInv ==
    /\ data \in [Session -> Stored] /\ meta \in [Session -> Titles]
    /\ current \in 0..MaxSessions /\ title \in Titles /\ titles \in Nat
    /\ agent \in Conversation /\ begun \in Session
    /\ loads \in Seq(Loading) /\ renaming \in Renaming

(* What session s has stored, and what of it was read.                     *)
StoredInv(s) ==
    /\ s > begun => data[s] = Gone
    /\ data[s] # Gone => data[s].of \in Session
    /\ s \notin astray =>
           /\ data[s] # Gone => data[s].of = s /\ data[s].title.of = s /\ meta[s].of = s
           /\ meta[s] # NoTitle => meta[s].of = s
           /\ renaming.step = "data" /\ renaming.id = s => renaming.read = data[s]

LoadInv(load) ==
    /\ load.id <= begun /\ load.read # Gone /\ load.read.of \in Session
    /\ load.id \notin astray =>
           /\ load.read.of = load.id
           /\ data[load.id] = Gone \/ data[load.id].said = load.read.said
           /\ load.title # NoTitle => load.title.of = load.id

AwaitsMetadata == loads # << >> /\ loads[1].step = "metadata"

(* Of those under way the first ones await their metadata, and current is  *)
(* the last of these.                                                      *)
OrderInv ==
    /\ \A i \in DOMAIN loads : \A j \in 1..i :
           loads[i].step = "metadata" => loads[j].step = "metadata"
    /\ AwaitsMetadata => \E i \in DOMAIN loads :
           /\ loads[i].step = "metadata" /\ current = loads[i].id
           /\ \A j \in DOMAIN loads : j > i => loads[j].step = "data"

PageInv ==
    /\ current <= begun
    /\ renaming.step = "none" => renaming = Idle
    /\ renaming.step # "none" =>
           /\ renaming.id \in Session /\ renaming.id <= begun
           /\ renaming.title.of = renaming.id /\ current # None
    /\ renaming.step = "data" /\ renaming.read # Gone => renaming.read.of \in Session
    /\ current = None =>
           /\ ~AwaitsMetadata /\ agent.of = begun /\ title = NoTitle
           /\ data[begun] = Gone
    /\ ~AwaitsMetadata /\ current # None /\ current \notin astray =>
           /\ agent.of = current /\ (title # NoTitle => title.of = current)
           /\ IsPrefix(data[current].said, agent.said)

OwnInv ==
    /\ \A s \in Session : StoredInv(s)
    /\ \A i \in DOMAIN loads : LoadInv(loads[i])
    /\ OrderInv /\ PageInv

SessionsInv == FieldsInv /\ OwnInv
=============================================================================
