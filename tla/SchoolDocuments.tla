--------------------------- MODULE SchoolDocuments ---------------------------
(***************************************************************************)
(* The documents of the school bot (api/admin/documents.ts, knowledge.ts,  *)
(* api/stream.ts): an administrator uploads and deletes documents, what    *)
(* the bot is told with each question is put together from their texts.    *)
(* A document is two blobs of an external store: what was uploaded and     *)
(* what was extracted from it.  A function may stop between two calls to   *)
(* the store.                                                              *)
(***************************************************************************)
EXTENDS Naturals, FiniteSets, FiniteSetsExt

CONSTANTS Document,  \* documents, each uploaded once: the path has a time stamp
          PageSize   \* blobs list() returns at most, without asking for more

VARIABLES
  blobs,     \* the store, by document and what of it
  uploading, \* documents whose first blob is stored and whose function runs
  confirmed, \* documents whose upload was answered with success
  deleted,   \* documents whose deletion was
  knowledge, \* what the last question was asked with
  fetching   \* the extracted texts yet to be fetched for a question; or Idle

vars == <<blobs, uploading, confirmed, deleted, knowledge, fetching>>

Blob == [of : Document, what : {"original", "extracted"}]
Idle == [todo |-> {}, got |-> {}, on |-> FALSE]
Original(d) == [of |-> d, what |-> "original"]
Extracted(d) == [of |-> d, what |-> "extracted"]

TypeOK ==
    /\ blobs \subseteq Blob
    /\ uploading \subseteq Document /\ confirmed \subseteq Document
    /\ deleted \subseteq Document /\ knowledge \subseteq Document
    /\ fetching.todo \subseteq Document /\ fetching.got \subseteq Document

Init ==
    /\ blobs = {} /\ uploading = {} /\ confirmed = {} /\ deleted = {}
    /\ knowledge = {} /\ fetching = Idle
-----------------------------------------------------------------------------
(* list: by path, so by document and the original first; one page.         *)
Listed ==
    LET Before(c, b) == \/ c.of < b.of
                        \/ c.of = b.of /\ c.what = "original" /\ b.what = "extracted"
    IN {b \in blobs : Cardinality({c \in blobs : Before(c, b)}) < PageSize}

(* A plausible bug: success is answered before the text is stored.         *)
StoreOriginalOnly(d) ==
    /\ Original(d) \notin blobs /\ d \notin deleted \cup uploading \cup confirmed
    /\ blobs' = blobs \cup {Original(d)} /\ confirmed' = confirmed \cup {d}
    /\ UNCHANGED <<uploading, deleted, knowledge, fetching>>

(* POST of documents: the original is stored, then the text.  A document   *)
(* that cannot be read has a text without paragraphs.                      *)
StoreOriginal(d) ==
    /\ Original(d) \notin blobs /\ d \notin deleted \cup uploading \cup confirmed
    /\ blobs' = blobs \cup {Original(d)} /\ uploading' = uploading \cup {d}
    /\ UNCHANGED <<confirmed, deleted, knowledge, fetching>>

StoreText(d) ==
    /\ d \in uploading /\ uploading' = uploading \ {d}
    /\ blobs' = blobs \cup {Extracted(d)} /\ confirmed' = confirmed \cup {d}
    /\ UNCHANGED <<deleted, knowledge, fetching>>

UploadFails(d) ==
    /\ d \in uploading /\ uploading' = uploading \ {d}
    /\ UNCHANGED <<blobs, confirmed, deleted, knowledge, fetching>>

(* DELETE of documents, for a document admin.html lists: it shows the      *)
(* originals and passes on their URL.                                      *)
Delete(d) ==
    /\ Original(d) \in Listed
    /\ blobs' = blobs \ {Original(d)} /\ deleted' = deleted \cup {d}
    /\ UNCHANGED <<uploading, confirmed, knowledge, fetching>>
-----------------------------------------------------------------------------
(* loadKnowledge: the texts are listed, then fetched one by one; when one  *)
(* cannot be fetched, the question is asked without any.                   *)
Ask ==
    /\ ~fetching.on
    /\ fetching' = [todo |-> {b.of : b \in {c \in Listed : c.what = "extracted"}},
                    got |-> {}, on |-> TRUE]
    /\ UNCHANGED <<blobs, uploading, confirmed, deleted, knowledge>>

Fetch ==
    /\ fetching.on /\ fetching.todo # {}
    /\ fetching' = [fetching EXCEPT !.todo = @ \ {Min(fetching.todo)},
                                    !.got = @ \cup {Min(fetching.todo)}]
    /\ UNCHANGED <<blobs, uploading, confirmed, deleted, knowledge>>

FetchFails ==
    /\ fetching.on /\ fetching.todo # {}
    /\ knowledge' = {} /\ fetching' = Idle
    /\ UNCHANGED <<blobs, uploading, confirmed, deleted>>

Prompt ==
    /\ fetching.on /\ fetching.todo = {}
    /\ knowledge' = fetching.got /\ fetching' = Idle
    /\ UNCHANGED <<blobs, uploading, confirmed, deleted>>

Next ==
    \/ \E d \in Document : StoreOriginal(d) \/ StoreText(d) \/ UploadFails(d) \/ Delete(d)
    \/ Ask \/ Fetch \/ FetchFails \/ Prompt

Spec == Init /\ [][Next]_vars
-----------------------------------------------------------------------------
(* Every document whose upload was confirmed is among those a question is  *)
(* to be asked with, as long as one page of the store holds all blobs.     *)
AsksWithConfirmed ==
    Ask /\ Cardinality(blobs) <= PageSize => confirmed \ deleted \subseteq fetching'.todo
ConfirmedIsKnown == [][AsksWithConfirmed]_vars

(* Why it is so: what was confirmed has its text in the store, where it    *)
(* stays even when the document is deleted.                                *)
StoreInv == /\ blobs \subseteq Blob /\ IsFiniteSet(blobs)
            /\ uploading \subseteq Document /\ confirmed \subseteq Document
            /\ \A d \in confirmed : Extracted(d) \in blobs
=============================================================================
