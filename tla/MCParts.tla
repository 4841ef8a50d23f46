------------------------------ MODULE MCParts ------------------------------
(* Small instances of all the parts around the agent that have no state in *)
(* common: those of MCServices, a batch of tools, and here what the user   *)
(* sees and types, and what providers and tools return.  A behaviour is    *)
(* about one of them (part); interactive mode has y1, y2... besides.       *)
EXTENDS MCServices

CONSTANTS BlankLine, Overlaid, \* lines of the screen
          Base, O1, O2, O3, Nobody  \* components

VARIABLES y1, y2, y3, y4, y5, y6, y7

ys == <<y1, y2, y3, y4, y5, y6, y7>>
all == <<part, xs, ys, n, vars>>

(* Keys of every form, answers of the terminal, pastes.                    *)
KeysSent ==
    {[type |-> "data", value |-> key] : key \in
        {<<"a">>, <<"esc">>, <<"esc", "a">>, <<"esc", "[", "a">>, <<"esc", "O", "P">>,
         <<"esc", "[", "M", "a", "u", "flags">>, <<"esc", "[", "mouse", "M">>,
         <<"esc", "]", "a", "bel">>, <<"esc", "P", "a", "esc", "st">>,
         <<"esc", "[", "flags", "u">>}}
    \cup {[type |-> "paste", value |-> text] : text \in {<< >>, <<"esc", "[", "a">>}}

(* Texts of every kind of character, in a file with or without a mark.     *)
TextsUpTo(k) == UNION {[1..i -> {"a", "quote", "curly", "space", "lf", "cr"}] : i \in 0..k}
FileTexts == TextsUpTo(3) \cup {<<"bom">> \o s : s \in TextsUpTo(2)}

Renderer == INSTANCE Renderer WITH
    Line <- {"line"}, Blank <- BlankLine, Heights <- {2, 3}, MaxLines <- 3,
    screen <- x1, cursor <- x2, previousLines <- x3, hardwareCursorRow <- x4,
    maxLinesRendered <- x5, previousViewportTop <- x6, previousHeight <- x7,
    clearOnShrink <- x8, stopped <- x9, shown <- x10

Overlays == INSTANCE Overlays WITH
    Base <- {Base}, Overlay <- {O1, O2, O3},
    overlayStack <- x1, focused <- x2, wide <- x3

Editor == INSTANCE Editor WITH
    Word <- {"a"}, MaxLen <- 3, MaxUndo <- 4, MaxKills <- 2, MaxPastes <- 2,
    text <- x1, cursor <- x2, undoStack <- x3, killRing <- x4, lastAction <- x5,
    history <- x6, historyIndex <- x7, pastes <- x8, pasteCounter <- x9,
    pasted <- x10, killedBefore <- x11

Proxy == INSTANCE ProxyStream WITH
    Kind <- {"text", "thinking", "toolCall"}, Withheld <- {}, MaxBlocks <- 2,
    MaxDeltas <- 2, CleanCuts <- FALSE, SlowClose <- FALSE,
    served <- x1, serving <- x2, conn <- x3, wire <- x4, half <- x5,
    partial <- x6, ended <- x7, answer <- x8, aborted <- x9

Providers == INSTANCE ProviderStreams WITH
    Api <- {"anthropic", "bedrock", "openai-completions", "openai-responses",
            "openai-codex-responses", "google", "mistral"},
    MaxItems <- 3, MaxPieces <- 2, CleanCuts <- FALSE,
    api <- x1, items <- x2, finish <- x3, content <- x4, current <- x5,
    reason <- x6, told <- x7, phase <- x8, aborted <- x9

Interactive == INSTANCE InteractiveMode WITH
    MaxTyped <- 4, MaxRetries <- 2, Hasty <- FALSE,
    editor <- x1, queue <- x2, onEscape <- x3, retryEscape <- x4, autoEscape <- x5,
    original <- x6, loading <- x7, main <- x8, flush <- x9, run <- x10,
    steering <- x11, followUp <- x12, unanswered <- y1, attempt <- y2,
    sleeping <- y3, timers <- y4, compacting <- y5, typed <- y6, arrived <- y7

Stdin == INSTANCE StdinBuffer WITH
    Key <- KeysSent, MaxKeys <- 3, SlowTerminal <- FALSE,
    typed <- x1, wire <- x2, buffer <- x3, timeout <- x4, pasteMode <- x5,
    pasteBuffer <- x6, kitty <- x7, handled <- x8

BashOutput == INSTANCE BashOutput WITH
    MaxBytes <- 2, MaxLines <- 2, MaxPiece <- 2, MaxOutput <- 6,
    kind <- x1, printed <- x2, chunks <- x3, file <- x4, aborted <- x5,
    timedOut <- x6, result <- x7

Side == INSTANCE SideMessages WITH
    MaxSide <- 2, MaxTranscript <- 6, MaxSessions <- 2, SlowHandlers <- FALSE,
    Hasty <- FALSE,
    transcript <- x1, stored <- x2, waiting <- x3, run <- x4, prompting <- x5,
    pendingBash <- x6, pendingNext <- x7, steering <- x8, followUp <- x9,
    session <- x10, made <- x11

Files == INSTANCE FileTools WITH
    Content <- FileTexts, Old <- TextsUpTo(2), New <- {<< >>, <<"lf">>}, Alone <- TRUE,
    file <- x1, tool <- x2, old <- x3, new <- x4, step <- x5, raw <- x6,
    aborted <- x7, told <- x8, before <- x9, late <- x10

(* Commands on a note and on a page, with texts of a word or none.         *)
Op(command, file, content, old) ==
    [command |-> command, file |-> file, content |-> content, old |-> old]

Asked == {Op("create", "note", <<"a">>, << >>), Op("rewrite", "note", <<"b">>, << >>),
          Op("update", "note", <<"b">>, <<"a">>), Op("update", "note", << >>, <<"a">>),
          Op("update", "note", <<"b">>, << >>), Op("delete", "note", << >>, << >>),
          Op("get", "note", <<"b">>, << >>), Op("rewrite", "page", <<"b">>, << >>),
          Op("delete", "page", << >>, << >>)}

Artifacts == INSTANCE Artifacts WITH
    File <- {"note", "page"}, Page <- {"page"}, Command <- Asked,
    Written <- {Op("write", "note", <<"a">>, << >>), Op("write", "note", << >>, << >>),
                Op("write", "page", <<"a">>, << >>), Op("delete", "page", << >>, << >>)},
    Parallel <- TRUE, MaxCalls <- 2, MaxHanging <- 3,
    artifacts <- x1, active <- x2, recorded <- x3, calls <- x4, hanging <- x5,
    astray <- x6
-----------------------------------------------------------------------------
NoMore == /\ y1 = Unused
          /\ y2 = Unused
          /\ y3 = Unused
          /\ y4 = Unused
          /\ y5 = Unused
          /\ y6 = Unused
          /\ y7 = Unused

MCInit ==
    /\ \/ ServicesInit
       \/ part = "renderer" /\ Renderer!Init /\ OnlyFirst(10) /\ n = Unused
       \/ part = "overlays" /\ Overlays!Init /\ OnlyFirst(3) /\ n = Unused
       \/ part = "editor" /\ Editor!Init /\ OnlyFirst(11) /\ n = 0
       \/ part = "proxy" /\ Proxy!Init /\ OnlyFirst(9) /\ n = Unused
       \/ part = "providers" /\ Providers!Init /\ OnlyFirst(9) /\ n = Unused
       \/ part = "interactive" /\ Interactive!Init /\ n = Unused
       \/ part = "stdin" /\ Stdin!Init /\ OnlyFirst(8) /\ n = Unused
       \/ part = "bash output" /\ BashOutput!Init /\ OnlyFirst(7) /\ n = Unused
       \/ part = "side messages" /\ Side!Init /\ OnlyFirst(11) /\ n = Unused
       \/ part = "files" /\ Files!Init /\ OnlyFirst(10) /\ n = Unused
       \/ part = "artifacts" /\ Artifacts!Init /\ OnlyFirst(6) /\ n = Unused
       \/ part = "tools" /\ Init /\ OnlyFirst(0) /\ n = Unused
    /\ part # "interactive" => NoMore
    /\ part # "tools" => Init /\ mode = "sequential"

(* Without clear-on-shrink, content that had to scroll does not become     *)
(* less (see README).                                                      *)
RendererNext ==
    /\ Renderer!Next
    /\ \/ x8' \/ ~x10'
       \/ Len(x3') >= x5'
       \/ x5' <= Renderer!Height /\ x3' # << >>

(* Overlays are taken away in the reverse of their order (see README); one *)
(* of them may show in a wide terminal only.                               *)
OverlaysNext ==
    /\ Overlays!Next
    /\ \A i \in DOMAIN x1' : x1'[i].wideOnly => x1'[i].component = O1
    /\ \A i \in DOMAIN x1' : x1'[i].nonCapturing => x1'[i].component # O1
    /\ Len(x1') < Len(x1) => x1' = SubSeq(x1, 1, Len(x1) - 1)

(* One program at a time; what is replayed becomes no longer for ever.     *)
ArtifactsNext ==
    /\ Artifacts!Next
    /\ \A i, j \in DOMAIN x4' : x4'[i].op = Artifacts!Run /\ x4'[j].op = Artifacts!Run => i = j
    /\ \A f \in DOMAIN x3 : Len(x3'[f]) <= 2

MCNext ==
    /\ UNCHANGED part
    /\ part # "interactive" => UNCHANGED ys
    /\ part # "tools" => UNCHANGED vars
    /\ \/ ServicesNext
       \/ part = "renderer" /\ RendererNext /\ UNCHANGED <<x11, x12, n>>
       \/ /\ part = "overlays" /\ OverlaysNext
          /\ UNCHANGED <<x4, x5, x6, x7, x8, x9, x10, x11, x12, n>>
       \/ part = "editor" /\ Editor!Next /\ n < 7 /\ n' = n + 1 /\ UNCHANGED x12
       \/ part = "proxy" /\ Proxy!Next /\ UNCHANGED <<x10, x11, x12, n>>
       \/ part = "providers" /\ Providers!Next /\ UNCHANGED <<x10, x11, x12, n>>
       \/ part = "interactive" /\ Interactive!Next /\ UNCHANGED n
       \/ part = "stdin" /\ Stdin!Next /\ UNCHANGED <<x9, x10, x11, x12, n>>
       \/ /\ part = "bash output" /\ BashOutput!Next
          /\ UNCHANGED <<x8, x9, x10, x11, x12, n>>
       \/ part = "side messages" /\ Side!Next /\ Side!Bounded /\ UNCHANGED <<x12, n>>
       \/ part = "files" /\ Files!Next /\ UNCHANGED <<x11, x12, n>>
       \/ part = "artifacts" /\ ArtifactsNext /\ UNCHANGED <<x7, x8, x9, x10, x11, x12, n>>
       \/ part = "tools" /\ Next /\ UNCHANGED <<xs, n>>

MCSpec == MCInit /\ [][MCNext]_all
-----------------------------------------------------------------------------
(* The properties of the modules; what they say is written there.          *)

(* Every part keeps the types of its fields.                               *)
TypesOK ==
    /\ part = "tools" => TypeOK
    /\ part = "settings" => Settings!TypeOK
    /\ part = "auth" => Auth!TypeOK
    /\ part = "renderer" => Renderer!TypeOK
    /\ part = "overlays" => Overlays!TypeOK
    /\ part = "editor" => Editor!TypeOK
    /\ part = "mom events" => MomEvents!TypeOK
    /\ part = "mom channel" => MomChannel!TypeOK
    /\ part = "proxy" => Proxy!TypeOK
    /\ part = "providers" => Providers!TypeOK
    /\ part = "documents" => Documents!TypeOK
    /\ part = "sessions" => Sessions!TypeOK
    /\ part = "interactive" => Interactive!TypeOK
    /\ part = "stdin" => Stdin!TypeOK
    /\ part = "bash output" => BashOutput!TypeOK
    /\ part = "side messages" => Side!TypeOK
    /\ part = "codex" => Codex!TypeOK
    /\ part = "gemini" => Gemini!TypeOK
    /\ part = "login" => Login!TypeOK
    /\ part = "files" => Files!TypeOK
    /\ part = "pods" => Pods!TypeOK
    /\ part = "artifacts" => Artifacts!TypeOK

(* TUI: after a render the screen shows the content (doRender), and no key *)
(* goes to an overlay that was taken away (handleInput).                   *)
ScreenHolds ==
    /\ part = "renderer" => Renderer!ScreenIsContent
    /\ part = "overlays" => Overlays!NoGhost

(* The edit and write tools: a call that fails leaves the file alone; an   *)
(* edit changes one place, which is unique, and not a byte beside it.      *)
(* Artifacts (reconstructFromMessages): a session loaded now has the files *)
(* of the panel.                                                           *)
FilesHold ==
    /\ part = "files" => /\ Files!FailuresKeepFile
                         /\ Files!EditIsSurgical
                         /\ Files!EditIsUnique
    /\ part = "artifacts" => Artifacts!ReloadAgrees /\ Artifacts!OpenTabExists

(* Editor: yank-pop replaces what was yanked and undo takes back the word  *)
(* that was typed, whatever came between; a marker expands to its paste.   *)
EditsHold == part = "editor" => /\ Editor!YankedIsBeforeCursor
                                /\ Editor!TypedIsUndone
                                /\ Editor!OwnMarkersExpand

(* streamProxy: the message rebuilt from thinned events is the provider's; *)
(* the stream ends with a message, which then stays as it is.  The stream  *)
(* functions of the providers: the events tell the message, and one that   *)
(* is done is all the provider said, up to the output limit.               *)
StreamsTell ==
    /\ part = "proxy" => Proxy!SaysTheSame /\ Proxy!EndsWithMessage /\ Proxy!FinalStays
    /\ part = "providers" => /\ Providers!EventsTell
                             /\ Providers!DoneIsWhole
                             /\ Providers!LimitIsTold

(* StdinBuffer: however the bytes of the terminal are cut, keys are whole. *)
KeysAreWhole == part = "stdin" => Stdin!KeysAreWhole

(* A shell command: what is shown is the end of all its output, which is   *)
(* in the file.  Its message, like those of extensions, is said once, at   *)
(* the same place in memory and file, and not between a call and a result. *)
OutputIsKept ==
    /\ part = "bash output" => /\ BashOutput!FileIsWhole
                               /\ BashOutput!ShownIsTail
                               /\ BashOutput!StoppedShowsEnd
    /\ part = "side messages" => /\ Side!CallsKeepResults
                                 /\ Side!StoredAsSaid
                                 /\ Side!SaidOnce


=============================================================================
