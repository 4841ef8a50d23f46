----------------------------- MODULE OAuthLogin -----------------------------
(***************************************************************************)
(* Logging in with a browser: loginAnthropic and loginOpenAICodex of       *)
(* packages/ai/src/utils/oauth, each with a callback server on a port of   *)
(* its own, and the dialog of interactive mode (showLoginDialog,           *)
(* components/login-dialog.ts), where the user may paste the code instead, *)
(* or give up.  An event and what it sets off are one step.                *)
(***************************************************************************)
EXTENDS Integers, Sequences

CONSTANTS MaxLogins,  \* bound on the logins, one after the other
          Hasty       \* whether the user may submit nothing

VARIABLES provider,  \* who is logged in to
          login,     \* where login() is
          port,      \* whether the callback server listens
          taken,     \* another process has the port
          dialog,    \* whom the dialog's input is for: inputResolver
          code,      \* the code that is exchanged
          escaped,   \* history: Escape was pressed before there was a code
          stored,    \* the logins that stored credentials
          logins     \* history: the number of this login

vars == <<provider, login, port, taken, dialog, code, escaped, stored, logins>>

(* What can be pasted or come from the browser: this login's code with its *)
(* state or without, another login's, an address without code, nothing.    *)
Input == {"own", "bare", "other", "no code", "nothing"}

TypeOK ==
    /\ provider \in {"anthropic", "codex"}
    /\ login \in {"none", "waiting", "manual", "prompt", "exchanging", "done", "failed"}
    /\ {port, taken, escaped} \subseteq BOOLEAN
    /\ dialog \in {"manual", "prompt", "nobody"}
    /\ code \in Input \cup {"none"} /\ stored \subseteq 1..MaxLogins
    /\ logins \in 0..MaxLogins

Init == /\ provider \in {"anthropic", "codex"} /\ login = "none"
        /\ port = FALSE /\ taken \in BOOLEAN /\ dialog = "nobody"
        /\ code = "none" /\ escaped = FALSE /\ stored = {} /\ logins = 0
-----------------------------------------------------------------------------
Over == login \in {"none", "done", "failed"}

(* The end of login(), whose "finally" closes the server.                  *)
End(how) == login' = how /\ port' = FALSE

(* The callback server, then the dialog with its input for the manual      *)
(* code.  Without the port, one provider has the user paste, one gives up. *)
Start ==
    /\ Over /\ logins < MaxLogins /\ logins' = logins + 1
    /\ code' = "none" /\ escaped' = FALSE
    /\ IF taken /\ provider = "anthropic"
       THEN End("failed") /\ dialog' = "nobody"
       ELSE /\ port' = ~taken /\ dialog' = "manual"
            /\ login' = IF taken THEN "manual" ELSE "waiting"
    /\ UNCHANGED <<provider, taken, stored>>

(* One provider awaits the exchange before its "finally", one does not.    *)
Exchange(given) == /\ login' = "exchanging" /\ code' = given
                   /\ port' = (port /\ provider = "codex")

CallbackOfAny(given) ==  \* mutant: the state is not compared
    /\ port /\ given \in {"own", "other", "no code"}
    /\ IF login = "waiting" /\ given # "no code" THEN Exchange(given)
       ELSE UNCHANGED <<login, port, code>>
    /\ UNCHANGED <<provider, taken, dialog, escaped, stored, logins>>

(* The browser comes back.  Another login's tab and a user who was refused *)
(* get an error page, and the login waits on.                              *)
Callback(given) ==
    /\ port /\ given \in {"own", "other", "no code"}
    /\ IF login = "waiting" /\ given = "own" THEN Exchange(given)
       ELSE UNCHANGED <<login, port, code>>
    /\ UNCHANGED <<provider, taken, dialog, escaped, stored, logins>>

(* parseAuthorizationInput, and what is made of it.                        *)
Paste(given) ==
    CASE given = "other" -> End("failed") /\ UNCHANGED <<code, dialog>>
      [] given \in {"own", "bare"} -> Exchange(given) /\ dialog' = "nobody"
      [] given = "no code" /\ dialog = "manual" ->
            login' = "prompt" /\ dialog' = "prompt" /\ UNCHANGED <<port, code>>
      [] OTHER -> End("failed") /\ UNCHANGED <<code, dialog>>

(* Enter: the input is for nobody from then on.  To submit nothing is not  *)
(* an answer for the manual code, which nothing can give any more.         *)
Submit(given) ==
    /\ ~Over /\ dialog # "nobody" /\ (Hasty \/ given # "nothing")
    /\ IF login = "exchanging" \/ (dialog = "manual" /\ given = "nothing")
       THEN dialog' = "nobody" /\ UNCHANGED <<login, port, code>>
       ELSE Paste(given)
    /\ UNCHANGED <<provider, taken, escaped, stored, logins>>

EscapeUnheard ==  \* mutant: the abort signal is all that tells of Escape
    /\ ~Over /\ dialog' = "nobody"
    /\ escaped' = (escaped \/ login # "exchanging")
    /\ IF dialog = "prompt" /\ login # "exchanging" THEN End("failed")
       ELSE UNCHANGED <<login, port>>
    /\ UNCHANGED <<provider, taken, code, stored, logins>>

(* Escape rejects whoever waits for input.  The signal is not looked at by *)
(* these two, nor is a rejection once there is a code.                     *)
Escape ==
    /\ ~Over /\ dialog' = "nobody"
    /\ escaped' = (escaped \/ login # "exchanging")
    /\ IF dialog # "nobody" /\ login # "exchanging" THEN End("failed")
       ELSE UNCHANGED <<login, port>>
    /\ UNCHANGED <<provider, taken, code, stored, logins>>

LeaveOpen(ok) ==  \* mutant: the server is closed after a success only
    /\ login = "exchanging"
    /\ login' = IF ok THEN "done" ELSE "failed"
    /\ port' = IF ok THEN FALSE ELSE port
    /\ stored' = IF ok THEN stored \cup {logins} ELSE stored
    /\ UNCHANGED <<provider, taken, dialog, code, escaped, logins>>

(* exchangeAuthorizationCode, and AuthStorage.login with what it returns.  *)
Exchanged(ok) ==
    /\ login = "exchanging" /\ End(IF ok THEN "done" ELSE "failed")
    /\ stored' = IF ok THEN stored \cup {logins} ELSE stored
    /\ UNCHANGED <<provider, taken, dialog, code, escaped, logins>>

Next == \/ Start \/ Escape
        \/ \E given \in Input : Callback(given) \/ Submit(given)
        \/ \E ok \in BOOLEAN : Exchanged(ok)

Spec == Init /\ [][Next]_vars
-----------------------------------------------------------------------------
(* "to cancel", says the dialog: Escape ends a login that has no code yet, *)
(* and what was given up stores nothing.                                   *)
EscapeEndsLogin == escaped => login = "failed" /\ logins \notin stored

(* The code that is exchanged is not another login's, as far as its state  *)
(* tells, and no login leaves its port taken for the next one.             *)
OwnCode == code # "other" /\ (Over => ~port)

(* Why it is so: as long as there is no code the dialog has an input for   *)
(* somebody, whom Escape rejects, and the number of a login is new.        *)
LoginInv ==
    /\ login \in {"none", "waiting", "manual", "prompt", "exchanging", "done", "failed"}
    /\ logins \in Nat /\ stored \subseteq 1..logins /\ (login = "none" \/ logins > 0)
    /\ login # "done" => logins \notin stored
    /\ login \in {"waiting", "manual", "prompt"} => dialog # "nobody"
    /\ escaped => login = "failed"
    /\ OwnCode
=============================================================================
