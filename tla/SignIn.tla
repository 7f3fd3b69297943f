-------------------------------- MODULE SignIn --------------------------------
(***************************************************************************)
(* The sign-in page and the server's side of it.                            *)
(*                                                                          *)
(* The page asks for an e-mail and its password, and then for whatever step *)
(* the server demands next: setting up the authenticator, its code, a new   *)
(* password.  Each demand is a token good for one step of one account, and   *)
(* the page keeps one of each kind.  A code or a password is right or wrong. *)
(*                                                                          *)
(* A call of the page travels to the server, which takes the step or not,    *)
(* and its answer travels back.  Either may be lost: then the same screen    *)
(* stays up with the same token, whatever the server did, and a call the     *)
(* page gave up may still reach the server.                                  *)
(*                                                                          *)
(* Bounds: MaxTokens tokens, MaxTries wrong codes a token (five in the      *)
(* code), MaxStrays calls given up that travel at a time.                    *)
(***************************************************************************)
EXTENDS Naturals, Sequences, FiniteSets

CONSTANTS Accounts, NoAccount, MaxTokens, MaxTries, MaxStrays

VARIABLES
  email, form,      \* the e-mail typed; "email" or "password"
  checking,         \* the account a sent password is for
  welcome,          \* the account whose success is shown before its panel opens
  held,             \* per kind of step, the token the page holds, 0 for none
  qr, busy,         \* the QR code is there; an answer is awaited
  signedIn,         \* the account the panel opens for
  heard             \* history: tokens the page was told were taken
VARIABLES
  reply,            \* the server's answer to the awaited call
  stray             \* tokens of calls the page gave up that still travel
VARIABLES
  issued, spent,    \* the tokens the server issued; those it takes no more
  tries,            \* wrong codes per token
  enrolled, owes,   \* accounts with an authenticator; accounts that owe a new password
  mfaAsked          \* the policy asks for a second step

page == <<email, form, checking, welcome, held, qr, busy, signedIn, heard>>
calls == <<reply, stray>>
tokens == <<issued, spent, tries>>
accounts == <<enrolled, owes, mfaAsked>>
signInVars == <<page, calls, tokens, accounts>>

Steps == {"enroll", "challenge", "password"}
None == [k \in Steps |-> 0]
Issuable == Len(issued) < MaxTokens

\* An answer: nothing yet, no, a session for an account, or a demand for its
\* new password with a token.
Reply(says, a, i) == [says |-> says, for |-> a, token |-> i]
Waiting == Reply("nothing", NoAccount, 0)
No      == Reply("no", NoAccount, 0)

SignInTypeOK ==
  /\ email \in Accounts \cup {NoAccount} /\ form \in {"email", "password"}
  /\ {checking, welcome, signedIn} \subseteq Accounts \cup {NoAccount}
  /\ held \in [Steps -> 0 .. Len(issued)] /\ {qr, busy, mfaAsked} \subseteq BOOLEAN
  /\ \A i \in DOMAIN issued : issued[i].kind \in Steps /\ issued[i].for \in Accounts
  /\ heard \cup spent \cup stray \subseteq DOMAIN issued
  /\ reply.says \in {"nothing", "no", "session", "password"} /\ reply.token \in 0 .. Len(issued)
  /\ tries \in [1 .. MaxTokens -> 0 .. MaxTries]
  /\ enrolled \cup owes \subseteq Accounts

SignInInit ==
  /\ email = NoAccount /\ form = "email" /\ checking = NoAccount /\ welcome = NoAccount
  /\ held = None /\ qr = FALSE /\ busy = FALSE /\ signedIn = NoAccount
  /\ heard = {} /\ reply = Waiting /\ stray = {}
  /\ issued = <<>> /\ spent = {} /\ tries = [i \in 1 .. MaxTokens |-> 0]
  /\ enrolled \in SUBSET Accounts /\ owes \in SUBSET Accounts /\ mfaAsked \in BOOLEAN

\* A mutant of Screen: it shows the first step it holds a token for.
ScreenFirst ==
  IF signedIn # NoAccount THEN "panel"
  ELSE IF held["enroll"] # 0 THEN "enroll"
  ELSE IF held["challenge"] # 0 THEN "challenge"
  ELSE IF held["password"] # 0 THEN "password"
  ELSE "form"

\* Which screen is up: a new password before an authenticator before a code.
Screen ==
  IF signedIn # NoAccount THEN "panel"
  ELSE IF held["password"] # 0 THEN "password"
  ELSE IF held["enroll"] # 0 THEN "enroll"
  ELSE IF held["challenge"] # 0 THEN "challenge"
  ELSE "form"
Token == held[Screen]

---------------------------------------------------------------------------
(* The password is right: the server demands one step more, which the page   *)
(* routes to its screen, or gives a session (issue).                         *)

Issues(kind, a) == Issuable /\ issued' = Append(issued, [kind |-> kind, for |-> a])

Demand(kind, a) ==
  /\ Issues(kind, a)
  /\ held' = [held EXCEPT ![kind] = Len(issued) + 1]
  /\ UNCHANGED welcome

\* A session, unless the account owes a new password.
Session(a) ==
  IF a \in owes THEN Demand("password", a)
  ELSE welcome' = a /\ UNCHANGED <<issued, held>>

---------------------------------------------------------------------------
(* The form: e-mail, then password. *)

TypeEmail ==
  /\ Screen = "form" /\ form = "email" /\ email' \in Accounts \ {email}
  /\ UNCHANGED <<form, checking, welcome, held, qr, busy, signedIn, heard, calls, tokens, accounts>>

ContinueWithEmail ==
  /\ Screen = "form" /\ form = "email" /\ email # NoAccount /\ form' = "password"
  /\ UNCHANGED <<email, checking, welcome, held, qr, busy, signedIn, heard, calls, tokens, accounts>>

\* The e-mail can be changed while its password is still being checked.
ChangeEmail ==
  /\ Screen = "form" /\ form = "password" /\ form' = "email"
  /\ UNCHANGED <<email, checking, welcome, held, qr, busy, signedIn, heard, calls, tokens, accounts>>

Submit ==
  /\ Screen = "form" /\ form = "password" /\ checking = NoAccount /\ welcome = NoAccount
  /\ checking' = email
  /\ UNCHANGED <<email, form, welcome, held, qr, busy, signedIn, heard, calls, tokens, accounts>>

\* Or no answer comes.
PasswordWrong ==
  /\ checking # NoAccount /\ checking' = NoAccount
  /\ UNCHANGED <<email, form, welcome, held, qr, busy, signedIn, heard, calls, tokens, accounts>>

PasswordRight ==
  /\ checking # NoAccount /\ checking' = NoAccount
  /\ IF mfaAsked THEN Demand(IF checking \in enrolled THEN "challenge" ELSE "enroll", checking)
                 ELSE Session(checking)
  /\ UNCHANGED <<email, form, qr, busy, signedIn, heard, calls, spent, tries, accounts>>

---------------------------------------------------------------------------
(* The steps, on the page. *)

\* Setting up begins with a fresh secret and its QR code.
ShowQr ==
  /\ Screen = "enroll" /\ ~qr /\ Token \notin spent /\ issued[Token].for \notin enrolled
  /\ qr' = TRUE
  /\ UNCHANGED <<email, form, checking, welcome, held, busy, signedIn, heard, calls, tokens, accounts>>

SendStep ==
  /\ Screen \in Steps /\ ~busy /\ welcome = NoAccount /\ (Screen = "enroll" => qr)
  /\ busy' = TRUE
  /\ UNCHANGED <<email, form, checking, welcome, held, qr, signedIn, heard, calls, tokens, accounts>>

\* The page hears that the step was taken: the tick, or the next screen.
StepAnswered ==
  /\ busy /\ busy' = FALSE /\ reply' = Waiting /\ UNCHANGED stray
  /\ heard' = heard \cup {Token}
  /\ \/ reply.says = "session" /\ welcome' = reply.for /\ UNCHANGED held
     \/ /\ reply.says = "password" /\ UNCHANGED welcome
        /\ held' = [held EXCEPT !["password"] = reply.token]
  /\ UNCHANGED <<email, form, checking, qr, signedIn, tokens, accounts>>

\* The catch of every step: the server said no, or no answer comes, taken or
\* not.  The screen stays with its token.
StepFails ==
  /\ busy /\ busy' = FALSE /\ reply' = Waiting
  /\ \/ UNCHANGED stray
     \/ reply = Waiting /\ Cardinality(stray) < MaxStrays /\ stray' = stray \cup {Token}
  /\ UNCHANGED <<email, form, checking, welcome, held, qr, signedIn, heard, tokens, accounts>>

---------------------------------------------------------------------------
(* The steps, at the server. *)

\* The answer goes to the page that awaits it, or to nobody.
Answers(i, r) ==
  /\ \/ busy /\ reply = Waiting /\ i = Token /\ reply' = r /\ UNCHANGED stray
     \/ i \in stray /\ stray' = stray \ {i} /\ UNCHANGED reply
  /\ UNCHANGED page

\* The token is good for this kind of step and was not revoked.
Takes(i, kind) == issued[i].kind = kind /\ i \notin spent

\* Too many wrong codes and the step starts over from the password, if its
\* token can be revoked.
CodeWrong(i) ==
  /\ Takes(i, "enroll") \/ Takes(i, "challenge")
  /\ tries' = [tries EXCEPT ![i] = IF @ < MaxTries THEN @ + 1 ELSE @]
  /\ spent' \in IF tries'[i] < MaxTries THEN {spent} ELSE {spent, spent \cup {i}}
  /\ Answers(i, No) /\ UNCHANGED <<issued, accounts>>

\* The token ran out or is spent, its account fits the step no more, or
\* something failed.
Refuses(i) == Answers(i, No) /\ UNCHANGED <<tokens, accounts>>

\* revokeToken, whose failure is only logged; then issue.  What follows may
\* fail although the step was taken.
StepTaken(i, owing) ==
  LET a == issued[i].for IN
  /\ spent' \in {spent, spent \cup {i}} /\ UNCHANGED tries
  /\ \/ Answers(i, No) /\ UNCHANGED issued
     \/ a \notin owing /\ Answers(i, Reply("session", a, 0)) /\ UNCHANGED issued
     \/ a \in owing /\ Issues("password", a) /\ Answers(i, Reply("password", a, Len(issued) + 1))

Enrolled(i) ==
  /\ Takes(i, "enroll") /\ issued[i].for \notin enrolled
  /\ enrolled' = enrolled \cup {issued[i].for}
  /\ StepTaken(i, owes) /\ UNCHANGED <<owes, mfaAsked>>

CodeRight(i) ==
  /\ Takes(i, "challenge") /\ issued[i].for \in enrolled
  /\ StepTaken(i, owes) /\ UNCHANGED accounts

PasswordChanged(i) ==
  /\ Takes(i, "password") /\ issued[i].for \in owes
  /\ owes' = owes \ {issued[i].for}
  /\ StepTaken(i, owes') /\ UNCHANGED <<enrolled, mfaAsked>>

Handled(i) == CodeWrong(i) \/ Refuses(i) \/ Enrolled(i) \/ CodeRight(i) \/ PasswordChanged(i)

---------------------------------------------------------------------------
(* Leaving the steps. *)

\* A mutant of Back: the older steps' tokens stay.
BackOne ==
  /\ Screen \in Steps /\ ~busy /\ welcome = NoAccount
  /\ held' = [held EXCEPT ![Screen] = 0] /\ form' = "email" /\ qr' = FALSE
  /\ UNCHANGED <<email, checking, welcome, busy, signedIn, heard, calls, tokens, accounts>>

\* reset: back to the e-mail, without any token.
Back ==
  /\ Screen \in Steps /\ ~busy /\ welcome = NoAccount
  /\ held' = None /\ form' = "email" /\ qr' = FALSE
  /\ UNCHANGED <<email, checking, welcome, busy, signedIn, heard, calls, tokens, accounts>>

\* finish: a moment after the tick is shown, at once after the other steps.
Finish ==
  /\ welcome # NoAccount /\ welcome' = NoAccount /\ signedIn' = welcome
  /\ UNCHANGED <<email, form, checking, held, qr, busy, heard, calls, tokens, accounts>>

---------------------------------------------------------------------------
(* Elsewhere: the account signs in on another device, an administrator      *)
(* resets it or changes the policy.                                         *)

Elsewhere ==
  /\ \E a \in Accounts :
       \/ enrolled' = enrolled \cup {a} /\ UNCHANGED <<owes, mfaAsked>>
       \/ enrolled' = enrolled \ {a} /\ UNCHANGED <<owes, mfaAsked>>
       \/ owes' = owes \cup {a} /\ UNCHANGED <<enrolled, mfaAsked>>
       \/ owes' = owes \ {a} /\ UNCHANGED <<enrolled, mfaAsked>>
       \/ mfaAsked' = ~mfaAsked /\ UNCHANGED <<enrolled, owes>>
  /\ UNCHANGED <<page, calls, tokens>>

SignInNext ==
  \/ TypeEmail \/ ContinueWithEmail \/ ChangeEmail \/ Submit \/ PasswordWrong \/ PasswordRight
  \/ ShowQr \/ SendStep \/ StepAnswered \/ StepFails \/ \E i \in DOMAIN issued : Handled(i)
  \/ Back \/ Finish \/ Elsewhere
SignInSpec == SignInInit /\ [][SignInNext]_signInVars

---------------------------------------------------------------------------

\* No step is asked for twice and none is left out.  A screen asks for a step
\* the server took only while the page was not told, whatever tokens of earlier
\* steps it still holds; and the panel opens only when the page was told of
\* every step it was asked for.
EachStepOnce ==
  /\ Screen \in Steps /\ welcome = NoAccount => Token \notin heard
  /\ {welcome, signedIn} # {NoAccount} => \A k \in Steps : held[k] \in heard \cup {0}
===============================================================================
