--------------------------------- MODULE MCPages ---------------------------------
(***************************************************************************)
(* Small instances, for TLC, of what an agent signs in to and works with:  *)
(* the sign-in page, the session, the list of conversations and the open   *)
(* one, and the forms and lists of the pages.                              *)
(*                                                                         *)
(* The parts share no state, so one run can explore each alone: a          *)
(* behaviour moves one of them, `part`.                                    *)
(*                                                                         *)
(* Bound: the open conversation is "chat", where nothing is marked as read,*)
(* or "reading", where nothing is sent.                                    *)
(***************************************************************************)
EXTENDS Session, SignIn, Inbox, Forms, Lists, ChatPane

VARIABLE part

ownVars == <<sessionVars, signInVars, inboxVars, formVars, listVars>>

\* A part that stands still: the small ones as they begin, of the forms and the
\* lists none (nothing typed; waiting, so nothing has settled).
NoForm ==
  /\ thisForm = 0 /\ record = 0 /\ edits = 0 /\ copy = 0 /\ listing = 0 /\ window = 0 /\ visit = 0
  /\ text = 0 /\ filled = 0 /\ locked = 0 /\ failed = 0 /\ sends = 0 /\ quick = 0 /\ typed = 0
  /\ mine = Unwritten /\ savedTexts = 0 /\ unasked = 0 /\ late = 0
NoList ==
  /\ thisList = 0 /\ chosen = 0 /\ applied = 0 /\ waiting = TRUE /\ pageNo = 0 /\ era = 0 /\ newest = 0
  /\ table = 0 /\ loading = 0 /\ error = 0 /\ asks = {} /\ acted = 0 /\ moves = 0 /\ readings = 0
  /\ acts = 0 /\ mores = 0
Init ==
  /\ part \in {"session", "signin", "inbox", "form", "list", "chat", "reading"}
  /\ SessionInit /\ (part = "session" \/ \A i \in DOMAIN whose : whose[i] = CHOOSE u \in Users : TRUE)
  /\ SignInInit /\ (part = "signin" \/ (enrolled = {} /\ owes = {} /\ ~mfaAsked))
  /\ InboxInit /\ (part = "inbox" \/ \A c \in Chats : rows[c].home = "mine")
  /\ IF part = "form" THEN FormsInit ELSE NoForm
  /\ IF part = "list" THEN ListsInit ELSE NoList
  /\ ChatPaneInit

Next ==
  \/ part = "session" /\ SessionNext /\ UNCHANGED <<part, signInVars, inboxVars, formVars, listVars, chatVars>>
  \/ part = "signin" /\ SignInNext /\ UNCHANGED <<part, sessionVars, inboxVars, formVars, listVars, chatVars>>
  \/ part = "inbox" /\ InboxNext /\ UNCHANGED <<part, sessionVars, signInVars, formVars, listVars, chatVars>>
  \/ part = "form" /\ FormsNext /\ UNCHANGED <<part, sessionVars, signInVars, inboxVars, listVars, chatVars>>
  \/ part = "list" /\ ListsNext /\ UNCHANGED <<part, sessionVars, signInVars, inboxVars, formVars, chatVars>>
  \/ part = "chat" /\ ChatPaneNext /\ UNCHANGED <<readUpTo, part, ownVars>>
  \/ part = "reading" /\ ChatPaneNext /\ UNCHANGED <<partTries, part, ownVars>>

vars == <<part, ownVars, chatVars>>
Spec == Init /\ [][Next]_vars
===============================================================================
