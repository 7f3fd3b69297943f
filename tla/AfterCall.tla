------------------------------- MODULE AfterCall -------------------------------
(***************************************************************************)
(* What the panel asks an agent about a call once it is over: the wrap-up   *)
(* card, the prompt after a call that reached nobody, and the dashboard's   *)
(* escalation form, which may be filled in while the call is still on.      *)
(*                                                                          *)
(* A call is the environment's here (Softphone has it): it rings, is picked *)
(* up and ends.  Its length matters at one border only, so it is "short",   *)
(* "edge" (between 7.5 and 8 seconds) or "long".  A form's content is       *)
(* whether something is written in it.                                      *)
(*                                                                          *)
(* Bounds: Calls are the calls of one run, Numbers the customers, and the   *)
(* page is reloaded at most MaxReloads times.                               *)
(***************************************************************************)
EXTENDS PanelNames, Naturals, Sequences, FiniteSets, SequencesExt

CONSTANTS Numbers, NoNumber, MaxReloads

VARIABLES
  line,                                 \* the call on the line
  phase, way, peer, length,             \* of each call
  cards,                                \* calls whose wrap-up is asked, oldest first
  doneIds,                              \* calls that need no card any more
  unreached, seen,                      \* the prompt's call, the one dismissed
  saving, skipping,                     \* the card's calls on their way to the server
  customer, dirty, pendingPeer, entry,  \* the dashboard's form, its save on the way
  escalations,                          \* what the server stored
  cut, reloads                          \* calls a reload broke off, the bound

deskCalls == <<line, phase, way, peer, length>>
card == <<cards, saving, skipping>>
prompt == <<unreached, seen>>
form == <<customer, dirty, pendingPeer, entry>>
askVars == <<deskCalls, card, doneIds, prompt, form, escalations, cut, reloads>>

Escalations == [call : Calls \cup {NoCall}, number : Numbers]
NoEntry == [call |-> NoCall, number |-> NoNumber, next |-> NoNumber]
Connected == line # NoCall /\ phase[line] = "talking"
Current == IF cards = <<>> THEN NoCall ELSE Head(cards)

\* The prompt is up until it is dismissed, and the card waits behind it.
PromptShows == unreached # NoCall /\ unreached # seen
CardShows == cards # <<>> /\ ~PromptShows

\* The dashboard's form: there is one once a customer is known.
FormShows == customer # NoNumber

AskTypeOK ==
  /\ line \in Calls \cup {NoCall}
  /\ phase \in [Calls -> {"none", "ringing", "talking", "over"}]
  /\ way \in [Calls -> {"in", "out"}] /\ peer \in [Calls -> Numbers \cup {NoNumber}]
  /\ length \in [Calls -> {"none", "short", "edge", "long"}]
  /\ IsInjective(cards) /\ Range(cards) \cup doneIds \cup cut \subseteq Calls
  /\ {unreached, seen, saving, skipping} \subseteq Calls \cup {NoCall}
  /\ {customer, pendingPeer} \subseteq Numbers \cup {NoNumber} /\ dirty \in BOOLEAN
  /\ escalations \subseteq Escalations

AskInit ==
  /\ line = NoCall /\ phase = [c \in Calls |-> "none"] /\ way = [c \in Calls |-> "in"]
  /\ peer = [c \in Calls |-> NoNumber] /\ length = [c \in Calls |-> "none"]
  /\ cards = <<>> /\ saving = NoCall /\ skipping = NoCall /\ doneIds = {}
  /\ unreached = NoCall /\ seen = NoCall
  /\ customer = NoNumber /\ dirty = FALSE /\ pendingPeer = NoNumber /\ entry = NoEntry
  /\ escalations = {} /\ cut = {} /\ reloads = 0

---------------------------------------------------------------------------
(* The dashboard's form follows the live call's number, never under what is *)
(* half written.                                                            *)

\* A new number starts a clean form.
CleanForm(n) == customer' = n /\ dirty' = FALSE /\ pendingPeer' = NoNumber
Follow(n) ==
  IF n = customer THEN UNCHANGED <<customer, dirty, pendingPeer>>
  ELSE IF dirty /\ customer # NoNumber
  THEN pendingPeer' = n /\ UNCHANGED <<customer, dirty>>
  ELSE CleanForm(n)

\* The number that waits is offered above the form.
PendingShows == FormShows /\ pendingPeer # NoNumber
SwitchToPending ==
  /\ PendingShows /\ CleanForm(pendingPeer)
  /\ UNCHANGED <<deskCalls, card, doneIds, prompt, entry, escalations, cut, reloads>>

\* A reason is chosen in the two panes of the picker, perhaps with a note.
Choose ==
  /\ FormShows /\ ~dirty /\ dirty' = TRUE
  /\ UNCHANGED <<deskCalls, card, doneIds, prompt, customer, pendingPeer, entry, escalations, cut, reloads>>

\* The picker's search hides the chosen category: the reason goes with it.
SearchDropsChoice ==
  /\ FormShows /\ dirty /\ dirty' = FALSE
  /\ UNCHANGED <<deskCalls, card, doneIds, prompt, customer, pendingPeer, entry, escalations, cut, reloads>>

CallOfEntry == IF Connected /\ pendingPeer = NoNumber THEN line ELSE NoCall

SaveEntry ==
  /\ FormShows /\ dirty /\ entry = NoEntry
  /\ entry' = [call |-> CallOfEntry, number |-> customer, next |-> pendingPeer]
  /\ UNCHANGED <<deskCalls, card, doneIds, prompt, customer, dirty, pendingPeer, escalations, cut, reloads>>

\* With what it knew as it asked, the dashboard marks the call done and moves on
\* to the waiting customer.
MovesOn(e) ==
  /\ doneIds' = doneIds \cup ({e.call} \ {NoCall})
  /\ IF e.next # NoNumber THEN CleanForm(e.next) ELSE dirty' = FALSE /\ UNCHANGED <<customer, pendingPeer>>
\* The answer is applied by the form as it is now: it clears the entry.
EntrySaved ==
  /\ entry # NoEntry /\ entry' = NoEntry
  /\ escalations' = escalations \cup {[call |-> entry.call, number |-> entry.number]}
  /\ MovesOn(entry)
  /\ UNCHANGED <<deskCalls, card, prompt, cut, reloads>>

EntryRefused ==
  /\ entry # NoEntry /\ entry' = NoEntry
  /\ UNCHANGED <<deskCalls, card, doneIds, prompt, customer, dirty, pendingPeer, escalations, cut, reloads>>

---------------------------------------------------------------------------
(* The calls. *)

\* A ringing call does not count as the dashboard's until it is answered.
Begins ==
  /\ line = NoCall
  /\ \E c \in Calls, n \in Numbers, w \in {"in", "out"} :
       /\ phase[c] = "none" /\ \A d \in Calls : phase[d] = "none" => c = CHOOSE x \in Calls : phase[x] = "none"
       /\ line' = c /\ phase' = [phase EXCEPT ![c] = "ringing"]
       /\ way' = [way EXCEPT ![c] = w] /\ peer' = [peer EXCEPT ![c] = n]
       /\ IF w = "out" THEN Follow(n) ELSE UNCHANGED <<customer, dirty, pendingPeer>>
  /\ UNCHANGED <<length, card, doneIds, prompt, entry, escalations, cut, reloads>>

IsPickedUp ==
  /\ line # NoCall /\ phase[line] = "ringing"
  /\ phase' = [phase EXCEPT ![line] = "talking"]
  /\ IF way[line] = "in" THEN Follow(peer[line]) ELSE UNCHANGED <<customer, dirty, pendingPeer>>
  /\ UNCHANGED <<line, way, peer, length, card, doneIds, prompt, entry, escalations, cut, reloads>>

\* The card's rule: a talk of eight seconds and more whose escalation is not
\* entered yet.  The prompt's rule rounds the length first.
NeedsCard(c, len) == phase[c] = "talking" /\ len = "long" /\ c \notin doneIds
ReachedNobody(c, len) == way[c] = "out" /\ (phase[c] # "talking" \/ len = "short")

HasEnded ==
  /\ line # NoCall
  /\ \E len \in {"short", "edge", "long"} :
       /\ length' = [length EXCEPT ![line] = IF phase[line] = "talking" THEN len ELSE "none"]
       /\ cards' = IF NeedsCard(line, len) THEN Append(cards, line) ELSE cards
       /\ unreached' = IF ReachedNobody(line, len) THEN line ELSE unreached
  /\ phase' = [phase EXCEPT ![line] = "over"] /\ line' = NoCall
  /\ UNCHANGED <<way, peer, saving, skipping, doneIds, seen, form, escalations, cut, reloads>>

---------------------------------------------------------------------------
(* The prompt and the card. *)

\* "Not now", writing on WhatsApp and planning a call back all dismiss it.
Dismiss ==
  /\ PromptShows /\ seen' = unreached
  /\ UNCHANGED <<deskCalls, card, doneIds, unreached, form, escalations, cut, reloads>>

SaveCard ==
  /\ CardShows /\ saving = NoCall /\ saving' = Current
  /\ UNCHANGED <<deskCalls, cards, skipping, doneIds, prompt, form, escalations, cut, reloads>>

\* "No escalation needed", once more confirmed, is a record too.
Skip ==
  /\ CardShows /\ skipping = NoCall /\ skipping' = Current
  /\ UNCHANGED <<deskCalls, cards, saving, doneIds, prompt, form, escalations, cut, reloads>>

\* A mutant of Without: the card on the screen goes, whichever was saved.
WithoutHead(c) == IF cards = <<>> THEN <<>> ELSE Tail(cards)

\* done: the card of the call that was saved goes, wherever it is by now (a call
\* never has two).
Without(c) ==
  IF c \in Range(cards) THEN RemoveAt(cards, CHOOSE i \in DOMAIN cards : cards[i] = c) ELSE cards

Stored(c) ==
  \/ /\ escalations' = escalations \cup {[call |-> c, number |-> peer[c]]}
     /\ cards' = Without(c)
  \/ UNCHANGED <<escalations, cards>>

CardAnswered ==
  /\ saving # NoCall /\ Stored(saving) /\ saving' = NoCall
  /\ UNCHANGED <<deskCalls, skipping, doneIds, prompt, form, cut, reloads>>

SkipAnswered ==
  /\ skipping # NoCall /\ Stored(skipping) /\ skipping' = NoCall
  /\ UNCHANGED <<deskCalls, saving, doneIds, prompt, form, cut, reloads>>

\* A reload ends the call and forgets what is on the screen; the cards and the
\* calls done are in the tab's storage, a save on its way may still be stored.
ReloadPage ==
  /\ reloads < MaxReloads /\ reloads' = reloads + 1
  /\ cut' = cut \cup ({line} \ {NoCall}) /\ line' = NoCall
  /\ phase' = [c \in Calls |-> IF c = line THEN "over" ELSE phase[c]]
  /\ unreached' = NoCall /\ seen' = NoCall /\ saving' = NoCall /\ skipping' = NoCall
  /\ customer' = NoNumber /\ dirty' = FALSE /\ pendingPeer' = NoNumber /\ entry' = NoEntry
  /\ \E kept \in SUBSET ({[call |-> c, number |-> peer[c]] : c \in {saving, skipping} \ {NoCall}}
                         \cup {[call |-> e.call, number |-> e.number] : e \in {entry} \ {NoEntry}}) :
       escalations' = escalations \cup kept
  /\ UNCHANGED <<way, peer, length, cards, doneIds>>

AskNext ==
  \/ SwitchToPending \/ Choose \/ SearchDropsChoice
  \/ SaveEntry \/ EntrySaved \/ EntryRefused
  \/ Begins \/ IsPickedUp \/ HasEnded
  \/ Dismiss \/ SaveCard \/ Skip \/ CardAnswered \/ SkipAnswered \/ ReloadPage
AskSpec == AskInit /\ [][AskNext]_askVars

---------------------------------------------------------------------------
(* Properties. *)

\* No talk is forgotten: one of eight seconds and more, not broken off by a
\* reload, has its card until something about it is stored at the server.
EveryTalkIsAsked ==
  \A c \in Calls : phase[c] = "over" /\ length[c] = "long"
                     => \/ c \in Range(cards)
                        \/ \E e \in escalations : e.call = c

\* The dashboard's form follows the live call: what it stores under a call's id
\* is about the customer of that call.
EntryIsOfItsCall == \A e \in escalations : e.call # NoCall => e.number = peer[e.call]
===============================================================================
