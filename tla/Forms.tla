--------------------------------- MODULE Forms ---------------------------------
(***************************************************************************)
(* The panel's forms: the windows opened from a page that lists records and  *)
(* the cards that are always on their page.  All of them are the same       *)
(* machine - fill the fields, let the person type, lock the button, send,   *)
(* then close, refill or complain - and differ in the details that decide   *)
(* what happens to what was typed.  A form is the record of these details   *)
(* (forms alike in all of them are one), and Init picks one of them.        *)
(*                                                                          *)
(* A text stands for everything a form holds; every typing makes a new one. *)
(*                                                                          *)
(* Bounds: MaxTexts texts, MaxVisits openings of a window, MaxEdits          *)
(* changes of the record by others, MaxQuick requests of the page's buttons. *)
(***************************************************************************)
EXTENDS PanelNames, Naturals, FiniteSets

CONSTANTS MaxTexts, MaxVisits, MaxEdits, MaxQuick

ASSUME FormsAssumption == MaxTexts \in Nat

VARIABLES
  thisForm,               \* the form
  record, edits,          \* the record at the server, and how often others changed it
  copy, listing,          \* the page's copy of the record and its face
  window, visit,          \* "shut", "open" or "asking" whether to close; which opening
  text, filled,           \* what the fields hold, and what they were filled with
  locked, failed,         \* the button is locked; an error is shown
  sends, quick,           \* requests and their answers; how many were sent by buttons
  typed, mine,            \* texts typed so far; the one to be kept
  savedTexts, unasked, late \* texts the server stored; texts dropped without a
                          \* question; since the last typing an answer came to
                          \* something asked before it

pageVars == <<record, edits, copy, listing>>
windowVars == <<window, visit, text, filled>>
ghostVars == <<savedTexts, unasked, late>>
formVars == <<thisForm, pageVars, windowVars, locked, failed, sends, quick, typed, mine, ghostVars>>

Text == 0 .. MaxTexts + MaxEdits  \* 0: the fields are empty
Unwritten == 0

---------------------------------------------------------------------------
(* What a form is made of. *)

\* A window: whether Escape asks before it drops changes ("always", only
\* while "idle", "never") and whether the cancel button is locked by a save.
Window(asks, cancel) == [at |-> "window", asks |-> asks, cancel |-> cancel, fields |-> "free"]
\* A card, its fields "free" or "held" during a save.
Card(fields) == [at |-> "card", asks |-> "never", cancel |-> "held", fields |-> fields]
\* How many requests a save is, what its success does and what its failure
\* does to the text.
Saves(steps, done) == [steps |-> steps, done |-> done, failure |-> "keeps"]
\* The fields are filled from the page's copy ("known"), follow it while the
\* window is open ("follows"), are empty, are there once they are "loaded", or
\* are loaded "again" whenever the page's list is; a window whose component is
\* "kept" while shut shares its lock with the next opening.
Fills(from, mounted) == [fill |-> from, mounted |-> mounted, unread |-> "blocks"]
\* A card whose fields are usable while it is still being read: what was read
\* replaces them, or when that failed a default does, or they are kept.
Early(unread) == [fill |-> "early", mounted |-> "kept", unread |-> unread]
\* The page: its switch sends the "whole" record or only the "flag", and
\* shows it "first" or "after" the answer; a removal's button is "held" while
\* it is under way or "free"; a list that cannot be read is shown as "empty",
\* "kept", or with an "error".
Page(switch, shows, removal, unlisted) ==
  [switch |-> switch, shows |-> shows, removal |-> removal, unlisted |-> unlisted]
NoPage == Page("none", "after", "none", "kept")

\* Custom menus.
MenuPage == Page("whole", "after", "held", "empty")
MenuFormOpens == Fills("known", "fresh")
MenuFormSave == Saves(1, "closes")
MenuFormFace == Window("idle", "held")
\* Users: the buttons of the form besides its save close it too.
UsersPage == Page("flag", "after", "none", "error")
UserFormOpens == Fills("known", "fresh")
UserFormSave == Saves(2, "closes")
UserFormFace == Window("idle", "held")
UserFormSides == {"resetPassword", "pullSip", "saveSip", "toggleActive"}
ClosingSides == {"resetPassword", "toggleActive"}
\* Roles.
RolesPage == Page("none", "after", "held", "error")
RoleFormOpens == Fills("known", "fresh")
RoleFormSave == Saves(1, "closes")
RoleFormFace == Window("idle", "held")
\* Groups of the team chat.
NewGroupSave == Saves(1, "closes")
NewGroupFace == Window("never", "held")
GroupSettingsOpens == Fills("follows", "kept")
GroupSettingsSave == Saves(2, "closes")
GroupSettingsFace == Window("never", "held")
GroupPage == Page("none", "after", "held", "kept")
AddPeopleSave == Saves(1, "closes")
AddPeopleFace == Window("never", "held")
NewDMForm == Window("never", "held") ++ Saves(1, "closes") ++ Fills("empty", "kept")
\* Devices, automatic rules, chatbots, templates, teams, quick replies and
\* integrations of the WhatsApp settings.
ChannelsPage == Page("none", "after", "held", "empty")
ChannelFormSave == Saves(1, "closes")
ChannelFormFace == Window("idle", "free")
MembersForm == Window("never", "free") ++ Saves(1, "closes") ++ Fills("known", "fresh")
RulesPage == Page("whole", "first", "held", "empty")
RuleFormSave == Saves(1, "closes")
RuleFormFace == Window("idle", "free")
CopyRulesForm == Window("never", "free") ++ Saves(1, "closes") ++ Fills("empty", "fresh")
BotsPage == Page("whole", "after", "held", "empty")
BotCreateForm == Window("never", "free") ++ Saves(1, "leaves") ++ Fills("empty", "fresh")
BotSettingsForm == Window("never", "free") ++ Saves(1, "closes") ++ Fills("known", "fresh")
BotCopyForm == Window("never", "free") ++ Saves(1, "closes") ++ Fills("empty", "fresh")
TemplatesPage == Page("none", "after", "free", "empty")
TemplateFillForm == Card("free") ++ Saves(1, "keeps") ++ Fills("known", "fresh")
TemplateFormSave == Saves(1, "closes")
TemplateFormFace == Window("idle", "free")
TeamsPage == Page("none", "after", "free", "empty")
TeamForm == Window("idle", "free") ++ Saves(1, "closes") ++ Fills("known", "fresh")
QuickPage == Page("none", "after", "free", "empty")
QuickForm == Window("idle", "free") ++ Saves(1, "closes") ++ Fills("known", "fresh")
QuickCopyForm == Window("never", "free") ++ Saves(1, "closes") ++ Fills("empty", "fresh")
IntegrationsPage == Page("none", "after", "held", "empty")
IntegrationForm == Window("idle", "free") ++ Saves(1, "closes") ++ Fills("known", "fresh")
\* A copy of the settings of another device: the settings, then the replies
\* and the rules, each a request.
CopySettingsForm == Window("never", "free") ++ Saves(3, "closes") ++ Fills("empty", "fresh")
\* The callback of a customer and the texts of WhatsApp messages.
CallbackForm == Window("always", "held") ++ Saves(1, "closes") ++ Fills("empty", "fresh")
TextsFormOpens == Fills("follows", "kept")
TextsFormSave == Saves(1, "closes")
TextsFormFace == Window("never", "held")
\* The hand-over of a chat, the template sent in a chat, and the first message
\* to a number: the chat is opened, then the template is sent in it.
AssignForm == Window("never", "free") ++ Saves(1, "closes") ++ Fills("empty", "kept")
TemplateSend == Window("never", "free") ++ Saves(1, "closes") ++ Fills("empty", "kept")
NewChatForm == Window("never", "free") ++ Saves(2, "closes") ++ Fills("empty", "fresh")
\* Cards.
DeviceCardOpens == Fills("follows", "kept")
DeviceCardSave == Saves(1, "answer")
DeviceCardFace == Card("free")
BreakLimitCard == Card("free") ++ Saves(1, "answer") ++ Early("default")
RealCallCard == Card("free") ++ Saves(1, "answer") ++ Early("default")
MfaPolicyCard == Card("free") ++ Saves(1, "answer") ++ Fills("loaded", "kept")
WorkdayCard == Card("free") ++ Saves(1, "answer") ++ Fills("loaded", "kept")
AICard == Card("free") ++ Saves(1, "answer") ++ Fills("loaded", "kept")
SurveyCardOpens == Fills("again", "kept")
SurveyCardSave == Saves(1, "answer")
SurveyCardFace == Card("free")
BackupCardSave == Saves(1, "answer") ++ Early("keeps")
BackupCardFace == Card("held")
DrivePage == Page("none", "after", "held", "error")
BansPage == Page("none", "after", "held", "empty")
ProfileSave == Saves(2, "closes")
ProfileOpens == Fills("known", "kept")
ProfileFace == [at |-> "window", asks |-> "held", cancel |-> "held", fields |-> "held"]
PasswordForm == Card("free") ++ [steps |-> 1, done |-> "leaves", failure |-> "clears"] ++ Fills("empty", "fresh")
GamesPage == Page("whole", "after", "none", "error")
PoolPage == Page("whole", "after", "held", "error")
PoolForm == Card("free") ++ Saves(1, "clears") ++ Fills("empty", "kept")

Forms ==
  { MenuFormFace ++ MenuFormSave ++ MenuFormOpens ++ MenuPage,
    UserFormFace ++ UserFormSave ++ UserFormOpens ++ UsersPage,
    RoleFormFace ++ RoleFormSave ++ RoleFormOpens ++ RolesPage,
    NewGroupFace ++ NewGroupSave ++ Fills("empty", "kept") ++ NoPage,
    GroupSettingsFace ++ GroupSettingsSave ++ GroupSettingsOpens ++ GroupPage,
    AddPeopleFace ++ AddPeopleSave ++ Fills("empty", "kept") ++ NoPage,
    NewDMForm ++ NoPage,
    ChannelFormFace ++ ChannelFormSave ++ Fills("known", "fresh") ++ ChannelsPage,
    MembersForm ++ ChannelsPage,
    RuleFormFace ++ RuleFormSave ++ Fills("known", "fresh") ++ RulesPage,
    CopyRulesForm ++ RulesPage,
    BotCreateForm ++ BotsPage,
    BotSettingsForm ++ BotsPage,
    BotCopyForm ++ BotsPage,
    TemplateFillForm ++ TemplatesPage,
    TemplateFormFace ++ TemplateFormSave ++ Fills("empty", "fresh") ++ TemplatesPage,
    TeamForm ++ TeamsPage,
    QuickForm ++ QuickPage,
    QuickCopyForm ++ QuickPage,
    IntegrationForm ++ IntegrationsPage,
    CopySettingsForm ++ NoPage,
    CallbackForm ++ NoPage,
    TextsFormFace ++ TextsFormSave ++ TextsFormOpens ++ NoPage,
    AssignForm ++ NoPage, TemplateSend ++ NoPage, NewChatForm ++ NoPage,
    DeviceCardFace ++ DeviceCardSave ++ DeviceCardOpens ++ NoPage,
    BreakLimitCard ++ NoPage,
    RealCallCard ++ NoPage,
    MfaPolicyCard ++ BansPage,
    WorkdayCard ++ DrivePage,
    AICard ++ NoPage,
    SurveyCardFace ++ SurveyCardSave ++ SurveyCardOpens ++ NoPage,
    BackupCardSave ++ BackupCardFace ++ NoPage,
    ProfileFace ++ ProfileSave ++ ProfileOpens ++ NoPage,
    PasswordForm ++ NoPage,
    PoolForm ++ GamesPage,
    PoolForm ++ PoolPage }

---------------------------------------------------------------------------
FormsTypeOK ==
  /\ thisForm \in Forms
  /\ record.text \in Text /\ record.on \in BOOLEAN /\ record.there \in BOOLEAN
  /\ edits \in 0 .. MaxEdits
  /\ listing \in {"loading", "shown", "empty", "error"}
  /\ window \in {"shut", "open", "asking", "loading", "left"} /\ visit \in 0 .. MaxVisits
  /\ {text, filled, mine} \cup savedTexts \cup unasked \subseteq Text
  /\ locked \in BOOLEAN /\ failed \in BOOLEAN /\ late \in BOOLEAN /\ quick \in 0 .. MaxQuick
  /\ \A s \in sends : s.state \in {"asked", "done", "refused"} /\ s.visit \in 0 .. MaxVisits
  /\ typed \in 0 .. MaxTexts

FormAsks(what, step, row) == [what |-> what, step |-> step, row |-> row, visit |-> visit, state |-> "asked"]
NewRow == [text |-> Unwritten, on |-> TRUE, there |-> TRUE]
ListAsked == FormAsks("list", 1, NewRow)

\* A window is shut at first; a card is on its page and asks for what it shows.
FormsInit ==
  /\ thisForm \in Forms
  /\ record = NewRow /\ edits = 0
  /\ copy = record /\ listing = "loading"
  /\ window = (IF thisForm.at = "window" THEN "shut" ELSE IF thisForm.fill \in {"loaded", "again"} THEN "loading" ELSE "open")
  /\ visit = 0 /\ text = Unwritten /\ filled = Unwritten
  /\ locked = FALSE /\ failed = FALSE /\ quick = 0
  /\ sends = {[what |-> w, step |-> 1, row |-> NewRow, visit |-> 0, state |-> "asked"] :
                w \in {"list"} \cup (IF thisForm.fill \in {"loaded", "again", "early"} THEN {"fill"} ELSE {})}
  /\ typed = 0 /\ mine = Unwritten /\ savedTexts = {} /\ unasked = {} /\ late = FALSE

---------------------------------------------------------------------------
(* The server. *)

\* It does what a request asks, and answers with what it has; or refuses.  A
\* step of a save stores its part, the last one all of it.
ServeForm(s) ==
  /\ s \in sends /\ s.state = "asked"
  /\ \E ok \in BOOLEAN :
       /\ (ok /\ s.what \in {"toggle", "remove", "side"}) => record.there
       /\ sends' = (sends \ {s}) \cup
            {[s EXCEPT !.state = IF ok THEN "done" ELSE "refused",
                       !.row = IF s.what \in {"list", "fill"} THEN record ELSE @]}
       /\ record' = CASE ok /\ s.what = "remove" -> [record EXCEPT !.there = FALSE]
                      [] ok /\ s.what = "toggle" -> [record EXCEPT !.on = s.row.on,
                             !.text = IF thisForm.switch = "whole" THEN s.row.text ELSE @]
                      [] ok /\ s.what = "save" -> [record EXCEPT !.text = s.row.text]
                      [] OTHER -> record
       /\ savedTexts' = IF ok /\ s.what = "save" /\ s.step = thisForm.steps THEN savedTexts \cup {s.row.text} ELSE savedTexts
  /\ UNCHANGED <<thisForm, edits, copy, listing, windowVars, locked, failed, quick, typed, mine, unasked, late>>

\* Somebody else changes the record.
RecordChanges ==
  /\ edits < MaxEdits /\ record.there
  /\ edits' = edits + 1 /\ record' = [record EXCEPT !.text = MaxTexts + edits + 1]
  /\ UNCHANGED <<thisForm, copy, listing, windowVars, locked, failed, sends, quick, typed, mine, ghostVars>>

---------------------------------------------------------------------------
(* The window. *)

\* The person opens the window: for a new record the fields are empty, for
\* the one in the list they hold the page's copy of it.
Open ==
  /\ window = "shut" /\ thisForm.at = "window" /\ visit < MaxVisits
  /\ thisForm.fill # "empty" => listing = "shown" /\ copy.there
  /\ window' = "open" /\ visit' = visit + 1 /\ failed' = FALSE
  /\ text' = (IF thisForm.fill = "empty" THEN Unwritten ELSE copy.text) /\ filled' = text'
  /\ locked' = (locked /\ thisForm.mounted = "kept")
  /\ UNCHANGED <<thisForm, pageVars, sends, quick, typed, mine, ghostVars>>

\* The person types, also during a save unless that locks the fields.
TypeText ==
  /\ window = "open" /\ typed < MaxTexts
  /\ thisForm.fields = "held" => ~locked
  /\ typed' = typed + 1 /\ text' = typed + 1 /\ mine' = typed + 1 /\ late' = FALSE
  /\ UNCHANGED <<thisForm, pageVars, window, visit, filled, locked, failed, sends, quick, savedTexts, unasked>>

\* A card that fills in a default can be saved only once it was read.
Save ==
  /\ window = "open" /\ ~locked /\ text # Unwritten
  /\ thisForm.unread = "default" => ~(\E s \in sends : s.what = "fill")
  /\ locked' = TRUE /\ failed' = FALSE
  /\ sends' = sends \cup {FormAsks("save", 1, [copy EXCEPT !.text = text])}
  /\ UNCHANGED <<thisForm, pageVars, windowVars, quick, typed, mine, ghostVars>>

\* The answer unlocks the opening it belongs to, or whichever is on when
\* all openings share a component.
OwnOpening(s) == s.visit = visit \/ thisForm.mounted = "kept"
Unlock(s) == locked' = (locked /\ ~OwnOpening(s))
Answered(s, what) == s \in sends /\ s.what = what /\ s.state = "done"
Failed(s, what) == s \in sends /\ s.what = what /\ s.state # "asked"

\* One step of a save is done and the next is asked.
NextStep(s) ==
  /\ Answered(s, "save") /\ s.step < thisForm.steps
  /\ sends' = (sends \ {s}) \cup {[s EXCEPT !.step = @ + 1, !.state = "asked"]}
  /\ UNCHANGED <<thisForm, pageVars, windowVars, locked, failed, quick, typed, mine, ghostVars>>

\* The last one is done: the window closes, whichever opening is on, and the
\* list is read again; or the fields show the answer; or they stay.
Saved(s) ==
  /\ Answered(s, "save") /\ s.step = thisForm.steps
  /\ Unlock(s) /\ late' = (late \/ s.visit # visit \/ s.row.text # mine)
  /\ sends' = (sends \ {s}) \cup (IF thisForm.done = "closes" THEN {ListAsked} ELSE {})
  /\ window' = CASE thisForm.done = "closes" -> "shut"
                 [] thisForm.done = "leaves" -> "left"
                 [] OTHER -> window
  /\ text' = CASE thisForm.done = "answer" -> s.row.text
               [] thisForm.done = "clears" -> Unwritten
               [] OTHER -> text
  /\ filled' = CASE thisForm.done \in {"answer", "keeps"} -> s.row.text
                 [] thisForm.done = "clears" -> Unwritten
                 [] OTHER -> filled
  /\ UNCHANGED <<thisForm, pageVars, visit, failed, quick, typed, mine, savedTexts, unasked>>

\* A bug to be caught: the window is closed when the save ends, however it ends.
SaveFailsClosing(s) ==
  /\ Failed(s, "save")
  /\ Unlock(s) /\ failed' = (failed \/ OwnOpening(s))
  /\ sends' = sends \ {s}
  /\ window' = IF thisForm.at = "window" THEN "shut" ELSE window
  /\ text' = IF thisForm.failure = "clears" THEN Unwritten ELSE text
  /\ UNCHANGED <<thisForm, pageVars, visit, filled, quick, typed, mine, ghostVars>>

\* A step was refused, or its answer was lost: the form stays and says so.
SaveFails(s) ==
  /\ Failed(s, "save")
  /\ Unlock(s) /\ failed' = (failed \/ OwnOpening(s))
  /\ sends' = sends \ {s}
  /\ text' = IF thisForm.failure = "clears" THEN Unwritten ELSE text
  /\ UNCHANGED <<thisForm, pageVars, window, visit, filled, quick, typed, mine, ghostVars>>

Dirty == text # filled
\* Escape, or a press outside.  A window that has changes asks before it
\* closes; most do so only while no save of theirs is under way.
Dismiss ==
  /\ window = "open" /\ thisForm.at = "window" /\ thisForm.asks # "held"
  /\ IF Dirty /\ (thisForm.asks = "always" \/ (thisForm.asks = "idle" /\ ~locked))
     THEN window' = "asking" /\ UNCHANGED <<mine, unasked>>
     ELSE /\ window' = "shut" /\ mine' = Unwritten
          /\ unasked' = IF Dirty /\ thisForm.asks # "never" THEN unasked \cup {text} ELSE unasked
  /\ UNCHANGED <<thisForm, pageVars, visit, text, filled, locked, failed, sends, quick, typed, savedTexts, late>>
GoBack == window = "asking" /\ window' = "open"
          /\ UNCHANGED <<thisForm, pageVars, visit, text, filled, locked, failed, sends, quick, typed, mine, ghostVars>>
Leave == window = "asking" /\ window' = "shut" /\ mine' = Unwritten
         /\ UNCHANGED <<thisForm, pageVars, visit, text, filled, locked, failed, sends, quick, typed, ghostVars>>
\* The window's own cancel button closes at once.
Cancel ==
  /\ window = "open" /\ thisForm.at = "window"
  /\ thisForm.cancel = "held" => ~locked
  /\ window' = "shut" /\ mine' = Unwritten
  /\ UNCHANGED <<thisForm, pageVars, visit, text, filled, locked, failed, sends, quick, typed, ghostVars>>

---------------------------------------------------------------------------
(* The card's loading, and the page's buttons. *)

\* What the card shows came, whatever was typed meanwhile; a card that could
\* not read it goes on waiting, keeps its fields, or shows a default as if it
\* were stored.
CardLoads(s) ==
  /\ Answered(s, "fill") /\ sends' = sends \ {s}
  /\ window' = (IF window = "loading" THEN "open" ELSE window)
  /\ text' = s.row.text /\ filled' = s.row.text /\ late' = TRUE
  /\ UNCHANGED <<thisForm, pageVars, visit, locked, failed, quick, typed, mine, savedTexts, unasked>>
CardFails(s) ==
  /\ s \in sends /\ s.what = "fill" /\ s.state = "refused" /\ sends' = sends \ {s}
  /\ failed' = TRUE
  /\ IF thisForm.unread = "default" THEN text' = Unwritten /\ filled' = Unwritten /\ late' = TRUE
                                    ELSE UNCHANGED <<text, filled, late>>
  /\ UNCHANGED <<thisForm, pageVars, window, visit, locked, quick, typed, mine, savedTexts, unasked>>

\* The list came, or not: a card that is read again with it is asked for.
Rereads == IF thisForm.fill = "again" THEN {FormAsks("fill", 2, NewRow)} ELSE {}

\* Fields that follow the record are filled again.
ListLoads(s) ==
  /\ Answered(s, "list") /\ sends' = (sends \ {s}) \cup Rereads
  /\ listing' = "shown" /\ copy' = s.row
  /\ IF thisForm.fill = "follows" /\ window \in {"open", "asking"}
     THEN text' = s.row.text /\ filled' = s.row.text ELSE UNCHANGED <<text, filled>>
  /\ UNCHANGED <<thisForm, record, edits, window, visit, locked, failed, quick, typed, mine, ghostVars>>
\* A card of what the list holds is gone with it.
ListFails(s) ==
  /\ s \in sends /\ s.what = "list" /\ s.state = "refused" /\ sends' = (sends \ {s}) \cup Rereads
  /\ listing' = IF thisForm.unlisted = "kept" THEN "shown" ELSE thisForm.unlisted
  /\ window' = IF thisForm.at = "card" /\ thisForm.fill \in {"follows", "again"} THEN "left" ELSE window
  /\ UNCHANGED <<thisForm, record, edits, copy, visit, text, filled, locked, failed, quick, typed, mine, ghostVars>>

\* The switch of a row: a request with the copy the page has of the record.
Toggle ==
  /\ thisForm.switch # "none" /\ listing = "shown" /\ copy.there /\ quick < MaxQuick /\ window = "shut"
  /\ quick' = quick + 1 /\ sends' = sends \cup {FormAsks("toggle", 1, [copy EXCEPT !.on = ~@])}
  /\ copy' = IF thisForm.shows = "first" THEN [copy EXCEPT !.on = ~@] ELSE copy
  /\ UNCHANGED <<thisForm, record, edits, listing, windowVars, locked, failed, typed, mine, ghostVars>>
\* A change shown first is read again only when it failed.
Toggled(s) ==
  /\ s \in sends /\ s.what = "toggle" /\ s.state # "asked"
  /\ LET again == thisForm.shows = "after" <=> s.state = "done" IN
     sends' = (sends \ {s}) \cup (IF again THEN {ListAsked} ELSE {})
  /\ failed' = (failed \/ s.state = "refused")
  /\ UNCHANGED <<thisForm, pageVars, windowVars, locked, quick, typed, mine, ghostVars>>

\* A removal the person confirmed; while it is under way its button is
\* locked, or may be pressed again.
Remove ==
  /\ thisForm.removal # "none" /\ listing = "shown" /\ copy.there /\ quick < MaxQuick /\ window = "shut"
  /\ thisForm.removal = "held" => ~(\E s \in sends : s.what = "remove")
  /\ quick' = quick + 1 /\ sends' = sends \cup {FormAsks("remove", quick + 1, copy)}
  /\ UNCHANGED <<thisForm, pageVars, windowVars, locked, failed, typed, mine, ghostVars>>
Removed(s) ==
  /\ s \in sends /\ s.what = "remove" /\ s.state # "asked"
  /\ sends' = (sends \ {s}) \cup (IF s.state = "done" THEN {ListAsked} ELSE {})
  /\ failed' = (failed \/ s.state = "refused")
  /\ UNCHANGED <<thisForm, pageVars, windowVars, locked, quick, typed, mine, ghostVars>>

\* The other buttons of the user's form; two of them close it.
UserSide(b) ==
  /\ thisForm = UserFormFace ++ UserFormSave ++ UserFormOpens ++ UsersPage
  /\ window = "open" /\ ~locked /\ quick < MaxQuick
  /\ quick' = quick + 1 /\ locked' = TRUE /\ failed' = FALSE
  /\ sends' = sends \cup {FormAsks("side", IF b \in ClosingSides THEN 1 ELSE 2, copy)}
  /\ UNCHANGED <<thisForm, pageVars, windowVars, typed, mine, ghostVars>>
SideDone(s) ==
  /\ s \in sends /\ s.what = "side" /\ s.state # "asked"
  /\ Unlock(s) /\ late' = (late \/ s.visit # visit)
  /\ failed' = (failed \/ (OwnOpening(s) /\ s.state = "refused"))
  /\ LET closes == s.state = "done" /\ s.step = 1 IN
     /\ window' = IF closes THEN "shut" ELSE window
     /\ mine' = IF closes THEN Unwritten ELSE mine
     /\ sends' = (sends \ {s}) \cup (IF closes THEN {ListAsked} ELSE {})
  /\ UNCHANGED <<thisForm, pageVars, visit, text, filled, quick, typed, savedTexts, unasked>>

FormsNext ==
  \/ RecordChanges \/ Open \/ TypeText \/ Save \/ Dismiss \/ GoBack \/ Leave \/ Cancel
  \/ Toggle \/ Remove \/ \E b \in UserFormSides : UserSide(b)
  \/ \E s \in sends :
       \/ ServeForm(s) \/ NextStep(s) \/ Saved(s) \/ SaveFails(s)
       \/ CardLoads(s) \/ CardFails(s) \/ ListLoads(s) \/ ListFails(s)
       \/ Toggled(s) \/ Removed(s) \/ SideDone(s)

FormsSpec == FormsInit /\ [][FormsNext]_formVars

---------------------------------------------------------------------------
(* Properties. *)

\* What a person typed last into a form and did not give up is still in the
\* form, or the server stored it: no failing save, no reading of the list, no
\* change by others and no failing button loses it.  Giving up is to close the
\* window, or to press a button of the user's form that closes it when done.
\* Three things are left out because the code does lose the text then: fields
\* that follow the record or are read again with the list; a form that clears
\* itself when its save fails; and an answer to what was asked before the text
\* was typed - by an earlier opening of the window, by a save of an older text
\* (the fields are free meanwhile), or by a card that was still being read.
TypedIsKept ==
  mine # Unwritten /\ thisForm.fill \notin {"follows", "again"} /\ thisForm.failure = "keeps" /\ ~late
    => (window \in {"open", "asking"} /\ text = mine) \/ mine \in savedTexts

\* "When dirty is set, it asks first so unsaved changes are not lost by
\* accident": whatever was closed without a question was stored, or is being
\* stored.
AsksBeforeLoss ==
  unasked \subseteq savedTexts \cup {s.row.text : s \in {r \in sends : r.what = "save" /\ r.state # "refused"}}
================================================================================
