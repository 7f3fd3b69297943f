--------------------------------- MODULE Lists ---------------------------------
(***************************************************************************)
(* The lists, searches and reports of the panel.  All of them are the same  *)
(* machine: a filter, requests that are answered in any order, rows, and     *)
(* buttons that change a row and read the list again.  They differ in whose  *)
(* answers count, in what a failure leaves on the screen, in when a filter   *)
(* is applied and in what a button shows before its answer.  A list is the   *)
(* record of these details; Init picks one.                                  *)
(*                                                                          *)
(* A filter is a choice made with a press and a text that is typed.          *)
(*                                                                          *)
(* Bounds: MaxMoves changes of the filter, the page and refreshes,            *)
(* MaxPolls readings nobody asked for, MaxActs presses on a row, MaxMore     *)
(* requests for further rows.                                                *)
(***************************************************************************)
EXTENDS PanelNames, Naturals, FiniteSets

CONSTANTS MaxMoves, MaxPolls, MaxActs, MaxMore

VARIABLES
  thisList,               \* the list
  chosen, applied, waiting, pageNo, \* the filter on the screen, the one asked with,
                          \* whether a wait for the next key is on, the page
  era, newest,            \* how often the asking was restarted; the newest request
  table, loading, error,  \* what the screen holds
  asks,                   \* requests and their answers
  acted,                  \* what the server did of the person's presses
  moves, readings, acts, mores

filterVars == <<chosen, applied, waiting, pageNo>>
screenVars == <<table, loading, error>>
countVars == <<moves, readings, acts, mores>>
listVars == <<thisList, filterVars, era, newest, screenVars, asks, acted, countVars>>

---------------------------------------------------------------------------
(* What a list is made of. *)

\* An answer counts when it is to the "latest" request, when the filter was
\* not changed "since", when it is to the filter on the screen ("keyed"), or
\* always ("any").  A failure "clears" the rows or "keeps" them, and the page
\* "says" so or is "silent".
Reads(counts, failure, tells) == [counts |-> counts, failure |-> failure, tells |-> tells]
\* The presses of the filter and its texts; a text is applied after a pause
\* ("typed"), or holds everything back at once ("held"; "late" when the page
\* says so only after the pause).
Filters(picks, texts, types) == [picks |-> picks, texts |-> texts, types |-> types]
Picked == {"a", "b"}
Ranged == Picked \cup {"unfit"}
Typed == {"x", "y"}
Searched == Typed \cup {"short"}
Unfiltered == Filters({"a"}, {"x"}, "typed")
\* A filter that cannot be asked "clears" the page, only "blanks" its rows or
\* "stays" without effect; a change of the filter "wipes" the rows at once.
Unasked(unfit, wipes) == [unfit |-> unfit, wipes |-> wipes]
\* The page "turns", is "one", or grows by further rows ("more", which is
\* guarded like a reading, or "free", which is not); it "locks" its rows while
\* it loads; it has a button to read again; it is read on its own.
Pages(pages, locks, refresh, polled) == [pages |-> pages, locks |-> locks, refresh |-> refresh, polled |-> polled]
\* A press on a row is shown when it is made ("press"), when it is "done" or
\* "never"; the list is read again "always", when it is "done" or "refused",
\* or "never".
Acts(shows, again) == [shows |-> shows, again |-> again]
NoActs == Acts("none", "never")

CallsReads == Reads("since", "clears", "says")
CallsFilter == Filters(Ranged, Typed, "typed") ++ Unasked("clears", FALSE)
CallsFace == Pages("turns", TRUE, TRUE, FALSE)
CallHistoryReads == Reads("any", "keeps", "says") ++ Unfiltered ++ Unasked("stays", FALSE)
CallHistoryFace == Pages("one", FALSE, FALSE, TRUE)
CategoriesReads == Reads("any", "clears", "says") ++ Unfiltered ++ Unasked("stays", FALSE) ++ Pages("one", FALSE, FALSE, FALSE)
CategoryMoves == Acts("press", "always")
CategoryAdds == Acts("never", "done")
EscalationReads == Reads("since", "clears", "says") ++ Unasked("stays", FALSE)
EscalationFilter == Filters(Ranged, Typed, "typed")
EscalationFace == Pages("turns", FALSE, FALSE, FALSE)
AuditReads == Reads("latest", "clears", "silent")
AuditFilter == Filters(Picked, Typed, "held") ++ Unasked("stays", FALSE)
AuditFace == Pages("turns", FALSE, FALSE, FALSE)
CallbackReads == Reads("latest", "keeps", "says") ++ Filters(Picked, {"x"}, "typed") ++ Unasked("stays", FALSE)
CallbackActs == Acts("press", "refused")
CallbackFace == Pages("one", FALSE, TRUE, TRUE)
UsersReads == Reads("latest", "clears", "silent")
UsersFilter == Filters(Picked, Typed, "held") ++ Unasked("stays", FALSE)
UsersFace == Pages("turns", FALSE, FALSE, FALSE)
UsersActs == Acts("never", "done")
RatingsReads == Reads("latest", "keeps", "says") ++ Unasked("stays", FALSE)
RatingsFilter == Filters(Ranged, Typed, "typed")
RatingsFace == Pages("free", FALSE, FALSE, FALSE)
RatingsActs == Acts("done", "done")
RatingLinkReads == Reads("any", "keeps", "says") ++ Unfiltered ++ Unasked("stays", FALSE) ++ Pages("one", FALSE, FALSE, FALSE)
RatingLinkCreate == Acts("done", "never")
RatingLinkRevoke == Acts("never", "done")
TeamReads == Reads("since", "keeps", "says") ++ Unasked("stays", FALSE)
TeamFilter == Filters(Ranged, {"x"}, "typed")
TeamFace == Pages("one", FALSE, FALSE, TRUE)
FollowupReads == Reads("any", "keeps", "says") ++ Unasked("stays", TRUE)
FollowupFilter == Filters(Picked, {"x"}, "typed") ++ Pages("one", FALSE, FALSE, TRUE)
UnreachedActs == Acts("never", "always")
ReportReads == Reads("since", "keeps", "says") ++ Filters(Ranged, {"x"}, "typed") ++ Unasked("stays", FALSE)
ReportFace == Pages("one", FALSE, FALSE, FALSE)
LookupReads == Reads("since", "keeps", "says") ++ Filters({"a"}, Searched, "held") ++ Unasked("blanks", FALSE)
LookupFace == Pages("one", FALSE, FALSE, FALSE)
WarningReads == Reads("any", "keeps", "silent") ++ Unfiltered ++ Unasked("stays", FALSE)
WarningFace == Pages("one", FALSE, FALSE, TRUE)
NoticeReads == Reads("any", "keeps", "silent") ++ Unfiltered ++ Unasked("stays", FALSE)
NoticeFace == Pages("one", FALSE, FALSE, TRUE)
NoticeActs == Acts("done", "never")
RoomSearch == Reads("since", "keeps", "says") ++ Filters({"a"}, Searched, "late") ++ Unasked("blanks", FALSE) ++ Pages("one", FALSE, FALSE, FALSE)
RoomMedia == Reads("keyed", "keeps", "says") ++ Filters(Picked, {"x"}, "typed") ++ Unasked("stays", TRUE) ++ Pages("more", FALSE, FALSE, FALSE)
OlderChats == Reads("since", "keeps", "silent") ++ Filters(Picked, Typed, "held") ++ Unasked("stays", FALSE)
OlderMore == Pages("free", FALSE, FALSE, FALSE)
TicketHistory == Reads("since", "clears", "silent") ++ Filters(Picked, {"x"}, "typed") ++ Unasked("stays", FALSE)
TicketActs == Acts("press", "never")
TicketFace == Pages("one", FALSE, FALSE, FALSE)
EventsList == Reads("any", "clears", "silent") ++ Unfiltered ++ Unasked("stays", FALSE) ++ Pages("one", FALSE, TRUE, FALSE) ++ UsersActs
ProfileReads == Reads("any", "keeps", "says") ++ Filters(Picked, {"x"}, "typed") ++ Unasked("stays", FALSE) ++ Pages("one", FALSE, FALSE, FALSE)
RecordReads == Reads("since", "keeps", "says") ++ Filters(Ranged, {"x"}, "typed") ++ Unasked("stays", FALSE)

Lists ==
  { CallsReads ++ CallsFilter ++ CallsFace ++ NoActs,
    CallHistoryReads ++ CallHistoryFace ++ NoActs,
    CategoriesReads ++ CategoryMoves, CategoriesReads ++ CategoryAdds,
    EscalationReads ++ EscalationFilter ++ EscalationFace ++ NoActs,
    AuditReads ++ AuditFilter ++ AuditFace ++ NoActs,
    CallbackReads ++ CallbackFace ++ CallbackActs,
    UsersReads ++ UsersFilter ++ UsersFace ++ UsersActs,
    RatingsReads ++ RatingsFilter ++ RatingsFace ++ RatingsActs,
    RatingLinkReads ++ RatingLinkCreate, RatingLinkReads ++ RatingLinkRevoke,
    TeamReads ++ TeamFilter ++ TeamFace ++ NoActs,
    FollowupReads ++ FollowupFilter ++ UnreachedActs,
    ReportReads ++ ReportFace ++ NoActs,
    LookupReads ++ LookupFace ++ NoActs,
    WarningReads ++ WarningFace ++ NoActs,
    NoticeReads ++ NoticeFace ++ NoticeActs,
    RoomSearch ++ NoActs, RoomMedia ++ NoActs,
    OlderChats ++ OlderMore ++ NoActs,
    TicketHistory ++ TicketFace ++ TicketActs,
    EventsList,
    ProfileReads ++ NoActs, RecordReads ++ ReportFace ++ NoActs }

---------------------------------------------------------------------------
Filter == [pick : Ranged, text : Searched]
Unfit(f) == f.pick = "unfit" \/ f.text = "short"
Blank == [there |-> FALSE, of |-> [pick |-> "a", text |-> "x"], page |-> 1, acts |-> 0, parts |-> {}]

ListsTypeOK ==
  /\ thisList \in Lists
  /\ chosen \in Filter /\ applied \in Filter /\ waiting \in BOOLEAN /\ pageNo \in 1 .. 2
  /\ table.there \in BOOLEAN /\ table.of \in Filter /\ table.page \in 1 .. 2
  /\ table.acts \in 0 .. MaxActs /\ table.parts \subseteq Filter
  /\ loading \in BOOLEAN /\ error \in BOOLEAN
  /\ \A r \in asks : /\ r.what \in {"load", "more", "act"} /\ r.state \in {"asked", "done", "refused"}
                     /\ r.n <= newest /\ r.era <= era
  /\ acted \in 0 .. MaxActs /\ moves \in 0 .. MaxMoves
  /\ readings \in 0 .. MaxPolls /\ acts \in 0 .. MaxActs /\ mores \in 0 .. MaxMore

\* No two requests are one: what is read has a number, and a press or a
\* request for further rows is the nth.
ListAsks(what, f, pg, n, e) ==
  [what |-> what, of |-> f, page |-> pg, n |-> n, era |-> e, acts |-> table.acts, state |-> "asked",
   nth |-> IF what = "load" THEN 0 ELSE acts + mores]

\* The page is opened, and reads what its filter says if it can be asked.
ListsInit ==
  /\ thisList \in Lists
  /\ chosen = [pick |-> "a", text |-> IF "short" \in thisList.texts THEN "short" ELSE "x"]
  /\ applied = chosen /\ waiting = FALSE /\ pageNo = 1
  /\ era = 1 /\ newest = 1 /\ table = Blank /\ error = FALSE
  /\ loading = ~Unfit(chosen)
  /\ asks = IF Unfit(chosen) THEN {}
            ELSE {[what |-> "load", of |-> chosen, page |-> 1, n |-> 1, era |-> 1, acts |-> 0,
                   state |-> "asked", nth |-> 0]}
  /\ acted = 0 /\ moves = 0 /\ readings = 0 /\ acts = 0 /\ mores = 0

---------------------------------------------------------------------------
(* Asking. *)

Ask(f, pg) ==
  /\ era' = era + 1 /\ newest' = newest + 1 /\ loading' = TRUE
  /\ asks' = asks \cup {ListAsks("load", f, pg, newest + 1, era + 1)}
  /\ table' = IF thisList.wipes THEN Blank ELSE table
  /\ UNCHANGED error

\* A filter that cannot be asked: what was asked before is out of date, but
\* for a list that looks at the latest request only.
AskNothing ==
  /\ era' = era + 1
  /\ table' = IF thisList.unfit = "stays" THEN table ELSE Blank
  /\ error' = (error /\ thisList.unfit = "stays")
  /\ loading' = (loading /\ thisList.unfit # "clears")
  /\ UNCHANGED <<newest, asks>>

ApplyFilter(f, pg) ==
  /\ applied' = f /\ pageNo' = pg /\ waiting' = FALSE
  /\ IF Unfit(f) THEN AskNothing ELSE Ask(f, pg)

\* A list that is held back forgets what it asked, and asks after the pause.
Hold(f, pg) ==
  /\ applied' = f /\ pageNo' = pg
  /\ IF Unfit(f) THEN AskNothing /\ waiting' = FALSE
     ELSE /\ era' = era + 1 /\ newest' = newest + 1 /\ waiting' = TRUE
          /\ loading' = (loading \/ thisList.types = "held")
          /\ UNCHANGED <<table, error, asks>>
Held == thisList.types \in {"held", "late"}

Pick(p) ==
  /\ p \in thisList.picks \ {chosen.pick} /\ moves < MaxMoves
  /\ moves' = moves + 1 /\ chosen' = [chosen EXCEPT !.pick = p]
  /\ IF Held THEN Hold(chosen', 1)
     ELSE /\ applied' = [applied EXCEPT !.pick = p] /\ pageNo' = 1 /\ UNCHANGED waiting
          /\ IF Unfit(applied') THEN AskNothing ELSE Ask(applied', 1)
  /\ UNCHANGED <<thisList, acted, readings, acts, mores>>

TypeFilter(t) ==
  /\ t \in thisList.texts \ {chosen.text} /\ moves < MaxMoves
  /\ moves' = moves + 1 /\ chosen' = [chosen EXCEPT !.text = t]
  /\ IF Held THEN Hold(chosen', 1)
     ELSE waiting' = TRUE /\ UNCHANGED <<applied, pageNo, era, newest, screenVars, asks>>
  /\ UNCHANGED <<thisList, acted, readings, acts, mores>>

\* The pause after the last key is over.
Settle ==
  /\ waiting
  /\ IF Held
     THEN /\ waiting' = FALSE /\ loading' = TRUE
          /\ asks' = asks \cup {ListAsks("load", applied, pageNo, newest, era)}
          /\ UNCHANGED <<applied, pageNo, era, newest, table, error>>
     ELSE IF chosen = applied THEN waiting' = FALSE /\ UNCHANGED <<applied, pageNo, era, newest, screenVars, asks>>
     ELSE ApplyFilter(chosen, 1)
  /\ UNCHANGED <<thisList, chosen, acted, countVars>>

Reachable == table.there /\ (thisList.locks => ~loading)
Turn ==
  /\ thisList.pages = "turns" /\ Reachable /\ moves < MaxMoves /\ ~Unfit(applied)
  /\ moves' = moves + 1
  /\ IF Held THEN Hold(applied, 3 - pageNo)
     ELSE pageNo' = 3 - pageNo /\ Ask(applied, 3 - pageNo) /\ UNCHANGED <<applied, waiting>>
  /\ UNCHANGED <<thisList, chosen, acted, readings, acts, mores>>

Refresh ==
  /\ thisList.refresh /\ moves < MaxMoves /\ ~Unfit(applied)
  /\ moves' = moves + 1 /\ Ask(applied, pageNo)
  /\ UNCHANGED <<thisList, filterVars, acted, readings, acts, mores>>

\* The clock, an event or a change elsewhere in the panel reads the list.
ReadAgain ==
  /\ newest' = newest + 1 /\ loading' = (loading \/ thisList.counts = "latest")
  /\ asks' = asks \cup {ListAsks("load", applied, pageNo, newest + 1, era)}
PollList ==
  /\ thisList.polled /\ readings < MaxPolls /\ ~Unfit(applied)
  /\ readings' = readings + 1 /\ ReadAgain
  /\ UNCHANGED <<thisList, filterVars, era, table, error, acted, moves, acts, mores>>

More ==
  /\ thisList.pages \in {"more", "free"} /\ table.there /\ mores < MaxMore
  /\ thisList.pages = "more" => ~loading
  /\ mores' = mores + 1 /\ asks' = asks \cup {ListAsks("more", applied, pageNo, newest, era)}
  /\ loading' = (loading \/ thisList.pages = "more")
  /\ UNCHANGED <<thisList, filterVars, era, newest, table, error, acted, moves, readings, acts>>

---------------------------------------------------------------------------
(* Answers. *)

\* The server does what was pressed, and answers with what it has.
ServeList(r) ==
  /\ r \in asks /\ r.state = "asked"
  /\ \E ok \in BOOLEAN :
       /\ acted' = IF ok /\ r.what = "act" THEN acted + 1 ELSE acted
       /\ asks' = (asks \ {r}) \cup {[r EXCEPT !.state = IF ok THEN "done" ELSE "refused",
                                               !.acts = IF r.what = "load" THEN acted ELSE @]}
  /\ UNCHANGED <<thisList, filterVars, era, newest, screenVars, countVars>>

\* A bug to be caught: whatever is answered last is shown.
CountsAlways(r) == TRUE
Counts(r) ==
  CASE thisList.counts = "latest" -> r.n = newest
    [] thisList.counts = "since" -> r.era = era
    [] thisList.counts = "keyed" -> r.of = applied
    [] OTHER -> TRUE

Answer(r) ==
  /\ r \in asks /\ r.what = "load" /\ r.state # "asked" /\ asks' = asks \ {r}
  /\ IF ~Counts(r) THEN UNCHANGED screenVars
     ELSE /\ loading' = FALSE /\ error' = (r.state = "refused")
          /\ table' = CASE r.state = "done" ->
                            [there |-> TRUE, of |-> r.of, page |-> r.page, acts |-> r.acts, parts |-> {}]
                       [] r.state = "refused" /\ thisList.failure = "clears" -> Blank
                       [] OTHER -> table
  /\ UNCHANGED <<thisList, filterVars, era, newest, acted, countVars>>

AnswerMore(r) ==
  /\ r \in asks /\ r.what = "more" /\ r.state # "asked" /\ asks' = asks \ {r}
  /\ IF thisList.pages = "more" /\ ~Counts(r) THEN UNCHANGED screenVars
     ELSE /\ loading' = (loading /\ thisList.pages = "free")
          /\ error' = (error \/ r.state = "refused")
          /\ table' = IF r.state = "done" THEN [table EXCEPT !.parts = @ \cup {r.of}] ELSE table
  /\ UNCHANGED <<thisList, filterVars, era, newest, acted, countVars>>

---------------------------------------------------------------------------
(* Presses on a row. *)

Act ==
  /\ thisList.shows # "none" /\ Reachable /\ acts < MaxActs
  /\ acts' = acts + 1 /\ asks' = asks \cup {ListAsks("act", applied, pageNo, newest, era)}
  /\ table' = IF thisList.shows = "press" THEN [table EXCEPT !.acts = acts + 1] ELSE table
  /\ UNCHANGED <<thisList, filterVars, era, newest, loading, error, acted, moves, readings, mores>>

\* The press was answered: the row shows it, the list is read again, or what
\* the row showed before is put back.
ActAnswered(r) ==
  /\ r \in asks /\ r.what = "act" /\ r.state # "asked"
  /\ error' = (error \/ r.state = "refused")
  /\ table' = CASE r.state = "done" /\ thisList.shows = "done" /\ table.there -> [table EXCEPT !.acts = acts]
               [] r.state = "refused" /\ thisList.shows = "press" /\ thisList.again = "never" -> [table EXCEPT !.acts = r.acts]
               [] OTHER -> table
  /\ IF thisList.again \in {"always", r.state} /\ ~(Held /\ waiting) /\ ~Unfit(applied)
     THEN /\ newest' = newest + 1 /\ loading' = (loading \/ thisList.counts = "latest")
          /\ asks' = (asks \ {r}) \cup {ListAsks("load", applied, pageNo, newest + 1, era)}
     ELSE asks' = asks \ {r} /\ UNCHANGED <<newest, loading>>
  /\ UNCHANGED <<thisList, filterVars, era, acted, countVars>>

ListsNext ==
  \/ \E p \in Ranged : Pick(p)
  \/ \E t \in Searched : TypeFilter(t)
  \/ Settle \/ Turn \/ Refresh \/ PollList \/ More \/ Act
  \/ \E r \in asks : ServeList(r) \/ Answer(r) \/ AnswerMore(r) \/ ActAnswered(r)

ListsSpec == ListsInit /\ [][ListsNext]_listVars

---------------------------------------------------------------------------
(* Properties. *)

\* Nothing is under way and no typed text waits to be asked.
Quiet == asks = {} /\ ~waiting

\* When everything that was asked is answered and the person stopped typing, a
\* list no longer loads, and it shows the rows of the filter and the page on
\* the screen, with everything the person did to them, unless its last reading
\* failed - in whatever order the answers came.  What is left out the code does
\* not do: lists that take any answer, a filter that cannot be asked (the page
\* may load for ever), further rows that no one guards, and what was pressed on
\* a list that shows it first or does not read again.
ListSettles ==
  Quiet /\ ~Unfit(chosen) /\ (thisList.counts = "any" => thisList.picks \cup thisList.texts = {"a", "x"})
    => /\ ~loading
       /\ error \/ (table.there /\ table.of = chosen /\ table.page = pageNo)
       /\ thisList.pages # "free" => table.parts \subseteq {chosen}
       /\ thisList.counts = "latest" /\ thisList.again = "done" /\ ~error => table.acts = acted
================================================================================
