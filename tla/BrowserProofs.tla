---------------------------- MODULE BrowserProofs ----------------------------
(* Proofs about the browser around the phone of a tab, for every set of     *)
(* calls, customers and tabs and every bound: AfterCall, the questions to   *)
(* the agent; Tabs, the ends of calls on their way to the server; Bridge,   *)
(* what the small phones outside the tab show.                              *)
EXTENDS Tabs, AfterCall, Bridge, SequenceTheorems, TLAPS

-----------------------------------------------------------------------------
(* What is asked after a call.                                             *)

\* Every variable the argument is about keeps its type.
AskTypes ==
    /\ line \in Calls \cup {NoCall} /\ saving \in Calls \cup {NoCall} /\ skipping \in Calls \cup {NoCall}
    /\ phase \in [Calls -> {"none", "ringing", "talking", "over"}]
    /\ length \in [Calls -> {"none", "short", "edge", "long"}]
    /\ cards \in Seq(Calls) /\ doneIds \subseteq Calls
    /\ entry.call \in Calls \cup {NoCall}

\* Something about the call is stored at the server.
IsStored(c) == \E e \in escalations : e.call = c

\* A call is marked done only with something stored about it; its length is
\* known once it is over; a card is of a call that is over, and there once.
DoneIsStored == \A c \in doneIds : IsStored(c)
LengthIsOfTheOver == \A c \in Calls : length[c] = "long" => phase[c] = "over"
CardsAreOfTheOver ==
    \A i, j \in DOMAIN cards : phase[cards[i]] = "over" /\ (cards[i] = cards[j] => i = j)

AskInv == AskTypes /\ DoneIsStored /\ LengthIsOfTheOver /\ CardsAreOfTheOver /\ EveryTalkIsAsked

\* What a sequence's values are: Range of Functions and of its positions.
LEMMA InRange ==
    ASSUME NEW S, NEW s \in Seq(S), NEW x
    PROVE  x \in Range(s) <=> \E i \in 1 .. Len(s) : s[i] = x
<1>1. DOMAIN s = 1 .. Len(s) OBVIOUS
<1> QED BY <1>1 DEF Range

\* Without takes the call's card away and keeps every other, in their order.
LEMMA WithoutKeeps ==
    ASSUME cards \in Seq(Calls), CardsAreOfTheOver, NEW c
    PROVE  /\ Without(c) \in Seq(Calls)
           /\ \A d \in Range(cards) : d = c \/ d \in Range(Without(c))
           /\ \A i, j \in DOMAIN Without(c) :
                /\ Without(c)[i] \in Range(cards)
                /\ Without(c)[i] = Without(c)[j] => i = j
<1>1. CASE c \notin Range(cards)
  <2>1. Without(c) = cards BY <1>1 DEF Without
  <2> QED BY <2>1, InRange DEF CardsAreOfTheOver, Range
<1>2. CASE c \in Range(cards)
  <2>1. PICK k \in 1 .. Len(cards) : k = CHOOSE i \in DOMAIN cards : cards[i] = c
    BY <1>2, InRange
  <2>2. cards[k] = c BY <2>1, <1>2, InRange
  <2> DEFINE before == SubSeq(cards, 1, k - 1)
             after == SubSeq(cards, k + 1, Len(cards))
             w == before \o after
  <2>3. Without(c) = w BY <1>2, <2>1, Zenon DEF Without, RemoveAt
  <2>4. /\ before \in Seq(Calls) /\ Len(before) = k - 1
        /\ \A i \in 1 .. k - 1 : before[i] = cards[i]
    <3>1. /\ before \in Seq(Calls) /\ Len(before) = IF 1 <= k - 1 THEN k - 1 - 1 + 1 ELSE 0
          /\ \A i \in 1 .. k - 1 - 1 + 1 : before[i] = cards[1 + i - 1]
      <4> HIDE DEF before
      <4>1. \A i \in 1 .. k - 1 : cards[i] \in Calls OBVIOUS
      <4> QED BY <4>1, SubSeqProperties DEF before
    <3> HIDE DEF before
    <3> QED BY <3>1
  <2>5. /\ after \in Seq(Calls) /\ Len(after) = Len(cards) - k
        /\ \A i \in 1 .. Len(cards) - k : after[i] = cards[k + i]
    <3>1. /\ after \in Seq(Calls)
          /\ Len(after) = IF k + 1 <= Len(cards) THEN Len(cards) - (k + 1) + 1 ELSE 0
          /\ \A i \in 1 .. Len(cards) - (k + 1) + 1 : after[i] = cards[k + 1 + i - 1]
      <4> HIDE DEF after
      <4>1. \A i \in k + 1 .. Len(cards) : cards[i] \in Calls OBVIOUS
      <4>2. k + 1 \in Int /\ Len(cards) \in Int OBVIOUS
      <4> QED BY <4>1, <4>2, SubSeqProperties DEF after
    <3> HIDE DEF after
    <3> QED BY <3>1
  <2> HIDE DEF before, after
  <2>9. /\ w \in Seq(Calls) /\ Len(w) = Len(cards) - 1
        /\ \A i \in 1 .. Len(w) : w[i] = IF i < k THEN cards[i] ELSE cards[i + 1]
    <3>1. /\ w \in Seq(Calls) /\ Len(w) = Len(before) + Len(after)
          /\ \A i \in 1 .. Len(before) + Len(after) :
               w[i] = IF i <= Len(before) THEN before[i] ELSE after[i - Len(before)]
      BY <2>4, <2>5, ConcatProperties
    <3> HIDE DEF w
    <3>2. Len(w) = Len(cards) - 1 BY <3>1, <2>4, <2>5
    <3>3. ASSUME NEW i \in 1 .. Len(w) PROVE w[i] = IF i < k THEN cards[i] ELSE cards[i + 1]
      <4>1. CASE i < k BY <4>1, <3>1, <3>2, <2>4, <2>5
      <4>2. CASE ~(i < k)
        <5>1. i - (k - 1) \in 1 .. Len(cards) - k BY <4>2, <3>2
        <5>2. w[i] = after[i - (k - 1)] BY <4>2, <3>1, <3>2, <2>4, <2>5
        <5>3. k + (i - (k - 1)) = i + 1 OBVIOUS
        <5> QED BY <4>2, <5>1, <5>2, <5>3, <2>5
      <4> QED BY <4>1, <4>2
    <3> QED BY <3>1, <3>2, <3>3
  <2> HIDE DEF w
  <2>6. ASSUME NEW d \in Range(cards), d # c PROVE d \in Range(w)
    <3>1. PICK i \in 1 .. Len(cards) : cards[i] = d BY <2>6, InRange
    <3>2. CASE i < k
      <4>1. i \in 1 .. Len(w) /\ w[i] = d BY <3>1, <3>2, <2>9
      <4> QED BY <4>1, <2>9, InRange
    <3>3. CASE i > k
      <4>1. i - 1 \in 1 .. Len(w) /\ w[i - 1] = d BY <3>1, <3>3, <2>9
      <4> QED BY <4>1, <2>9, InRange
    <3> QED BY <3>1, <3>2, <3>3, <2>2, <2>6
  <2>7. ASSUME NEW i \in 1 .. Len(w), NEW j \in 1 .. Len(w)
        PROVE  w[i] \in Range(cards) /\ (w[i] = w[j] => i = j)
    <3>1. PICK m \in 1 .. Len(cards), n \in 1 .. Len(cards) :
            /\ w[i] = cards[m] /\ w[j] = cards[n]
            /\ m = (IF i < k THEN i ELSE i + 1) /\ n = (IF j < k THEN j ELSE j + 1)
      BY <2>9
    <3>2. w[i] \in Range(cards) BY <3>1, InRange
    <3>3. w[i] = w[j] => m = n BY <3>1 DEF CardsAreOfTheOver
    <3> QED BY <3>1, <3>2, <3>3
  <2>8. DOMAIN w = 1 .. Len(w) BY <2>9
  <2> QED BY <2>3, <2>9, <2>6, <2>7, <2>8, Zenon
<1> QED BY <1>1, <1>2

LEMMA AskStart == ASSUME AskInit PROVE AskInv
<1>1. AskTypes BY DEF AskInit, AskTypes, NoEntry
<1>2. cards = <<>> BY DEF AskInit
<1> QED BY <1>1, <1>2 DEF AskInit, AskInv, DoneIsStored, LengthIsOfTheOver, CardsAreOfTheOver, EveryTalkIsAsked

LEMMA AskTypesKept == ASSUME AskInv, [AskNext]_askVars PROVE AskTypes'
<1> USE DEF AskTypes
<1> USE NoCallAssumption
<1>0. AskTypes BY DEF AskInv
<1>1. CASE UNCHANGED askVars BY <1>0, <1>1 DEF askVars, deskCalls, card, form
<1>2. CASE Begins \/ IsPickedUp BY <1>0, <1>2 DEF Begins, IsPickedUp, card, Follow, CleanForm, Connected
<1>3. CASE HasEnded
  <2>1. PICK len \in {"short", "edge", "long"} :
          /\ length' = [length EXCEPT ![line] = IF phase[line] = "talking" THEN len ELSE "none"]
          /\ cards' = IF NeedsCard(line, len) THEN Append(cards, line) ELSE cards
    BY <1>3 DEF HasEnded
  <2>2. cards' \in Seq(Calls) BY <1>0, <1>3, <2>1 DEF HasEnded
  <2> QED BY <1>0, <1>3, <2>1, <2>2 DEF HasEnded, form
<1>4. CASE CardAnswered \/ SkipAnswered
  <2>1. PICK c : cards' = Without(c) \/ cards' = cards BY <1>4 DEF CardAnswered, SkipAnswered, Stored
  <2>2. cards' \in Seq(Calls) BY <1>0, <2>1, WithoutKeeps DEF AskInv
  <2> QED BY <1>0, <1>4, <2>2 DEF CardAnswered, SkipAnswered, deskCalls, form
<1>5. CASE SwitchToPending \/ Choose \/ SearchDropsChoice
  BY <1>0, <1>5 DEF SwitchToPending, Choose, SearchDropsChoice, deskCalls, card
<1>6. CASE SaveEntry
  BY <1>0, <1>6 DEF SaveEntry, CallOfEntry, Connected, deskCalls, card
<1>7. CASE EntrySaved \/ EntryRefused
  BY <1>0, <1>7 DEF EntrySaved, EntryRefused, MovesOn, NoEntry, deskCalls, card
<1>8. CASE Dismiss \/ SaveCard \/ Skip
  <2>1. cards # <<>> => Head(cards) \in Calls BY <1>0
  <2> QED BY <1>0, <1>8, <2>1 DEF Dismiss, SaveCard, Skip, CardShows, Current, deskCalls, card, form
<1>9. CASE ReloadPage BY <1>0, <1>9 DEF ReloadPage, NoEntry
<1> QED BY <1>1, <1>2, <1>3, <1>4, <1>5, <1>6, <1>7, <1>8, <1>9 DEF AskNext

\* What a step may do to a call, its card and what is stored about it: the
\* four conjuncts below hold of every step, and the invariant follows.
StoredStays == \A c \in Calls : IsStored(c) => IsStored(c)'
DoneGrows == \A c \in doneIds' : c \in doneIds \/ IsStored(c)'

LEMMA AskStored == ASSUME AskInv, [AskNext]_askVars PROVE StoredStays /\ DoneGrows
<1>1. escalations \subseteq escalations'
  BY DEF AskNext, askVars, SwitchToPending, Choose, SearchDropsChoice, SaveEntry, EntrySaved, EntryRefused, Begins,
         IsPickedUp, HasEnded, Dismiss, SaveCard, Skip, CardAnswered, SkipAnswered, Stored, ReloadPage
<1>2. StoredStays BY <1>1 DEF StoredStays, IsStored
<1>3. CASE EntrySaved
  <2>1. [call |-> entry.call, number |-> entry.number] \in escalations' BY <1>3 DEF EntrySaved
  <2>2. doneIds' \subseteq doneIds \cup {entry.call} BY <1>3 DEF EntrySaved, MovesOn
  <2>3. \E e \in escalations' : e.call = entry.call BY <2>1
  <2> QED BY <1>2, <2>2, <2>3 DEF DoneGrows, IsStored
<1>4. CASE ~EntrySaved
  <2>1. doneIds' = doneIds
    BY <1>4 DEF AskNext, askVars, SwitchToPending, Choose, SearchDropsChoice, SaveEntry, EntryRefused, Begins,
         IsPickedUp, HasEnded, Dismiss, SaveCard, Skip, CardAnswered, SkipAnswered, ReloadPage
  <2> QED BY <1>2, <2>1 DEF DoneGrows
<1> QED BY <1>3, <1>4

LEMMA AskCards == ASSUME AskInv, [AskNext]_askVars PROVE CardsAreOfTheOver' /\ (EveryTalkIsAsked /\ LengthIsOfTheOver)'
<1> USE NoCallAssumption
<1>0. AskTypes /\ DoneIsStored /\ LengthIsOfTheOver /\ CardsAreOfTheOver /\ EveryTalkIsAsked
  BY DEF AskInv
<1>1. StoredStays BY AskStored
<1> DEFINE Target == CardsAreOfTheOver' /\ (EveryTalkIsAsked /\ LengthIsOfTheOver)'
<1> SUFFICES Target OBVIOUS
\* A step that leaves calls and cards alone.
<1>2. ASSUME phase' = phase, length' = length, cards' = cards PROVE Target
  <2>1. CardsAreOfTheOver' BY <1>0, <1>2 DEF CardsAreOfTheOver
  <2>2. LengthIsOfTheOver' BY <1>0, <1>2 DEF LengthIsOfTheOver
  <2>3. ASSUME NEW c \in Calls, phase'[c] = "over", length'[c] = "long"
        PROVE  c \in Range(cards') \/ IsStored(c)'
    BY <1>0, <1>1, <1>2, <2>3 DEF EveryTalkIsAsked, StoredStays, IsStored
  <2> QED BY <2>1, <2>2, <2>3 DEF EveryTalkIsAsked, IsStored
\* A call that begins or is picked up was not over.
<1>3. ASSUME NEW c \in Calls, phase[c] # "over", NEW p \in {"ringing", "talking"},
             phase' = [phase EXCEPT ![c] = p], length' = length, cards' = cards
      PROVE  Target
  <2>1. CardsAreOfTheOver' BY <1>0, <1>3 DEF CardsAreOfTheOver, AskTypes
  <2>2. LengthIsOfTheOver' BY <1>0, <1>3 DEF LengthIsOfTheOver, AskTypes
  <2>3. ASSUME NEW d \in Calls, phase'[d] = "over", length'[d] = "long"
        PROVE  d \in Range(cards') \/ IsStored(d)'
    BY <1>0, <1>1, <1>3, <2>3 DEF EveryTalkIsAsked, StoredStays, IsStored, AskTypes
  <2> QED BY <2>1, <2>2, <2>3 DEF EveryTalkIsAsked, IsStored
\* A call that ends gets its card, unless it was done.
<1>4. CASE HasEnded
  <2>1. PICK len \in {"short", "edge", "long"} :
          /\ length' = [length EXCEPT ![line] = IF phase[line] = "talking" THEN len ELSE "none"]
          /\ cards' = IF NeedsCard(line, len) THEN Append(cards, line) ELSE cards
    BY <1>4 DEF HasEnded
  <2>2. line \in Calls /\ phase' = [phase EXCEPT ![line] = "over"] BY <1>0, <1>4 DEF HasEnded, AskTypes
  <2>3. LengthIsOfTheOver' BY <1>0, <2>1, <2>2 DEF LengthIsOfTheOver, AskTypes
  <2>4. CASE NeedsCard(line, len)
    <3>1. phase[line] = "talking" BY <2>4 DEF NeedsCard
    <3>2. cards \in Seq(Calls) /\ cards' = Append(cards, line) BY <1>0, <2>1, <2>4 DEF AskTypes
    <3>3. /\ Len(cards') = Len(cards) + 1 /\ cards' \in Seq(Calls)
          /\ \A i \in 1 .. Len(cards) + 1 : cards'[i] = IF i <= Len(cards) THEN cards[i] ELSE line
      BY <2>2, <3>2
    <3>4. \A i \in 1 .. Len(cards) : phase[cards[i]] = "over" BY <1>0 DEF CardsAreOfTheOver, AskTypes
    <3>5. CardsAreOfTheOver'
      <4>1. ASSUME NEW i \in 1 .. Len(cards) + 1, NEW j \in 1 .. Len(cards) + 1
            PROVE  phase'[cards'[i]] = "over" /\ (cards'[i] = cards'[j] => i = j)
        BY <1>0, <2>2, <3>1, <3>2, <3>3, <3>4 DEF CardsAreOfTheOver, AskTypes
      <4>2. DOMAIN cards' = 1 .. Len(cards) + 1 BY <3>3
      <4> QED BY <4>1, <4>2 DEF CardsAreOfTheOver
    <3>6. ASSUME NEW d, d \in Range(cards) \/ d = line PROVE d \in Range(cards')
      <4>1. CASE d = line
        <5>1. Len(cards) + 1 \in 1 .. Len(cards') /\ cards'[Len(cards) + 1] = line BY <3>2, <3>3
        <5> QED BY <4>1, <5>1, <3>3, InRange
      <4>2. CASE d \in Range(cards)
        <5>1. PICK i \in 1 .. Len(cards) : cards[i] = d BY <4>2, <3>2, InRange
        <5>2. i \in 1 .. Len(cards') /\ cards'[i] = d BY <5>1, <3>3, <3>2
        <5> QED BY <5>2, <3>3, InRange
      <4> QED BY <3>6, <4>1, <4>2
    <3>7. ASSUME NEW d \in Calls, phase'[d] = "over", length'[d] = "long"
          PROVE  d \in Range(cards') \/ IsStored(d)'
      <4>1. CASE d = line BY <4>1, <3>6
      <4>2. CASE d # line
        <5>1. phase[d] = "over" /\ length[d] = "long" BY <4>2, <1>0, <2>1, <2>2, <3>7 DEF AskTypes
        <5>2. d \in Range(cards) \/ IsStored(d) BY <5>1, <1>0 DEF EveryTalkIsAsked, IsStored
        <5> QED BY <5>2, <3>6, <1>1 DEF StoredStays
      <4> QED BY <4>1, <4>2
    <3> QED BY <2>3, <3>5, <3>7 DEF EveryTalkIsAsked, IsStored
  <2>5. CASE ~NeedsCard(line, len)
    <3>1. cards' = cards BY <2>1, <2>5
    <3>2. CardsAreOfTheOver' BY <1>0, <2>2, <3>1 DEF CardsAreOfTheOver, AskTypes
    <3>3. ASSUME NEW d \in Calls, phase'[d] = "over", length'[d] = "long"
          PROVE  d \in Range(cards') \/ IsStored(d)'
      <4>1. CASE d = line
        <5>1. phase[line] = "talking" /\ len = "long" BY <4>1, <3>3, <1>0, <2>1, <2>2 DEF AskTypes
        <5>2. line \in doneIds BY <5>1, <2>5 DEF NeedsCard
        <5> QED BY <4>1, <5>2, <1>0, <1>1, <2>2 DEF DoneIsStored, StoredStays
      <4>2. CASE d # line
        <5>1. phase[d] = "over" /\ length[d] = "long" BY <4>2, <1>0, <2>1, <2>2, <3>3 DEF AskTypes
        <5>2. d \in Range(cards) \/ IsStored(d) BY <5>1, <1>0 DEF EveryTalkIsAsked, IsStored
        <5> QED BY <5>2, <3>1, <1>1 DEF StoredStays
      <4> QED BY <4>1, <4>2
    <3> QED BY <2>3, <3>2, <3>3 DEF EveryTalkIsAsked, IsStored
  <2> QED BY <2>4, <2>5
\* A card goes once something about its call is stored.
<1>5. ASSUME NEW c, cards' = Without(c), \E e \in escalations' : e.call = c, phase' = phase, length' = length
      PROVE  Target
  <2>1. /\ \A d \in Range(cards) : d = c \/ d \in Range(cards')
        /\ \A i, j \in DOMAIN cards' : cards'[i] \in Range(cards) /\ (cards'[i] = cards'[j] => i = j)
    BY <1>0, <1>5, WithoutKeeps DEF AskTypes
  <2>2. \A d \in Range(cards) : phase[d] = "over" BY <1>0, InRange DEF CardsAreOfTheOver, AskTypes
  <2>3. CardsAreOfTheOver' BY <1>5, <2>1, <2>2 DEF CardsAreOfTheOver
  <2>4. LengthIsOfTheOver' BY <1>0, <1>5 DEF LengthIsOfTheOver
  <2>5. ASSUME NEW d \in Calls, phase'[d] = "over", length'[d] = "long"
        PROVE  d \in Range(cards') \/ IsStored(d)'
    <3>1. d \in Range(cards) \/ IsStored(d) BY <1>0, <1>5, <2>5 DEF EveryTalkIsAsked, IsStored
    <3>2. d = c => IsStored(d)' BY <1>5 DEF IsStored
    <3> QED BY <3>1, <3>2, <2>1, <1>1 DEF StoredStays
  <2> QED BY <2>3, <2>4, <2>5 DEF EveryTalkIsAsked, IsStored
<1>6. CASE CardAnswered \/ SkipAnswered
  <2>1. PICK c : Stored(c) BY <1>6 DEF CardAnswered, SkipAnswered
  <2>2. phase' = phase /\ length' = length BY <1>6 DEF CardAnswered, SkipAnswered, deskCalls
  <2>3. CASE cards' = cards BY <2>2, <2>3, <1>2
  <2>4. CASE cards' # cards
    <3>1. cards' = Without(c) /\ [call |-> c, number |-> peer[c]] \in escalations' BY <2>1, <2>4 DEF Stored
    <3>2. \E e \in escalations' : e.call = c BY <3>1
    <3> QED BY <3>1, <3>2, <2>2, <1>5
  <2> QED BY <2>3, <2>4
\* A reload ends the call on the line: its length stays unknown.
<1>7. CASE ReloadPage
  <2>1. /\ phase' = [c \in Calls |-> IF c = line THEN "over" ELSE phase[c]]
        /\ length' = length /\ cards' = cards
    BY <1>7 DEF ReloadPage
  <2>2. CardsAreOfTheOver' BY <1>0, <2>1 DEF CardsAreOfTheOver, AskTypes
  <2>3. LengthIsOfTheOver' BY <1>0, <2>1 DEF LengthIsOfTheOver, AskTypes
  <2>4. ASSUME NEW d \in Calls, phase'[d] = "over", length'[d] = "long"
        PROVE  d \in Range(cards') \/ IsStored(d)'
    <3>1. phase[d] = "over" BY <1>0, <2>1, <2>4 DEF LengthIsOfTheOver
    <3> QED BY <3>1, <1>0, <1>1, <2>1, <2>4 DEF EveryTalkIsAsked, StoredStays, IsStored
  <2> QED BY <2>2, <2>3, <2>4 DEF EveryTalkIsAsked, IsStored
<1>8. CASE Begins
  <2>1. PICK c \in Calls : phase[c] = "none" /\ phase' = [phase EXCEPT ![c] = "ringing"] BY <1>8 DEF Begins
  <2>2. length' = length /\ cards' = cards BY <1>8 DEF Begins, card
  <2> HIDE DEF Target
  <2> QED BY <2>1, <2>2, <1>3
<1>9. CASE IsPickedUp
  <2>1. line \in Calls /\ phase[line] = "ringing" /\ phase' = [phase EXCEPT ![line] = "talking"]
    BY <1>0, <1>9 DEF IsPickedUp, AskTypes
  <2>2. length' = length /\ cards' = cards BY <1>9 DEF IsPickedUp, card
  <2> HIDE DEF Target
  <2> QED BY <2>1, <2>2, <1>3
<1> HIDE DEF Target
<1>10. CASE \/ SwitchToPending \/ Choose \/ SearchDropsChoice \/ SaveEntry \/ EntrySaved \/ EntryRefused
            \/ Dismiss \/ SaveCard \/ Skip \/ UNCHANGED askVars
  <2>1. phase' = phase /\ length' = length /\ cards' = cards
    BY <1>10 DEF SwitchToPending, Choose, SearchDropsChoice, SaveEntry, EntrySaved, EntryRefused, Dismiss, SaveCard,
         Skip, askVars, deskCalls, card
  <2> QED BY <2>1, <1>2
<1> QED BY <1>4, <1>6, <1>7, <1>8, <1>9, <1>10 DEF AskNext

LEMMA AskInvariant == AskSpec => []AskInv
<1>1. AskInit => AskInv BY AskStart
<1>2. AskInv /\ [AskNext]_askVars => AskInv'
  <2> SUFFICES ASSUME AskInv, [AskNext]_askVars PROVE AskInv' OBVIOUS
  <2>1. AskTypes' BY AskTypesKept
  <2>2. StoredStays /\ DoneGrows BY AskStored
  <2>3. doneIds \subseteq Calls /\ doneIds' \subseteq Calls BY <2>1 DEF AskInv, AskTypes
  <2>4. DoneIsStored' BY <2>2, <2>3 DEF DoneIsStored, StoredStays, DoneGrows, AskInv
  <2> QED BY <2>1, <2>4, AskCards DEF AskInv
<1> QED BY <1>1, <1>2, PTL DEF AskSpec

\* No talk is forgotten: whatever calls come, however the agent jumps between
\* the card, the prompt and the dashboard's form, and whenever the page is
\* reloaded, a talk of eight seconds has its card until something about it is
\* stored (WrapUpCard, markWrapUpDone).
THEOREM TalksAreAsked == AskSpec => []EveryTalkIsAsked
<1>1. AskInv => EveryTalkIsAsked BY DEF AskInv
<1> QED BY <1>1, AskInvariant, PTL

\* A call has one card at most, and only once it is over: the card that Without
\* takes away is the only one of its call.
THEOREM OneCardEach == AskSpec => []CardsAreOfTheOver
<1>1. AskInv => CardsAreOfTheOver BY DEF AskInv
<1> QED BY <1>1, AskInvariant, PTL

-----------------------------------------------------------------------------
(* The tabs of a browser: the calls they hang up for each other.           *)

Ids == Tabs \X Nat
TabMessages == [kind : {"state", "gone", "ask"}, from : Tabs, arg : BOOLEAN]
                \cup [kind : {"end", "ended"}, from : Tabs, arg : Ids]

\* Every variable the argument is about keeps its type.
TabTypes ==
    /\ inbox \in [Tabs -> Seq(TabMessages)] /\ takes \in [Tabs -> Nat]
    /\ call \in [Tabs -> Calls \cup {NoCall}] /\ toSend \in [Tabs -> SUBSET Calls]
    /\ hungUp \in [Tabs -> SUBSET Calls] /\ carriers \in [Tabs -> SUBSET Tabs]
    /\ ending \in [Tabs -> SUBSET Ids]
    /\ task \in [Tabs -> {"none", "taking", "hanging", "asking", "settling", "out"}]

\* A tab hears of the other tabs only, and asks under a number it used for no
\* question before.
Asked(id) == id[2] <= takes[id[1]] /\ (id[2] = takes[id[1]] => task[id[1]] # "hanging")
WordFits(t, m) == m.from # t /\ (m.kind \in {"end", "ended"} => Asked(m.arg))
Words ==
    \A t \in Tabs : /\ t \notin carriers[t]
                    /\ \A m \in Range(inbox[t]) : WordFits(t, m)
                    /\ \A id \in ending[t] : Asked(id)

\* The calls a tab carries, or whose end it has on its way, or that came home.
Home == sent \cup kept \cup refused
InCare(u) == Home \cup toSend[u] \cup {call[u]}
Waits(t) == task[t] \in {"taking", "asking"}
Answered(t) == \E m \in Range(inbox[t]) : m.kind = "ended" /\ m.arg = <<t, takes[t]>>

\* What a tab asked to be hung up is in the hands of the tab it asked until the
\* answer comes, and home by then.
HangsUp(t) ==
    /\ task[t] = "none" => hungUp[t] = {}
    /\ ~gaveUp =>
         /\ task[t] = "hanging" => hungUp[t] \subseteq InCare(t)
         /\ Waits(t) => \A u \in Tabs \ {t} : hungUp[t] \subseteq InCare(u)
         /\ Waits(t) /\ (t \in confirmed \/ Answered(t)) => hungUp[t] \subseteq Home
         /\ task[t] \in {"settling", "out"} => hungUp[t] \subseteq Home
HangUps == \A t \in Tabs : HangsUp(t)

TabsInv == TabTypes /\ Words /\ HangUps

LEMMA TabsStart == ASSUME TabsInit PROVE TabsInv
<1>1. TabTypes BY DEF TabsInit, TabTypes
<1>2. ASSUME NEW t \in Tabs PROVE Range(inbox[t]) = {}
  <2>1. inbox[t] = <<>> BY DEF TabsInit
  <2> QED BY <2>1 DEF Range
<1>3. Words BY <1>2 DEF TabsInit, Words
<1>4. HangUps BY <1>2 DEF TabsInit, HangUps, HangsUp, Waits
<1> QED BY <1>1, <1>3, <1>4 DEF TabsInv

\* What is in a queue after a message came, or the oldest was read.
LEMMA QueueRange ==
    ASSUME NEW S, NEW q \in Seq(S), NEW m \in S
    PROVE  /\ Append(q, m) \in Seq(S)
           /\ \A x \in Range(Append(q, m)) : x = m \/ x \in Range(q)
           /\ q # <<>> => /\ Tail(q) \in Seq(S) /\ Head(q) \in Range(q) /\ Head(q) \in S
                          /\ \A x \in Range(Tail(q)) : x \in Range(q)
<1>1. Append(q, m) \in Seq(S) OBVIOUS
<1>2. ASSUME NEW x \in Range(Append(q, m)) PROVE x = m \/ x \in Range(q)
  <2>1. PICK i \in 1 .. Len(Append(q, m)) : Append(q, m)[i] = x BY <1>1, InRange
  <2>2. i \in 1 .. Len(q) + 1 OBVIOUS
  <2>3. CASE i = Len(q) + 1 BY <2>1, <2>3
  <2>4. CASE i \in 1 .. Len(q)
    <3>1. q[i] = x BY <2>1, <2>4
    <3> QED BY <3>1, <2>4, InRange
  <2> QED BY <2>2, <2>3, <2>4
<1>3. ASSUME q # <<>>
      PROVE  /\ Tail(q) \in Seq(S) /\ Head(q) \in Range(q) /\ Head(q) \in S
             /\ \A x \in Range(Tail(q)) : x \in Range(q)
  <2>1. /\ Tail(q) \in Seq(S) /\ Len(Tail(q)) = Len(q) - 1 /\ Len(q) \in Nat \ {0}
        /\ \A i \in 1 .. Len(q) - 1 : Tail(q)[i] = q[i + 1]
        /\ Head(q) = q[1]
    BY <1>3
  <2>2. Head(q) \in Range(q)
    <3>1. 1 \in 1 .. Len(q) BY <2>1
    <3> QED BY <3>1, <2>1, InRange
  <2>3. ASSUME NEW x \in Range(Tail(q)) PROVE x \in Range(q)
    <3>1. PICK i \in 1 .. Len(Tail(q)) : Tail(q)[i] = x BY <2>1, InRange
    <3>2. i + 1 \in 1 .. Len(q) /\ q[i + 1] = x BY <3>1, <2>1
    <3> QED BY <3>2, InRange
  <2>4. Head(q) \in S BY <2>1
  <2> QED BY <2>1, <2>2, <2>3, <2>4
<1> QED BY <1>1, <1>2, <1>3

\* The messages a step posts: each from another tab, a question under a number
\* that is new, an answer by a tab that was asked and has settled.
NewWord(u, m) ==
    /\ m \in TabMessages /\ m.from \in Tabs \ {u}
    /\ m.kind = "end" => \E t \in Tabs : m.arg = <<t, takes'[t]>> /\ task'[t] # "hanging"
    /\ m.kind = "ended" => m.arg \in ending[m.from] /\ (Settled(m.from) \/ gaveUp')
NewsOnly ==
    /\ inbox' \in [Tabs -> Seq(TabMessages)]
    /\ \A u \in Tabs : \A m \in Range(inbox'[u]) : m \in Range(inbox[u]) \/ NewWord(u, m)

LEMMA PostNews ==
    ASSUME TabTypes, NEW t \in Tabs, NEW kind, NEW arg,
           Post(t, kind, arg), [kind |-> kind, from |-> t, arg |-> arg] \in TabMessages
    PROVE  /\ inbox' \in [Tabs -> Seq(TabMessages)]
           /\ \A u \in Tabs : \A m \in Range(inbox'[u]) :
                m \in Range(inbox[u]) \/ (u # t /\ m = [kind |-> kind, from |-> t, arg |-> arg])
<1> DEFINE word == [kind |-> kind, from |-> t, arg |-> arg]
<1>1. inbox' = [u \in Tabs |-> IF u \in tabs \ {t} THEN Append(inbox[u], word) ELSE inbox[u]]
  BY DEF Post
<1>2. word \in TabMessages OBVIOUS
<1> HIDE DEF word
<1>3. ASSUME NEW u \in Tabs
      PROVE  /\ inbox'[u] \in Seq(TabMessages)
             /\ \A m \in Range(inbox'[u]) : m \in Range(inbox[u]) \/ (u # t /\ m = word)
  <2>1. inbox[u] \in Seq(TabMessages) BY DEF TabTypes
  <2>2. CASE u \in tabs \ {t}
    <3>1. inbox'[u] = Append(inbox[u], word) BY <1>1, <2>2
    <3> QED BY <3>1, <2>1, <2>2, <1>2, QueueRange
  <2>3. CASE u \notin tabs \ {t}
    <3>1. inbox'[u] = inbox[u] BY <1>1, <2>3
    <3> QED BY <3>1, <2>1
  <2> QED BY <2>2, <2>3
<1> QED BY <1>1, <1>3 DEF word

LEMMA InboxSteps == ASSUME TabsInv, TabsNext PROVE NewsOnly
<1>0. TabTypes BY DEF TabsInv
<1> DEFINE Target == NewsOnly
<1> SUFFICES Target OBVIOUS
<1>1. ASSUME UNCHANGED inbox PROVE Target BY <1>0, <1>1 DEF NewsOnly, TabTypes
\* A message about a call here or about the tab itself.
<1>2. ASSUME NEW t \in Tabs, NEW kind \in {"state", "gone", "ask"}, NEW arg \in BOOLEAN, Post(t, kind, arg)
      PROVE  Target
  <2> DEFINE word == [kind |-> kind, from |-> t, arg |-> arg]
  <2>1. word \in TabMessages BY DEF TabMessages
  <2>2. word.kind = kind /\ word.from = t OBVIOUS
  <2>3. \A u \in Tabs : u # t => NewWord(u, word) BY <2>1, <2>2 DEF NewWord
  <2>4. /\ inbox' \in [Tabs -> Seq(TabMessages)]
        /\ \A u \in Tabs : \A m \in Range(inbox'[u]) : m \in Range(inbox[u]) \/ (u # t /\ m = word)
    BY <1>0, <1>2, <2>1, PostNews, Zenon
  <2> HIDE DEF word
  <2> QED BY <2>3, <2>4, Zenon DEF NewsOnly
\* A question.
<1>3. ASSUME NEW t \in Tabs, Post(t, "end", <<t, takes'[t]>>), takes'[t] \in Nat, task'[t] # "hanging"
      PROVE  Target
  <2> DEFINE word == [kind |-> "end", from |-> t, arg |-> <<t, takes'[t]>>]
  <2>1. word \in TabMessages BY <1>3 DEF TabMessages, Ids
  <2>2. word.kind = "end" /\ word.from = t /\ word.arg = <<t, takes'[t]>> OBVIOUS
  <2>4. /\ inbox' \in [Tabs -> Seq(TabMessages)]
        /\ \A u \in Tabs : \A m \in Range(inbox'[u]) : m \in Range(inbox[u]) \/ (u # t /\ m = word)
    BY <1>0, <1>3, <2>1, PostNews, Zenon
  <2> HIDE DEF word
  <2>3. \A u \in Tabs : u # t => NewWord(u, word) BY <1>3, <2>1, <2>2 DEF NewWord
  <2> QED BY <2>3, <2>4, Zenon DEF NewsOnly
\* An answer.
<1>4. ASSUME NEW t \in Tabs, NEW id \in ending[t], Post(t, "ended", id), Settled(t) \/ gaveUp'
      PROVE  Target
  <2> DEFINE word == [kind |-> "ended", from |-> t, arg |-> id]
  <2>0. id \in Ids BY <1>0 DEF TabTypes
  <2>1. word \in TabMessages BY <2>0 DEF TabMessages
  <2>2. word.kind = "ended" /\ word.from = t /\ word.arg = id OBVIOUS
  <2>4. /\ inbox' \in [Tabs -> Seq(TabMessages)]
        /\ \A u \in Tabs : \A m \in Range(inbox'[u]) : m \in Range(inbox[u]) \/ (u # t /\ m = word)
    BY <1>0, <1>4, <2>1, PostNews, Zenon
  <2> HIDE DEF word
  <2>3. \A u \in Tabs : u # t => NewWord(u, word) BY <1>4, <2>1, <2>2 DEF NewWord
  <2> QED BY <2>3, <2>4, Zenon DEF NewsOnly
\* A tab that closes.
<1>5. ASSUME NEW t \in Tabs, Close(t) PROVE Target
  <2> DEFINE word == [kind |-> "gone", from |-> t, arg |-> TRUE]
  <2>1. word \in TabMessages BY DEF TabMessages
  <2>2. \A u \in Tabs : u # t => NewWord(u, word) BY <2>1 DEF NewWord
  <2>3. inbox' = [u \in Tabs |-> IF u = t THEN <<>>
                                 ELSE IF u \in tabs THEN Append(inbox[u], word) ELSE inbox[u]]
    BY <1>5 DEF Close
  <2> HIDE DEF word
  <2>4. ASSUME NEW u \in Tabs
        PROVE  /\ inbox'[u] \in Seq(TabMessages)
               /\ \A m \in Range(inbox'[u]) : m \in Range(inbox[u]) \/ (u # t /\ m = word)
    <3>1. inbox[u] \in Seq(TabMessages) BY <1>0 DEF TabTypes
    <3>2. CASE u = t
      <4>1. inbox'[u] = <<>> BY <2>3, <3>2
      <4> QED BY <4>1 DEF Range
    <3>3. CASE u # t /\ u \in tabs
      <4>1. inbox'[u] = Append(inbox[u], word) BY <2>3, <3>3
      <4> QED BY <4>1, <3>1, <3>3, <2>1, QueueRange
    <3>4. CASE u # t /\ u \notin tabs
      <4>1. inbox'[u] = inbox[u] BY <2>3, <3>4
      <4> QED BY <4>1, <3>1
    <3> QED BY <3>2, <3>3, <3>4
  <2> QED BY <2>2, <2>3, <2>4 DEF NewsOnly
\* A tab that reads, and answers how it does.
<1>6. ASSUME NEW t \in Tabs, Receive(t) PROVE Target
  <2> DEFINE rest == [inbox EXCEPT ![t] = Tail(@)]
             word == [kind |-> "state", from |-> t, arg |-> Live(t)]
  <2>1. inbox[t] # <<>> /\ inbox[t] \in Seq(TabMessages) BY <1>0, <1>6 DEF Receive, TabTypes
  <2>2. \/ inbox' = rest
        \/ inbox' = [u \in Tabs |-> IF u \in tabs \ {t} THEN Append(rest[u], word) ELSE rest[u]]
    BY <1>6 DEF Receive
  <2>3. Live(t) \in BOOLEAN BY DEF Live
  <2>4. word \in TabMessages BY <2>3 DEF TabMessages
  <2>5. word.kind = "state" /\ word.from = t OBVIOUS
  <2>6. \A u \in Tabs : u # t => NewWord(u, word) BY <2>4, <2>5 DEF NewWord
  <2>7. \A u \in Tabs : rest[u] = IF u = t THEN Tail(inbox[u]) ELSE inbox[u] BY <1>0 DEF TabTypes
  <2>8. rest = [u \in Tabs |-> rest[u]] BY <1>0 DEF TabTypes
  <2> HIDE DEF rest, word
  <2>9. ASSUME NEW u \in Tabs PROVE rest[u] \in Seq(TabMessages) /\ \A m \in Range(rest[u]) : m \in Range(inbox[u])
    <3>1. inbox[u] \in Seq(TabMessages) BY <1>0 DEF TabTypes
    <3>2. CASE u = t
      <4>1. rest[u] = Tail(inbox[u]) BY <2>7, <3>2
      <4> QED BY <4>1, <3>1, <3>2, <2>1, <2>4, QueueRange
    <3>3. CASE u # t
      <4>1. rest[u] = inbox[u] BY <2>7, <3>3
      <4> QED BY <4>1, <3>1
    <3> QED BY <3>2, <3>3
  <2>10. CASE inbox' = rest BY <2>8, <2>9, <2>10 DEF NewsOnly
  <2>11. CASE inbox' = [u \in Tabs |-> IF u \in tabs \ {t} THEN Append(rest[u], word) ELSE rest[u]]
    <3>1. ASSUME NEW u \in Tabs
          PROVE  /\ inbox'[u] \in Seq(TabMessages)
                 /\ \A m \in Range(inbox'[u]) : m \in Range(inbox[u]) \/ (u # t /\ m = word)
      <4>1. CASE u \in tabs \ {t}
        <5>1. inbox'[u] = Append(rest[u], word) BY <2>11, <4>1
        <5> QED BY <5>1, <4>1, <2>9, <2>4, QueueRange
      <4>2. CASE u \notin tabs \ {t}
        <5>1. inbox'[u] = rest[u] BY <2>11, <4>2
        <5> QED BY <5>1, <2>9
      <4> QED BY <4>1, <4>2
    <3> QED BY <2>11, <3>1, <2>6 DEF NewsOnly
  <2> QED BY <2>2, <2>10, <2>11
<1> HIDE DEF Target
<1>7. CASE Grant BY <1>7, <1>1 DEF Grant, words
<1>8. ASSUME NEW t \in Tabs, SayState(t, FALSE) \/ SayState(t, TRUE) PROVE Target
  <2>1. PICK live \in BOOLEAN : Post(t, "state", live) BY <1>8 DEF SayState
  <2> QED BY <2>1, <1>2
<1>9. ASSUME NEW t \in Tabs, Open(t) \/ Aborted(t) \/ CallBegins(t) \/ CallEnds(t) PROVE Target
  <2>1. CASE Open(t)
    <3>1. Post(t, "ask", TRUE) BY <2>1 DEF Open
    <3> QED BY <3>1, <1>2
  <2>2. CASE Aborted(t)
    <3>1. SayState(t, FALSE) \/ UNCHANGED inbox BY <2>2 DEF Aborted
    <3> QED BY <3>1, <1>1, <1>8
  <2>3. CASE CallBegins(t) \/ CallEnds(t)
    <3>1. SayState(t, FALSE) \/ SayState(t, TRUE) BY <2>3 DEF CallBegins, CallEnds
    <3> QED BY <3>1, <1>8
  <2> QED BY <1>9, <2>1, <2>2, <2>3
<1>10. ASSUME NEW t \in Tabs,
              \/ EndAnswered(t) \/ GoesStale(t) \/ TakeOverNow(t) \/ HungUpElsewhere(t) \/ SignOut(t)
       PROVE  Target
  <2>1. UNCHANGED inbox
    BY <1>10 DEF EndAnswered, GoesStale, TakeOverNow, HungUpElsewhere, SignOut, words
  <2> QED BY <2>1, <1>1
<1>11. ASSUME NEW t \in Tabs, TakeOver(t) \/ Leave(t) \/ HungUpHere(t) PROVE Target
  <2>1. UNCHANGED inbox \/ (AskOthers(t) /\ task'[t] \in {"taking", "asking"})
    BY <1>0, <1>11, Zenon DEF TakeOver, Leave, HungUpHere, TabTypes
  <2>2. takes'[t] \in Nat
    <3>1. \/ takes' = [takes EXCEPT ![t] = @ + 1]
          \/ takes' = takes
      BY <1>11 DEF TakeOver, Leave, HungUpHere
    <3> QED BY <3>1, <1>0 DEF TabTypes
  <2>3. CASE AskOthers(t) /\ task'[t] \in {"taking", "asking"}
    <3>1. Post(t, "end", <<t, takes'[t]>>) BY <2>3 DEF AskOthers
    <3> QED BY <3>1, <2>2, <2>3, <1>3
  <2> QED BY <2>1, <2>3, <1>1
<1>12. ASSUME NEW t \in Tabs, EndedForOther(t) PROVE Target
  <2>1. PICK id \in ending[t] : Post(t, "ended", id) BY <1>12 DEF EndedForOther
  <2>2. Settled(t) \/ gaveUp' BY <1>12 DEF EndedForOther
  <2> QED BY <2>1, <2>2, <1>4
<1> QED BY <1>5, <1>6, <1>7, <1>9, <1>10, <1>11, <1>12 DEF TabsNext

\* A table with one row changed is still one.
LEMMA Updated ==
    ASSUME NEW D, NEW S, NEW f \in [D -> S], NEW x \in D, NEW v \in S
    PROVE  [f EXCEPT ![x] = v] \in [D -> S]
OBVIOUS

LEMMA TabTypesKept == ASSUME TabsInv, [TabsNext]_tabVars PROVE TabTypes'
<1>0. TabTypes BY DEF TabsInv
<1> DEFINE Rest == /\ takes' \in [Tabs -> Nat]
                   /\ call' \in [Tabs -> Calls \cup {NoCall}] /\ toSend' \in [Tabs -> SUBSET Calls]
                   /\ hungUp' \in [Tabs -> SUBSET Calls] /\ carriers' \in [Tabs -> SUBSET Tabs]
                   /\ ending' \in [Tabs -> SUBSET Ids]
                   /\ task' \in [Tabs -> {"none", "taking", "hanging", "asking", "settling", "out"}]
<1>1. CASE UNCHANGED tabVars BY <1>0, <1>1 DEF TabTypes, tabVars, ends, words, acts
<1>2. CASE TabsNext
  <2>1. inbox' \in [Tabs -> Seq(TabMessages)] BY <1>2, InboxSteps DEF NewsOnly
  <2> SUFFICES Rest BY <2>1 DEF TabTypes
  <2> USE DEF TabTypes
  <2>2. CASE Grant BY <1>0, <2>2 DEF Grant, ends, words, acts
  <2>3. ASSUME NEW t \in Tabs, Open(t) \/ Aborted(t) PROVE Rest
    <3>1. CASE Open(t) BY <1>0, <3>1 DEF Open, ends, acts
    <3>2. CASE Aborted(t)
      <4>1. toSend[t] \cup ({call[t]} \ {NoCall}) \in SUBSET Calls BY <1>0
      <4>2. toSend' \in [Tabs -> SUBSET Calls] BY <1>0, <3>2, <4>1, Updated DEF Aborted
      <4> QED BY <1>0, <3>2, <4>2 DEF Aborted, acts
    <3> QED BY <2>3, <3>1, <3>2
  <2>10. ASSUME NEW t \in Tabs, Close(t) PROVE Rest
    <3>1. toSend' \in [Tabs -> SUBSET Calls] BY <1>0, <2>10, Updated DEF Close
    <3>2. hungUp' \in [Tabs -> SUBSET Calls] BY <1>0, <2>10, Updated DEF Close
    <3>3. carriers' \in [Tabs -> SUBSET Tabs] BY <1>0, <2>10, Updated DEF Close
    <3>4. ending' \in [Tabs -> SUBSET Ids] BY <1>0, <2>10, Updated DEF Close
    <3>5. takes' = takes /\ call' \in [Tabs -> Calls \cup {NoCall}] BY <1>0, <2>10 DEF Close
    <3>6. task' \in [Tabs -> {"none", "taking", "hanging", "asking", "settling", "out"}]
      BY <1>0, <2>10 DEF Close
    <3> QED BY <1>0, <3>1, <3>2, <3>3, <3>4, <3>5, <3>6
  <2>4. ASSUME NEW t \in Tabs, CallBegins(t) PROVE Rest
    <3>1. (CHOOSE c \in NewCalls : TRUE) \in Calls BY <2>4 DEF CallBegins, NewCalls
    <3> QED BY <1>0, <2>4, <3>1 DEF CallBegins, ends, acts
  <2>5. ASSUME NEW t \in Tabs, CallEnds(t) PROVE Rest
    <3>1. call[t] \in Calls BY <1>0, <2>5 DEF CallEnds, Live
    <3> QED BY <1>0, <2>5, <3>1 DEF CallEnds, acts
  <2>6. ASSUME NEW t \in Tabs, EndAnswered(t) \/ GoesStale(t) \/ EndedForOther(t) PROVE Rest
    BY <1>0, <2>6 DEF EndAnswered, GoesStale, EndedForOther, ends, words, acts
  <2>7. ASSUME NEW t \in Tabs, Receive(t) PROVE Rest
    <3>1. Head(inbox[t]) \in TabMessages
      <4>1. inbox[t] \in Seq(TabMessages) /\ inbox[t] # <<>> BY <1>0, <2>7 DEF Receive
      <4> QED BY <4>1
    <3>2. PICK m \in TabMessages :
            /\ carriers' \in {carriers, [carriers EXCEPT ![t] = @ \cup {m.from}], [carriers EXCEPT ![t] = @ \ {m.from}]}
            /\ ending' = ending \/ (m.kind = "end" /\ ending' = [ending EXCEPT ![t] = @ \cup {m.arg}])
      BY <2>7, <3>1 DEF Receive
    <3>3. m.from \in Tabs /\ (m.kind = "end" => m.arg \in Ids) BY DEF TabMessages
    <3>4. carriers' \in [Tabs -> SUBSET Tabs]
      <4>1. carriers[t] \cup {m.from} \in SUBSET Tabs /\ carriers[t] \ {m.from} \in SUBSET Tabs BY <1>0, <3>3
      <4> QED BY <1>0, <3>2, <4>1, Updated
    <3>5. ending' \in [Tabs -> SUBSET Ids]
      <4>1. m.kind = "end" => ending[t] \cup {m.arg} \in SUBSET Ids BY <1>0, <3>3
      <4> QED BY <1>0, <3>2, <4>1, Updated
    <3> QED BY <1>0, <2>7, <3>4, <3>5 DEF Receive, ends
  <2>8. ASSUME NEW t \in Tabs, TakeOverNow(t) \/ HungUpElsewhere(t) \/ SignOut(t) PROVE Rest
    <3>1. hungUp' = hungUp \/ hungUp' = [hungUp EXCEPT ![t] = {}]
      BY <2>8 DEF TakeOverNow, HungUpElsewhere, SignOut
    <3>2. hungUp' \in [Tabs -> SUBSET Calls] BY <1>0, <3>1, Updated
    <3>3. takes' = takes /\ call' = call /\ toSend' = toSend /\ carriers' = carriers /\ ending' = ending
      BY <2>8 DEF TakeOverNow, HungUpElsewhere, SignOut, ends, words
    <3>4. task' \in [Tabs -> {"none", "taking", "hanging", "asking", "settling", "out"}]
      BY <1>0, <2>8 DEF TakeOverNow, HungUpElsewhere, SignOut
    <3> QED BY <1>0, <3>2, <3>3, <3>4
  <2>9. ASSUME NEW t \in Tabs, TakeOver(t) \/ Leave(t) \/ HungUpHere(t) PROVE Rest
    <3>1. takes' \in [Tabs -> Nat] /\ UNCHANGED <<call, toSend, carriers, ending>>
      BY <1>0, <2>9 DEF TakeOver, Leave, HungUpHere, ends
    <3>2. task' \in [Tabs -> {"none", "taking", "hanging", "asking", "settling", "out"}]
      BY <1>0, <2>9 DEF TakeOver, Leave, HungUpHere
    <3>3. {call[u] : u \in carriers[t]} \ {NoCall} \subseteq Calls BY <1>0
    <3>4. hungUp' \in [Tabs -> SUBSET Calls]
      <4>1. \/ hungUp' = hungUp
            \/ hungUp' = [hungUp EXCEPT ![t] = @ \cup ({call[u] : u \in carriers[t]} \ {NoCall})]
            \/ Live(t) /\ hungUp' = [hungUp EXCEPT ![t] = {call[t]}]
        BY <2>9, Zenon DEF TakeOver, Leave, HungUpHere, AskOthers
      <4>2. Live(t) => {call[t]} \in SUBSET Calls BY <1>0 DEF Live
      <4>3. hungUp[t] \cup ({call[u] : u \in carriers[t]} \ {NoCall}) \in SUBSET Calls BY <1>0, <3>3
      <4>4. hungUp \in [Tabs -> SUBSET Calls] BY <1>0
      <4>5. \A v \in SUBSET Calls : [hungUp EXCEPT ![t] = v] \in [Tabs -> SUBSET Calls] BY <4>4, Updated
      <4>6. CASE hungUp' = [hungUp EXCEPT ![t] = @ \cup ({call[u] : u \in carriers[t]} \ {NoCall})]
        BY <4>3, <4>5, <4>6, Zenon
      <4> QED BY <4>1, <4>2, <4>4, <4>5, <4>6
    <3> QED BY <1>0, <3>1, <3>2, <3>4
  <2> QED BY <1>2, <2>2, <2>3, <2>4, <2>5, <2>6, <2>7, <2>8, <2>9, <2>10 DEF TabsNext
<1> QED BY <1>1, <1>2

\* No step loses a call: what a tab carried it carries on, or its end is on its
\* way or home, and what is home stays there.
LEMMA CallsStayInCare ==
    ASSUME TabsInv, [TabsNext]_tabVars, NEW u \in Tabs
    PROVE  Home \subseteq Home' /\ \A c \in Calls : c \in InCare(u) => c \in InCare(u)'
<1>0. TabTypes BY DEF TabsInv
<1> USE DEF TabTypes, Home, InCare
<1> USE NoCallAssumption
<1> DEFINE Target == Home \subseteq Home' /\ \A c \in Calls : c \in InCare(u) => c \in InCare(u)'
<1> SUFFICES Target OBVIOUS
<1>1. ASSUME call' = call, toSend' = toSend, kept' = kept, sent' = sent, refused' = refused PROVE Target
  BY <1>1
<1>2. ASSUME NEW t \in Tabs, Close(t) PROVE Target BY <1>0, <1>2 DEF Close
<1>3. ASSUME NEW t \in Tabs, Aborted(t) PROVE Target BY <1>0, <1>3 DEF Aborted
<1>4. ASSUME NEW t \in Tabs, CallEnds(t) PROVE Target BY <1>0, <1>4 DEF CallEnds
<1>5. ASSUME NEW t \in Tabs, CallBegins(t) PROVE Target BY <1>0, <1>5 DEF CallBegins, Live, ends
<1>6. ASSUME NEW t \in Tabs, EndAnswered(t) PROVE Target BY <1>0, <1>6 DEF EndAnswered
<1> HIDE DEF Target
<1>7. CASE Grant \/ UNCHANGED tabVars BY <1>1, <1>7 DEF Grant, tabVars, ends
<1>8. ASSUME NEW t \in Tabs,
             \/ Open(t) \/ Receive(t) \/ GoesStale(t) \/ EndedForOther(t) \/ TakeOver(t) \/ TakeOverNow(t)
             \/ Leave(t) \/ HungUpHere(t) \/ HungUpElsewhere(t) \/ SignOut(t)
      PROVE  Target
  <2>1. call' = call /\ toSend' = toSend /\ kept' = kept /\ sent' = sent /\ refused' = refused
    BY <1>8 DEF Open, Receive, GoesStale, EndedForOther, TakeOver, TakeOverNow, Leave, HungUpHere,
                HungUpElsewhere, SignOut, ends
  <2> QED BY <2>1, <1>1
<1> QED BY <1>2, <1>3, <1>4, <1>5, <1>6, <1>7, <1>8 DEF TabsNext

\* What becomes of a tab's task, question and belief in one step of a tab t: only
\* its own acts and its end move them.
Idle(t) == takes'[t] = takes[t] /\ task'[t] = task[t] /\ hungUp'[t] = hungUp[t]
LEMMA OthersIdle ==
    ASSUME TabsInv, [TabsNext]_tabVars, NEW u \in Tabs
    PROVE  \/ Idle(u)
           \/ Close(u) \/ TakeOver(u) \/ TakeOverNow(u) \/ Leave(u) \/ HungUpHere(u)
           \/ HungUpElsewhere(u) \/ SignOut(u)
<1>0. TabTypes BY DEF TabsInv
<1> USE DEF TabTypes, Idle
<1>1. CASE Grant \/ UNCHANGED tabVars BY <1>1 DEF Grant, tabVars, acts
<1>2. ASSUME NEW t \in Tabs,
             \/ Open(t) \/ Aborted(t) \/ CallBegins(t) \/ CallEnds(t) \/ EndAnswered(t)
             \/ Receive(t) \/ GoesStale(t) \/ EndedForOther(t)
      PROVE  Idle(u)
  BY <1>2 DEF Open, Aborted, CallBegins, CallEnds, EndAnswered, Receive, GoesStale, EndedForOther, acts
<1>3. ASSUME NEW t \in Tabs \ {u}, Close(t) \/ TakeOverNow(t) \/ HungUpElsewhere(t) \/ SignOut(t) PROVE Idle(u)
  BY <1>0, <1>3 DEF Close, TakeOverNow, HungUpElsewhere, SignOut
<1>4. ASSUME NEW t \in Tabs \ {u}, TakeOver(t) \/ Leave(t) \/ HungUpHere(t) PROVE Idle(u)
  <2>1. takes'[u] = takes[u] BY <1>0, <1>4 DEF TakeOver, Leave, HungUpHere
  <2>2. task'[u] = task[u] BY <1>0, <1>4 DEF TakeOver, Leave, HungUpHere
  <2>3. hungUp'[u] = hungUp[u]
    <3>1. \/ hungUp' = hungUp
          \/ hungUp' = [hungUp EXCEPT ![t] = @ \cup ({call[v] : v \in carriers[t]} \ {NoCall})]
          \/ hungUp' = [hungUp EXCEPT ![t] = {call[t]}]
      BY <1>4, Zenon DEF TakeOver, Leave, HungUpHere, AskOthers
    <3> QED BY <1>0, <1>4, <3>1
  <2> QED BY <2>1, <2>2, <2>3
<1> QED BY <1>1, <1>2, <1>3, <1>4 DEF TabsNext

\* The rows of a table with one row changed.
LEMMA Rows ==
    ASSUME NEW D, NEW S, NEW f \in [D -> S], NEW x \in D, NEW v, NEW u \in D
    PROVE  [f EXCEPT ![x] = v][u] = IF u = x THEN v ELSE f[u]
OBVIOUS

\* A question that was asked stays asked: its number is never used again.
LEMMA AskedStays ==
    ASSUME TabsInv, [TabsNext]_tabVars, NEW id \in Ids, Asked(id) PROVE Asked(id)'
<1>0. TabTypes BY DEF TabsInv
<1> DEFINE x == id[1]
           n == id[2]
<1>1. x \in Tabs /\ n \in Nat BY DEF Ids
<1>2. Asked(id) <=> n <= takes[x] /\ (n = takes[x] => task[x] # "hanging") BY DEF Asked
<1>3. Asked(id)' <=> n <= takes'[x] /\ (n = takes'[x] => task'[x] # "hanging") BY DEF Asked
<1>4. takes[x] \in Nat BY <1>0, <1>1 DEF TabTypes
<1> HIDE DEF x, n
<1>5. CASE Idle(x) BY <1>2, <1>3, <1>5 DEF Idle
<1>6. CASE Close(x) \/ TakeOverNow(x) \/ HungUpHere(x) \/ HungUpElsewhere(x) \/ SignOut(x)
  <2>1. takes'[x] = takes[x] /\ task'[x] # "hanging"
    BY <1>0, <1>1, <1>6 DEF Close, TakeOverNow, HungUpHere, HungUpElsewhere, SignOut, TabTypes
  <2> QED BY <2>1, <1>2, <1>3
<1>7. CASE TakeOver(x) \/ Leave(x)
  <2>1. takes'[x] = takes[x] + 1 BY <1>0, <1>1, <1>7 DEF TakeOver, Leave, TabTypes
  <2> QED BY <2>1, <1>1, <1>2, <1>3, <1>4
<1> QED BY <1>1, <1>5, <1>6, <1>7, OthersIdle

LEMMA WordsKept == ASSUME TabsInv, [TabsNext]_tabVars PROVE Words'
<1>0. TabTypes /\ Words /\ TabTypes' BY TabTypesKept DEF TabsInv
<1>1. CASE UNCHANGED tabVars
  <2>1. UNCHANGED <<inbox, carriers, ending, takes, task>> BY <1>1 DEF tabVars, words, acts
  <2> QED BY <1>0, <2>1 DEF Words, WordFits, Asked
<1>2. CASE TabsNext
  <2>1. NewsOnly BY <1>2, InboxSteps
  <2>2. ASSUME NEW u \in Tabs, NEW m \in Range(inbox'[u]) PROVE WordFits(u, m)'
    <3>1. m \in TabMessages
      <4>1. inbox'[u] \in Seq(TabMessages) BY <1>0 DEF TabTypes
      <4> QED BY <2>2, <4>1, InRange
    <3>2. m.kind \in {"end", "ended"} => m.arg \in Ids BY <3>1 DEF TabMessages
    <3>3. CASE m \in Range(inbox[u])
      <4>1. WordFits(u, m) BY <1>0, <3>3 DEF Words
      <4> QED BY <4>1, <3>2, AskedStays DEF WordFits
    <3>4. CASE NewWord(u, m)
      <4>1. m.from # u BY <3>4 DEF NewWord
      <4>2. ASSUME m.kind = "end" PROVE Asked(m.arg)'
        <5>1. PICK t \in Tabs : m.arg = <<t, takes'[t]>> /\ task'[t] # "hanging" BY <3>4, <4>2 DEF NewWord
        <5>2. takes'[t] \in Nat BY <1>0 DEF TabTypes
        <5> QED BY <5>1, <5>2 DEF Asked
      <4>3. ASSUME m.kind = "ended" PROVE Asked(m.arg)'
        <5>1. m.from \in Tabs /\ m.arg \in ending[m.from] BY <3>4, <4>3 DEF NewWord
        <5>2. Asked(m.arg) BY <1>0, <5>1 DEF Words
        <5> QED BY <4>3, <3>2, <5>2, AskedStays
      <4> QED BY <4>1, <4>2, <4>3 DEF WordFits
    <3> QED BY <2>1, <2>2, <3>3, <3>4 DEF NewsOnly
  \* Who a tab believes to carry a call, and what it hangs up for, it heard.
  <2>3. ASSUME NEW u \in Tabs
        PROVE  /\ carriers'[u] \subseteq carriers[u] \cup {m.from : m \in Range(inbox[u])}
               /\ \A id \in ending'[u] : id \in ending[u] \/ \E m \in Range(inbox[u]) : m.kind = "end" /\ id = m.arg
    <3> DEFINE Heard == /\ carriers'[u] \subseteq carriers[u] \cup {m.from : m \in Range(inbox[u])}
                        /\ \A id \in ending'[u] : id \in ending[u] \/ \E m \in Range(inbox[u]) : m.kind = "end" /\ id = m.arg
    <3> SUFFICES Heard OBVIOUS
    <3>1. ASSUME carriers'[u] \subseteq carriers[u], ending'[u] \subseteq ending[u] PROVE Heard BY <3>1
    <3>2. ASSUME NEW t \in Tabs, Receive(t) PROVE Heard
      <4>1. inbox[t] \in Seq(TabMessages) /\ inbox[t] # <<>> BY <1>0, <3>2 DEF Receive, TabTypes
      <4>2. Head(inbox[t]) \in TabMessages /\ Head(inbox[t]) \in Range(inbox[t])
        <5>1. PICK x \in TabMessages : x = Head(inbox[t]) BY <4>1
        <5> QED BY <4>1, <5>1, QueueRange
      <4>3. PICK m \in Range(inbox[t]) :
              /\ carriers' \in {carriers, [carriers EXCEPT ![t] = @ \cup {m.from}], [carriers EXCEPT ![t] = @ \ {m.from}]}
              /\ ending' = ending \/ (m.kind = "end" /\ ending' = [ending EXCEPT ![t] = @ \cup {m.arg}])
        BY <3>2, <4>2 DEF Receive
      <4>4. carriers'[u] \subseteq carriers[u] \/ (u = t /\ carriers'[u] \subseteq carriers[u] \cup {m.from})
        <5>1. carriers \in [Tabs -> SUBSET Tabs] BY <1>0 DEF TabTypes
        <5>2. \/ carriers' = carriers
              \/ carriers' = [carriers EXCEPT ![t] = carriers[t] \cup {m.from}]
              \/ carriers' = [carriers EXCEPT ![t] = carriers[t] \ {m.from}]
          BY <4>3
        <5>3. CASE carriers' = [carriers EXCEPT ![t] = carriers[t] \cup {m.from}]
          <6>1. carriers'[u] = IF u = t THEN carriers[t] \cup {m.from} ELSE carriers[u] BY <5>1, <5>3, Rows
          <6> QED BY <6>1
        <5>4. CASE carriers' = [carriers EXCEPT ![t] = carriers[t] \ {m.from}]
          <6>1. carriers'[u] = IF u = t THEN carriers[t] \ {m.from} ELSE carriers[u] BY <5>1, <5>4, Rows
          <6> QED BY <6>1
        <5> QED BY <5>2, <5>3, <5>4
      <4>5. \/ ending'[u] = ending[u]
            \/ u = t /\ m.kind = "end" /\ ending'[u] = ending[u] \cup {m.arg}
        BY <1>0, <4>3 DEF TabTypes
      <4> QED BY <4>3, <4>4, <4>5
    <3>3. ASSUME NEW t \in Tabs, Close(t) \/ GoesStale(t) \/ EndedForOther(t) PROVE Heard
      <4>1. \/ carriers' = carriers
            \/ carriers' = [carriers EXCEPT ![t] = {}]
            \/ carriers' = [carriers EXCEPT ![t] = carriers[t] \cap tabs]
        BY <3>3 DEF Close, GoesStale, EndedForOther
      <4>2. \/ ending' = ending
            \/ ending' = [ending EXCEPT ![t] = {}]
            \/ \E id : ending' = [ending EXCEPT ![t] = ending[t] \ {id}]
        BY <3>3 DEF Close, GoesStale, EndedForOther, acts
      <4>3. carriers \in [Tabs -> SUBSET Tabs] /\ ending \in [Tabs -> SUBSET Ids] BY <1>0 DEF TabTypes
      <4>4. \A v : [carriers EXCEPT ![t] = v][u] = IF u = t THEN v ELSE carriers[u] BY <4>3, Rows
      <4>5. \A v : [ending EXCEPT ![t] = v][u] = IF u = t THEN v ELSE ending[u] BY <4>3, Rows
      <4>6. carriers'[u] \subseteq carriers[u] BY <4>1, <4>4
      <4>7. ending'[u] \subseteq ending[u] BY <4>2, <4>5
      <4> QED BY <3>1, <4>6, <4>7
    <3> HIDE DEF Heard
    <3>4. CASE Grant BY <3>1, <3>4 DEF Grant, words, acts
    <3>5. ASSUME NEW t \in Tabs,
                 \/ Open(t) \/ Aborted(t) \/ CallBegins(t) \/ CallEnds(t) \/ EndAnswered(t)
                 \/ TakeOver(t) \/ TakeOverNow(t) \/ Leave(t) \/ HungUpHere(t) \/ HungUpElsewhere(t) \/ SignOut(t)
          PROVE  Heard
      <4>1. carriers' = carriers /\ ending' = ending
        BY <3>5 DEF Open, Aborted, CallBegins, CallEnds, EndAnswered, TakeOver, TakeOverNow, Leave, HungUpHere,
                    HungUpElsewhere, SignOut, words, acts
      <4> QED BY <4>1, <3>1
    <3> QED BY <1>2, <3>2, <3>3, <3>4, <3>5 DEF TabsNext
  <2>4. ASSUME NEW u \in Tabs PROVE u \notin carriers'[u]
    BY <1>0, <2>3 DEF Words, WordFits
  <2>5. ASSUME NEW u \in Tabs, NEW id \in ending'[u] PROVE Asked(id)'
    <3>1. id \in Ids BY <1>0, <2>5 DEF TabTypes
    <3>2. Asked(id) BY <1>0, <2>3, <2>5 DEF Words, WordFits
    <3> QED BY <3>1, <3>2, AskedStays
  <2> QED BY <2>2, <2>4, <2>5 DEF Words
<1> QED BY <1>1, <1>2

\* The answer to a tab's question is new only in a step of the tab that gives it,
\* which has settled by then; what was heard is what was in the queue.
LEMMA AnswersAreGiven ==
    ASSUME TabsInv, [TabsNext]_tabVars, NEW t \in Tabs, Idle(t), Waits(t), (t \in confirmed \/ Answered(t))'
    PROVE  \/ t \in confirmed \/ Answered(t) \/ gaveUp'
           \/ \E u \in Tabs \ {t} : Settled(u)
<1>0. TabTypes BY DEF TabsInv
<1> DEFINE Given == \/ t \in confirmed \/ Answered(t) \/ gaveUp'
                    \/ \E u \in Tabs \ {t} : Settled(u)
<1> SUFFICES Given OBVIOUS
<1>1. CASE UNCHANGED tabVars
  <2>1. UNCHANGED <<inbox, confirmed, takes>> BY <1>1 DEF tabVars, words, acts
  <2> QED BY <2>1 DEF Answered
<1>2. CASE TabsNext /\ Answered(t)'
  <2>1. PICK m \in Range(inbox'[t]) : m.kind = "ended" /\ m.arg = <<t, takes[t]>> BY <1>2 DEF Answered, Idle
  <2>2. CASE m \in Range(inbox[t]) BY <2>1, <2>2 DEF Answered
  <2>3. CASE NewWord(t, m) BY <2>1, <2>3 DEF NewWord
  <2> QED BY <1>2, <2>2, <2>3, InboxSteps DEF NewsOnly
<1>3. CASE TabsNext /\ t \in confirmed' /\ t \notin confirmed
  <2>1. ASSUME NEW u \in Tabs, Receive(u) PROVE Answered(t)
    <3>1. confirmed' = IF Head(inbox[u]).arg = <<u, takes[u]>> /\ task[u] \in {"taking", "asking"} /\ Head(inbox[u]).kind = "ended"
                       THEN confirmed \cup {u} ELSE confirmed
      BY <2>1 DEF Receive
    <3>2. u = t /\ Head(inbox[t]).arg = <<t, takes[t]>> /\ Head(inbox[t]).kind = "ended" BY <1>3, <3>1
    <3>3. inbox[t] \in Seq(TabMessages) /\ inbox[t] # <<>> BY <1>0, <2>1, <3>2 DEF Receive, TabTypes
    <3>4. Head(inbox[t]) \in Range(inbox[t])
      <4>1. PICK x \in TabMessages : x = Head(inbox[t]) BY <3>3
      <4> QED BY <3>3, <4>1, QueueRange
    <3> QED BY <3>2, <3>4 DEF Answered
  <2>2. CASE Grant BY <1>3, <2>2 DEF Grant, acts
  <2>3. ASSUME NEW u \in Tabs,
               \/ Open(u) \/ Aborted(u) \/ CallBegins(u) \/ CallEnds(u) \/ EndAnswered(u) \/ Close(u) \/ GoesStale(u)
               \/ EndedForOther(u) \/ TakeOverNow(u) \/ HungUpElsewhere(u) \/ SignOut(u)
        PROVE  confirmed' \subseteq confirmed
    BY <2>3 DEF Open, Aborted, CallBegins, CallEnds, EndAnswered, Close, GoesStale, EndedForOther, TakeOverNow,
                HungUpElsewhere, SignOut, acts
  <2>4. ASSUME NEW u \in Tabs, TakeOver(u) \/ Leave(u) \/ HungUpHere(u) PROVE confirmed' \subseteq confirmed
    BY <2>4, Zenon DEF TakeOver, Leave, HungUpHere, AskOthers
  <2> QED BY <1>3, <2>1, <2>2, <2>3, <2>4 DEF TabsNext
<1> QED BY <1>1, <1>2, <1>3

\* No wait that ran out is forgotten.
LEMMA GaveUpStays == ASSUME [TabsNext]_tabVars, gaveUp PROVE gaveUp'
<1>1. CASE UNCHANGED tabVars BY <1>1 DEF tabVars, acts
<1>2. CASE Grant BY <1>2 DEF Grant, acts
<1>3. ASSUME NEW u \in Tabs,
             \/ Open(u) \/ Aborted(u) \/ CallBegins(u) \/ CallEnds(u) \/ EndAnswered(u) \/ Close(u) \/ GoesStale(u)
             \/ EndedForOther(u) \/ TakeOverNow(u) \/ HungUpElsewhere(u) \/ SignOut(u) \/ TakeOver(u) \/ Leave(u)
             \/ HungUpHere(u) \/ Receive(u)
      PROVE  gaveUp'
  BY <1>3, Zenon DEF Open, Aborted, CallBegins, CallEnds, EndAnswered, Close, GoesStale, EndedForOther, TakeOverNow,
              HungUpElsewhere, SignOut, TakeOver, Leave, HungUpHere, Receive, Waited, acts
<1> QED BY <1>1, <1>2, <1>3 DEF TabsNext

\* A question that is only being asked has no answer yet.
LEMMA NotAnsweredYet ==
    ASSUME TabsInv, TabsNext, NEW t \in Tabs,
           takes'[t] = takes[t] + 1 \/ (takes'[t] = takes[t] /\ task[t] = "hanging")
    PROVE  ~Answered(t)'
<1>1. SUFFICES ASSUME NEW m \in Range(inbox'[t]), m.kind = "ended", m.arg = <<t, takes'[t]>> PROVE FALSE
  BY DEF Answered
<1>2. takes[t] \in Nat BY DEF TabsInv, TabTypes
<1>3. ~Asked(<<t, takes'[t]>>) BY <1>2 DEF Asked
<1>4. CASE m \in Range(inbox[t]) BY <1>1, <1>3, <1>4 DEF TabsInv, Words, WordFits
<1>5. CASE NewWord(t, m) BY <1>1, <1>3, <1>5 DEF NewWord, TabsInv, Words
<1> QED BY <1>4, <1>5, InboxSteps DEF NewsOnly

\* The browser has two tabs at most.
TwoTabs == \A t, u, v \in Tabs : u # t /\ v # t => u = v

\* What is asked for is carried by the one other tab, and by no other.
LEMMA AskingHangsUp ==
    ASSUME TwoTabs, TabsInv, TabsNext, NEW t \in Tabs,
           AskOthers(t), hungUp[t] \subseteq Home \/ gaveUp', Waits(t)', UNCHANGED <<call, toSend, kept, sent, refused>>,
           takes'[t] = takes[t] + 1 \/ (takes'[t] = takes[t] /\ task[t] = "hanging")
    PROVE  HangsUp(t)'
<1>0. TabTypes /\ Words BY DEF TabsInv
<1>1. hungUp'[t] = hungUp[t] \cup ({call[u] : u \in carriers[t]} \ {NoCall})
  BY <1>0 DEF AskOthers, TabTypes
<1>2. t \notin confirmed' BY DEF AskOthers
<1>3. ~Answered(t)' BY NotAnsweredYet
<1>4. ASSUME NEW u \in Tabs \ {t}, ~gaveUp' PROVE hungUp'[t] \subseteq InCare(u)'
  <2>1. \A v \in carriers[t] : v = u BY <1>0 DEF TwoTabs, Words, TabTypes
  <2>2. {call[v] : v \in carriers[t]} \subseteq {call[u]} BY <2>1
  <2> QED BY <1>1, <1>4, <2>2 DEF InCare, Home
<1> QED BY <1>2, <1>3, <1>4 DEF HangsUp, Waits

LEMMA HangUpsKept == ASSUME TwoTabs, TabsInv, [TabsNext]_tabVars PROVE HangUps'
<1> SUFFICES ASSUME NEW t \in Tabs PROVE HangsUp(t)' BY DEF HangUps
<1>0. TabTypes /\ Words /\ HangsUp(t) BY DEF TabsInv, HangUps
<1>1. Home \subseteq Home' BY CallsStayInCare
<1>2. \A u \in Tabs : \A c \in Calls : c \in InCare(u) => c \in InCare(u)' BY CallsStayInCare
<1>3. gaveUp => gaveUp' BY GaveUpStays
<1>4. hungUp[t] \subseteq Calls BY <1>0 DEF TabTypes
<1> DEFINE Target == HangsUp(t)'
<1> SUFFICES Target OBVIOUS
<1>5. CASE Idle(t)
  <2>1. CASE gaveUp' BY <1>0, <1>5, <2>1 DEF HangsUp, Idle
  <2>2. CASE ~gaveUp'
    <3>0. ~gaveUp BY <1>3, <2>2
    <3>1. task[t] = "none" => hungUp'[t] = {} BY <1>0, <1>5 DEF HangsUp, Idle
    <3>2. task[t] = "hanging" => hungUp'[t] \subseteq InCare(t)' BY <1>0, <1>2, <1>4, <1>5, <3>0 DEF HangsUp, Idle
    <3>3. Waits(t) => \A u \in Tabs \ {t} : hungUp'[t] \subseteq InCare(u)'
      BY <1>0, <1>2, <1>4, <1>5, <3>0 DEF HangsUp, Idle
    <3>4. ASSUME Waits(t), (t \in confirmed \/ Answered(t))' PROVE hungUp'[t] \subseteq Home'
      <4>1. CASE t \in confirmed \/ Answered(t) BY <1>0, <1>1, <1>5, <3>0, <3>4, <4>1 DEF HangsUp, Idle
      <4>2. CASE \E u \in Tabs \ {t} : Settled(u)
        <5>1. PICK u \in Tabs \ {t} : Settled(u) BY <4>2
        <5>2. hungUp[t] \subseteq InCare(u) BY <1>0, <3>0, <3>4 DEF HangsUp
        <5>3. hungUp[t] \subseteq Home BY <5>1, <5>2, <1>4, NoCallAssumption DEF InCare, Settled, Live
        <5> QED BY <5>3, <1>1, <1>5 DEF Idle
      <4> QED BY <4>1, <4>2, <2>2, <3>4, <1>5, AnswersAreGiven
    <3>5. task[t] \in {"settling", "out"} => hungUp'[t] \subseteq Home' BY <1>0, <1>1, <1>5, <3>0 DEF HangsUp, Idle
    <3>6. task'[t] = task[t] BY <1>5 DEF Idle
    <3> QED BY <3>1, <3>2, <3>3, <3>4, <3>5, <3>6 DEF HangsUp, Waits
  <2> QED BY <2>1, <2>2
<1>6. ASSUME task'[t] = "none", hungUp'[t] = {} PROVE Target BY <1>6 DEF HangsUp, Waits
<1>7. ASSUME task'[t] \in {"settling", "out"}, gaveUp' \/ hungUp'[t] \subseteq Home' PROVE Target
  BY <1>7 DEF HangsUp, Waits
<1>8. ASSUME task'[t] = "hanging", hungUp'[t] \subseteq InCare(t)' PROVE Target
  BY <1>8 DEF HangsUp, Waits
<1> HIDE DEF Target
<1>9. CASE Close(t) \/ TakeOverNow(t)
  <2>1. task'[t] = "none" /\ hungUp'[t] = {} BY <1>0, <1>9 DEF Close, TakeOverNow, TabTypes
  <2> QED BY <2>1, <1>6
<1>14. ~Idle(t) => TabsNext BY DEF Idle, tabVars, acts
<1>10. CASE ~Idle(t) /\ (TakeOver(t) \/ Leave(t))
  <2>1. task[t] = "none" /\ takes'[t] = takes[t] + 1 /\ UNCHANGED <<call, toSend, kept, sent, refused>> /\ TabsNext
    BY <1>0, <1>10, <1>14 DEF TakeOver, Leave, TabTypes, ends
  <2>2. hungUp[t] = {} BY <1>0, <2>1 DEF HangsUp
  <2>3. \/ AskOthers(t) /\ task'[t] \in {"taking", "asking"}
        \/ Live(t) /\ hungUp' = [hungUp EXCEPT ![t] = {call[t]}] /\ task'[t] = "hanging"
        \/ hungUp' = hungUp /\ task'[t] \in {"none", "settling"}
    <3>1. CASE TakeOver(t)
      <4>1. carriers[t] = {} \/ carriers[t] # {} OBVIOUS
      <4> QED BY <1>0, <3>1, <4>1, <2>1 DEF TakeOver, TabTypes
    <3>2. CASE Leave(t)
      <4>1. \/ Live(t) /\ task' = [task EXCEPT ![t] = "hanging"] /\ hungUp' = [hungUp EXCEPT ![t] = {call[t]}]
            \/ task' = [task EXCEPT ![t] = "asking"] /\ AskOthers(t)
            \/ task' = [task EXCEPT ![t] = "settling"] /\ hungUp' = hungUp
        BY <3>2, Zenon DEF Leave
      <4> QED BY <1>0, <4>1 DEF TabTypes
    <3> QED BY <1>10, <3>1, <3>2
  <2>4. CASE AskOthers(t) /\ task'[t] \in {"taking", "asking"}
    <3>1. HangsUp(t)' BY <2>1, <2>2, <2>4, AskingHangsUp DEF Waits
    <3> QED BY <3>1 DEF Target
  <2>5. CASE Live(t) /\ hungUp' = [hungUp EXCEPT ![t] = {call[t]}] /\ task'[t] = "hanging"
    <3>1. hungUp'[t] = {call[t]} /\ call'[t] = call[t] BY <1>0, <2>1, <2>5 DEF TabTypes
    <3> QED BY <3>1, <2>5, <1>8 DEF InCare
  <2>6. CASE hungUp' = hungUp /\ task'[t] \in {"none", "settling"} BY <2>2, <2>6, <1>6, <1>7
  <2> QED BY <2>3, <2>4, <2>5, <2>6
<1>11. CASE ~Idle(t) /\ HungUpHere(t)
  <2>1. task[t] = "hanging" /\ takes' = takes /\ UNCHANGED <<call, toSend, kept, sent, refused>> /\ TabsNext
    BY <1>11, <1>14 DEF HungUpHere, ends
  <2>2. Settled(t) \/ gaveUp' BY <1>11 DEF HungUpHere
  <2>3. hungUp[t] \subseteq Home \/ gaveUp'
    BY <1>0, <1>3, <1>4, <2>1, <2>2, NoCallAssumption DEF HangsUp, InCare, Settled, Live
  <2>4. \/ task' = [task EXCEPT ![t] = "settling"] /\ hungUp' = hungUp
        \/ task' = [task EXCEPT ![t] = "asking"] /\ AskOthers(t)
    BY <1>11, Zenon DEF HungUpHere
  <2>5. CASE task' = [task EXCEPT ![t] = "settling"] /\ hungUp' = hungUp
    <3>1. task'[t] = "settling" BY <1>0, <2>5 DEF TabTypes
    <3> QED BY <3>1, <2>3, <2>5, <1>1, <1>7
  <2>6. CASE task' = [task EXCEPT ![t] = "asking"] /\ AskOthers(t)
    <3>1. Waits(t)' BY <1>0, <2>6 DEF TabTypes, Waits
    <3>2. HangsUp(t)' BY <2>1, <2>3, <2>6, <3>1, AskingHangsUp
    <3> QED BY <3>2 DEF Target
  <2> QED BY <2>4, <2>5, <2>6
<1>12. CASE HungUpElsewhere(t)
  <2>1. task[t] = "asking" /\ task'[t] = "settling" /\ hungUp' = hungUp /\ (t \in confirmed \/ gaveUp')
    BY <1>0, <1>12 DEF HungUpElsewhere, Waited, TabTypes
  <2>2. gaveUp' \/ hungUp[t] \subseteq Home BY <1>0, <1>3, <2>1 DEF HangsUp, Waits
  <2> QED BY <2>1, <2>2, <1>1, <1>7
<1>13. CASE SignOut(t)
  <2>1. /\ task[t] = "settling"
        /\ \/ task'[t] = "out" /\ hungUp' = hungUp
           \/ task'[t] = "none" /\ hungUp'[t] = {}
    BY <1>0, <1>13 DEF SignOut, TabTypes
  <2>2. gaveUp' \/ hungUp[t] \subseteq Home BY <1>0, <1>3, <2>1 DEF HangsUp
  <2> QED BY <2>1, <2>2, <1>1, <1>6, <1>7
<1> QED BY <1>5, <1>9, <1>10, <1>11, <1>12, <1>13, OthersIdle

LEMMA TabsInvariant == ASSUME TwoTabs PROVE TabsSpec => []TabsInv
<1>1. TabsInit => TabsInv BY TabsStart
<1>2. TabsInv /\ [TabsNext]_tabVars => TabsInv' BY TabTypesKept, WordsKept, HangUpsKept DEF TabsInv
<1> QED BY <1>1, <1>2, PTL DEF TabsSpec

\* Signing out and taking the line over lose no call of a browser with two tabs:
\* the calls a tab asked to be hung up are over, and their ends sent, refused for
\* good or stored to be sent again, before it goes on, unless a wait ran out of time (endCalls,
\* takeOver, endElsewhere).  With a third tab the first answer ends the wait for
\* all of them, and the hypothesis cannot be dropped.
THEOREM NoCallIsCut == ASSUME TwoTabs PROVE TabsSpec => []EndsBeforeCut
<1>1. TabsInv => EndsBeforeCut
  <2> SUFFICES ASSUME TabsInv, NEW t \in Tabs, ~gaveUp,
                      task[t] = "out" \/ (task[t] \in {"taking", "asking"} /\ t \in confirmed)
               PROVE  hungUp[t] \subseteq sent \cup kept \cup refused
    BY DEF EndsBeforeCut
  <2>1. HangsUp(t) BY DEF TabsInv, HangUps
  <2> QED BY <2>1 DEF HangsUp, Waits, Home
<1> QED BY <1>1, TabsInvariant, PTL
-----------------------------------------------------------------------------
(* Bridge: what the small phones show.                                      *)

PhoneFaces == {Face(s, m) : s \in FaceStatuses, m \in BOOLEAN}
Shows == [on : BOOLEAN, face : Faces, mixed : BOOLEAN]
Screens == [widget : BOOLEAN, panel : BOOLEAN, asking : BOOLEAN, put : BOOLEAN]
Widgets == [face : Faces, open : BOOLEAN, seen : {"covered", "plain", "settled"}]

BridgeTypes ==
    /\ phone \in [Panels -> PhoneFaces] /\ active \in [Panels -> BOOLEAN]
    /\ keptSocket \in Clients \cup {"none"}
    /\ app \in Shows /\ windows \in Screens
    /\ toApp \in Seq(Messages) /\ toWorker \in Seq(PhoneFaces)
    /\ worker \in Faces /\ page \in Widgets
    /\ \A o \in orders : o.panel \in Panels

\* What the app shows once all that was said to it is heard.
Final == IF toApp = <<>> THEN app.face ELSE toApp[Len(toApp)].face

\* A face is that of the tab's phone, or has no button.
IsTrue(f) == f = phone["tab"] \/ PageButtons(f) = {}

\* A panel has a socket only with the line; the app's own has had it since the app
\* began, or has none.
OwnIsMixed ==
    /\ active["own"] => app.mixed
    /\ keptSocket \in Panels => active[keptSocket]

\* What the worker last heard, or has still to hear, is the tab's face, unless it
\* was stopped since.
WorkerIsTold ==
    active["tab"] =>
      /\ toWorker # <<>> => toWorker[Len(toWorker)] = phone["tab"]
      /\ toWorker = <<>> => worker \in {phone["tab"], IdleFace} /\ IsTrue(page.face)

\* The app without a socket shows no button; with the worker's it shows what the
\* worker has heard.
AppIsTold ==
    ~app.mixed =>
      /\ keptSocket = "none" => PageButtons(Final) = {}
      /\ active["tab"] /\ (toWorker = <<>> \/ keptSocket # "ext") => IsTrue(Final)

RingsInSight == app.on /\ app.face.status = "incoming" => windows.widget \/ windows.put

BridgeInv == BridgeTypes /\ OwnIsMixed /\ WorkerIsTold /\ AppIsTold /\ RingsInSight

USE DEF Panels, Clients

LEMMA FaceFacts ==
    /\ PhoneFaces \subseteq Faces /\ Disconnected \in Faces /\ IdleFace \in Faces
    /\ \A f \in PhoneFaces : f # IdleFace /\ f.status \in FaceStatuses
    /\ \A f \in Faces : CleanState(f) = f
    /\ PageButtons(Disconnected) = {} /\ PageButtons(IdleFace) = {}
    /\ Disconnected.status # "incoming" /\ IdleFace.status # "incoming"
    /\ \A s \in FaceStatuses, m \in BOOLEAN : Face(s, m) \in PhoneFaces
<1>1. PhoneFaces \subseteq Faces /\ Disconnected \in Faces /\ IdleFace \in Faces
  BY DEF PhoneFaces, Faces
<1>2. \A s \in FaceStatuses, m \in BOOLEAN : Face(s, m) \in PhoneFaces BY DEF PhoneFaces
<1>3. ASSUME NEW s \in FaceStatuses, NEW m \in BOOLEAN
      PROVE  Face(s, m) # IdleFace /\ Face(s, m).status = s
  BY DEF Face, IdleFace, FaceStatuses, InACall
<1>4. \A f \in PhoneFaces : f # IdleFace /\ f.status \in FaceStatuses
  BY <1>3 DEF PhoneFaces
<1>5. Disconnected.status = "disconnected" /\ IdleFace.status = "idle"
  BY DEF Disconnected, IdleFace, Face
<1>6. \A f \in Faces : CleanState(f) = f
  <2> SUFFICES ASSUME NEW f \in Faces PROVE CleanState(f) = f OBVIOUS
  <2>1. CASE f \in PhoneFaces BY <1>4, <2>1 DEF CleanState
  <2>2. CASE f = Disconnected \/ f = IdleFace BY <1>5, <2>2 DEF CleanState
  <2> QED BY <2>1, <2>2 DEF Faces, PhoneFaces
<1>7. PageButtons(Disconnected) = {} /\ PageButtons(IdleFace) = {}
  <2>1. ASSUME NEW f, f.status \in {"disconnected", "idle"} PROVE PageButtons(f) = {}
    BY <2>1 DEF PageButtons
  <2> QED BY <1>5, <2>1
<1> QED BY <1>1, <1>2, <1>4, <1>5, <1>6, <1>7

\* A message said at the end of a queue is the last one of it.
LEMMA SaidLast ==
    ASSUME NEW S, NEW s \in Seq(S), NEW x \in S
    PROVE  /\ s \o <<x>> \in Seq(S) /\ s \o <<x>> # <<>> /\ (s \o <<x>>)[Len(s \o <<x>>)] = x
           /\ Append(s, x) \in Seq(S) /\ Append(s, x) # <<>> /\ Append(s, x)[Len(Append(s, x))] = x
           /\ s \o <<>> = s
<1>1. s \o <<x>> = Append(s, x) /\ s \o <<>> = s OBVIOUS
<1>2. Append(s, x) \in Seq(S) /\ Append(s, x) # <<>> /\ Append(s, x)[Len(Append(s, x))] = x OBVIOUS
<1> QED BY <1>1, <1>2

\* What is heard first leaves the last one where it was, or is the last one.
LEMMA HeardFirst ==
    ASSUME NEW S, NEW s \in Seq(S), s # <<>>
    PROVE  /\ Head(s) \in S /\ Tail(s) \in Seq(S)
           /\ Tail(s) = <<>> => Head(s) = s[Len(s)]
           /\ Tail(s) # <<>> => Tail(s)[Len(Tail(s))] = s[Len(s)]
<1>1. Head(s) = s[1] /\ Head(s) \in S /\ Tail(s) \in Seq(S) /\ Len(Tail(s)) = Len(s) - 1 /\ Len(s) \in Nat \ {0}
  OBVIOUS
<1>2. \A i \in 1 .. Len(Tail(s)) : Tail(s)[i] = s[i + 1] OBVIOUS
<1>3. Tail(s) = <<>> => Head(s) = s[Len(s)]
  <2> SUFFICES ASSUME Tail(s) = <<>> PROVE Head(s) = s[Len(s)] OBVIOUS
  <2>1. Len(Tail(s)) = 0 BY EmptySeq
  <2> QED BY <1>1, <2>1
<1>4. Tail(s) # <<>> => Tail(s)[Len(Tail(s))] = s[Len(s)]
  <2> SUFFICES ASSUME Tail(s) # <<>> PROVE Tail(s)[Len(Tail(s))] = s[Len(s)] OBVIOUS
  <2>1. Len(Tail(s)) \in 1 .. Len(Tail(s)) BY <1>1
  <2> QED BY <1>1, <1>2, <2>1
<1> QED BY <1>1, <1>3, <1>4

LEMMA BridgeStart == ASSUME BridgeInit PROVE BridgeInv
<1>1. "registered" \in FaceStatuses /\ "disabled" \in FaceStatuses BY DEF FaceStatuses
<1>2. Face("registered", FALSE) \in PhoneFaces /\ Face("disabled", FALSE) \in PhoneFaces
  BY <1>1, FaceFacts
<1>3. /\ phone \in [Panels -> PhoneFaces] /\ phone["tab"] \in PhoneFaces
      /\ active \in [Panels -> BOOLEAN] /\ ~active["own"]
  <2>1. phone = [p \in Panels |-> IF p = "tab" THEN Face("registered", FALSE) ELSE Face("disabled", FALSE)]
    BY DEF BridgeInit
  <2> QED BY <1>2, <2>1 DEF BridgeInit
<1>4. toWorker = <<phone["tab"]>> /\ toApp = <<>> BY DEF BridgeInit
<1>5. toWorker \in Seq(PhoneFaces) /\ toWorker # <<>> /\ toWorker[Len(toWorker)] = phone["tab"]
  BY <1>3, <1>4
<1>6. toApp \in Seq(Messages) BY <1>4
<1>7. /\ app \in Shows /\ app.face = Disconnected /\ windows \in Screens /\ worker \in Faces
      /\ page \in Widgets /\ keptSocket = "none" /\ orders = {}
  BY FaceFacts DEF BridgeInit, Shows, Screens, Widgets
<1>8. BridgeTypes BY <1>3, <1>5, <1>6, <1>7 DEF BridgeTypes
<1>9. OwnIsMixed BY <1>3, <1>7 DEF OwnIsMixed
<1>10. Final = Disconnected BY <1>4, <1>7 DEF Final
<1>11. AppIsTold BY <1>10, FaceFacts DEF AppIsTold, IsTrue
<1>12. RingsInSight BY <1>7, FaceFacts DEF RingsInSight
<1> QED BY <1>5, <1>8, <1>9, <1>11, <1>12 DEF BridgeInv, WorkerIsTold

\* What a panel or the worker says reaches the app from the one it keeps.
LEMMA SaidFacts ==
    ASSUME NEW s \in Seq(Messages), NEW c \in Clients \cup {"ipc"}, NEW f \in Faces
    PROVE  /\ s \o Said(c, f) \in Seq(Messages)
           /\ s \o <<[from |-> c, face |-> f]>> \in Seq(Messages)
           /\ s \o <<[from |-> c, face |-> f]>> # <<>>
           /\ (s \o <<[from |-> c, face |-> f]>>)[Len(s \o <<[from |-> c, face |-> f]>>)].face = f
           /\ keptSocket = c => /\ s \o Said(c, f) # <<>>
                                /\ (s \o Said(c, f))[Len(s \o Said(c, f))].face = f
           /\ keptSocket # c => s \o Said(c, f) = s
<1> DEFINE m == [from |-> c, face |-> f]
<1>1. m \in Messages /\ m.face = f BY DEF Messages
<1>2. /\ s \o <<m>> \in Seq(Messages) /\ s \o <<m>> # <<>> /\ (s \o <<m>>)[Len(s \o <<m>>)] = m
      /\ s \o <<>> = s
  BY <1>1, SaidLast
<1>3. Said(c, f) = IF keptSocket = c THEN <<m>> ELSE <<>> BY DEF Said
<1> QED BY <1>1, <1>2, <1>3

LEMMA PublishFacts ==
    ASSUME BridgeTypes, NEW p \in Panels, NEW f \in PhoneFaces, Publish(p, f)
    PROVE  /\ toApp' \in Seq(Messages) /\ toWorker' \in Seq(PhoneFaces)
           /\ p = "tab" => toWorker' # <<>> /\ toWorker'[Len(toWorker')] = f
           /\ p = "own" => toWorker' = toWorker
           /\ p = "tab" /\ keptSocket = "tab" => toApp' # <<>> /\ toApp'[Len(toApp')].face = f
           /\ p = "tab" /\ keptSocket # "tab" => toApp' = toApp
<1>1. toApp \in Seq(Messages) /\ toWorker \in Seq(PhoneFaces) /\ f \in Faces
  BY FaceFacts DEF BridgeTypes
<1>2. CASE p = "tab"
  <2>1. toWorker' = Append(toWorker, f) BY <1>2 DEF Publish
  <2>2. toWorker' \in Seq(PhoneFaces) /\ toWorker' # <<>> /\ toWorker'[Len(toWorker')] = f
    BY <1>1, <2>1, SaidLast
  <2>3. toApp' = (toApp \o <<>>) \o Said("tab", f) BY <1>2 DEF Publish
  <2>4. toApp' = toApp \o Said("tab", f)
    <3>1. toApp \o <<>> = toApp BY <1>1
    <3> QED BY <2>3, <3>1
  <2>5. toApp' \in Seq(Messages) BY <1>1, <2>4, SaidFacts
  <2>6. keptSocket = "tab" => toApp' # <<>> /\ toApp'[Len(toApp')].face = f
    BY <1>1, <2>4, SaidFacts
  <2>7. keptSocket # "tab" => toApp' = toApp BY <1>1, <2>4, SaidFacts
  <2> QED BY <1>2, <2>2, <2>5, <2>6, <2>7
<1>3. CASE p = "own"
  <2>1. toWorker' = toWorker BY <1>3 DEF Publish
  <2>2. toApp' = (toApp \o <<[from |-> "ipc", face |-> f]>>) \o Said("own", f) BY <1>3 DEF Publish
  <2>3. toApp \o <<[from |-> "ipc", face |-> f]>> \in Seq(Messages) BY <1>1, SaidFacts
  <2>4. toApp' \in Seq(Messages) BY <1>1, <2>2, <2>3, SaidFacts
  <2> QED BY <1>1, <1>3, <2>1, <2>4
<1> QED BY <1>2, <1>3

\* A command leaves a panel with a face of a phone.
LEMMA RunsFacts ==
    ASSUME BridgeTypes, NEW o \in orders
    PROVE  o.panel \in Panels /\ Runs(o) \in PhoneFaces
<1> DEFINE f == phone[o.panel]
<1>1. o.panel \in Panels /\ f \in PhoneFaces BY DEF BridgeTypes
<1>2. \A s \in {"calling", "in-call", "registered"} : Face(s, FALSE) \in PhoneFaces
  <2>1. {"calling", "in-call", "registered"} \subseteq FaceStatuses BY DEF FaceStatuses, InACall
  <2> QED BY <2>1, FaceFacts
<1>3. [f EXCEPT !.muted = ~@] \in PhoneFaces
  <2>1. PICK s \in FaceStatuses, m \in BOOLEAN : f = Face(s, m) BY <1>1 DEF PhoneFaces
  <2>2. [f EXCEPT !.muted = ~@] = Face(s, ~m) BY <2>1 DEF Face
  <2>3. (~m) \in BOOLEAN OBVIOUS
  <2> QED BY <2>2, <2>3, FaceFacts
<1>4. Runs(o) \in {Face("calling", FALSE), Face("in-call", FALSE), Face("registered", FALSE),
                   [f EXCEPT !.muted = ~@], f}
  BY DEF Runs
<1> QED BY <1>1, <1>2, <1>3, <1>4

\* A phone that changes is shown what it does, by the one who holds the line.
LEMMA BecomesKeeps ==
    ASSUME BridgeInv, NEW p \in Panels, NEW f \in PhoneFaces, active[p], Becomes(p, f),
           UNCHANGED <<active, keptSocket, app, windows, worker, page>>,
           \A o \in orders' : o.panel \in Panels
    PROVE  BridgeInv'
<1>0. BridgeTypes /\ OwnIsMixed /\ WorkerIsTold /\ AppIsTold /\ RingsInSight BY DEF BridgeInv
<1>1. phone' = [phone EXCEPT ![p] = f] /\ phone' \in [Panels -> PhoneFaces] /\ phone'[p] = f
  BY <1>0 DEF BridgeTypes, Becomes
<1>2. CASE f = phone[p]
  <2>1. phone' = phone BY <1>0, <1>1, <1>2 DEF BridgeTypes
  <2>2. UNCHANGED <<toApp, toWorker>> BY <1>2 DEF Becomes
  <2>3. BridgeTypes' BY <1>0, <2>1, <2>2 DEF BridgeTypes
  <2>4. OwnIsMixed' BY <1>0 DEF OwnIsMixed
  <2>5. WorkerIsTold' BY <1>0, <2>1, <2>2 DEF WorkerIsTold, IsTrue
  <2>6. AppIsTold' BY <1>0, <2>1, <2>2 DEF AppIsTold, IsTrue, Final
  <2>7. RingsInSight' BY <1>0 DEF RingsInSight
  <2> QED BY <2>3, <2>4, <2>5, <2>6, <2>7 DEF BridgeInv
<1>3. CASE f # phone[p]
  <2>1. Publish(p, f) BY <1>3 DEF Becomes
  <2>2. /\ toApp' \in Seq(Messages) /\ toWorker' \in Seq(PhoneFaces)
        /\ p = "tab" => toWorker' # <<>> /\ toWorker'[Len(toWorker')] = f
        /\ p = "own" => toWorker' = toWorker
        /\ p = "tab" /\ keptSocket = "tab" => toApp' # <<>> /\ toApp'[Len(toApp')].face = f
        /\ p = "tab" /\ keptSocket # "tab" => toApp' = toApp
    BY <1>0, <2>1, PublishFacts
  <2>3. BridgeTypes' BY <1>0, <1>1, <2>2 DEF BridgeTypes
  <2>4. OwnIsMixed' BY <1>0 DEF OwnIsMixed
  <2>5. RingsInSight' BY <1>0 DEF RingsInSight
  <2>6. WorkerIsTold'
    <3>1. CASE p = "tab" BY <1>1, <2>2, <3>1 DEF WorkerIsTold
    <3>2. CASE p = "own"
      <4>1. phone'["tab"] = phone["tab"] /\ toWorker' = toWorker BY <1>0, <1>1, <2>2, <3>2 DEF BridgeTypes
      <4> QED BY <1>0, <4>1 DEF WorkerIsTold, IsTrue
    <3> QED BY <3>1, <3>2
  <2>7. AppIsTold'
    <3>1. CASE p = "own" BY <1>0, <3>1 DEF OwnIsMixed, AppIsTold
    <3>2. CASE p = "tab" /\ keptSocket = "tab"
      <4>1. Final' = phone'["tab"] BY <1>1, <2>2, <3>2 DEF Final
      <4> QED BY <3>2, <4>1 DEF AppIsTold, IsTrue
    <3>3. CASE p = "tab" /\ keptSocket # "tab"
      <4>1. Final' = Final /\ toWorker' # <<>> BY <2>2, <3>3 DEF Final
      <4>2. ~app.mixed => keptSocket \in {"ext", "none"} BY <1>0, <3>3 DEF BridgeTypes, OwnIsMixed
      <4> QED BY <1>0, <4>1, <4>2 DEF AppIsTold, IsTrue
    <3> QED BY <3>1, <3>2, <3>3
  <2> QED BY <2>3, <2>4, <2>5, <2>6, <2>7 DEF BridgeInv
<1> QED BY <1>2, <1>3

\* Who goes shuts its socket, and the app shows that nobody is there.
LEMMA ShutsFacts ==
    ASSUME BridgeTypes, NEW c \in Clients, Shuts(c)
    PROVE  /\ toApp' \in Seq(Messages) /\ keptSocket' \in Clients \cup {"none"} /\ keptSocket' # c
           /\ keptSocket = c => /\ keptSocket' = "none" /\ toApp' # <<>>
                                /\ toApp'[Len(toApp')].face = Disconnected
           /\ keptSocket # c => keptSocket' = keptSocket /\ toApp' = toApp
<1>1. toApp \in Seq(Messages) /\ Disconnected \in Faces BY FaceFacts DEF BridgeTypes
<1>2. toApp' = toApp \o Said(c, Disconnected) BY DEF Shuts
<1>3. toApp' \in Seq(Messages) BY <1>1, <1>2, SaidFacts
<1>4. keptSocket = c => toApp' # <<>> /\ toApp'[Len(toApp')].face = Disconnected
  BY <1>1, <1>2, SaidFacts
<1>5. keptSocket # c => toApp' = toApp BY <1>1, <1>2, SaidFacts
<1>6. keptSocket' = IF keptSocket = c THEN "none" ELSE keptSocket BY DEF Shuts
<1>7. keptSocket \in Clients \cup {"none"} BY DEF BridgeTypes
<1>8. keptSocket' # c /\ keptSocket' \in Clients \cup {"none"} BY <1>6, <1>7
<1> QED BY <1>3, <1>4, <1>5, <1>6, <1>8

LEMMA LosesLineKeeps ==
    ASSUME BridgeInv, NEW p \in Panels, LosesLine(p) PROVE BridgeInv'
<1>0. BridgeTypes /\ OwnIsMixed /\ WorkerIsTold /\ AppIsTold /\ RingsInSight BY DEF BridgeInv
<1>1. /\ active' = [active EXCEPT ![p] = FALSE] /\ active[p]
      /\ phone' = [phone EXCEPT ![p] = Face("disabled", FALSE)]
      /\ Shuts(p) /\ UNCHANGED <<app, windows, toWorker, worker, page, orders>>
  BY DEF LosesLine
<1>2. /\ toApp' \in Seq(Messages) /\ keptSocket' \in Clients \cup {"none"} /\ keptSocket' # p
      /\ keptSocket = p => /\ keptSocket' = "none" /\ toApp' # <<>>
                           /\ toApp'[Len(toApp')].face = Disconnected
      /\ keptSocket # p => keptSocket' = keptSocket /\ toApp' = toApp
  BY <1>0, <1>1, ShutsFacts
<1>3. phone' \in [Panels -> PhoneFaces] /\ active' \in [Panels -> BOOLEAN]
  <2>1. "disabled" \in FaceStatuses BY DEF FaceStatuses
  <2>2. Face("disabled", FALSE) \in PhoneFaces BY <2>1, FaceFacts
  <2> QED BY <1>0, <1>1, <2>2 DEF BridgeTypes
<1>4. BridgeTypes' BY <1>0, <1>1, <1>2, <1>3 DEF BridgeTypes
<1>5. ~active'[p] /\ \A q \in Panels : q # p => active'[q] = active[q] /\ phone'[q] = phone[q]
  BY <1>0, <1>1 DEF BridgeTypes
<1>6. OwnIsMixed'
  <2>1. active'["own"] => app'.mixed BY <1>0, <1>1, <1>5 DEF OwnIsMixed
  <2>2. keptSocket' \in Panels => active'[keptSocket'] BY <1>0, <1>2, <1>5 DEF OwnIsMixed
  <2> QED BY <2>1, <2>2 DEF OwnIsMixed
<1>7. WorkerIsTold'
  <2>1. CASE p = "tab" BY <1>5, <2>1 DEF WorkerIsTold
  <2>2. CASE p # "tab" BY <1>0, <1>1, <1>5, <2>2 DEF WorkerIsTold, IsTrue
  <2> QED BY <2>1, <2>2
<1>8. AppIsTold'
  <2>1. CASE p = "own" BY <1>0, <1>1, <2>1 DEF OwnIsMixed, AppIsTold
  <2>2. CASE p = "tab"
    <3>1. keptSocket = "tab" => PageButtons(Final') = {} BY <1>2, <2>2, FaceFacts DEF Final
    <3>2. keptSocket # "tab" => Final' = Final BY <1>1, <1>2, <2>2 DEF Final
    <3> QED BY <1>0, <1>1, <1>2, <1>5, <2>2, <3>1, <3>2 DEF AppIsTold
  <2> QED BY <2>1, <2>2
<1>9. RingsInSight' BY <1>0, <1>1 DEF RingsInSight
<1> QED BY <1>4, <1>6, <1>7, <1>8, <1>9 DEF BridgeInv

LEMMA GetsLineKeeps ==
    ASSUME BridgeInv, NEW p \in Panels, GetsLine(p) PROVE BridgeInv'
<1>0. BridgeTypes /\ OwnIsMixed /\ WorkerIsTold /\ AppIsTold /\ RingsInSight BY DEF BridgeInv
<1> DEFINE f == Face("registered", FALSE)
<1>1. f \in PhoneFaces
  <2>1. "registered" \in FaceStatuses BY DEF FaceStatuses
  <2> QED BY <2>1, FaceFacts
<1>2. /\ active' = [active EXCEPT ![p] = TRUE] /\ ~active[p] /\ phone' = [phone EXCEPT ![p] = f]
      /\ app' = [app EXCEPT !.mixed = app.mixed \/ p = "own"]
      /\ UNCHANGED <<keptSocket, windows, worker, page, orders>>
  BY DEF GetsLine
<1>3. phone' \in [Panels -> PhoneFaces] /\ active' \in [Panels -> BOOLEAN] /\ phone'[p] = f
  BY <1>0, <1>1, <1>2 DEF BridgeTypes
<1>4. Publish(p, f) BY <1>3 DEF GetsLine
<1>5. /\ toApp' \in Seq(Messages) /\ toWorker' \in Seq(PhoneFaces)
      /\ p = "tab" => toWorker' # <<>> /\ toWorker'[Len(toWorker')] = f
      /\ p = "own" => toWorker' = toWorker
      /\ p = "tab" /\ keptSocket # "tab" => toApp' = toApp
  BY <1>0, <1>1, <1>4, PublishFacts
<1>6. /\ app' \in Shows /\ app'.face = app.face /\ app'.on = app.on
      /\ app'.mixed = (app.mixed \/ p = "own")
  BY <1>0, <1>2 DEF BridgeTypes, Shows
<1>7. BridgeTypes' BY <1>0, <1>2, <1>3, <1>5, <1>6 DEF BridgeTypes
<1>8. active'[p] /\ \A q \in Panels : q # p => active'[q] = active[q] /\ phone'[q] = phone[q]
  BY <1>0, <1>2 DEF BridgeTypes
<1>9. keptSocket # p BY <1>0, <1>2 DEF OwnIsMixed
<1>10. OwnIsMixed' BY <1>0, <1>2, <1>6, <1>8 DEF OwnIsMixed
<1>11. RingsInSight' BY <1>0, <1>2, <1>6 DEF RingsInSight
<1>12. CASE p = "own"
  <2>1. WorkerIsTold' BY <1>0, <1>2, <1>5, <1>8, <1>12 DEF WorkerIsTold, IsTrue
  <2>2. AppIsTold' BY <1>6, <1>12 DEF AppIsTold
  <2> QED BY <1>7, <1>10, <1>11, <2>1, <2>2 DEF BridgeInv
<1>13. CASE p = "tab"
  <2>1. WorkerIsTold' BY <1>3, <1>5, <1>13 DEF WorkerIsTold
  <2>2. Final' = Final /\ toWorker' # <<>> BY <1>5, <1>6, <1>9, <1>13 DEF Final
  <2>3. ~app'.mixed => ~app.mixed /\ keptSocket \in {"ext", "none"}
    BY <1>0, <1>6, <1>9, <1>13 DEF BridgeTypes, OwnIsMixed
  <2>4. AppIsTold' BY <1>0, <1>2, <2>2, <2>3 DEF AppIsTold, IsTrue
  <2> QED BY <1>7, <1>10, <1>11, <2>1, <2>4 DEF BridgeInv
<1> QED BY <1>12, <1>13

\* Who has no socket says its face when it connects, and the app keeps it alone.
LEMMA ConnectsKeeps ==
    ASSUME BridgeInv, NEW c \in Clients, Connects(c) PROVE BridgeInv'
<1>0. BridgeTypes /\ OwnIsMixed /\ WorkerIsTold /\ AppIsTold /\ RingsInSight BY DEF BridgeInv
<1> DEFINE f == FirstWord(c)
           m == [from |-> c, face |-> f]
<1>1. /\ c # keptSocket /\ keptSocket' = c /\ toApp = <<>> /\ (c \in Panels => active[c])
      /\ toApp' = IF f = IdleFace THEN toApp ELSE <<m>>
      /\ UNCHANGED <<phone, active, app, windows, toWorker, worker, page, orders>>
  BY DEF Connects
<1>2. f = IF c = "ext" THEN worker ELSE phone[c] BY DEF FirstWord
<1>3. f \in Faces /\ (c \in Panels => f \in PhoneFaces) BY <1>0, <1>2, FaceFacts DEF BridgeTypes
<1>4. m \in Messages /\ m.face = f BY <1>3 DEF Messages
<1>5. /\ <<m>> \in Seq(Messages) /\ <<m>> # <<>> /\ <<m>>[Len(<<m>>)] = m
  BY <1>4
<1>6. BridgeTypes' BY <1>0, <1>1, <1>5 DEF BridgeTypes
<1>7. OwnIsMixed' BY <1>0, <1>1 DEF OwnIsMixed
<1>8. WorkerIsTold' BY <1>0, <1>1 DEF WorkerIsTold, IsTrue
<1>9. RingsInSight' BY <1>0, <1>1 DEF RingsInSight
<1>10. Final = app.face BY <1>1 DEF Final
<1>11. Final' = IF f = IdleFace THEN app.face ELSE f BY <1>1, <1>4, <1>5 DEF Final
<1>12. AppIsTold'
  <2> SUFFICES ASSUME ~app.mixed, active["tab"], toWorker = <<>> \/ c # "ext"
               PROVE  Final' = phone["tab"] \/ PageButtons(Final') = {}
    BY <1>1 DEF AppIsTold, IsTrue
  <2>1. CASE c = "own" BY <1>0, <1>1, <2>1 DEF OwnIsMixed
  <2>2. CASE c = "tab"
    <3>1. f = phone["tab"] /\ f # IdleFace BY <1>2, <1>3, <2>2, FaceFacts
    <3> QED BY <1>11, <3>1
  <2>3. CASE c = "ext"
    <3>1. f \in {phone["tab"], IdleFace} BY <1>0, <1>2, <2>3 DEF WorkerIsTold
    <3>2. CASE f = IdleFace
      <4>1. IsTrue(Final) BY <1>0, <2>3 DEF AppIsTold
      <4> QED BY <1>10, <1>11, <3>2, <4>1 DEF IsTrue
    <3>3. CASE f # IdleFace BY <1>11, <3>1, <3>3
    <3> QED BY <3>2, <3>3
  <2> QED BY <2>1, <2>2, <2>3
<1> QED BY <1>6, <1>7, <1>8, <1>9, <1>12 DEF BridgeInv

\* The app shows what it hears: what it will show in the end is the same.
LEMMA AppHearsKeeps == ASSUME BridgeInv, AppHears PROVE BridgeInv'
<1>0. BridgeTypes /\ OwnIsMixed /\ WorkerIsTold /\ AppIsTold /\ RingsInSight BY DEF BridgeInv
<1> DEFINE m == Head(toApp)
<1>1. /\ toApp # <<>> /\ toApp' = Tail(toApp) /\ toApp \in Seq(Messages)
      /\ UNCHANGED <<phone, active, keptSocket, toWorker, worker, page, orders>>
  BY <1>0 DEF AppHears, BridgeTypes
<1>2. /\ m \in Messages /\ toApp' \in Seq(Messages)
      /\ toApp' = <<>> => m = toApp[Len(toApp)]
      /\ toApp' # <<>> => toApp'[Len(toApp')] = toApp[Len(toApp)]
  BY <1>1, HeardFirst
<1>3. m.face \in Faces /\ CleanState(m.face) = m.face BY <1>2, FaceFacts DEF Messages
<1>4. /\ app' = [app EXCEPT !.face = m.face]
      /\ windows' = IF m.face.status = "incoming" THEN [windows EXCEPT !.widget = TRUE, !.put = FALSE]
                    ELSE windows
  BY <1>3 DEF AppHears, BroadcastCallState
<1>5. app' \in Shows /\ app'.face = m.face /\ app'.mixed = app.mixed
  BY <1>0, <1>3, <1>4 DEF BridgeTypes, Shows
<1>6. windows' \in Screens /\ (m.face.status = "incoming" => windows'.widget)
  BY <1>0, <1>4 DEF BridgeTypes, Screens
<1>7. BridgeTypes' BY <1>0, <1>1, <1>2, <1>5, <1>6 DEF BridgeTypes
<1>8. OwnIsMixed' BY <1>0, <1>1, <1>5 DEF OwnIsMixed
<1>9. WorkerIsTold' BY <1>0, <1>1 DEF WorkerIsTold, IsTrue
<1>10. Final' = Final BY <1>1, <1>2, <1>5 DEF Final
<1>11. AppIsTold' BY <1>0, <1>1, <1>5, <1>10 DEF AppIsTold, IsTrue
<1>12. RingsInSight' BY <1>5, <1>6 DEF RingsInSight
<1> QED BY <1>7, <1>8, <1>9, <1>11, <1>12 DEF BridgeInv

\* The windows may be moved: who hides a ringing widget put it away.
LEMMA WindowMovesKeeps == ASSUME BridgeInv, WindowMoves PROVE BridgeInv'
<1>0. BridgeTypes /\ OwnIsMixed /\ WorkerIsTold /\ AppIsTold /\ RingsInSight BY DEF BridgeInv
<1>1. UNCHANGED <<phone, active, keptSocket, app, toApp, toWorker, worker, page, orders>>
  BY DEF WindowMoves
<1>2. windows \in Screens BY <1>0 DEF BridgeTypes
<1>3. windows' \in Screens /\ (windows.widget \/ windows.put => windows'.widget \/ windows'.put)
  BY <1>2 DEF WindowMoves, ShowPanelWindow, ClosePanelWindow, HideWidget, TogglePanelWindow,
              ToggleWidget, OnlyPanel, OnlyWidget, SecondInstance, AsksToLeave, Stays, Screens
<1>4. BridgeTypes' BY <1>0, <1>1, <1>3 DEF BridgeTypes
<1>5. OwnIsMixed' BY <1>0, <1>1 DEF OwnIsMixed
<1>6. WorkerIsTold' BY <1>0, <1>1 DEF WorkerIsTold, IsTrue
<1>7. AppIsTold' BY <1>0, <1>1 DEF AppIsTold, IsTrue, Final
<1>8. RingsInSight' BY <1>0, <1>1, <1>3 DEF RingsInSight
<1> QED BY <1>4, <1>5, <1>6, <1>7, <1>8 DEF BridgeInv

\* An app that lost its socket, ended or starts again shows that nobody is there.
LEMMA AppAloneKeeps == ASSUME BridgeInv, GoesSilent \/ QuitApplication \/ AppStarts PROVE BridgeInv'
<1>0. BridgeTypes /\ OwnIsMixed /\ WorkerIsTold /\ AppIsTold /\ RingsInSight BY DEF BridgeInv
<1>1. CASE GoesSilent
  <2>1. /\ keptSocket' = "none" /\ toApp = <<>> /\ app' = [app EXCEPT !.face = Disconnected]
        /\ UNCHANGED <<phone, active, windows, toApp, toWorker, worker, page, orders>>
    BY <1>1 DEF GoesSilent
  <2>2. app' \in Shows /\ app'.face = Disconnected /\ app'.mixed = app.mixed
    BY <1>0, <2>1, FaceFacts DEF BridgeTypes, Shows
  <2>3. BridgeTypes' BY <1>0, <2>1, <2>2 DEF BridgeTypes
  <2>4. OwnIsMixed' BY <1>0, <2>1, <2>2 DEF OwnIsMixed
  <2>5. WorkerIsTold' BY <1>0, <2>1 DEF WorkerIsTold, IsTrue
  <2>6. Final' = Disconnected BY <2>1, <2>2 DEF Final
  <2>7. AppIsTold' BY <2>6, FaceFacts DEF AppIsTold, IsTrue
  <2>8. RingsInSight' BY <2>2, FaceFacts DEF RingsInSight
  <2> QED BY <2>3, <2>4, <2>5, <2>7, <2>8 DEF BridgeInv
<1>2. CASE QuitApplication
  <2>1. /\ app' = [on |-> FALSE, face |-> Disconnected, mixed |-> FALSE]
        /\ keptSocket' = "none" /\ toApp' = <<>>
        /\ windows' = [windows EXCEPT !.widget = FALSE, !.panel = FALSE, !.asking = FALSE, !.put = FALSE]
        /\ active' = [active EXCEPT !["own"] = FALSE]
        /\ phone' = [phone EXCEPT !["own"] = Face("disabled", FALSE)]
        /\ orders' \subseteq orders /\ UNCHANGED <<toWorker, worker, page>>
    BY <1>2 DEF QuitApplication
  <2>2. app' \in Shows /\ app'.face = Disconnected /\ ~app'.on BY <2>1, FaceFacts DEF Shows
  <2>3. /\ active' \in [Panels -> BOOLEAN] /\ ~active'["own"] /\ active'["tab"] = active["tab"]
        /\ phone'["tab"] = phone["tab"]
    BY <1>0, <2>1 DEF BridgeTypes
  <2>4. phone' \in [Panels -> PhoneFaces]
    <3>1. "disabled" \in FaceStatuses BY DEF FaceStatuses
    <3>2. Face("disabled", FALSE) \in PhoneFaces BY <3>1, FaceFacts
    <3> QED BY <1>0, <2>1, <3>2 DEF BridgeTypes
  <2>5. windows' \in Screens BY <1>0, <2>1 DEF BridgeTypes, Screens
  <2>6. toApp' \in Seq(Messages) BY <2>1
  <2>7. BridgeTypes' BY <1>0, <2>1, <2>2, <2>3, <2>4, <2>5, <2>6 DEF BridgeTypes
  <2>8. OwnIsMixed' BY <2>1, <2>3 DEF OwnIsMixed
  <2>9. WorkerIsTold' BY <1>0, <2>1, <2>3 DEF WorkerIsTold, IsTrue
  <2>10. Final' = Disconnected BY <2>1, <2>2 DEF Final
  <2>11. AppIsTold' BY <2>10, FaceFacts DEF AppIsTold, IsTrue
  <2>12. RingsInSight' BY <2>2 DEF RingsInSight
  <2> QED BY <2>7, <2>8, <2>9, <2>11, <2>12 DEF BridgeInv
<1>3. CASE AppStarts
  <2>1. /\ app' = [app EXCEPT !.on = TRUE]
        /\ windows' = [windows EXCEPT !.widget = TRUE, !.panel = TRUE]
        /\ UNCHANGED <<phone, active, keptSocket, toApp, toWorker, worker, page, orders>>
    BY <1>3 DEF AppStarts
  <2>2. app' \in Shows /\ app'.face = app.face /\ app'.mixed = app.mixed
    BY <1>0, <2>1 DEF BridgeTypes, Shows
  <2>3. windows' \in Screens /\ windows'.widget BY <1>0, <2>1 DEF BridgeTypes, Screens
  <2>4. BridgeTypes' BY <1>0, <2>1, <2>2, <2>3 DEF BridgeTypes
  <2>5. OwnIsMixed' BY <1>0, <2>1, <2>2 DEF OwnIsMixed
  <2>6. WorkerIsTold' BY <1>0, <2>1 DEF WorkerIsTold, IsTrue
  <2>7. AppIsTold' BY <1>0, <2>1, <2>2 DEF AppIsTold, IsTrue, Final
  <2>8. RingsInSight' BY <2>3 DEF RingsInSight
  <2> QED BY <2>4, <2>5, <2>6, <2>7, <2>8 DEF BridgeInv
<1> QED BY <1>1, <1>2, <1>3

\* The worker passes on what it hears, in the order it was said.
LEMMA WorkerHearsKeeps == ASSUME BridgeInv, WorkerHears PROVE BridgeInv'
<1>0. BridgeTypes /\ OwnIsMixed /\ WorkerIsTold /\ AppIsTold /\ RingsInSight BY DEF BridgeInv
<1> DEFINE f == Head(toWorker)
<1>1. /\ toWorker # <<>> /\ toWorker' = Tail(toWorker) /\ toWorker \in Seq(PhoneFaces)
      /\ worker' = f /\ page' = [page EXCEPT !.face = f, !.open = TRUE] /\ toApp' = toApp \o Said("ext", f)
      /\ UNCHANGED <<phone, active, keptSocket, app, windows, orders>>
  BY <1>0 DEF WorkerHears, BridgeTypes, PageHears
<1>2. /\ f \in PhoneFaces /\ toWorker' \in Seq(PhoneFaces)
      /\ toWorker' = <<>> => f = toWorker[Len(toWorker)]
      /\ toWorker' # <<>> => toWorker'[Len(toWorker')] = toWorker[Len(toWorker)]
  BY <1>1, HeardFirst
<1>3. f \in Faces /\ toApp \in Seq(Messages) BY <1>0, <1>2, FaceFacts DEF BridgeTypes
<1>4. toApp' \in Seq(Messages) BY <1>1, <1>3, SaidFacts
<1>5. keptSocket = "ext" => toApp' # <<>> /\ toApp'[Len(toApp')].face = f BY <1>1, <1>3, SaidFacts
<1>6. keptSocket # "ext" => toApp' = toApp BY <1>1, <1>3, SaidFacts
<1>7. page' \in Widgets /\ page'.face = f BY <1>0, <1>1, <1>3 DEF BridgeTypes, Widgets
<1>8. BridgeTypes' BY <1>0, <1>1, <1>2, <1>3, <1>4, <1>7 DEF BridgeTypes
<1>9. OwnIsMixed' BY <1>0, <1>1 DEF OwnIsMixed
<1>10. active["tab"] /\ toWorker' = <<>> => f = phone["tab"] BY <1>0, <1>1, <1>2 DEF WorkerIsTold
<1>11. WorkerIsTold'
  BY <1>0, <1>1, <1>2, <1>7, <1>10 DEF WorkerIsTold, IsTrue
<1>12. keptSocket = "ext" => Final' = f BY <1>5 DEF Final
<1>13. keptSocket # "ext" => Final' = Final BY <1>1, <1>6 DEF Final
<1>14. AppIsTold' BY <1>0, <1>1, <1>10, <1>12, <1>13 DEF AppIsTold, IsTrue
<1>15. RingsInSight' BY <1>0, <1>1 DEF RingsInSight
<1> QED BY <1>8, <1>9, <1>11, <1>14, <1>15 DEF BridgeInv

\* A worker that is stopped remembers nothing and says so by its socket.
LEMMA WorkerStopsKeeps == ASSUME BridgeInv, WorkerStops PROVE BridgeInv'
<1>0. BridgeTypes /\ OwnIsMixed /\ WorkerIsTold /\ AppIsTold /\ RingsInSight BY DEF BridgeInv
<1>1. /\ toWorker = <<>> /\ worker' = IdleFace /\ Shuts("ext")
      /\ UNCHANGED <<phone, active, app, windows, toWorker, page, orders>>
  BY DEF WorkerStops
<1>2. /\ toApp' \in Seq(Messages) /\ keptSocket' \in Clients \cup {"none"} /\ keptSocket' # "ext"
      /\ keptSocket = "ext" => /\ keptSocket' = "none" /\ toApp' # <<>>
                               /\ toApp'[Len(toApp')].face = Disconnected
      /\ keptSocket # "ext" => keptSocket' = keptSocket /\ toApp' = toApp
  BY <1>0, <1>1, ShutsFacts
<1>3. BridgeTypes' BY <1>0, <1>1, <1>2, FaceFacts DEF BridgeTypes
<1>4. OwnIsMixed' BY <1>0, <1>1, <1>2 DEF OwnIsMixed
<1>5. WorkerIsTold' BY <1>0, <1>1 DEF WorkerIsTold, IsTrue
<1>6. keptSocket = "ext" => Final' = Disconnected BY <1>2 DEF Final
<1>7. keptSocket # "ext" => Final' = Final BY <1>1, <1>2 DEF Final
<1>8. AppIsTold' BY <1>0, <1>1, <1>2, <1>6, <1>7, FaceFacts DEF AppIsTold, IsTrue
<1>9. RingsInSight' BY <1>0, <1>1 DEF RingsInSight
<1> QED BY <1>3, <1>4, <1>5, <1>8, <1>9 DEF BridgeInv

\* The worker of a browser without a panel says that nobody is there.
LEMMA LastPanelClosesKeeps == ASSUME BridgeInv, LastPanelCloses PROVE BridgeInv'
<1>0. BridgeTypes /\ OwnIsMixed /\ WorkerIsTold /\ AppIsTold /\ RingsInSight BY DEF BridgeInv
<1>1. /\ ~active["tab"] /\ worker' = Disconnected /\ toApp' = toApp \o Said("ext", Disconnected)
      /\ UNCHANGED <<phone, active, keptSocket, app, windows, toWorker, page, orders>>
  BY DEF LastPanelCloses
<1>2. toApp \in Seq(Messages) /\ Disconnected \in Faces BY <1>0, FaceFacts DEF BridgeTypes
<1>3. toApp' \in Seq(Messages) BY <1>1, <1>2, SaidFacts
<1>4. keptSocket # "ext" => toApp' = toApp
  <2>1. keptSocket # "ext" => toApp \o Said("ext", Disconnected) = toApp BY <1>2, SaidFacts
  <2> QED BY <1>1, <2>1
<1>5. BridgeTypes' BY <1>0, <1>1, <1>2, <1>3 DEF BridgeTypes
<1>6. OwnIsMixed' BY <1>0, <1>1 DEF OwnIsMixed
<1>7. WorkerIsTold' BY <1>1 DEF WorkerIsTold
<1>8. keptSocket # "ext" => Final' = Final BY <1>1, <1>4 DEF Final
<1>9. AppIsTold' BY <1>0, <1>1, <1>8 DEF AppIsTold
<1>10. RingsInSight' BY <1>0, <1>1 DEF RingsInSight
<1> QED BY <1>5, <1>6, <1>7, <1>9, <1>10 DEF BridgeInv

\* The widget of a page is shown, hidden and covered; one that loads shows what
\* the worker heard last.
LEMMA PageStepsKeep ==
    ASSUME BridgeInv, Heartbeat \/ HeartbeatMissed \/ PageLoads \/ PlainlyShown \/ Covered
    PROVE  BridgeInv'
<1>0. BridgeTypes /\ OwnIsMixed /\ WorkerIsTold /\ AppIsTold /\ RingsInSight BY DEF BridgeInv
<1>1. UNCHANGED <<phone, active, keptSocket, app, windows, toApp, toWorker, worker, orders>>
  BY DEF Heartbeat, HeartbeatMissed, PageLoads, PlainlyShown, Covered
<1>2. page \in Widgets /\ worker \in Faces BY <1>0 DEF BridgeTypes
<1>3. page' \in Widgets /\ page'.face \in {page.face, worker}
  <2>1. CASE Heartbeat BY <1>2, <2>1 DEF Heartbeat, Widgets
  <2>2. CASE HeartbeatMissed BY <1>2, <2>2 DEF HeartbeatMissed, Widgets
  <2>3. CASE PageLoads BY <1>2, <2>3 DEF PageLoads, Widgets
  <2>4. CASE PlainlyShown BY <1>2, <2>4 DEF PlainlyShown, Widgets
  <2>5. CASE Covered BY <1>2, <2>5 DEF Covered, Widgets
  <2> QED BY <2>1, <2>2, <2>3, <2>4, <2>5
<1>4. BridgeTypes' BY <1>0, <1>1, <1>3 DEF BridgeTypes
<1>5. OwnIsMixed' BY <1>0, <1>1 DEF OwnIsMixed
<1>6. WorkerIsTold' BY <1>0, <1>1, <1>3, FaceFacts DEF WorkerIsTold, IsTrue
<1>7. AppIsTold' BY <1>0, <1>1 DEF AppIsTold, IsTrue, Final
<1>8. RingsInSight' BY <1>0, <1>1 DEF RingsInSight
<1> QED BY <1>4, <1>5, <1>6, <1>7, <1>8 DEF BridgeInv

\* A press only asks something of a panel.
LEMMA PressesKeep ==
    ASSUME BridgeInv, PressWidget \/ PressHotkey \/ PressPage PROVE BridgeInv'
<1>0. BridgeTypes /\ OwnIsMixed /\ WorkerIsTold /\ AppIsTold /\ RingsInSight BY DEF BridgeInv
<1>1. UNCHANGED <<phone, active, keptSocket, app, windows, toApp, toWorker, worker, page>>
  BY DEF PressWidget, PressHotkey, PressPage
<1>2. ASSUME NEW cmd, SendCommandToPanel(cmd) PROVE \A o \in orders' : o.panel \in Panels
  BY <1>0, <1>2 DEF SendCommandToPanel, BridgeTypes
<1>3. \A o \in orders' : o.panel \in Panels
  <2>1. CASE PressWidget
    <3>1. PICK cmd : SendCommandToPanel(cmd) BY <2>1 DEF PressWidget
    <3> QED BY <1>2, <3>1
  <2>2. CASE PressHotkey
    <3>1. PICK cmd : SendCommandToPanel(cmd) BY <2>2 DEF PressHotkey
    <3> QED BY <1>2, <3>1
  <2>3. CASE PressPage
    <3>1. PICK cmd : orders' = orders \cup {[press |-> presses', cmd |-> cmd, by |-> "page", panel |-> "tab"]}
      BY <2>3 DEF PressPage
    <3> QED BY <1>0, <3>1 DEF BridgeTypes
  <2> QED BY <2>1, <2>2, <2>3
<1>4. BridgeTypes' BY <1>0, <1>1, <1>3 DEF BridgeTypes
<1>5. OwnIsMixed' BY <1>0, <1>1 DEF OwnIsMixed
<1>6. WorkerIsTold' BY <1>0, <1>1 DEF WorkerIsTold, IsTrue
<1>7. AppIsTold' BY <1>0, <1>1 DEF AppIsTold, IsTrue, Final
<1>8. RingsInSight' BY <1>0, <1>1 DEF RingsInSight
<1> QED BY <1>4, <1>5, <1>6, <1>7, <1>8 DEF BridgeInv

\* A press is run by a panel that holds the line, or dropped.
LEMMA ExecuteKeeps == ASSUME BridgeInv, NEW o \in orders, ExecuteBridgeCommand(o) PROVE BridgeInv'
<1>0. BridgeTypes /\ OwnIsMixed /\ WorkerIsTold /\ AppIsTold /\ RingsInSight BY DEF BridgeInv
<1>1. orders' \subseteq orders /\ UNCHANGED <<active, keptSocket, app, windows, worker, page>>
  BY DEF ExecuteBridgeCommand
<1>2. \A q \in orders' : q.panel \in Panels BY <1>0, <1>1 DEF BridgeTypes
<1>3. o.panel \in Panels /\ Runs(o) \in PhoneFaces BY <1>0, RunsFacts
<1>4. CASE active[o.panel]
  <2>1. Becomes(o.panel, Runs(o)) BY <1>4 DEF ExecuteBridgeCommand
  <2> QED BY <1>1, <1>2, <1>3, <1>4, <2>1, BecomesKeeps
<1>5. CASE ~active[o.panel]
  <2>1. UNCHANGED <<phone, toApp, toWorker>> BY <1>5 DEF ExecuteBridgeCommand
  <2>2. BridgeTypes' BY <1>0, <1>1, <1>2, <2>1 DEF BridgeTypes
  <2>3. OwnIsMixed' BY <1>0, <1>1 DEF OwnIsMixed
  <2>4. WorkerIsTold' BY <1>0, <1>1, <2>1 DEF WorkerIsTold, IsTrue
  <2>5. AppIsTold' BY <1>0, <1>1, <2>1 DEF AppIsTold, IsTrue, Final
  <2>6. RingsInSight' BY <1>0, <1>1 DEF RingsInSight
  <2> QED BY <2>2, <2>3, <2>4, <2>5, <2>6 DEF BridgeInv
<1> QED BY <1>4, <1>5

LEMMA PhoneTurnsKeeps == ASSUME BridgeInv, NEW p \in Panels, PhoneTurns(p) PROVE BridgeInv'
<1>1. PICK t \in Turns : Becomes(p, Face(t[2], FALSE)) BY DEF PhoneTurns
<1>2. t[2] \in FaceStatuses BY <1>1 DEF Turns, FaceStatuses, InACall
<1>3. Face(t[2], FALSE) \in PhoneFaces BY <1>2, FaceFacts
<1>4. active[p] /\ UNCHANGED <<active, keptSocket, app, windows, worker, page, orders>>
  BY DEF PhoneTurns
<1>5. \A o \in orders' : o.panel \in Panels BY <1>4 DEF BridgeInv, BridgeTypes
<1> QED BY <1>1, <1>3, <1>4, <1>5, BecomesKeeps

LEMMA BridgeKept == ASSUME BridgeInv, [BridgeNext]_bridgeVars PROVE BridgeInv'
<1>1. ASSUME NEW p \in Panels, PhoneTurns(p) PROVE BridgeInv' BY <1>1, PhoneTurnsKeeps
<1>2. ASSUME NEW p \in Panels, LosesLine(p) PROVE BridgeInv' BY <1>2, LosesLineKeeps
<1>3. ASSUME NEW p \in Panels, GetsLine(p) PROVE BridgeInv' BY <1>3, GetsLineKeeps
<1>4. ASSUME NEW c \in Clients, Connects(c) PROVE BridgeInv' BY <1>4, ConnectsKeeps
<1>5. CASE GoesSilent \/ QuitApplication \/ AppStarts BY <1>5, AppAloneKeeps
<1>6. CASE AppHears BY <1>6, AppHearsKeeps
<1>7. CASE WindowMoves BY <1>7, WindowMovesKeeps
<1>8. CASE WorkerHears BY <1>8, WorkerHearsKeeps
<1>9. CASE WorkerStops BY <1>9, WorkerStopsKeeps
<1>10. CASE LastPanelCloses BY <1>10, LastPanelClosesKeeps
<1>11. CASE Heartbeat \/ HeartbeatMissed \/ PageLoads \/ PlainlyShown \/ Covered
  BY <1>11, PageStepsKeep
<1>12. CASE PressWidget \/ PressHotkey \/ PressPage BY <1>12, PressesKeep
<1>13. ASSUME NEW o \in orders, ExecuteBridgeCommand(o) PROVE BridgeInv' BY <1>13, ExecuteKeeps
<1>14. CASE UNCHANGED bridgeVars
  <2>1. UNCHANGED <<phone, active, keptSocket, app, windows, toApp, toWorker, worker, page, orders>>
    BY <1>14 DEF bridgeVars
  <2>2. BridgeTypes' BY <2>1 DEF BridgeInv, BridgeTypes
  <2>3. OwnIsMixed' BY <2>1 DEF BridgeInv, OwnIsMixed
  <2>4. WorkerIsTold' BY <2>1 DEF BridgeInv, WorkerIsTold, IsTrue
  <2>5. AppIsTold' BY <2>1 DEF BridgeInv, AppIsTold, IsTrue, Final
  <2>6. RingsInSight' BY <2>1 DEF BridgeInv, RingsInSight
  <2> QED BY <2>2, <2>3, <2>4, <2>5, <2>6 DEF BridgeInv
<1> QED
  BY <1>1, <1>2, <1>3, <1>4, <1>5, <1>6, <1>7, <1>8, <1>9, <1>10, <1>11, <1>12, <1>13, <1>14
  DEF BridgeNext

\* The small phones tell the truth: once all that was said is heard, the widget of
\* a page, and the app's while its own panel never had the line, shows what the
\* tab's phone does or offers no button, whatever sockets came and went and
\* whoever was restarted; and an app that shows a ringing phone has its widget on
\* the screen unless the person put it away (bridgeServer, background worker,
\* broadcastCallState).
THEOREM FacesTold == BridgeSpec => []FacesAreTrue
<1>1. BridgeInit => BridgeInv BY BridgeStart
<1>2. BridgeInv /\ [BridgeNext]_bridgeVars => BridgeInv' BY BridgeKept
<1>3. BridgeInv => FacesAreTrue
  <2> SUFFICES ASSUME BridgeInv PROVE FacesAreTrue OBVIOUS
  <2>1. /\ WorkerIsTold /\ AppIsTold /\ RingsInSight BY DEF BridgeInv
  <2>2. toApp = <<>> => Final = app.face BY DEF Final
  <2>3. ASSUME PageButtons(app.face) = {} PROVE AppButtons(app.face) = {} BY <2>3 DEF AppButtons
  <2> QED BY <2>1, <2>2, <2>3 DEF FacesAreTrue, WorkerIsTold, AppIsTold, IsTrue, RingsInSight
<1> QED BY <1>1, <1>2, <1>3, PTL DEF BridgeSpec
===============================================================================
