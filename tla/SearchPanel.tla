----------------------------- MODULE SearchPanel -----------------------------
(***************************************************************************)
(* The search panel of the documentation site                              *)
(* (docs/assets/js/application.js): the toggle that opens it, the keys and *)
(* clicks that open and close it, the focus of the query, and Search.Lock, *)
(* which on narrow windows hides the page behind the panel and brings it   *)
(* back to where the reader was.  Everything takes place in handlers and   *)
(* timers: a timer fires after those that were set before it and not for   *)
(* longer, and any user action may come between two of them.               *)
(***************************************************************************)
EXTENDS Integers, Sequences, FiniteSets, SequencesExt

CONSTANTS
    Places,          \* positions of the page; 0 is the top
    NoPlace,
    MaxTimers        \* a bound: no user action while so many are pending

ASSUME PanelAssumption ==
    /\ Places \subseteq Nat /\ 0 \in Places /\ NoPlace \notin Nat
    /\ MaxTimers \in Nat

VARIABLES
    wide,            \* the window is at least 960 pixels wide
    checked,         \* the toggle: the panel is open
    focused,         \* the query is the active element
    lock,            \* the body's mdState is "lock"
    offset,          \* Search.Lock's offset_, or NoPlace
    scroll,          \* window.pageYOffset
    timers,          \* the pending timers, in the order they were set
    \* what the properties need to remember
    place,           \* where the reader scrolled, or followed a result, to
    disturbed        \* something Search.Lock does not reckon with has come
                     \* since the reader last scrolled with nothing pending

panelVars == <<wide, checked, focused, lock, offset, scroll, timers, place,
               disturbed>>

Delay == [lock |-> 400, focus |-> 400, follow |-> 100, unlock |-> 100, reset |-> 10]
Timer(kind) == [kind |-> kind, to |-> 0]
Pending(kinds) == \E i \in DOMAIN timers : timers[i].kind \in kinds
Calm == Len(timers) < MaxTimers

PanelInit ==
    /\ wide \in BOOLEAN /\ checked = FALSE /\ focused = FALSE
    /\ lock = FALSE /\ offset = NoPlace
    /\ scroll \in Places /\ place = scroll
    /\ timers = IF wide THEN <<>> ELSE <<Timer("unlock")>>
    /\ disturbed = FALSE

-----------------------------------------------------------------------------
(* Search.Lock                                                             *)

(* A faulty form: the position is taken as the panel closes.               *)
UpdateLate(open, more) ==
    /\ offset' = IF ~open THEN scroll ELSE offset
    /\ lock' = (lock /\ open)
    /\ timers' = timers \o <<Timer(IF open THEN "lock" ELSE "unlock")>> \o more
(* update, as it finds the toggle, and the timers that others set after it.*)
Update(open, more) ==
    /\ offset' = IF open THEN scroll ELSE offset
    /\ lock' = (lock /\ open)
    /\ timers' = timers \o <<Timer(IF open THEN "lock" ELSE "unlock")>> \o more

(* What the timers still have to scroll: Search.Lock to the top or back,   *)
(* or a result that was followed.                                          *)
Returns == Pending({"lock"}) \/ (Pending({"unlock"}) /\ offset # NoPlace)
Scrolls == Returns \/ Pending({"follow"})

(* The toggle's change event: update if it listens, and 400 ms later the   *)
(* query gets the focus.                                                   *)
Change(open, more) ==
    /\ checked' = open
    /\ disturbed' = (disturbed \/ (~wide /\ Scrolls))
    /\ IF wide THEN /\ timers' = timers \o <<Timer("focus")>> \o more
                    /\ UNCHANGED <<lock, offset>>
               ELSE Update(open, <<Timer("focus")>> \o more)

-----------------------------------------------------------------------------
(* The user                                                                *)

(* The label of the toggle is clicked.                                     *)
Toggle ==
    /\ Calm
    /\ Change(~checked, <<>>)
    /\ focused' = FALSE
    /\ UNCHANGED <<wide, scroll, place>>

(* The query gets the focus: by a click, by F or S, or because a key is    *)
(* pressed with the panel open.  On wide windows that opens the panel; on  *)
(* narrow ones the closed panel hides the query.                           *)
FocusQuery ==
    /\ ~focused /\ (wide \/ checked)
    /\ focused' = TRUE
    /\ IF checked THEN UNCHANGED <<checked, lock, offset, timers, disturbed>>
                  ELSE Change(TRUE, <<>>)
    /\ UNCHANGED <<wide, scroll, place>>

(* Escape or Tab closes the open panel.                                    *)
CloseKey ==
    /\ Calm /\ checked
    /\ Change(FALSE, <<>>)
    /\ focused' = FALSE
    /\ UNCHANGED <<wide, scroll, place>>

(* A section among the results, at position to of this page, is clicked:   *)
(* the panel closes at once, the page goes there 100 ms later.             *)
FollowResult(to) ==
    /\ Calm /\ checked
    /\ Change(FALSE, <<[kind |-> "follow", to |-> to]>>)
    /\ focused' = FALSE
    /\ UNCHANGED <<wide, scroll, place>>

(* The reset button takes the focus and gives it to the query.             *)
Reset ==
    /\ Calm /\ checked
    /\ focused' = FALSE
    /\ timers' = Append(timers, Timer("reset"))
    /\ UNCHANGED <<wide, checked, lock, offset, scroll, place, disturbed>>

(* The reader scrolls the page, which the locked body of a narrow window   *)
(* hides.  What Search.Lock has yet to scroll then takes the reader back.  *)
ScrollPage(to) ==
    /\ wide \/ ~lock
    /\ scroll' = to /\ place' = to
    /\ disturbed' = (Returns \/ (disturbed /\ (Scrolls \/ lock)))
    /\ UNCHANGED <<wide, checked, focused, lock, offset, timers>>

(* The window's width crosses 960 pixels.  Search.Lock stops listening and *)
(* resets, or listens again and updates, which goes to the last position   *)
(* it took if the panel is closed.                                         *)
Resize ==
    /\ Calm
    /\ wide' = ~wide
    /\ IF wide
         THEN /\ Update(checked, <<>>) /\ UNCHANGED scroll
         ELSE /\ scroll' = IF lock THEN offset ELSE scroll
              /\ lock' = FALSE
              /\ UNCHANGED <<offset, timers>>
    /\ disturbed' = (disturbed \/
         IF wide THEN IF checked THEN Scrolls
                                 ELSE offset # NoPlace /\ (offset # place \/ Pending({"follow"}))
                 ELSE Pending({"lock"}))
    /\ UNCHANGED <<checked, focused, place>>

-----------------------------------------------------------------------------
(* Timers                                                                  *)

(* The i-th timer is due: none of those set before it is to fire earlier.  *)
Due(i) == \A j \in 1 .. i - 1 : Delay[timers[j].kind] > Delay[timers[i].kind]

FireLock(i) ==
    /\ timers[i].kind = "lock" /\ Due(i)
    /\ timers' = RemoveAt(timers, i)
    /\ scroll' = 0
    /\ lock' = (lock \/ checked)
    /\ UNCHANGED <<wide, checked, focused, offset, place, disturbed>>

(* A faulty form: the first position need not be there.                    *)
FireUnlockAlways(i) ==
    /\ timers[i].kind = "unlock" /\ Due(i)
    /\ timers' = RemoveAt(timers, i)
    /\ scroll' = offset
    /\ UNCHANGED <<wide, checked, focused, lock, offset, place, disturbed>>
FireUnlock(i) ==
    /\ timers[i].kind = "unlock" /\ Due(i)
    /\ timers' = RemoveAt(timers, i)
    /\ scroll' = IF offset # NoPlace THEN offset ELSE scroll
    /\ UNCHANGED <<wide, checked, focused, lock, offset, place, disturbed>>

FireFollow(i) ==
    /\ timers[i].kind = "follow" /\ Due(i)
    /\ timers' = RemoveAt(timers, i)
    /\ scroll' = timers[i].to /\ place' = timers[i].to
    /\ UNCHANGED <<wide, checked, focused, lock, offset, disturbed>>

(* The query is focused, 400 ms after a change if the panel is open, 10 ms *)
(* after a reset anyway; on a wide window that opens a closed panel.       *)
FireFocus(i) ==
    LET kind == timers[i].kind
        gets == checked \/ (kind = "reset" /\ wide)
        rest == RemoveAt(timers, i)
    IN  /\ kind \in {"focus", "reset"} /\ Due(i)
        /\ focused' = (focused \/ gets)
        /\ IF gets /\ ~focused /\ ~checked
             THEN /\ checked' = TRUE
                  /\ timers' = Append(rest, Timer("focus"))
             ELSE /\ timers' = rest
                  /\ UNCHANGED checked
        /\ UNCHANGED <<wide, lock, offset, scroll, place, disturbed>>

-----------------------------------------------------------------------------
PanelNext ==
    \/ Toggle \/ FocusQuery \/ CloseKey \/ Reset \/ Resize
    \/ \E to \in Places : FollowResult(to) \/ ScrollPage(to)
    \/ \E i \in DOMAIN timers :
         FireLock(i) \/ FireUnlock(i) \/ FireFollow(i) \/ FireFocus(i)

PanelSpec == PanelInit /\ [][PanelNext]_panelVars

-----------------------------------------------------------------------------
(* Properties                                                              *)

(* The values the variables take.                                          *)
PanelTypeOK ==
    /\ {wide, checked, focused, lock, disturbed} \subseteq BOOLEAN
    /\ offset \in Places \cup {NoPlace} /\ {scroll, place} \subseteq Places
    /\ timers \in Seq([kind : DOMAIN Delay, to : Places])

(* Search.Lock: once nothing is left to scroll and the page is not hidden, *)
(* it is where the reader scrolled or followed a result to, and the page   *)
(* is hidden only behind an open panel of a narrow window.  That holds     *)
(* unless, since the reader last scrolled with nothing pending,            *)
(*  - the reader scrolled while Search.Lock had yet to scroll, in the 400  *)
(*    ms after opening or the 100 ms after closing: that is taken back;    *)
(*  - the toggle changed on a narrow window in such a time, or in the 100  *)
(*    ms before a result is gone to;                                       *)
(*  - the window was widened in the 400 ms after opening;                  *)
(*  - the window was narrowed while Search.Lock had yet to scroll, or, the *)
(*    panel closed, when the position last taken is not the reader's any   *)
(*    more or a result is about to be gone to: it goes to that position.   *)
PlaceIsKept ==
    ~disturbed => /\ ~lock /\ ~Scrolls => scroll = place
                  /\ lock => checked /\ ~wide
=============================================================================
