------------------------------ MODULE PageScroll ------------------------------
(***************************************************************************)
(* What the documentation site's script                                    *)
(* (docs/assets/js/application.js) marks as the page is scrolled: the      *)
(* header's shadow and title, the tabs, the sidebar, and the entries of    *)
(* the table of contents that are behind the reader.  Each component looks *)
(* at the page in its own events and remembers what it measured; the       *)
(* window may be resized, cross the width of 960 pixels at which some      *)
(* listen, and the page may be laid out anew without any event.            *)
(*                                                                         *)
(* A layout is a record: wide, at[m], the offset from which m is marked,   *)
(* and tops, the offsets of the headings the entries lead to, less 80.     *)
(* The widths and heights the components set are left out, and so is       *)
(* orientationchange, which a resize follows.                              *)
(***************************************************************************)
EXTENDS Integers, Sequences, FiniteSets, FiniteSetsExt

CONSTANTS
    Offsets,         \* window.pageYOffset
    Layouts,
    Pages            \* the sets of components a page may have

Marks == {"shadow", "title", "tabs", "sidebar"}
Cached == {"shadow", "sidebar"}        \* height_ and offset_
Entries(l) == 0 .. Len(l.tops) - 1
Top(l, n) == l.tops[n + 1]

ASSUME ScrollAssumption ==
    /\ Offsets \subseteq Nat /\ Pages \subseteq SUBSET Marks
    /\ \A l \in Layouts :
         /\ l.wide \in BOOLEAN /\ l.at \in [Marks -> Nat]
         /\ l.tops \in Seq(Int) /\ l.tops # <<>>
         /\ \A i, j \in DOMAIN l.tops : i <= j => l.tops[i] <= l.tops[j]
    \* all layouts are of one page
    /\ \A l, m \in Layouts : Len(l.tops) = Len(m.tops)

VARIABLES
    page,            \* the components this page has
    top,             \* window.pageYOffset
    layout,
    measured,        \* [Cached -> Nat]
    marked,          \* [Marks -> BOOLEAN]: mdState
    blur,            \* Nav.Blur: [index, offset, dir, blurred]
    \* what the properties need to remember
    unseen,          \* the marks whose place has changed since they looked
    ways             \* where Nav.Blur has gone since the headings moved

scrollVars == <<page, top, layout, measured, marked, blur, unseen, ways>>

(* Components are set up in this order, and a missing one ends that, unless*)
(* the page is asked for it first.                                         *)
Wired ==
    IF {"shadow", "title"} \subseteq page THEN page \cup {"blur"}
                                          ELSE page \cap {"shadow"}

Listens(m, l) == m \in Wired /\ (m \in {"sidebar", "blur"} => l.wide)

-----------------------------------------------------------------------------
(* Nav.Blur                                                                *)

(* A faulty form: a turn starts from the wrong end.                        *)
StartFromSwapped(b, down, l) ==
    IF b.dir = down THEN b.index ELSE IF down THEN Len(l.tops) - 1 ELSE 0
(* After a turn, from the first entry on, or from the last one back.       *)
StartFrom(b, down, l) ==
    IF b.dir = down THEN b.index ELSE IF down THEN 0 ELSE Len(l.tops) - 1

(* update at offset y: an entry is blurred as the next one's heading is    *)
(* passed, as far as entries are looked at.                                *)
BlurUpdate(b, y, l) ==
    LET down == b.offset < y
        from == StartFrom(b, down, l)
        passed == {n \in Entries(l) : n > from /\ Top(l, n) <= y}
        reached == {r \in Entries(l) : r <= from /\ Top(l, r) <= y}
        ahead == {r \in Entries(l) : r <= from /\ Top(l, r) > y}
    IN  IF b.offset <= y
          THEN [index |-> Max(passed \cup {from}), offset |-> y, dir |-> down,
                blurred |-> b.blurred \cup {n - 1 : n \in passed}]
          ELSE [index |-> IF reached = {} THEN from ELSE Max(reached),
                offset |-> y, dir |-> down,
                blurred |-> b.blurred \ {r - 1 : r \in ahead}]

BlurReset(b, y) == [b EXCEPT !.index = 0, !.offset = y, !.blurred = {}]

Ways(b, y) == {w \in {"up", "down"} : IF w = "up" THEN y < b.offset ELSE b.offset < y}

-----------------------------------------------------------------------------
(* The marks                                                               *)

(* What m makes of offset y in layout l.                                   *)
LookAt(y, l, m) == y >= IF m \in Cached THEN measured'[m] ELSE l.at[m]

(* Header.Shadow and Sidebar.Position look as they begin to listen.        *)
PageInit ==
    /\ page \in Pages /\ top \in Offsets /\ layout \in Layouts
    /\ measured = [m \in Cached |-> IF Listens(m, layout) THEN layout.at[m] ELSE 0]
    /\ marked = [m \in Marks |-> m \in Cached /\ Listens(m, layout) /\ top >= layout.at[m]]
    /\ LET b == [index |-> 0, offset |-> top, dir |-> FALSE, blurred |-> {}]
       IN  blur = IF Listens("blur", layout) THEN BlurUpdate(b, top, layout) ELSE b
    /\ unseen = Marks \ Cached
    /\ ways = IF layout.wide THEN {"up", "down"} ELSE {"up"}

(* The page is scrolled.                                                   *)
Scroll(y) ==
    /\ top' = y
    /\ UNCHANGED <<page, layout, measured>>
    /\ marked' = [m \in Marks |-> Listens(m, layout) /\ LookAt(y, layout, m)]
    /\ IF Listens("blur", layout)
         THEN /\ blur' = BlurUpdate(blur, y, layout)
              /\ ways' = ways \cup Ways(blur, y)
         ELSE UNCHANGED <<blur, ways>>
    /\ unseen' = unseen \cap Cached

(* The window gets another size.  What listens measures and looks; then    *)
(* the sidebar and Nav.Blur begin to listen, and look, or end it and reset.*)
ResizePage(l) ==
    /\ l # layout
    /\ layout' = l
    /\ UNCHANGED <<page, top>>
    /\ measured' = [m \in Cached |-> IF Listens(m, layout) \/ Listens(m, l)
                                       THEN l.at[m] ELSE measured[m]]
    /\ marked' = [m \in Marks |-> Listens(m, l) /\ LookAt(top, l, m)]
    /\ blur' = CASE Listens("blur", layout) /\ ~l.wide -> BlurReset(blur, top)
                 [] Listens("blur", l) /\ ~layout.wide -> BlurUpdate(blur, top, l)
                 [] OTHER -> blur
    /\ ways' = IF layout.wide /\ l.wide THEN {} ELSE {"up"}
    /\ unseen' = {}

(* The page is laid out anew: an image arrives, details are opened.        *)
Relayout(l) ==
    /\ l # layout /\ l.wide = layout.wide
    /\ layout' = l
    /\ unseen' = Marks
    /\ ways' = IF l.wide THEN {} ELSE {"up"}
    /\ UNCHANGED <<page, top, measured, marked, blur>>

-----------------------------------------------------------------------------
PageNext ==
    \/ \E y \in Offsets : Scroll(y)
    \/ \E l \in Layouts : ResizePage(l) \/ Relayout(l)

PageSpec == PageInit /\ [][PageNext]_scrollVars

-----------------------------------------------------------------------------
(* Properties                                                              *)

(* The values the variables take.                                          *)
PageTypeOK ==
    /\ page \in Pages /\ top \in Offsets /\ layout \in Layouts
    /\ measured \in [Cached -> Nat] /\ marked \in [Marks -> BOOLEAN]
    /\ blur \in [index : Entries(layout), offset : Offsets, dir : BOOLEAN,
                 blurred : SUBSET Entries(layout)]
    /\ unseen \subseteq Marks /\ ways \subseteq {"up", "down"}

(* What is marked is where the reader is: a mark that has looked since its *)
(* place last changed is set from its place on, and the blurred entries    *)
(* are those whose successor has been passed, although Nav.Blur only goes  *)
(* on from where it was; once headings have moved, a scroll up clears what *)
(* is ahead, and a scroll down blurs what is missing.                      *)
MarksFollowScroll ==
    /\ \A m \in (Wired \cap Marks) \ unseen :
         marked[m] <=> Listens(m, layout) /\ top >= layout.at[m]
    /\ Listens("blur", layout) /\ "up" \in ways =>
         \A n \in blur.blurred : Top(layout, n + 1) <= top
    /\ Listens("blur", layout) /\ "down" \in ways =>
         \A n \in Entries(layout) :
           n + 1 \in Entries(layout) /\ Top(layout, n + 1) <= top => n \in blur.blurred
=============================================================================
