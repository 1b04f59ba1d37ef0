----------------------------- MODULE NavCollapse -----------------------------
(***************************************************************************)
(* Nav.Collapse of the documentation site's script                         *)
(* (docs/assets/js/application.js): a menu of the navigation, which on     *)
(* windows of at least 1220 pixels folds and unfolds as its label is       *)
(* clicked.  Whether it folds is read off its height, while the label      *)
(* switches a toggle that keeps a state of its own.  A click sets a limit  *)
(* to the height at once and moves it in the next frame; the stylesheet    *)
(* animates that, and at its end listeners finish what the clicks began.   *)
(* What bubbles up from transitions inside the menu is left out.           *)
(***************************************************************************)
EXTENDS Integers, Sequences, SequencesExt

CONSTANTS
    Full,            \* the height of the whole menu
    NoLimit,         \* an empty maxHeight
    MaxEnds          \* a bound: no click while so many listeners wait

ASSUME CollapseAssumption ==
    Full \in Nat \ {0} /\ NoLimit \notin Nat /\ MaxEnds \in Nat

VARIABLES
    listens,         \* the window is at least 1220 pixels wide
    opened,          \* the toggle of the label
    display,         \* style.display; "" leaves it to the stylesheet
    height,          \* as getBoundingClientRect has it
    maxHeight,       \* style.maxHeight
    frame,           \* what the next frame sets maxHeight to; NoLimit if nothing
    animating,       \* a transition of maxHeight is under way
    ends,            \* transitionend listeners: was the menu to fold?
    \* what the property needs to remember
    hasty            \* clicked while folding, or crossed a width in between

collapseVars == <<listens, opened, display, height, maxHeight, frame,
                  animating, ends, hasty>>

(* The height of the menu at rest.                                         *)
Rendered(d, m, open) ==
    IF d = "none" \/ (d = "" /\ ~open) THEN 0 ELSE IF m = NoLimit THEN Full ELSE m
Setup(h) == IF h > 0 THEN "block" ELSE "none"

CollapseInit ==
    /\ listens \in BOOLEAN /\ opened \in BOOLEAN
    /\ height = Rendered("", NoLimit, opened)
    /\ display = IF listens THEN Setup(height) ELSE ""
    /\ maxHeight = NoLimit /\ frame = NoLimit /\ ends = <<>>
    /\ animating = FALSE /\ hasty = FALSE

(* update: the menu is held at its height until the next frame.            *)
Fold ==
    /\ display' = "block"
    /\ maxHeight' = height
    /\ frame' = IF height > 0 THEN 0 ELSE Full
    /\ animating' = FALSE
    /\ ends' = Append(ends, height > 0)
    /\ UNCHANGED height

(* The label is clicked.  A menu that does not listen follows its toggle.  *)
Click ==
    /\ Len(ends) < MaxEnds
    /\ opened' = ~opened
    /\ hasty' = (hasty \/ (ends # <<>> /\ opened # (height > 0)))
    /\ IF listens
         THEN Fold
         ELSE /\ height' = Rendered(display, maxHeight, opened')
              /\ UNCHANGED <<display, maxHeight, frame, animating, ends>>
    /\ UNCHANGED listens

(* An animation frame: of several callbacks the last one counts.           *)
Frame ==
    /\ frame # NoLimit
    /\ frame' = NoLimit
    /\ maxHeight' = frame
    /\ animating' = (maxHeight' # height)
    /\ UNCHANGED <<listens, opened, display, height, ends, hasty>>

Animate ==
    /\ animating /\ height # maxHeight
    /\ height' = IF height < maxHeight THEN height + 1 ELSE height - 1
    /\ UNCHANGED <<listens, opened, display, maxHeight, frame, animating, ends, hasty>>

(* A faulty form: the listener looks at the height it finds.               *)
FinishLate == IF height > 0 THEN "none" ELSE "block"
(* The listeners run in the order of the clicks, so the last one decides,  *)
(* by the height its click found.                                          *)
Finish == IF Last(ends) THEN "none" ELSE "block"

(* The transition ends, or on a narrow window some other one of the menu.  *)
TransitionEnd ==
    /\ ends # <<>> /\ (listens => animating /\ height = maxHeight)
    /\ ends' = <<>> /\ animating' = FALSE
    /\ display' = Finish /\ maxHeight' = NoLimit
    /\ height' = Rendered(Finish, NoLimit, opened)
    /\ UNCHANGED <<listens, opened, frame, hasty>>

(* The window's width crosses 1220 pixels: reset, or setup.  Neither       *)
(* knows of the frames and listeners that wait.                            *)
Cross ==
    /\ listens' = ~listens
    /\ hasty' = (hasty \/ ends # <<>>)
    /\ animating' = FALSE
    /\ IF listens
         THEN display' = "" /\ maxHeight' = NoLimit
         ELSE display' = Setup(height) /\ UNCHANGED maxHeight
    /\ height' = Rendered(display', maxHeight', opened)
    /\ UNCHANGED <<opened, frame, ends>>

CollapseNext == Click \/ Frame \/ Animate \/ TransitionEnd \/ Cross

CollapseSpec == CollapseInit /\ [][CollapseNext]_collapseVars

-----------------------------------------------------------------------------
(* Properties                                                              *)

(* The values the variables take.                                          *)
CollapseTypeOK ==
    /\ listens \in BOOLEAN /\ opened \in BOOLEAN /\ animating \in BOOLEAN
    /\ display \in {"", "block", "none"} /\ height \in 0 .. Full
    /\ maxHeight \in (0 .. Full) \cup {NoLimit} /\ frame \in {0, Full, NoLimit}
    /\ ends \in Seq(BOOLEAN) /\ Len(ends) <= MaxEnds /\ hasty \in BOOLEAN

(* Nav.Collapse: when its clicks are finished, the menu is as its toggle   *)
(* says and free to grow, and has no style of its own on a narrow window,  *)
(* although it never asks the toggle and clicks overtake animations.  That *)
(* holds unless the label was clicked while the menu was just folding or   *)
(* had not begun to unfold, or the window crossed the width meanwhile.     *)
(* The ends of transitions inside the menu, which the listeners take for   *)
(* its own, are left out.                                                  *)
MenuIsAsOpened ==
    ~hasty /\ ends = <<>> =>
      /\ display = IF ~listens THEN "" ELSE IF opened THEN "block" ELSE "none"
      /\ maxHeight = NoLimit
=============================================================================
