---------------------------- MODULE NavScrolling ----------------------------
(***************************************************************************)
(* Nav.Scrolling of the documentation site's script                        *)
(* (docs/assets/js/application.js): on windows of less than 1220 pixels    *)
(* the menus of the navigation are panes, one over the other, which slide  *)
(* in and out with their toggles.  Only lists styled for it scroll by      *)
(* touch; that style is taken from both lists a slide is about and given   *)
(* to one at its end.  The navigation is a title, the repository and a     *)
(* list, as _includes/sidebar.html has it.                                 *)
(***************************************************************************)
EXTENDS Integers

CONSTANTS
    Panes,
    Navigation,            \* the navigation itself
    Outer            \* [Panes -> Panes \cup {Navigation}]: what a pane is opened from

ASSUME PanesAssumption ==
    /\ Navigation \notin Panes /\ Outer \in [Panes -> Panes \cup {Navigation}]
    \* panes are nested
    /\ \A s \in SUBSET Panes : s # {} => \E k \in s : Outer[k] \notin s

VARIABLES
    narrow,          \* the window is less than 1220 pixels wide
    open,            \* the panes whose toggle is checked
    touch,           \* the panes with webkitOverflowScrolling "touch"
    ending,         \* [Panes -> sets of "own", "outer"]: listeners
    sliding          \* the panes that are sliding

navVars == <<narrow, open, touch, ending, sliding>>

(* A pane and those it is in.                                              *)
Chain[k \in Panes] ==
    {k} \cup (IF Outer[k] = Navigation THEN {} ELSE Chain[Outer[k]])

(* setup: from the outermost toggle inwards, an open pane takes the style  *)
(* from the one it is opened from.                                         *)
SetUp(t) == (t \cup {Navigation} \cup open) \ {Outer[k] : k \in open}

(* A pane the reader sees, with none over it.                              *)
InFront(k) ==
    /\ k # Navigation => Chain[k] \subseteq open
    /\ \A j \in open : Outer[j] # k

NavInit ==
    /\ narrow \in BOOLEAN /\ open \in SUBSET Panes
    /\ touch = IF narrow THEN SetUp({}) ELSE {}
    /\ ending = [k \in Panes |-> {}] /\ sliding = {}

(* A faulty form: as the toggle was.                                       *)
ListenerStale(k) == IF k \in open THEN "own" ELSE "outer"
(* The list that gets the style back, as the toggle is now.                *)
Listener(k) == IF k \in open' THEN "own" ELSE "outer"

(* The toggle of k changes; on a narrow window from the pane in front.     *)
Switch(k) ==
    /\ narrow => InFront(IF k \in open THEN k ELSE Outer[k])
    /\ open' = (open \ {k}) \cup ({k} \ open)
    /\ IF narrow
         THEN /\ touch' = touch \ {k, Outer[k]}
              /\ ending' = [ending EXCEPT ![k] = @ \cup {Listener(k)}]
              /\ sliding' = sliding \cup {k}
         ELSE UNCHANGED <<touch, ending, sliding>>
    /\ UNCHANGED narrow

(* transitionend in pane k: of the slide, or of anything inside; it        *)
(* reaches the listeners of the panes around k as well.                    *)
EndIn(k, slid) ==
    /\ slid \subseteq sliding
    /\ sliding' = sliding \ slid
    /\ touch' = touch \cup {j \in Chain[k] : "own" \in ending[j]}
                      \cup {Outer[j] : j \in {i \in Chain[k] : "outer" \in ending[i]}}
    /\ ending' = [j \in Panes |-> IF j \in Chain[k] THEN {} ELSE ending[j]]
    /\ UNCHANGED <<narrow, open>>

(* The width crosses 1220 pixels, where nothing slides: reset or setup.    *)
(* What reset takes for the outermost list, the second child, is the       *)
(* repository, so a list with no open pane over it keeps its style.        *)
CrossWidth ==
    /\ narrow' = ~narrow
    /\ sliding' = {}
    /\ touch' = IF narrow THEN touch \ (open \cup {Outer[k] : k \in open})
                          ELSE SetUp(touch)
    /\ UNCHANGED <<open, ending>>

NavNext ==
    \/ \E k \in Panes : Switch(k) \/ EndIn(k, {}) \/ EndIn(k, {k})
    \/ CrossWidth

NavSpec == NavInit /\ [][NavNext]_navVars

-----------------------------------------------------------------------------
(* Properties                                                              *)

(* The values the variables take.                                          *)
NavTypeOK ==
    /\ narrow \in BOOLEAN /\ open \subseteq Panes
    /\ touch \subseteq Panes \cup {Navigation} /\ sliding \subseteq Panes
    /\ ending \in [Panes -> SUBSET {"own", "outer"}]

(* Nav.Scrolling: once nothing slides, a pane in front scrolls by touch,   *)
(* whatever toggles changed during slides or on a wide window, and         *)
(* although listeners run early, late or after the width was crossed.      *)
FrontScrolls == narrow /\ sliding = {} => \A k \in Panes \cup {Navigation} : InFront(k) => k \in touch
=============================================================================
