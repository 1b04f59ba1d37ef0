------------------------------ MODULE PageProofs ------------------------------
(***************************************************************************)
(* The documentation site's page: proofs about its components.             *)
(* Nav.Collapse leaves a menu as its toggle says, Nav.Scrolling leaves the *)
(* list in front scrolling, and the marks and Nav.Blur show where the page *)
(* is, whatever clicks, slides, scrolls and resizes overtake each other.   *)
(* The result list is the one of its text, however it is rendered, scrolled*)
(* and loaded anew, the repository facts were true when they were given,   *)
(* however late they came and whichever window brought them, and the panel *)
(* gives the reader's place back, but for what PlaceIsKept names.  The     *)
(* last theorem is about all parts of the script.                          *)
(***************************************************************************)
EXTENDS MCDocsSite, PromiseProofs, IndexProofs

-----------------------------------------------------------------------------
(* Nav.Collapse                                                            *)

(* What a limit is while it moves, and when it may move.                   *)
LimitSet == animating => frame = NoLimit /\ maxHeight # NoLimit

(* At rest the menu has the height its toggle says; while clicks wait, the *)
(* last of them is the one that made the toggle what it is.                *)
AtRest ==
    /\ frame = NoLimit /\ ~animating /\ maxHeight = NoLimit
    /\ display = IF ~listens THEN "" ELSE IF opened THEN "block" ELSE "none"
    /\ height = IF opened THEN Full ELSE 0
AsClicked ==
    ~hasty => IF ends = <<>> THEN AtRest
                             ELSE listens /\ (Last(ends) <=> ~opened)
CollapseInv == CollapseTypeOK /\ LimitSet /\ AsClicked

LEMMA FullIsPositive == Full \in Nat /\ Full > 0
  BY CollapseAssumption

LEMMA MenuHeights ==
    /\ Full \in Nat \ {0} /\ Full \in 0 .. Full /\ 0 \in 0 .. Full
    /\ \A h \in 0 .. Full : h \in Nat /\ h # NoLimit
    /\ \A d : \A o \in BOOLEAN : \A m \in (0 .. Full) \cup {NoLimit} :
         Rendered(d, m, o) \in 0 .. Full
    /\ \A h \in 0 .. Full : Setup(h) \in {"block", "none"}
<1>1. Full \in Nat \ {0} /\ NoLimit \notin Nat
  BY CollapseAssumption
<1>2. ASSUME NEW d, NEW o \in BOOLEAN, NEW m \in (0 .. Full) \cup {NoLimit}
      PROVE  Rendered(d, m, o) \in 0 .. Full
  <2>1. Rendered(d, m, o) = 0 \/ Rendered(d, m, o) = IF m = NoLimit THEN Full ELSE m
    BY DEF Rendered
  <2> QED  BY <1>1, <2>1
<1>3. \A h \in 0 .. Full : Setup(h) \in {"block", "none"}
  BY DEF Setup
<1> QED  BY <1>1, <1>2, <1>3

LEMMA LastAppended ==
    ASSUME NEW S, NEW s \in Seq(S), NEW e \in S
    PROVE  /\ Append(s, e) \in Seq(S) /\ Len(Append(s, e)) = Len(s) + 1
           /\ Append(s, e) # <<>> /\ Last(Append(s, e)) = e
  BY AppendProperties DEF Last

LEMMA CollapseInvInit == CollapseInit => CollapseInv
<1> SUFFICES ASSUME CollapseInit PROVE CollapseInv
  OBVIOUS
<1>1. <<>> \in Seq(BOOLEAN) /\ Len(<<>>) = 0 /\ MaxEnds \in Nat
  BY CollapseAssumption, EmptySeq
<1>2. height \in 0 .. Full /\ display \in {"", "block", "none"}
  <2>1. height \in 0 .. Full
    BY MenuHeights DEF CollapseInit
  <2> QED  BY <2>1, MenuHeights DEF CollapseInit
<1>3. CollapseTypeOK
  <2>1. /\ listens \in BOOLEAN /\ opened \in BOOLEAN /\ animating = FALSE /\ hasty = FALSE
        /\ maxHeight = NoLimit /\ frame = NoLimit /\ ends = <<>>
    BY DEF CollapseInit
  <2>2. maxHeight \in (0 .. Full) \cup {NoLimit} /\ frame \in {0, Full, NoLimit}
    BY <2>1
  <2>3. ends \in Seq(BOOLEAN) /\ Len(ends) <= MaxEnds
    BY <1>1, <2>1
  <2> QED  BY <1>2, <2>1, <2>2, <2>3 DEF CollapseTypeOK
<1>4. height = IF opened THEN Full ELSE 0
  BY DEF CollapseInit, Rendered
<1>5. display = IF ~listens THEN "" ELSE IF opened THEN "block" ELSE "none"
  <2>1. display = IF listens THEN Setup(height) ELSE ""
    BY DEF CollapseInit
  <2>2. Setup(height) = IF opened THEN "block" ELSE "none"
    BY <1>4, MenuHeights DEF Setup
  <2> QED  BY <2>1, <2>2
<1> QED  BY <1>3, <1>4, <1>5 DEF CollapseInit, CollapseInv, LimitSet, AsClicked, AtRest

LEMMA ClickStep ==
    ASSUME CollapseInv, Click
    PROVE  CollapseInv'
<1>1. /\ listens \in BOOLEAN /\ opened \in BOOLEAN /\ hasty \in BOOLEAN
      /\ height \in 0 .. Full /\ ends \in Seq(BOOLEAN)
      /\ maxHeight \in (0 .. Full) \cup {NoLimit} /\ frame \in {0, Full, NoLimit}
      /\ display \in {"", "block", "none"} /\ animating \in BOOLEAN /\ Len(ends) <= MaxEnds
  BY DEF CollapseInv, CollapseTypeOK
<1>2. /\ Len(ends) < MaxEnds /\ opened' = ~opened /\ listens' = listens
      /\ hasty' = (hasty \/ (ends # <<>> /\ opened # (height > 0)))
  BY DEF Click
<1>3. /\ (height > 0) \in BOOLEAN /\ MaxEnds \in Nat /\ Len(ends) \in Nat
      /\ hasty' \in BOOLEAN /\ opened' \in BOOLEAN
  <2>1. MaxEnds \in Nat /\ Len(ends) \in Nat
    BY <1>1, CollapseAssumption, LenProperties
  <2>2. hasty' \in BOOLEAN
    BY <1>1, <1>2
  <2>3. opened' \in BOOLEAN
    BY <1>1, <1>2
  <2>4. height \in Nat
    BY <1>1, MenuHeights
  <2>5. (height > 0) \in BOOLEAN
    BY <2>4
  <2> QED  BY <2>1, <2>2, <2>3, <2>5
<1>4. CASE listens
  <2>1. /\ display' = "block" /\ maxHeight' = height
        /\ frame' = (IF height > 0 THEN 0 ELSE Full)
        /\ animating' = FALSE /\ ends' = Append(ends, height > 0) /\ height' = height
    BY <1>4 DEF Click, Fold
  <2>2. /\ ends' \in Seq(BOOLEAN) /\ Len(ends') = Len(ends) + 1
        /\ ends' # <<>> /\ Last(ends') = (height > 0)
    <3> DEFINE e == height > 0
    <3>1. e \in BOOLEAN /\ ends \in Seq(BOOLEAN) /\ ends' = Append(ends, e)
      BY <1>1, <1>3, <2>1
    <3> HIDE DEF e
    <3>2. /\ ends' \in Seq(BOOLEAN) /\ Len(ends') = Len(ends) + 1
          /\ ends' # <<>> /\ Last(ends') = e
      BY <3>1, LastAppended
    <3> QED  BY <3>2 DEF e
  <2>3. CollapseTypeOK'
    <3>1. Len(ends') <= MaxEnds
      BY <1>2, <1>3, <2>2
    <3>2. frame' \in {0, Full, NoLimit}
      BY <2>1
    <3> QED  BY <1>1, <1>2, <1>3, <2>1, <2>2, <3>1, <3>2 DEF CollapseTypeOK
  <2>4. ASSUME ~hasty' PROVE (height > 0) <=> opened
    <3>1. CASE ends # <<>>
      <4>1. ~(opened # (height > 0))
        BY <1>2, <2>4, <3>1
      <4> QED  BY <1>1, <4>1
    <3>2. CASE ends = <<>>
      <4>1. ~hasty
        BY <1>2, <2>4
      <4>2. AtRest
        BY <3>2, <4>1 DEF CollapseInv, AsClicked
      <4>3. height = (IF opened THEN Full ELSE 0) /\ Full > 0
        BY <4>2, FullIsPositive DEF AtRest
      <4>4. CASE opened
        BY <4>3, <4>4
      <4>5. CASE ~opened
        BY <4>3, <4>5
      <4> QED  BY <4>4, <4>5
    <3> QED  BY <3>1, <3>2
  <2>5. AsClicked'
    BY <1>2, <1>4, <2>2, <2>4 DEF AsClicked
  <2> QED  BY <2>1, <2>3, <2>5 DEF CollapseInv, LimitSet
<1>5. CASE ~listens
  <2>1. /\ height' = Rendered(display, maxHeight, opened')
        /\ UNCHANGED <<display, maxHeight, frame, animating, ends>>
    BY <1>5 DEF Click
  <2>2. height' \in 0 .. Full
    BY <1>1, <1>3, <2>1, MenuHeights
  <2>3. CollapseTypeOK'
    BY <1>1, <1>2, <1>3, <2>1, <2>2 DEF CollapseTypeOK
  <2>4. AsClicked'
    <3> SUFFICES ASSUME ~hasty' PROVE ends = <<>> /\ AtRest'
      BY <2>1 DEF AsClicked
    <3>1. ~hasty /\ ends = <<>> /\ AtRest
      BY <1>2, <1>5 DEF CollapseInv, AsClicked
    <3>2. height' = IF opened' THEN Full ELSE 0
      BY <1>5, <2>1, <3>1 DEF AtRest, Rendered
    <3> QED  BY <1>2, <1>5, <2>1, <3>1, <3>2 DEF AtRest
  <2> QED  BY <2>1, <2>3, <2>4 DEF CollapseInv, LimitSet
<1> QED  BY <1>1, <1>4, <1>5

LEMMA MotionStep ==
    ASSUME CollapseInv, Frame \/ Animate
    PROVE  CollapseInv'
<1>1. /\ height \in 0 .. Full /\ frame \in {0, Full, NoLimit}
      /\ maxHeight \in (0 .. Full) \cup {NoLimit} /\ animating \in BOOLEAN
  BY DEF CollapseInv, CollapseTypeOK
<1>2. UNCHANGED <<listens, opened, display, ends, hasty>>
  BY DEF Frame, Animate
<1>3. ~hasty => ends # <<>>
  BY DEF CollapseInv, AsClicked, AtRest, Frame, Animate
<1>4. AsClicked'
  BY <1>2, <1>3 DEF CollapseInv, AsClicked
<1>5. CASE Frame
  <2>1. /\ frame # NoLimit /\ frame' = NoLimit /\ maxHeight' = frame /\ height' = height
        /\ animating' = (maxHeight' # height)
    BY <1>5 DEF Frame
  <2>2. CollapseTypeOK'
    BY <1>1, <1>2, <2>1, MenuHeights DEF CollapseInv, CollapseTypeOK
  <2> QED  BY <1>4, <2>1, <2>2 DEF CollapseInv, LimitSet
<1>6. CASE Animate
  <2>1. /\ animating /\ height # maxHeight
        /\ height' = (IF height < maxHeight THEN height + 1 ELSE height - 1)
        /\ UNCHANGED <<maxHeight, frame, animating>>
    BY <1>6 DEF Animate
  <2>2. maxHeight \in 0 .. Full
    BY <1>1, <2>1 DEF CollapseInv, LimitSet
  <2>3. height' \in 0 .. Full
    BY <1>1, <2>1, <2>2, CollapseAssumption
  <2>4. CollapseTypeOK'
    BY <1>2, <2>1, <2>3 DEF CollapseInv, CollapseTypeOK
  <2> QED  BY <1>4, <2>1, <2>4 DEF CollapseInv, LimitSet
<1> QED  BY <1>5, <1>6

LEMMA EndStep ==
    ASSUME CollapseInv, TransitionEnd
    PROVE  CollapseInv'
<1>1. /\ listens \in BOOLEAN /\ opened \in BOOLEAN /\ frame \in {0, Full, NoLimit}
      /\ hasty \in BOOLEAN
  BY DEF CollapseInv, CollapseTypeOK
<1>2. /\ ends # <<>> /\ (listens => animating)
      /\ ends' = <<>> /\ animating' = FALSE /\ display' = Finish /\ maxHeight' = NoLimit
      /\ height' = Rendered(Finish, NoLimit, opened)
      /\ UNCHANGED <<listens, opened, frame, hasty>>
  BY DEF TransitionEnd
<1>3. Finish \in {"block", "none"}
  BY DEF Finish
<1>4. <<>> \in Seq(BOOLEAN) /\ Len(<<>>) = 0 /\ MaxEnds \in Nat
  BY CollapseAssumption, EmptySeq
<1>5. CollapseTypeOK'
  <2>1. height' \in 0 .. Full
    BY <1>1, <1>2, <1>3, MenuHeights
  <2>2. ends' \in Seq(BOOLEAN) /\ Len(ends') <= MaxEnds
    BY <1>2, <1>4
  <2> QED  BY <1>1, <1>2, <1>3, <2>1, <2>2 DEF CollapseTypeOK
<1>6. ASSUME ~hasty PROVE AtRest'
  <2>1. listens /\ (Last(ends) <=> ~opened)
    BY <1>2, <1>6 DEF CollapseInv, AsClicked
  <2>2. frame = NoLimit
    BY <1>2, <2>1 DEF CollapseInv, LimitSet
  <2>3. Finish = IF opened THEN "block" ELSE "none"
    BY <2>1 DEF Finish
  <2>4. height' = IF opened THEN Full ELSE 0
    BY <1>2, <2>3 DEF Rendered
  <2> QED  BY <1>2, <2>1, <2>2, <2>3, <2>4 DEF AtRest
<1> QED  BY <1>2, <1>5, <1>6 DEF CollapseInv, LimitSet, AsClicked

LEMMA CrossStep ==
    ASSUME CollapseInv, Cross
    PROVE  CollapseInv'
<1>1. /\ listens \in BOOLEAN /\ opened \in BOOLEAN /\ height \in 0 .. Full
      /\ maxHeight \in (0 .. Full) \cup {NoLimit} /\ hasty \in BOOLEAN
  BY DEF CollapseInv, CollapseTypeOK
<1>2. /\ listens' = ~listens /\ hasty' = (hasty \/ ends # <<>>) /\ animating' = FALSE
      /\ IF listens THEN display' = "" /\ maxHeight' = NoLimit
                    ELSE display' = Setup(height) /\ maxHeight' = maxHeight
      /\ height' = Rendered(display', maxHeight', opened)
      /\ UNCHANGED <<opened, frame, ends>>
  BY DEF Cross
<1>3. /\ display' \in {"", "block", "none"}
      /\ maxHeight' \in (0 .. Full) \cup {NoLimit}
  BY <1>1, <1>2, MenuHeights
<1>4. height' \in 0 .. Full
  BY <1>1, <1>2, <1>3, MenuHeights
<1>5. CollapseTypeOK'
  BY <1>1, <1>2, <1>3, <1>4 DEF CollapseInv, CollapseTypeOK
<1>6. ASSUME ~hasty' PROVE AtRest' /\ ends = <<>>
  <2>1. ~hasty /\ ends = <<>> /\ AtRest
    BY <1>2, <1>6 DEF CollapseInv, AsClicked
  <2>2. display' = IF ~listens' THEN "" ELSE IF opened THEN "block" ELSE "none"
    <3>1. listens => display' = ""
      BY <1>2
    <3>2. ~listens => display' = Setup(height)
      BY <1>2
    <3>3. Setup(height) = IF opened THEN "block" ELSE "none"
      <4>1. height = (IF opened THEN Full ELSE 0)
        BY <2>1 DEF AtRest
      <4>2. CASE opened
        BY <4>1, <4>2, FullIsPositive DEF Setup
      <4>3. CASE ~opened
        BY <4>1, <4>3 DEF Setup
      <4> QED  BY <4>2, <4>3
    <3> QED  BY <1>1, <1>2, <3>1, <3>2, <3>3
  <2>3. maxHeight' = NoLimit
    BY <1>2, <2>1 DEF AtRest
  <2>4. height' = IF opened THEN Full ELSE 0
    BY <1>1, <1>2, <2>2, <2>3 DEF Rendered
  <2> QED  BY <1>2, <2>1, <2>2, <2>3, <2>4 DEF AtRest
<1> QED  BY <1>2, <1>5, <1>6 DEF CollapseInv, LimitSet, AsClicked

LEMMA CollapseInvHolds == CollapseSpec => []CollapseInv
<1>1. CollapseInv /\ UNCHANGED collapseVars => CollapseInv'
  <2> SUFFICES ASSUME CollapseInv, UNCHANGED collapseVars PROVE CollapseInv'
    OBVIOUS
  <2>1. UNCHANGED <<listens, opened, display, height, maxHeight, frame, animating,
                    ends, hasty>>
    BY DEF collapseVars
  <2>2. CollapseTypeOK'
    BY <2>1 DEF CollapseInv, CollapseTypeOK
  <2>3. LimitSet'
    BY <2>1 DEF CollapseInv, LimitSet
  <2>4. AsClicked'
    BY <2>1 DEF CollapseInv, AsClicked, AtRest
  <2> QED  BY <2>2, <2>3, <2>4 DEF CollapseInv
<1>2. CollapseInv /\ [CollapseNext]_collapseVars => CollapseInv'
  BY <1>1, ClickStep, MotionStep, EndStep, CrossStep DEF CollapseNext
<1> QED  BY <1>2, CollapseInvInit, PTL DEF CollapseSpec

(* The values the variables of Nav.Collapse take: the menu's height stays  *)
(* between none and the whole of it.                                       *)
THEOREM CollapseTyped == CollapseSpec => []CollapseTypeOK
<1>1. CollapseInv => CollapseTypeOK
  BY DEF CollapseInv
<1> QED  BY <1>1, CollapseInvHolds, PTL

(* Nav.Collapse: when its clicks are finished, the menu is as its toggle   *)
(* says, although it reads its height and clicks overtake animations.      *)
THEOREM MenuFollowsToggle == CollapseSpec => []MenuIsAsOpened
<1>1. CollapseInv => MenuIsAsOpened
  BY DEF CollapseInv, AsClicked, AtRest, MenuIsAsOpened
<1> QED  BY <1>1, CollapseInvHolds, PTL

-----------------------------------------------------------------------------
(* Nav.Scrolling                                                           *)

(* Chain is defined by recursion outwards: the function that meets the     *)
(* equation takes a pane to what every set closed outwards holds with it.  *)
Closed(s) == \A i \in s : Outer[i] # Navigation => Outer[i] \in s
Outwards ==
    [k \in Panes |-> {j \in Panes : \A s \in SUBSET Panes : k \in s /\ Closed(s) => j \in s}]

LEMMA ChainEquation ==
    Chain = [k \in Panes |->
               {k} \cup (IF Outer[k] = Navigation THEN {} ELSE Chain[Outer[k]])]
<1> DEFINE Eq(c) == c = [k \in Panes |->
                {k} \cup (IF Outer[k] = Navigation THEN {} ELSE c[Outer[k]])]
<1>1. ASSUME NEW k \in Panes
      PROVE  Outwards[k] =
               {k} \cup (IF Outer[k] = Navigation THEN {} ELSE Outwards[Outer[k]])
  <2>1. k \in Outwards[k] /\ Outwards[k] \subseteq Panes
    BY DEF Outwards
  <2>2. CASE Outer[k] = Navigation
    <3>1. {k} \in SUBSET Panes /\ Closed({k})
      BY <2>2 DEF Closed
    <3>2. Outwards[k] \subseteq {k}
      BY <3>1 DEF Outwards
    <3> QED  BY <2>1, <2>2, <3>2
  <2>3. CASE Outer[k] # Navigation
    <3>1. PICK o \in Panes : o = Outer[k]
      BY <2>3, PanesAssumption
    <3>2. o \in Outwards[o] /\ Outwards[o] \subseteq Panes
      BY DEF Outwards
    <3>3. Outwards[o] \subseteq Outwards[k]
      <4> SUFFICES ASSUME NEW j \in Outwards[o], NEW s \in SUBSET Panes, k \in s, Closed(s)
                   PROVE  j \in s
        BY <3>2 DEF Outwards
      <4>1. o \in s
        BY <2>3, <3>1 DEF Closed
      <4> QED  BY <4>1 DEF Outwards
    <3> DEFINE t == {k} \cup Outwards[o]
    <3>4. t \in SUBSET Panes /\ k \in t
      BY <3>2
    <3>5. Closed(t)
      <4> SUFFICES ASSUME NEW i \in t, Outer[i] # Navigation PROVE Outer[i] \in t
        BY DEF Closed
      <4>1. CASE i = k
        BY <3>1, <3>2, <4>1
      <4>2. CASE i \in Outwards[o]
        <5>1. Outer[i] \in Panes
          BY <3>2, <4>2, PanesAssumption
        <5>2. \A s \in SUBSET Panes : o \in s /\ Closed(s) => Outer[i] \in s
          BY <4>2 DEF Outwards, Closed
        <5>3. Outer[i] \in Outwards[o]
          BY <5>1, <5>2 DEF Outwards
        <5> QED  BY <5>3
      <4> QED  BY <4>1, <4>2
    <3>6. Outwards[k] \subseteq t
      <4> HIDE DEF t
      <4> QED  BY <3>4, <3>5 DEF Outwards
    <3> QED  BY <2>1, <2>3, <3>1, <3>3, <3>6
  <2> QED  BY <2>2, <2>3
<1>2. Eq(Outwards)
  <2>1. Outwards = [k \in Panes |-> Outwards[k]]
    BY DEF Outwards
  <2> QED  BY <1>1, <2>1
<1>3. Chain = CHOOSE c : Eq(c)
  BY DEF Chain
<1> HIDE DEF Eq
<1>4. Eq(Chain)
  BY <1>2, <1>3
<1> QED  BY <1>4 DEF Eq

(* Panes are nested, so the chain of a pane is a set of panes.             *)
LEMMA ChainOfPanes == \A k \in Panes : k \in Chain[k] /\ Chain[k] \subseteq Panes
<1>1. \A k \in Panes : k \in Chain[k]
  BY ChainEquation
<1> DEFINE bad == {k \in Panes : ~(Chain[k] \subseteq Panes)}
<1>2. ASSUME bad # {} PROVE FALSE
  <2>1. PICK k \in bad : Outer[k] \notin bad
    BY <1>2, PanesAssumption
  <2>2. k \in Panes /\ (Outer[k] # Navigation => Outer[k] \in Panes)
    BY <2>1, PanesAssumption
  <2>3. Outer[k] # Navigation => Chain[Outer[k]] \subseteq Panes
    BY <2>1, <2>2
  <2>4. Chain[k] = {k} \cup (IF Outer[k] = Navigation THEN {} ELSE Chain[Outer[k]])
    BY <2>2, ChainEquation
  <2> QED  BY <2>1, <2>2, <2>3, <2>4
<1> QED  BY <1>1, <1>2

(* A list no open pane lies over, whether the reader sees it or not.       *)
Uncovered(k) == (k = Navigation \/ k \in open) /\ \A j \in open : Outer[j] # k
(* A slide is under way whose end gives the list its style back.           *)
Restored(k) ==
    \E j \in sliding : (j = k /\ "own" \in ending[j]) \/ (Outer[j] = k /\ "outer" \in ending[j])
Scrollable ==
    narrow => \A k \in Panes \cup {Navigation} : Uncovered(k) => k \in touch \/ Restored(k)
NavInv == NavTypeOK /\ Scrollable

LEMMA NavInvInit == NavInit => NavInv
<1> SUFFICES ASSUME NavInit PROVE NavInv
  OBVIOUS
<1>1. /\ narrow \in BOOLEAN /\ open \subseteq Panes /\ sliding = {}
      /\ touch = (IF narrow THEN SetUp({}) ELSE {})
      /\ ending = [k \in Panes |-> {}]
  BY DEF NavInit
<1>2. NavTypeOK
  BY <1>1 DEF NavTypeOK, SetUp
<1>3. Scrollable
  BY <1>1 DEF Scrollable, Uncovered, SetUp
<1> QED  BY <1>2, <1>3 DEF NavInv

LEMMA SwitchStep ==
    ASSUME NavInv, NEW k \in Panes, Switch(k)
    PROVE  NavInv'
<1>1. /\ narrow \in BOOLEAN /\ open \subseteq Panes /\ sliding \subseteq Panes
      /\ touch \subseteq Panes \cup {Navigation}
      /\ ending \in [Panes -> SUBSET {"own", "outer"}]
  BY DEF NavInv, NavTypeOK
<1>2. /\ narrow' = narrow /\ open' = (open \ {k}) \cup ({k} \ open)
      /\ IF narrow
           THEN /\ touch' = touch \ {k, Outer[k]}
                /\ ending' = [ending EXCEPT ![k] = ending[k] \cup {Listener(k)}]
                /\ sliding' = sliding \cup {k}
           ELSE UNCHANGED <<touch, ending, sliding>>
  BY DEF Switch
<1>3. PICK e \in {"own", "outer"} : e = Listener(k) /\ (e = "own" <=> k \notin open)
  BY <1>2 DEF Listener
<1>4. NavTypeOK'
  BY <1>1, <1>2, <1>3 DEF NavTypeOK
<1>5. ASSUME narrow, NEW l \in Panes \cup {Navigation}, Uncovered(l)'
      PROVE  l \in touch' \/ Restored(l)'
  <2>1. /\ touch' = touch \ {k, Outer[k]} /\ k \in sliding' /\ sliding \subseteq sliding'
        /\ ending' \in [Panes -> SUBSET {"own", "outer"}]
        /\ e \in ending'[k] /\ \A j \in Panes : ending[j] \subseteq ending'[j]
    BY <1>1, <1>2, <1>3, <1>5
  <2>2. CASE l = k
    <3>1. k \in open'
      BY <1>5, <2>2, PanesAssumption DEF Uncovered
    <3>2. "own" \in ending'[k]
      BY <1>2, <1>3, <2>1, <3>1
    <3> QED  BY <2>1, <2>2, <3>2 DEF Restored
  <2>3. CASE l = Outer[k] /\ l # k
    <3>1. k \notin open'
      BY <1>5, <2>3 DEF Uncovered
    <3>2. "outer" \in ending'[k]
      BY <1>2, <1>3, <2>1, <3>1
    <3> QED  BY <2>1, <2>3, <3>2 DEF Restored
  <2>4. CASE l # k /\ l # Outer[k]
    <3>1. Uncovered(l)
      BY <1>2, <1>5, <2>4 DEF Uncovered
    <3>2. l \in touch \/ Restored(l)
      BY <1>5, <3>1 DEF NavInv, Scrollable
    <3>3. Restored(l) => Restored(l)'
      BY <1>1, <2>1 DEF Restored
    <3> QED  BY <2>1, <2>4, <3>2, <3>3
  <2> QED  BY <2>2, <2>3, <2>4
<1>6. Scrollable'
  BY <1>2, <1>5 DEF Scrollable
<1> QED  BY <1>4, <1>6 DEF NavInv

LEMMA EndInStep ==
    ASSUME NavInv, NEW k \in Panes, NEW slid \in {{}, {k}}, EndIn(k, slid)
    PROVE  NavInv'
<1>1. /\ narrow \in BOOLEAN /\ open \subseteq Panes /\ sliding \subseteq Panes
      /\ touch \subseteq Panes \cup {Navigation}
      /\ ending \in [Panes -> SUBSET {"own", "outer"}]
  BY DEF NavInv, NavTypeOK
<1>2. /\ sliding' = sliding \ slid
      /\ touch' = touch \cup {j \in Chain[k] : "own" \in ending[j]}
                        \cup {Outer[j] : j \in {i \in Chain[k] : "outer" \in ending[i]}}
      /\ ending' = [j \in Panes |-> IF j \in Chain[k] THEN {} ELSE ending[j]]
      /\ UNCHANGED <<narrow, open>>
  BY DEF EndIn
<1>3. k \in Chain[k] /\ Chain[k] \subseteq Panes
  BY ChainOfPanes
<1>4. touch' \subseteq Panes \cup {Navigation}
  BY <1>1, <1>2, <1>3, PanesAssumption
<1>5. NavTypeOK'
  BY <1>1, <1>2, <1>4 DEF NavTypeOK
<1>6. ASSUME narrow, NEW l \in Panes \cup {Navigation}, Uncovered(l)
      PROVE  l \in touch' \/ Restored(l)'
  <2>1. CASE l \in touch
    BY <1>2, <2>1
  <2>2. CASE Restored(l)
    <3>1. PICK j \in sliding : \/ j = l /\ "own" \in ending[j]
                               \/ Outer[j] = l /\ "outer" \in ending[j]
      BY <2>2 DEF Restored
    <3>2. CASE j \in Chain[k]
      BY <1>2, <3>1, <3>2
    <3>3. CASE j \notin Chain[k]
      <4>1. j \in sliding' /\ ending'[j] = ending[j]
        BY <1>1, <1>2, <1>3, <3>3
      <4> QED  BY <3>1, <4>1 DEF Restored
    <3> QED  BY <3>2, <3>3
  <2> QED  BY <1>6, <2>1, <2>2 DEF NavInv, Scrollable
<1>7. Scrollable'
  BY <1>2, <1>6 DEF Scrollable, Uncovered
<1> QED  BY <1>5, <1>7 DEF NavInv

LEMMA CrossWidthStep ==
    ASSUME NavInv, CrossWidth
    PROVE  NavInv'
<1>1. /\ narrow \in BOOLEAN /\ open \subseteq Panes
      /\ touch \subseteq Panes \cup {Navigation}
      /\ ending \in [Panes -> SUBSET {"own", "outer"}]
  BY DEF NavInv, NavTypeOK
<1>2. /\ narrow' = ~narrow /\ sliding' = {}
      /\ touch' = (IF narrow THEN touch \ (open \cup {Outer[k] : k \in open})
                             ELSE SetUp(touch))
      /\ UNCHANGED <<open, ending>>
  BY DEF CrossWidth
<1>3. touch' \subseteq Panes \cup {Navigation}
  BY <1>1, <1>2 DEF SetUp
<1>4. NavTypeOK'
  BY <1>1, <1>2, <1>3 DEF NavTypeOK
<1>5. Scrollable'
  BY <1>1, <1>2 DEF Scrollable, Uncovered, SetUp
<1> QED  BY <1>4, <1>5 DEF NavInv

LEMMA NavInvHolds == NavSpec => []NavInv
<1>1. NavInv /\ UNCHANGED navVars => NavInv'
  BY DEF navVars, NavInv, NavTypeOK, Scrollable, Uncovered, Restored
<1>2. NavInv /\ [NavNext]_navVars => NavInv'
  BY <1>1, SwitchStep, EndInStep, CrossWidthStep DEF NavNext
<1> QED  BY <1>2, NavInvInit, PTL DEF NavSpec

(* The values the variables of Nav.Scrolling take.                         *)
THEOREM NavTyped == NavSpec => []NavTypeOK
<1>1. NavInv => NavTypeOK
  BY DEF NavInv
<1> QED  BY <1>1, NavInvHolds, PTL

(* Nav.Scrolling: once nothing slides, the list in front scrolls by touch, *)
(* however deep the menus nest, and whenever listeners run or the width is *)
(* crossed.                                                                *)
THEOREM FrontListScrolls == NavSpec => []FrontScrolls
<1>1. NavInv => FrontScrolls
  <2> SUFFICES ASSUME NavInv, narrow, sliding = {},
                      NEW k \in Panes \cup {Navigation}, InFront(k)
               PROVE  k \in touch
    BY DEF FrontScrolls
  <2>1. Uncovered(k)
    BY ChainOfPanes DEF InFront, Uncovered
  <2>2. ~Restored(k)
    BY DEF Restored
  <2> QED  BY <2>1, <2>2 DEF NavInv, Scrollable
<1> QED  BY <1>1, NavInvHolds, PTL


-----------------------------------------------------------------------------
(* The marks and Nav.Blur                                                  *)

LEMMA MostOf ==
    ASSUME NEW n \in Nat, NEW T \in SUBSET (0 .. n), T # {}
    PROVE  Max(T) \in T /\ \A y \in T : y <= Max(T)
<1> DEFINE R == OpToRel(<, Nat)
           Rest == {n - x : x \in T}
<1>1. IsWellFoundedOn(R, Nat)
  BY NatLessThanWellFounded
<1>2. \A x, y \in Nat : <<y, x>> \in R <=> y < x
  BY DEF OpToRel
<1> HIDE DEF R
<1>3. Rest \subseteq Nat /\ Rest # {}
  <2>1. \A x \in T : n - x \in Nat
    OBVIOUS
  <2>2. PICK x \in T : TRUE
    OBVIOUS
  <2>3. n - x \in Rest
    OBVIOUS
  <2> QED  BY <2>1, <2>3
<1>4. PICK z \in Rest : \A y \in Rest : ~(<<y, z>> \in R)
  BY <1>1, <1>3, WFMin
<1>5. PICK x \in T : z = n - x
  OBVIOUS
<1>6. ASSUME NEW y \in T PROVE x >= y
  <2>1. n - y \in Nat /\ z \in Nat /\ n - y \in Rest
    OBVIOUS
  <2>2. ~(n - y < z)
    BY <1>2, <1>4, <2>1
  <2> QED  BY <1>5, <2>2
<1>7. Max(T) \in T /\ \A y \in T : Max(T) >= y
  BY <1>6 DEF Max
<1> QED  BY <1>7

LEMMA LayoutTypes ==
    ASSUME NEW l \in Layouts
    PROVE  /\ Len(l.tops) \in Nat \ {0} /\ Entries(l) = 0 .. Len(l.tops) - 1
           /\ 0 \in Entries(l) /\ Len(l.tops) - 1 \in Entries(l)
           /\ l.wide \in BOOLEAN /\ l.at \in [Marks -> Nat]
           /\ \A n \in Entries(l) : Top(l, n) \in Int
           /\ \A n, r \in Entries(l) : n <= r => Top(l, n) <= Top(l, r)
           /\ \A m \in Layouts : Entries(m) = Entries(l)
<1>1. /\ l.tops \in Seq(Int) /\ l.tops # <<>> /\ l.wide \in BOOLEAN /\ l.at \in [Marks -> Nat]
      /\ \A i, j \in DOMAIN l.tops : i <= j => l.tops[i] <= l.tops[j]
      /\ \A m \in Layouts : Len(m.tops) = Len(l.tops)
  BY ScrollAssumption
<1>2. DOMAIN l.tops = 1 .. Len(l.tops) /\ Len(l.tops) \in Nat
  BY <1>1, LenProperties
<1>3. Len(l.tops) # 0
  BY <1>1, EmptySeq
<1>4. \A n \in Entries(l) : n + 1 \in DOMAIN l.tops
  BY <1>2 DEF Entries
<1>5. ASSUME NEW n \in Entries(l) PROVE Top(l, n) \in Int
  <2>1. n + 1 \in 1 .. Len(l.tops)
    BY <1>2, <1>4
  <2> QED  BY <1>1, <2>1, ElementOfSeq DEF Top
<1>6. ASSUME NEW n \in Entries(l), NEW r \in Entries(l), n <= r PROVE Top(l, n) <= Top(l, r)
  <2>1. n + 1 <= r + 1
    BY <1>6, <1>2 DEF Entries
  <2> QED  BY <1>1, <1>4, <2>1 DEF Top
<1> QED  BY <1>1, <1>2, <1>3, <1>5, <1>6 DEF Entries

(* What Nav.Blur knows, whatever the headings do: on the way up, no entry  *)
(* from the index on is blurred, and on the way down all before it are.    *)
BlurFits(b, l) ==
    /\ b \in [index : Entries(l), offset : Offsets, dir : BOOLEAN, blurred : SUBSET Entries(l)]
    /\ \A k \in b.blurred : k + 1 \in Entries(l)
    /\ ~b.dir => \A k \in b.blurred : k < b.index
    /\ b.dir => \A k \in Entries(l) : k < b.index => k \in b.blurred
(* No entry is blurred before its time, and none is left out.              *)
NoneAhead(b, l) == \A k \in b.blurred : Top(l, k + 1) <= b.offset
NoneMissing(b, l) ==
    \A k \in Entries(l) : k + 1 \in Entries(l) /\ Top(l, k + 1) <= b.offset => k \in b.blurred

(* Downwards, the entries before the index are taken as blurred.           *)
LEMMA BlurDown ==
    ASSUME NEW l \in Layouts, NEW b, NEW y \in Offsets, BlurFits(b, l), b.offset < y
    PROVE  LET c == BlurUpdate(b, y, l)
           IN  /\ BlurFits(c, l) /\ c.offset = y
               /\ NoneAhead(b, l) => NoneAhead(c, l)
               /\ NoneMissing(c, l)
<1>1. PICK N : N = Len(l.tops)
  OBVIOUS
<1>2. /\ N \in Nat \ {0} /\ Entries(l) = 0 .. N - 1
      /\ \A n \in Entries(l) : Top(l, n) \in Int
      /\ \A n, r \in Entries(l) : n <= r => Top(l, n) <= Top(l, r)
  BY <1>1, LayoutTypes
<1>3. PICK from, passed, most :
        /\ from = IF b.dir THEN b.index ELSE 0
        /\ passed = {n \in Entries(l) : n > from /\ Top(l, n) <= y}
        /\ most = Max(passed \cup {from})
  OBVIOUS
<1>4. /\ b.index \in Entries(l) /\ b.dir \in BOOLEAN /\ b.blurred \subseteq Entries(l)
      /\ b.offset \in Nat /\ y \in Nat
  BY ScrollAssumption DEF BlurFits
<1>5. PICK c : c = BlurUpdate(b, y, l)
  OBVIOUS
<1>6. c = [index |-> most, offset |-> y, dir |-> TRUE,
           blurred |-> b.blurred \cup {n - 1 : n \in passed}]
  <2>1. (b.offset < y) = TRUE /\ b.offset <= y
    BY <1>4
  <2>2. StartFrom(b, TRUE, l) = from
    BY <1>3, <1>4 DEF StartFrom
  <2> QED  BY <1>3, <1>5, <2>1, <2>2 DEF BlurUpdate
<1>7. from \in Entries(l) /\ passed \cup {from} \in SUBSET (0 .. N - 1) /\ N - 1 \in Nat
  BY <1>2, <1>3, <1>4
<1>8. most \in passed \cup {from} /\ \A n \in passed \cup {from} : n <= most
  BY <1>3, <1>7, MostOf
<1>9. \A n \in passed : n \in 1 .. N - 1 /\ n > from /\ Top(l, n) <= y
  BY <1>2, <1>3, <1>7
<1>10. ASSUME NEW k \in Entries(l), k < most, k \notin b.blurred, b.dir \/ from = 0
       PROVE  k + 1 \in passed
  <2>1. k + 1 > from
    <3>1. CASE b.dir
      BY <1>2, <1>3, <1>4, <1>10, <3>1 DEF BlurFits
    <3>2. CASE from = 0
      BY <1>2, <1>10, <3>2
    <3> QED  BY <1>10, <3>1, <3>2
  <2>2. most \in passed
    BY <1>2, <1>7, <1>8, <1>10, <2>1
  <2>3. k + 1 \in Entries(l) /\ k + 1 <= most /\ most \in Entries(l)
    BY <1>2, <1>9, <1>10, <2>2
  <2>4. Top(l, k + 1) <= Top(l, most) /\ Top(l, most) <= y
    BY <1>2, <1>9, <2>2, <2>3
  <2>5. Top(l, k + 1) <= y
    BY <1>2, <1>4, <2>3, <2>4
  <2> QED  BY <1>3, <2>1, <2>3, <2>5
<1>11. b.dir \/ from = 0
  BY <1>3
<1>12. c.index = most /\ c.offset = y /\ c.dir = TRUE
         /\ c.blurred = b.blurred \cup {n - 1 : n \in passed}
  BY <1>6
<1>13. BlurFits(c, l)
  <2>1. most \in Entries(l)
    BY <1>7, <1>8, <1>2
  <2>2. \A n \in passed : n - 1 \in Entries(l) /\ (n - 1) + 1 \in Entries(l)
    BY <1>2, <1>9
  <2>3. c.blurred \in SUBSET Entries(l) /\ \A k \in c.blurred : k + 1 \in Entries(l)
    BY <1>4, <1>12, <2>2 DEF BlurFits
  <2>4. c \in [index : Entries(l), offset : Offsets, dir : BOOLEAN,
               blurred : SUBSET Entries(l)]
    BY <1>6, <1>12, <2>1, <2>3
  <2>5. ASSUME NEW k \in Entries(l), k < c.index PROVE k \in c.blurred
    <3>1. k \in b.blurred \/ k + 1 \in passed
      BY <1>10, <1>11, <1>12, <2>5
    <3>2. (k + 1) - 1 = k
      BY <1>2
    <3> QED  BY <1>12, <3>1, <3>2
  <2> QED  BY <1>12, <2>3, <2>4, <2>5 DEF BlurFits
<1>14. ASSUME NoneAhead(b, l) PROVE NoneAhead(c, l)
  <2> SUFFICES ASSUME NEW k \in c.blurred PROVE Top(l, k + 1) <= y
    BY <1>12 DEF NoneAhead
  <2>1. CASE k \in b.blurred
    <3>1. Top(l, k + 1) <= b.offset /\ Top(l, k + 1) \in Int
      BY <1>2, <1>14, <2>1 DEF NoneAhead, BlurFits
    <3> QED  BY <1>4, <3>1
  <2>2. ASSUME NEW n \in passed, k = n - 1 PROVE Top(l, k + 1) <= y
    <3>1. k + 1 = n
      BY <1>9, <2>2
    <3> QED  BY <1>9, <3>1
  <2> QED  BY <1>12, <2>1, <2>2
<1>15. NoneMissing(c, l)
  <2> SUFFICES ASSUME NEW k \in Entries(l), k + 1 \in Entries(l), Top(l, k + 1) <= y,
                      k \notin b.blurred
               PROVE  k + 1 \in passed
    <3>1. \A k \in Entries(l) : (k + 1) - 1 = k
      BY <1>2
    <3> QED  BY <1>12, <3>1 DEF NoneMissing
  <2>1. k + 1 > from
    <3>1. CASE b.dir
      BY <1>2, <1>3, <1>4, <3>1 DEF BlurFits
    <3>2. CASE ~b.dir
      BY <1>2, <1>3, <3>2
    <3> QED  BY <1>4, <3>1, <3>2
  <2> QED  BY <1>3, <2>1
<1> QED  BY <1>5, <1>12, <1>13, <1>14, <1>15


(* Upwards, the entries from the index on are taken as not blurred; where  *)
(* it stays, it looks down from there.                                     *)
LEMMA BlurUp ==
    ASSUME NEW l \in Layouts, NEW b, NEW y \in Offsets, BlurFits(b, l), ~(b.offset < y)
    PROVE  LET c == BlurUpdate(b, y, l)
           IN  /\ BlurFits(c, l) /\ c.offset = y
               /\ NoneAhead(b, l) \/ y < b.offset => NoneAhead(c, l)
               /\ NoneMissing(b, l) => NoneMissing(c, l)
               /\ ~b.dir /\ b.index = 0 /\ b.offset = y => NoneMissing(c, l)
<1>1. PICK N : N = Len(l.tops)
  OBVIOUS
<1>2. /\ N \in Nat \ {0} /\ Entries(l) = 0 .. N - 1
      /\ \A n \in Entries(l) : Top(l, n) \in Int
  BY <1>1, LayoutTypes
<1>3. PICK from : from = IF b.dir THEN N - 1 ELSE b.index
  OBVIOUS
<1>4. /\ b.index \in Entries(l) /\ b.dir \in BOOLEAN /\ b.blurred \subseteq Entries(l)
      /\ b.offset \in Nat /\ y \in Nat /\ y <= b.offset
      /\ \A k \in b.blurred : k + 1 \in Entries(l)
  <2>1. /\ b.index \in Entries(l) /\ b.dir \in BOOLEAN /\ b.blurred \subseteq Entries(l)
        /\ b.offset \in Offsets /\ \A k \in b.blurred : k + 1 \in Entries(l)
    BY DEF BlurFits
  <2>2. b.offset \in Nat /\ y \in Nat
    BY <2>1, ScrollAssumption
  <2> QED  BY <2>1, <2>2
<1>5. StartFrom(b, FALSE, l) = from /\ from \in Entries(l)
  BY <1>1, <1>2, <1>3, <1>4 DEF StartFrom
<1>6. \A k \in b.blurred : k + 1 <= from
  <2>1. CASE b.dir
    BY <1>2, <1>3, <1>4, <2>1
  <2>2. CASE ~b.dir
    BY <1>2, <1>3, <1>4, <2>2 DEF BlurFits
  <2> QED  BY <2>1, <2>2
<1>7. PICK c : c = BlurUpdate(b, y, l)
  OBVIOUS
<1>8. (b.offset < y) = FALSE
  BY <1>4
<1>9. CASE b.offset = y
  <2>1. PICK passed, most :
          /\ passed = {n \in Entries(l) : n > from /\ Top(l, n) <= y}
          /\ most = Max(passed \cup {from})
    OBVIOUS
  <2>2. c = [index |-> most, offset |-> y, dir |-> FALSE,
             blurred |-> b.blurred \cup {n - 1 : n \in passed}]
    <3>1. b.offset <= y
      BY <1>4, <1>9
    <3> QED  BY <1>5, <1>7, <1>8, <2>1, <3>1 DEF BlurUpdate
  <2>3. passed \cup {from} \in SUBSET (0 .. N - 1) /\ N - 1 \in Nat
    BY <1>2, <1>5, <2>1
  <2>4. most \in passed \cup {from} /\ \A n \in passed \cup {from} : n <= most
    BY <2>1, <2>3, MostOf
  <2>5. \A n \in passed : /\ n \in 1 .. N - 1 /\ Top(l, n) <= y
                          /\ n - 1 \in Entries(l) /\ (n - 1) + 1 = n
    BY <1>2, <1>5, <2>1
  <2>6. c.index = most /\ c.offset = y /\ c.dir = FALSE
          /\ c.blurred = b.blurred \cup {n - 1 : n \in passed}
    BY <2>2
  <2>7. most \in Entries(l)
    BY <1>2, <2>3, <2>4
  <2>8. \A k \in c.blurred : k \in Entries(l) /\ k + 1 \in Entries(l) /\ k < most
    <3>1. ASSUME NEW k \in b.blurred PROVE k < most
      <4>1. k + 1 <= from /\ from <= most
        BY <1>6, <2>4
      <4> QED  BY <1>2, <1>4, <1>5, <2>7, <4>1
    <3>2. \A n \in passed : n - 1 < most /\ n \in Entries(l)
      BY <1>2, <2>3, <2>4, <2>5, <2>7
    <3> QED  BY <1>4, <2>5, <2>6, <3>1, <3>2
  <2>9. c \in [index : Entries(l), offset : Offsets, dir : BOOLEAN,
               blurred : SUBSET Entries(l)]
    <3>1. c.blurred \in SUBSET Entries(l)
      BY <2>8
    <3> QED  BY <2>2, <2>6, <2>7, <3>1
  <2>10. BlurFits(c, l)
    BY <2>6, <2>8, <2>9 DEF BlurFits
  <2>11. ASSUME NoneAhead(b, l) PROVE NoneAhead(c, l)
    BY <1>9, <2>5, <2>6, <2>11 DEF NoneAhead
  <2>12. ASSUME NoneMissing(b, l) PROVE NoneMissing(c, l)
    BY <1>9, <2>6, <2>12 DEF NoneMissing
  <2>13. ASSUME ~b.dir, b.index = 0 PROVE NoneMissing(c, l)
    <3> SUFFICES ASSUME NEW k \in Entries(l), k + 1 \in Entries(l), Top(l, k + 1) <= y
                 PROVE  k \in c.blurred
      BY <2>6 DEF NoneMissing
    <3>1. k + 1 > from /\ (k + 1) - 1 = k
      BY <1>2, <1>3, <2>13
    <3>2. k + 1 \in passed
      BY <2>1, <3>1
    <3> QED  BY <2>6, <3>1, <3>2
  <2>14. ~(y < b.offset)
    BY <1>4, <1>9
  <2> QED  BY <1>7, <2>6, <2>10, <2>11, <2>12, <2>13, <2>14
<1>10. CASE b.offset # y
  <2>1. PICK reached, ahead :
          /\ reached = {r \in Entries(l) : r <= from /\ Top(l, r) <= y}
          /\ ahead = {r \in Entries(l) : r <= from /\ Top(l, r) > y}
    OBVIOUS
  <2>2. PICK last : last = IF reached = {} THEN from ELSE Max(reached)
    OBVIOUS
  <2>3. c = [index |-> last, offset |-> y, dir |-> FALSE,
             blurred |-> b.blurred \ {r - 1 : r \in ahead}]
    <3>1. ~(b.offset <= y)
      BY <1>4, <1>10
    <3> QED  BY <1>5, <1>7, <1>8, <2>1, <2>2, <3>1 DEF BlurUpdate
  <2>4. c.index = last /\ c.offset = y /\ c.dir = FALSE
          /\ c.blurred = b.blurred \ {r - 1 : r \in ahead}
    BY <2>3
  <2>5. reached # {} => last \in reached /\ \A r \in reached : r <= last
    <3>1. reached \in SUBSET (0 .. N - 1) /\ N - 1 \in Nat
      BY <1>2, <2>1
    <3> QED  BY <2>2, <3>1, MostOf
  <2>6. last \in Entries(l)
    BY <1>5, <2>1, <2>2, <2>5
  <2>7. ASSUME NEW k \in c.blurred PROVE k + 1 \in reached
    <3>1. k \in b.blurred /\ k + 1 \in Entries(l) /\ k + 1 <= from /\ k \in Entries(l)
      BY <1>4, <1>6, <2>4, <2>7
    <3>2. (k + 1) - 1 = k
      BY <1>2, <3>1
    <3>3. k + 1 \notin ahead
      BY <2>4, <2>7, <3>2
    <3> QED  BY <1>2, <1>4, <2>1, <3>1, <3>3
  <2>8. ASSUME NEW k \in c.blurred PROVE k < last
    <3>1. k + 1 <= last
      BY <2>5, <2>7
    <3> QED  BY <1>2, <1>4, <2>4, <2>6, <3>1
  <2>9. c \in [index : Entries(l), offset : Offsets, dir : BOOLEAN,
               blurred : SUBSET Entries(l)]
    <3>1. c.blurred \in SUBSET Entries(l)
      BY <1>4, <2>4
    <3> QED  BY <2>3, <2>4, <2>6, <3>1
  <2>10. BlurFits(c, l)
    BY <1>4, <2>4, <2>8, <2>9 DEF BlurFits
  <2>11. NoneAhead(c, l)
    BY <2>1, <2>4, <2>7 DEF NoneAhead
  <2>12. ASSUME NoneMissing(b, l) PROVE NoneMissing(c, l)
    <3> SUFFICES ASSUME NEW k \in Entries(l), k + 1 \in Entries(l), Top(l, k + 1) <= y
                 PROVE  k \in c.blurred
      BY <2>4 DEF NoneMissing
    <3>1. Top(l, k + 1) <= b.offset
      BY <1>2, <1>4
    <3>2. k \in b.blurred
      BY <2>12, <3>1 DEF NoneMissing
    <3>3. \A r \in ahead : r - 1 # k
      <4> SUFFICES ASSUME NEW r \in ahead, r - 1 = k PROVE FALSE
        OBVIOUS
      <4>1. r = k + 1
        BY <1>2, <2>1
      <4> QED  BY <1>2, <1>4, <2>1, <4>1
    <3> QED  BY <2>4, <3>2, <3>3
  <2> QED  BY <1>7, <1>10, <2>4, <2>10, <2>11, <2>12
<1> QED  BY <1>9, <1>10


(* While it listens, Nav.Blur knows where the page is; when it does not,   *)
(* nothing is blurred.                                                     *)
BlurInv ==
    /\ BlurFits(blur, layout)
    /\ ~Listens("blur", layout) => blur.blurred = {}
    /\ Listens("blur", layout) => /\ blur.offset = top
                                  /\ "up" \in ways => NoneAhead(blur, layout)
                                  /\ "down" \in ways => NoneMissing(blur, layout)
(* What a component that listens has measured is where its place was when  *)
(* it last looked.                                                         *)
MarkedRight(m) == marked[m] <=> Listens(m, layout) /\ top >= layout.at[m]
MeasuredRight(m) == Listens(m, layout) => measured[m] = layout.at[m]
MarkInv ==
    /\ \A m \in Marks \ unseen : MarkedRight(m)
    /\ \A m \in Cached \ unseen : MeasuredRight(m)
PageInv == PageTypeOK /\ BlurInv /\ MarkInv

LEMMA PageTypes ==
    ASSUME PageInv
    PROVE  /\ page \in Pages /\ top \in Offsets /\ top \in Nat /\ layout \in Layouts
           /\ measured \in [Cached -> Nat] /\ marked \in [Marks -> BOOLEAN]
           /\ unseen \subseteq Marks /\ ways \subseteq {"up", "down"}
           /\ BlurFits(blur, layout) /\ Cached \subseteq Marks
  BY ScrollAssumption DEF PageInv, PageTypeOK, BlurInv, Cached, Marks

LEMMA WiredStays ==
    ASSUME page' = page
    PROVE  Wired' = Wired
  BY DEF Wired

LEMMA FitsIsTyped ==
    ASSUME NEW l \in Layouts, NEW b, BlurFits(b, l)
    PROVE  b \in [index : Entries(l), offset : Offsets, dir : BOOLEAN,
                  blurred : SUBSET Entries(l)]
  BY DEF BlurFits

(* Layouts are of one page: what fits one fits another.                    *)
LEMMA FitsAny ==
    ASSUME NEW l \in Layouts, NEW n \in Layouts, NEW b, BlurFits(b, l)
    PROVE  BlurFits(b, n)
<1>1. Entries(n) = Entries(l)
  BY LayoutTypes
<1> QED  BY <1>1 DEF BlurFits

LEMMA PageInvInit == PageInit => PageInv
<1> SUFFICES ASSUME PageInit PROVE PageInv
  OBVIOUS
<1>1. /\ page \in Pages /\ top \in Offsets /\ layout \in Layouts /\ top \in Nat
      /\ Cached \subseteq Marks /\ layout.at \in [Marks -> Nat] /\ layout.wide \in BOOLEAN
  BY ScrollAssumption, LayoutTypes DEF PageInit, Cached, Marks
<1>2. /\ measured = [m \in Cached |-> IF Listens(m, layout) THEN layout.at[m] ELSE 0]
      /\ marked = [m \in Marks |-> m \in Cached /\ Listens(m, layout) /\ top >= layout.at[m]]
      /\ unseen = Marks \ Cached
      /\ ways = IF layout.wide THEN {"up", "down"} ELSE {"up"}
  BY DEF PageInit
<1>3. PICK l, b : /\ l = layout
                  /\ b = [index |-> 0, offset |-> top, dir |-> FALSE, blurred |-> {}]
  OBVIOUS
<1>4. BlurFits(b, l) /\ b.index = 0 /\ b.dir = FALSE /\ b.offset = top /\ b.blurred = {}
  BY <1>1, <1>3, LayoutTypes DEF BlurFits
<1>5. NoneAhead(b, l)
  BY <1>4 DEF NoneAhead
<1>6. PICK c : c = BlurUpdate(b, top, l)
  OBVIOUS
<1>7. /\ BlurFits(c, l) /\ c.offset = top /\ NoneAhead(c, l) /\ NoneMissing(c, l)
  <2>1. ~(b.offset < top)
    BY <1>1, <1>4
  <2>2. PICK y \in Offsets : y = top
    BY <1>1
  <2>3. BlurFits(c, l) /\ c.offset = y /\ NoneAhead(c, l) /\ NoneMissing(c, l)
    BY <1>1, <1>3, <1>4, <1>5, <1>6, <2>1, <2>2, BlurUp
  <2> QED  BY <2>2, <2>3
<1>8. blur = IF Listens("blur", l) THEN c ELSE b
  BY <1>3, <1>6 DEF PageInit
<1>9. BlurInv
  BY <1>3, <1>4, <1>5, <1>7, <1>8 DEF BlurInv
<1>10. marked \in [Marks -> BOOLEAN]
  <2>1. \A m \in Marks : (m \in Cached /\ Listens(m, layout) /\ top >= layout.at[m]) \in BOOLEAN
    OBVIOUS
  <2> QED  BY <1>2, <2>1
<1>11. PageTypeOK
  <2>1. measured \in [Cached -> Nat]
    BY <1>1, <1>2
  <2>2. blur \in [index : Entries(layout), offset : Offsets, dir : BOOLEAN,
                  blurred : SUBSET Entries(layout)]
    BY <1>1, <1>9, FitsIsTyped DEF BlurInv
  <2> QED  BY <1>1, <1>2, <1>10, <2>1, <2>2 DEF PageTypeOK
<1>12. MarkInv
  BY <1>1, <1>2 DEF MarkInv, MarkedRight, MeasuredRight
<1> QED  BY <1>9, <1>11, <1>12 DEF PageInv

LEMMA ScrollStep ==
    ASSUME PageInv, NEW y \in Offsets, Scroll(y)
    PROVE  PageInv'
<1>1. /\ top' = y /\ UNCHANGED <<page, layout, measured>>
      /\ marked' = [m \in Marks |-> Listens(m, layout) /\ LookAt(y, layout, m)]
      /\ IF Listens("blur", layout)
           THEN blur' = BlurUpdate(blur, y, layout) /\ ways' = ways \cup Ways(blur, y)
           ELSE UNCHANGED <<blur, ways>>
      /\ unseen' = unseen \cap Cached
  BY DEF Scroll
<1>2. PICK l, b : l = layout /\ b = blur
  OBVIOUS
<1>3. l \in Layouts /\ BlurFits(b, l) /\ b.offset \in Nat /\ y \in Nat
  BY <1>2, PageTypes, ScrollAssumption DEF BlurFits
<1>4. Wired' = Wired /\ \A m : Listens(m, l)' <=> Listens(m, l)
  BY <1>1, WiredStays DEF Listens
<1>5. BlurInv' /\ ways' \subseteq {"up", "down"}
  <2>1. CASE ~Listens("blur", l)
    <3>1. blur' = b /\ layout' = l /\ ways' = ways /\ b.blurred = {}
      BY <1>1, <1>2, <2>1 DEF PageInv, BlurInv
    <3> QED  BY <1>3, <1>4, <2>1, <3>1, PageTypes DEF BlurInv, Listens
  <2>2. CASE Listens("blur", l)
    <3>1. PICK c : c = BlurUpdate(b, y, l)
      OBVIOUS
    <3>2. /\ blur' = c /\ layout' = l /\ ways' = ways \cup Ways(b, y)
          /\ "up" \in ways => NoneAhead(b, l)
          /\ "down" \in ways => NoneMissing(b, l)
      BY <1>1, <1>2, <2>2, <3>1 DEF PageInv, BlurInv
    <3>3. /\ BlurFits(c, l) /\ c.offset = y
          /\ NoneAhead(b, l) \/ y < b.offset => NoneAhead(c, l)
          /\ NoneMissing(b, l) \/ b.offset < y => NoneMissing(c, l)
      <4>1. CASE b.offset < y
        <5>1. ~(y < b.offset)
          BY <1>3, <4>1
        <5> QED  BY <1>3, <3>1, <4>1, <5>1, BlurDown
      <4>2. CASE ~(b.offset < y)
        BY <1>3, <3>1, <4>2, BlurUp
      <4> QED  BY <4>1, <4>2
    <3>4. /\ "up" \in Ways(b, y) => y < b.offset
          /\ "down" \in Ways(b, y) => b.offset < y
          /\ Ways(b, y) \subseteq {"up", "down"}
      BY DEF Ways
    <3>5. /\ "up" \in ways' => NoneAhead(c, l)
          /\ "down" \in ways' => NoneMissing(c, l)
      BY <3>2, <3>3, <3>4
    <3> QED  BY <1>1, <1>4, <2>2, <3>2, <3>3, <3>4, <3>5, PageTypes DEF BlurInv, Listens
  <2> QED  BY <2>1, <2>2
<1>6. marked' \in [Marks -> BOOLEAN]
  <2>1. \A m \in Marks : (Listens(m, layout) /\ LookAt(y, layout, m)) \in BOOLEAN
    OBVIOUS
  <2> QED  BY <1>1, <2>1
<1>7. PageTypeOK'
  <2>1. blur' \in [index : Entries(l), offset : Offsets, dir : BOOLEAN,
                   blurred : SUBSET Entries(l)]
    <3>1. PICK c : c = blur'
      OBVIOUS
    <3>2. BlurFits(c, l)
      BY <1>1, <1>2, <1>5, <3>1 DEF BlurInv
    <3> QED  BY <1>3, <3>1, <3>2, FitsIsTyped
  <2> QED  BY <1>1, <1>2, <1>5, <1>6, <2>1, PageTypes DEF PageTypeOK
<1>8. MarkInv'
  <2>1. ASSUME NEW m \in Cached, m \notin unseen PROVE MeasuredRight(m)'
    BY <1>1, <1>2, <1>4, <2>1 DEF PageInv, MarkInv, MeasuredRight, Listens
  <2>2. ASSUME NEW m \in Marks, m \notin Cached \/ m \notin unseen PROVE MarkedRight(m)'
    <3>1. marked'[m] <=> Listens(m, l) /\ LookAt(y, l, m)
      BY <1>1, <1>2
    <3>2. LookAt(y, l, m) <=> y >= IF m \in Cached THEN measured[m] ELSE l.at[m]
      BY <1>1 DEF LookAt
    <3>3. m \in Cached => (Listens(m, l) => measured[m] = l.at[m])
      BY <1>2, <2>2 DEF PageInv, MarkInv, MeasuredRight
    <3>4. marked'[m] <=> Listens(m, l) /\ y >= l.at[m]
      BY <3>1, <3>2, <3>3
    <3> QED  BY <1>1, <1>2, <1>4, <3>4 DEF MarkedRight, Listens
  <2> QED  BY <1>1, <2>1, <2>2 DEF MarkInv
<1> QED  BY <1>5, <1>7, <1>8 DEF PageInv


LEMMA ResizePageStep ==
    ASSUME PageInv, NEW l \in Layouts, ResizePage(l)
    PROVE  PageInv'
<1>1. PICK k, b, t : k = layout /\ b = blur /\ t = top
  OBVIOUS
<1>2. /\ layout' = l /\ UNCHANGED <<page, top>>
      /\ measured' = [m \in Cached |-> IF Listens(m, k) \/ Listens(m, l)
                                         THEN l.at[m] ELSE measured[m]]
      /\ marked' = [m \in Marks |-> Listens(m, l) /\ LookAt(t, l, m)]
      /\ blur' = CASE Listens("blur", k) /\ ~l.wide -> BlurReset(b, t)
                   [] Listens("blur", l) /\ ~k.wide -> BlurUpdate(b, t, l)
                   [] OTHER -> b
      /\ ways' = IF k.wide /\ l.wide THEN {} ELSE {"up"}
      /\ unseen' = {}
  BY <1>1 DEF ResizePage
<1>3. /\ k \in Layouts /\ BlurFits(b, k) /\ BlurFits(b, l) /\ t \in Offsets /\ t \in Nat
      /\ b.offset \in Nat /\ l.at \in [Marks -> Nat]
      /\ Cached \subseteq Marks
  <2>1. k \in Layouts /\ BlurFits(b, k) /\ t \in Offsets /\ t \in Nat /\ Cached \subseteq Marks
    BY <1>1, PageTypes
  <2>2. b.offset \in Nat
    BY <2>1, ScrollAssumption DEF BlurFits
  <2> QED  BY <2>1, <2>2, FitsAny, LayoutTypes
<1>4. Wired' = Wired /\ \A m, n : Listens(m, n)' <=> Listens(m, n)
  BY <1>2, WiredStays DEF Listens
<1>5. Listens("blur", k) \/ b.blurred = {}
  BY <1>1 DEF PageInv, BlurInv
<1>6. BlurInv'
  <2>1. CASE Listens("blur", k) /\ ~l.wide
    <3>1. PICK c : c = BlurReset(b, t)
      OBVIOUS
    <3>2. ~Listens("blur", l)
      BY <2>1 DEF Listens
    <3>3. blur' = c
      BY <1>2, <2>1, <3>1, <3>2
    <3>4. /\ c.index = 0 /\ c.blurred = {} /\ c.offset = t
          /\ c \in [index : Entries(l), offset : Offsets, dir : BOOLEAN,
                    blurred : SUBSET Entries(l)]
      BY <1>3, <3>1, LayoutTypes DEF BlurReset, BlurFits
    <3>5. BlurFits(c, l)
      BY <3>4, LayoutTypes DEF BlurFits
    <3> QED  BY <1>2, <1>4, <3>2, <3>3, <3>4, <3>5 DEF BlurInv, Listens
  <2>2. CASE Listens("blur", l) /\ ~k.wide
    <3>1. ~Listens("blur", k) /\ b.blurred = {}
      BY <1>5, <2>2 DEF Listens
    <3>2. PICK c : c = BlurUpdate(b, t, l)
      OBVIOUS
    <3>3. blur' = c /\ ways' = {"up"}
      BY <1>2, <2>2, <3>1, <3>2
    <3>4. NoneAhead(b, l)
      BY <3>1 DEF NoneAhead
    <3>5. BlurFits(c, l) /\ c.offset = t /\ NoneAhead(c, l)
      <4>1. CASE b.offset < t
        BY <1>3, <3>2, <3>4, <4>1, BlurDown
      <4>2. CASE ~(b.offset < t)
        BY <1>3, <3>2, <3>4, <4>2, BlurUp
      <4> QED  BY <4>1, <4>2
    <3> QED  BY <1>1, <1>2, <1>4, <2>2, <3>3, <3>5 DEF BlurInv, Listens
  <2>3. CASE Listens("blur", k) /\ l.wide
    <3>1. k.wide
      BY <2>3 DEF Listens
    <3>2. blur' = b /\ ways' = {}
      BY <1>2, <2>3, <3>1
    <3>3. b.offset = t /\ Listens("blur", l)
      BY <1>1, <2>3 DEF PageInv, BlurInv, Listens
    <3> QED  BY <1>1, <1>2, <1>3, <1>4, <3>2, <3>3 DEF BlurInv, Listens
  <2>4. CASE ~Listens("blur", k) /\ ~(Listens("blur", l) /\ ~k.wide)
    <3>1. ~Listens("blur", l)
      BY <2>4 DEF Listens
    <3>2. blur' = b
      BY <1>2, <2>4
    <3> QED  BY <1>2, <1>3, <1>4, <1>5, <2>4, <3>1, <3>2 DEF BlurInv, Listens
  <2> QED  BY <2>1, <2>2, <2>3, <2>4
<1>7. marked' \in [Marks -> BOOLEAN]
  <2>1. \A m \in Marks : (Listens(m, l) /\ LookAt(t, l, m)) \in BOOLEAN
    OBVIOUS
  <2> QED  BY <1>2, <2>1
<1>8. measured' \in [Cached -> Nat]
  BY <1>2, <1>3, PageTypes
<1>9. PageTypeOK'
  <2>1. blur' \in [index : Entries(l), offset : Offsets, dir : BOOLEAN,
                   blurred : SUBSET Entries(l)]
    <3>1. PICK c : c = blur'
      OBVIOUS
    <3>2. BlurFits(c, l)
      BY <1>2, <1>6, <3>1 DEF BlurInv
    <3> QED  BY <3>1, <3>2, FitsIsTyped
  <2> QED  BY <1>2, <1>7, <1>8, <2>1, PageTypes DEF PageTypeOK
<1>10. MarkInv'
  <2>1. ASSUME NEW m \in Cached PROVE MeasuredRight(m)'
    BY <1>2, <1>4 DEF MeasuredRight, Listens
  <2>2. ASSUME NEW m \in Marks PROVE MarkedRight(m)'
    <3>1. marked'[m] <=> Listens(m, l) /\ LookAt(t, l, m)
      BY <1>2
    <3>2. LookAt(t, l, m) <=> t >= IF m \in Cached THEN measured'[m] ELSE l.at[m]
      BY DEF LookAt
    <3>3. m \in Cached => (Listens(m, l) => measured'[m] = l.at[m])
      BY <1>2
    <3>4. marked'[m] <=> Listens(m, l) /\ t >= l.at[m]
      BY <3>1, <3>2, <3>3
    <3> QED  BY <1>1, <1>2, <1>4, <3>4 DEF MarkedRight, Listens
  <2> QED  BY <2>1, <2>2 DEF MarkInv
<1> QED  BY <1>6, <1>9, <1>10 DEF PageInv

LEMMA RelayoutStep ==
    ASSUME PageInv, NEW l \in Layouts, Relayout(l)
    PROVE  PageInv'
<1>1. PICK k, b : k = layout /\ b = blur
  OBVIOUS
<1>2. /\ layout' = l /\ l.wide = k.wide /\ unseen' = Marks
      /\ ways' = IF l.wide THEN {} ELSE {"up"}
      /\ UNCHANGED <<page, top, measured, marked, blur>>
  BY <1>1 DEF Relayout
<1>3. k \in Layouts /\ BlurFits(b, k) /\ BlurFits(b, l) /\ Cached \subseteq Marks
  BY <1>1, PageTypes, FitsAny
<1>4. Wired' = Wired
  BY <1>2, WiredStays
<1>5. Listens("blur", l) <=> Listens("blur", k)
  BY <1>2 DEF Listens
<1>6. BlurInv'
  <2>1. CASE Listens("blur", k)
    <3>1. ways' = {} /\ b.offset = top
      BY <1>1, <1>2, <2>1 DEF PageInv, BlurInv, Listens
    <3> QED  BY <1>1, <1>2, <1>3, <1>4, <2>1, <3>1 DEF BlurInv, Listens
  <2>2. CASE ~Listens("blur", k)
    <3>1. b.blurred = {}
      BY <1>1, <2>2 DEF PageInv, BlurInv
    <3> QED  BY <1>1, <1>2, <1>3, <1>4, <2>2, <3>1 DEF BlurInv, Listens
  <2> QED  BY <2>1, <2>2
<1>7. PageTypeOK'
  <2>1. b \in [index : Entries(l), offset : Offsets, dir : BOOLEAN, blurred : SUBSET Entries(l)]
    BY <1>3, FitsIsTyped
  <2> QED  BY <1>1, <1>2, <2>1, PageTypes DEF PageTypeOK
<1>8. MarkInv'
  BY <1>2, <1>3 DEF MarkInv
<1> QED  BY <1>6, <1>7, <1>8 DEF PageInv

LEMMA PageInvHolds == PageSpec => []PageInv
<1>1. ASSUME PageInv, UNCHANGED scrollVars PROVE PageInv'
  <2>1. UNCHANGED <<page, top, layout, measured, marked, blur, unseen, ways>>
    BY <1>1 DEF scrollVars
  <2>2. Wired' = Wired
    BY <2>1, WiredStays
  <2>3. PageTypeOK'
    BY <1>1, <2>1 DEF PageInv, PageTypeOK
  <2>4. BlurInv'
    BY <1>1, <2>1, <2>2 DEF PageInv, BlurInv, Listens
  <2>5. MarkInv'
    BY <1>1, <2>1, <2>2 DEF PageInv, MarkInv, MarkedRight, MeasuredRight, Listens
  <2> QED  BY <2>3, <2>4, <2>5 DEF PageInv
<1>2. PageInv /\ [PageNext]_scrollVars => PageInv'
  BY <1>1, ScrollStep, ResizePageStep, RelayoutStep DEF PageNext
<1> QED  BY <1>2, PageInvInit, PTL DEF PageSpec

(* The values the variables of the page take.                              *)
THEOREM PageTyped == PageSpec => []PageTypeOK
<1>1. PageInv => PageTypeOK
  BY DEF PageInv
<1> QED  BY <1>1, PageInvHolds, PTL

(* Marks and blurred entries are those of the reader's place, however the  *)
(* page is scrolled, resized and laid out anew: Nav.Blur may go on from    *)
(* its index, for any headings and any offsets.                            *)
THEOREM MarksFollow == PageSpec => []MarksFollowScroll
<1>1. PageInv => MarksFollowScroll
  <2> SUFFICES ASSUME PageInv PROVE MarksFollowScroll
    OBVIOUS
  <2>1. \A m \in (Wired \cap Marks) \ unseen :
          marked[m] <=> Listens(m, layout) /\ top >= layout.at[m]
    BY DEF PageInv, MarkInv, MarkedRight
  <2>2. Listens("blur", layout) /\ "up" \in ways =>
          \A n \in blur.blurred : Top(layout, n + 1) <= top
    BY DEF PageInv, BlurInv, NoneAhead
  <2>3. Listens("blur", layout) /\ "down" \in ways =>
          \A n \in Entries(layout) :
            n + 1 \in Entries(layout) /\ Top(layout, n + 1) <= top => n \in blur.blurred
    BY DEF PageInv, BlurInv, NoneMissing
  <2> QED  BY <2>1, <2>2, <2>3 DEF MarksFollowScroll
<1> QED  BY <1>1, PageInvHolds, PTL

-----------------------------------------------------------------------------
(* Search.Result                                                           *)

(* The first results and those that are left make up the whole.            *)
LEMMA FirstAndFrom ==
    ASSUME NEW S, NEW s \in Seq(S), NEW n \in Nat
    PROVE  /\ First(s, n) \in Seq(S) /\ From(s, n) \in Seq(S)
           /\ First(s, n) \o From(s, n) = s
<1>1. Len(s) \in Nat /\ \A i \in 1 .. Len(s) : s[i] \in S
  BY LenProperties, ElementOfSeq
<1>2. \A l, m \in Int : (l >= 1 /\ m <= Len(s)) => SubSeq(s, l, m) \in Seq(S)
  <2> TAKE l, m \in Int
  <2> HAVE l >= 1 /\ m <= Len(s)
  <2>1. \A i \in l .. m : s[i] \in S
    BY <1>1
  <2> QED  BY <2>1, SubSeqProperties
<1>3. CASE n <= Len(s)
  <2>1. First(s, n) = SubSeq(s, 1, n) /\ From(s, n) = SubSeq(s, n + 1, Len(s))
    BY <1>3 DEF First, From
  <2>2. SubSeq(s, 1, n) \o SubSeq(s, n + 1, Len(s)) = SubSeq(s, 1, Len(s))
    <3>1. 1 \in 1 .. Len(s) + 1 /\ n \in 1 - 1 .. Len(s) /\ Len(s) \in n .. Len(s)
      BY <1>1, <1>3
    <3> QED  BY <3>1, ConcatAdjacentSubSeq
  <2>3. SubSeq(s, 1, Len(s)) = s
    BY SubSeqFull
  <2>4. SubSeq(s, 1, n) \in Seq(S)
    BY <1>2, <1>3
  <2>5. SubSeq(s, n + 1, Len(s)) \in Seq(S)
    BY <1>1, <1>2
  <2> QED  BY <2>1, <2>2, <2>3, <2>4, <2>5
<1>4. CASE n > Len(s)
  <2>1. First(s, n) = s /\ From(s, n) = <<>>
    <3>1. First(s, n) = SubSeq(s, 1, Len(s)) /\ From(s, n) = SubSeq(s, n + 1, Len(s))
      BY <1>1, <1>4 DEF First, From
    <3>2. SubSeq(s, n + 1, Len(s)) = <<>>
      BY <1>1, <1>4, SubSeqEmpty
    <3> QED  BY <3>1, <3>2, SubSeqFull
  <2> QED  BY <2>1, ConcatEmptySeq, EmptySeq
<1> QED  BY <1>1, <1>3, <1>4

LEMMA FrontIsPrefix ==
    ASSUME NEW S, NEW s \in Seq(S), NEW t \in Seq(S)
    PROVE  IsPrefix(s, s \o t)
<1>1. Len(s) \in Nat /\ Len(t) \in Nat /\ Len(s \o t) = Len(s) + Len(t)
  BY LenProperties, ConcatProperties
<1>2. SubSeq(s \o t, 1, Len(s)) = SubSeq(s, 1, Len(s))
  <2>1. CASE Len(s) = 0
    BY <2>1, SubSeqEmpty
  <2>2. CASE Len(s) > 0
    <3>1. 1 \in 1 .. Len(s) /\ Len(s) \in 1 .. Len(s)
      BY <1>1, <2>2
    <3> QED  BY <3>1, SubSeqOfConcat1
  <2> QED  BY <1>1, <2>1, <2>2
<1> QED  BY <1>1, <1>2 DEF IsPrefix

LEMMA ResultsAreResults == \A t \in Inputs : Results(t) \in Seq(Inputs \X Nat)
<1> SUFFICES ASSUME NEW t \in Inputs PROVE Results(t) \in Seq(Inputs \X Nat)
  OBVIOUS
<1>1. Hits[t] \in Nat
  BY ResultAssumption
<1>2. \A i \in 1 .. Hits[t] : <<t, i>> \in Inputs \X Nat
  BY <1>1
<1> QED  BY <1>1, <1>2, IsASeq DEF Results

(* Without an index no text is remembered, so an index that comes for the  *)
(* first time finds no list.                                               *)
ResultInv ==
    /\ ResultTypeOK
    /\ waiting + fetching <= loads
    /\ ~loaded => shown = NoText
    /\ ListIsOfItsText

LEMMA ResultTypes ==
    ASSUME ResultTypeOK
    PROVE  /\ field \in Inputs /\ shown \in Inputs \cup {NoText}
           /\ loaded \in BOOLEAN /\ reloaded \in BOOLEAN
           /\ waiting \in Nat /\ fetching \in Nat /\ loads \in Nat /\ loads <= MaxLoads
           /\ list \in Seq(Inputs \X Nat) /\ stack \in Seq(Inputs \X Nat)
           /\ MaxLoads \in Nat /\ Screen \in Nat /\ Chunk \in Nat
  BY ResultAssumption DEF ResultTypeOK

LEMMA ResultInvInit == ResultInit => ResultInv
<1> SUFFICES ASSUME ResultInit PROVE ResultInv
  OBVIOUS
<1>1. /\ field = Empty /\ shown = NoText /\ loaded = FALSE /\ reloaded = FALSE
      /\ waiting = 0 /\ fetching = 0 /\ loads = 0 /\ list = <<>> /\ stack = <<>>
  BY DEF ResultInit
<1>2. <<>> \in Seq(Inputs \X Nat) /\ 0 \in 0 .. MaxLoads /\ Empty \in Inputs
  BY ResultAssumption, EmptySeq
<1>3. ResultTypeOK
  BY <1>1, <1>2 DEF ResultTypeOK
<1>4. ListIsOfItsText
  BY <1>1 DEF ListIsOfItsText
<1> QED  BY <1>1, <1>3, <1>4 DEF ResultInv

(* update: whatever was there, the list starts anew with its text.         *)
LEMMA ShowStep ==
    ASSUME ResultInv, NEW t \in Inputs, Show(t), UNCHANGED loadVars, field' \in Inputs
    PROVE  ResultInv'
<1>1. UNCHANGED <<loaded, waiting, fetching, loads>>
  BY DEF loadVars
<1>2. CASE ~loaded \/ t = shown
  <2>1. UNCHANGED <<shown, list, stack, reloaded>>
    BY <1>2 DEF Show, listVars
  <2> QED  BY <1>1, <2>1 DEF ResultInv, ResultTypeOK, ListIsOfItsText
<1>3. CASE loaded /\ t # shown
  <2>1. /\ shown' = t /\ reloaded' = FALSE
        /\ t = Empty => list' = <<>> /\ stack' = stack
        /\ t # Empty => /\ list' = First(Results(t), Screen)
                        /\ stack' = From(Results(t), Screen)
    BY <1>3 DEF Show
  <2>2. <<>> \in Seq(Inputs \X Nat) /\ stack \in Seq(Inputs \X Nat) /\ Screen \in Nat
    BY EmptySeq, ResultTypes DEF ResultInv
  <2>3. Results(t) \in Seq(Inputs \X Nat)
    BY ResultsAreResults
  <2>4. /\ First(Results(t), Screen) \in Seq(Inputs \X Nat)
        /\ From(Results(t), Screen) \in Seq(Inputs \X Nat)
        /\ First(Results(t), Screen) \o From(Results(t), Screen) = Results(t)
    BY <2>2, <2>3, FirstAndFrom
  <2>5. list' \in Seq(Inputs \X Nat) /\ stack' \in Seq(Inputs \X Nat)
    BY <2>1, <2>2, <2>4
  <2>6. ResultTypeOK'
    BY <1>1, <2>1, <2>5 DEF ResultInv, ResultTypeOK
  <2>7. ListIsOfItsText'
    BY <2>1, <2>4 DEF ListIsOfItsText, Results
  <2> QED  BY <1>1, <1>3, <2>6, <2>7 DEF ResultInv
<1> QED  BY <1>2, <1>3

LEMMA EventStep ==
    ASSUME ResultInv, FocusEvent \/ Fetch \/ \E t \in Inputs : Type(t) \/ ChangeField(t)
    PROVE  ResultInv'
<1>1. CASE FocusEvent
  <2>1. CASE loaded
    <3>1. Show(field) /\ UNCHANGED loadVars /\ field' = field
      BY <1>1, <2>1 DEF FocusEvent
    <3>2. field \in Inputs
      BY ResultTypes DEF ResultInv
    <3> QED  BY <3>1, <3>2, ShowStep
  <2>2. CASE ~loaded
    <3>1. /\ loads < MaxLoads /\ loads' = loads + 1 /\ waiting' = waiting + 1
          /\ UNCHANGED <<shown, list, stack, reloaded, loaded, fetching, field>>
      BY <1>1, <2>2 DEF FocusEvent, listVars
    <3>2. /\ loads' \in 0 .. MaxLoads /\ waiting' \in 0 .. MaxLoads
          /\ waiting' + fetching' <= loads'
      BY <3>1, ResultTypes, SMTT(20) DEF ResultInv
    <3>3. ResultTypeOK'
      BY <3>1, <3>2 DEF ResultInv, ResultTypeOK
    <3>4. ListIsOfItsText'
      BY <3>1 DEF ResultInv, ListIsOfItsText, Results
    <3> QED  BY <3>1, <3>2, <3>3, <3>4 DEF ResultInv
  <2> QED  BY <2>1, <2>2
<1>2. CASE Fetch
  <2>1. /\ waiting > 0 /\ waiting' = waiting - 1 /\ fetching' = fetching + 1
        /\ UNCHANGED <<shown, list, stack, reloaded, loaded, loads, field>>
    BY <1>2 DEF Fetch, listVars
  <2>2. /\ waiting' \in 0 .. MaxLoads /\ fetching' \in 0 .. MaxLoads
        /\ waiting' + fetching' <= loads'
    BY <2>1, ResultTypes, SMTT(20) DEF ResultInv
  <2>3. ResultTypeOK'
    BY <2>1, <2>2 DEF ResultInv, ResultTypeOK
  <2>4. ListIsOfItsText'
    BY <2>1 DEF ResultInv, ListIsOfItsText, Results
  <2> QED  BY <2>1, <2>2, <2>3, <2>4 DEF ResultInv
<1>3. ASSUME NEW t \in Inputs, Type(t) PROVE ResultInv'
  BY <1>3, ShowStep DEF Type
<1>4. ASSUME NEW t \in Inputs, ChangeField(t) PROVE ResultInv'
  <2>1. UNCHANGED <<shown, list, stack, reloaded, loaded, waiting, fetching, loads>>
    BY <1>4 DEF ChangeField, listVars, loadVars
  <2>2. field' \in Inputs
    BY <1>4 DEF ChangeField
  <2> QED  BY <2>1, <2>2 DEF ResultInv, ResultTypeOK, ListIsOfItsText, Results
<1> QED  BY <1>1, <1>2, <1>3, <1>4

LEMMA LoadStep ==
    ASSUME ResultInv, Load
    PROVE  ResultInv'
<1>1. /\ fetching > 0 /\ fetching' = fetching - 1
      /\ \/ loaded' = TRUE /\ stack' = <<>> /\ reloaded' = loaded
         \/ UNCHANGED <<loaded, stack, reloaded>>
      /\ UNCHANGED <<field, shown, list, waiting, loads>>
  BY DEF Load
<1>2. fetching' \in 0 .. MaxLoads /\ waiting' + fetching' <= loads'
  BY <1>1, ResultTypes, SMTT(20) DEF ResultInv
<1>3. <<>> \in Seq(Inputs \X Nat) /\ loaded \in BOOLEAN
      /\ list \in Seq(Inputs \X Nat) /\ stack \in Seq(Inputs \X Nat)
  BY EmptySeq, ResultTypes DEF ResultInv
<1>4. ResultTypeOK'
  BY <1>1, <1>2, <1>3 DEF ResultInv, ResultTypeOK
<1>5. ListIsOfItsText'
  <2>1. CASE UNCHANGED <<loaded, stack, reloaded>>
    BY <1>1, <2>1 DEF ResultInv, ListIsOfItsText, Results
  <2>2. CASE loaded' = TRUE /\ stack' = <<>> /\ reloaded' = loaded
    <3> SUFFICES ASSUME shown \notin {NoText, Empty}
                 PROVE  loaded /\ IsPrefix(list, Results(shown))
      BY <1>1, <1>3, <2>2 DEF ListIsOfItsText, Results
    <3>1. loaded
      BY <1>3, <2>2 DEF ResultInv
    <3>2. CASE reloaded
      <4>1. IsPrefix(list, Results(shown))
        BY <3>2 DEF ResultInv, ListIsOfItsText
      <4> QED  BY <3>1, <4>1
    <3>3. CASE ~reloaded
      <4>1. list \o stack = Results(shown)
        BY <3>3 DEF ResultInv, ListIsOfItsText
      <4>2. IsPrefix(list, list \o stack)
        BY <1>3, FrontIsPrefix
      <4> QED  BY <3>1, <4>1, <4>2
    <3> QED  BY <3>1, <3>2, <3>3
  <2> QED  BY <1>1, <2>1, <2>2
<1> QED  BY <1>1, <1>2, <1>4, <1>5 DEF ResultInv

LEMMA PanelScrollStep ==
    ASSUME ResultInv, ScrollResults
    PROVE  ResultInv'
<1>1. /\ list' = list \o First(stack, Chunk) /\ stack' = From(stack, Chunk)
      /\ UNCHANGED <<field, shown, reloaded, loaded, waiting, fetching, loads>>
  BY DEF ScrollResults, loadVars
<1>2. list \in Seq(Inputs \X Nat) /\ stack \in Seq(Inputs \X Nat) /\ Chunk \in Nat
  BY ResultTypes DEF ResultInv
<1>3. /\ First(stack, Chunk) \in Seq(Inputs \X Nat) /\ From(stack, Chunk) \in Seq(Inputs \X Nat)
      /\ First(stack, Chunk) \o From(stack, Chunk) = stack
  BY <1>2, FirstAndFrom
<1>4. list' \in Seq(Inputs \X Nat) /\ stack' \in Seq(Inputs \X Nat)
  BY <1>1, <1>2, <1>3, ConcatProperties
<1>5. ResultTypeOK'
  BY <1>1, <1>4 DEF ResultInv, ResultTypeOK
<1>6. list' \o stack' = list \o stack
  <2> DEFINE a == First(stack, Chunk)
             b == From(stack, Chunk)
  <2>1. a \in Seq(Inputs \X Nat) /\ b \in Seq(Inputs \X Nat) /\ a \o b = stack
    BY <1>3
  <2>2. list' = list \o a /\ stack' = b
    BY <1>1
  <2> HIDE DEF a, b
  <2>3. (list \o a) \o b = list \o (a \o b)
    <3> DEFINE S == Inputs \X Nat
    <3>1. list \in Seq(S) /\ a \in Seq(S) /\ b \in Seq(S)
      BY <1>2, <2>1
    <3> HIDE DEF S
    <3> QED  BY <3>1, ConcatAssociative
  <2> QED  BY <2>1, <2>2, <2>3
<1>7. stack = <<>> => list' = list /\ stack' = <<>>
  <2> SUFFICES ASSUME stack = <<>> PROVE list' = list /\ stack' = <<>>
    OBVIOUS
  <2>1. First(stack, Chunk) = <<>> /\ From(stack, Chunk) = <<>>
    BY <1>3, ConcatEqualIffEmpty
  <2> QED  BY <1>1, <1>2, <2>1, ConcatEmptySeq
<1>8. ListIsOfItsText'
  BY <1>1, <1>6, <1>7 DEF ResultInv, ListIsOfItsText, Results
<1> QED  BY <1>1, <1>5, <1>8 DEF ResultInv

LEMMA ResultInvHolds == ResultSpec => []ResultInv
<1>1. ResultInv /\ UNCHANGED resultVars => ResultInv'
  BY DEF resultVars, ResultInv, ResultTypeOK, ListIsOfItsText, Results
<1>2. ResultInv /\ [ResultNext]_resultVars => ResultInv'
  BY <1>1, EventStep, LoadStep, PanelScrollStep DEF ResultNext
<1> QED  BY <1>2, ResultInvInit, PTL DEF ResultSpec

(* The values the variables of Search.Result take: no more timers and      *)
(* fetches than loads that were begun.                                     *)
THEOREM ResultTyped == ResultSpec => []ResultTypeOK
<1>1. ResultInv => ResultTypeOK
  BY DEF ResultInv
<1> QED  BY <1>1, ResultInvHolds, PTL

(* Search.Result: list and stack together are the results of the text the  *)
(* list is for, for any texts, panel size and order of events.             *)
THEOREM ListFollowsText == ResultSpec => []ListIsOfItsText
<1>1. ResultInv => ListIsOfItsText
  BY DEF ResultInv
<1> QED  BY <1>1, ResultInvHolds, PTL

-----------------------------------------------------------------------------
(* Source.Adapter and Source.Repository                                    *)

ViewType == [step : {"new", "asked", "served", "found", "done", "stalled"}, page : Nat,
             since : Nat, repos : Seq(Repos), count : Nat, given : Nat, facts : Seq(Nat)]

(* How many repositories lie before a page; page 0 is page 1.              *)
Skipped(n) == (IF n = 0 THEN 0 ELSE n - 1) * PerPage

(* The pages before this one do not have the name.                         *)
Behind(n) == \A i \in 1 .. Len(listed) : i <= Skipped(n) => listed[i] # Name

(* Facts that were true at tick t.                                         *)
TrueAt(f, t) == t + 1 \in DOMAIN starsAt /\ f[1] \in starsAt[t + 1]

(* The past holds the stars of now, and no view is opened after now.       *)
StarsNow ==
    /\ starsAt \in Seq(SUBSET Nat) /\ stars \in Nat
    /\ clock \in Nat /\ stars <= clock /\ stars \in starsAt[clock + 1]
    /\ \A v \in Views : view[v].since <= clock

(* A name that has not gone lies ahead of a view that is still asking, and *)
(* on the page it was served or behind that one.                           *)
Ahead(w) ==
    /\ w.step \in {"new", "asked"} => Behind(w.page)
    /\ w.step = "served" =>
         Name \in ToSet(w.repos) \/ (Len(w.repos) = PerPage /\ Behind(w.page + 1))
NameAhead == ~delisted => Name \in ToSet(listed) /\ \A v \in Views : Ahead(view[v])

(* An answer on its way was true when it was given.                        *)
AnswerIsTrue(w) ==
    /\ w.step \in {"served", "found"} => w.since <= w.given
    /\ w.step = "served" => TrueAt(<<w.count>>, w.given)
    /\ w.step = "found" => /\ w.facts # <<>> => TrueAt(w.facts, w.given)
                           /\ w.facts = <<>> => delisted
(* A cookie holds an answer that some window kept, for Life from then.     *)
CookieIsTrue ==
    cookie # NoCookie =>
      /\ cookie.facts # <<>> =>
           \E k \in kept : /\ k.facts = cookie.facts /\ TrueAt(k.facts, k.given)
                           /\ cookie.expires = k.set + Life
      /\ cookie.facts = <<>> => delisted
(* So does a page: its own answer, or one from a cookie alive at the time. *)
ShownIsTrue(w) ==
    w.step = "done" =>
      /\ w.facts # <<>> =>
           \E k \in kept : /\ k.facts = w.facts /\ TrueAt(k.facts, k.given)
                           /\ k.given >= w.since \/ w.since < k.set + Life
      /\ w.facts = <<>> => delisted
ViewsAreTrue == \A v \in Views : AnswerIsTrue(view[v]) /\ ShownIsTrue(view[v])
FactsInv ==
    FactsTypeOK /\ StarsNow /\ NameAhead /\ CookieIsTrue /\ ViewsAreTrue

LEMMA FactsTypes ==
    ASSUME FactsInv
    PROVE  /\ clock \in Nat /\ clock \in 0 .. LastTick /\ stars \in Nat
           /\ listed \in Seq(Repos) /\ Len(listed) \in Nat
           /\ starsAt \in Seq(SUBSET Nat) /\ DOMAIN starsAt = 1 .. clock + 1
           /\ Len(starsAt) = clock + 1 /\ clock + 1 \in DOMAIN starsAt
           /\ view \in [Views -> ViewType]
           /\ PerPage \in Nat \ {0} /\ Life \in Nat /\ LastTick \in Nat
<1>1. /\ clock \in Nat /\ clock \in 0 .. LastTick /\ stars \in Nat
      /\ listed \in Seq(Repos) /\ starsAt \in Seq(SUBSET Nat) /\ Len(starsAt) = clock + 1
      /\ view \in [Views -> ViewType]
  BY DEF FactsInv, FactsTypeOK, StarsNow, ViewType
<1>2. DOMAIN starsAt = 1 .. Len(starsAt) /\ Len(listed) \in Nat
  BY <1>1, LenProperties
<1>3. PerPage \in Nat \ {0} /\ Life \in Nat /\ LastTick \in Nat
  BY FactsAssumption
<1>4. DOMAIN starsAt = 1 .. clock + 1
  BY <1>1, <1>2
<1>5. clock + 1 \in DOMAIN starsAt
  BY <1>1, <1>4
<1> QED  BY <1>1, <1>2, <1>3, <1>4, <1>5

(* At first every repository is listed: an enumeration as long as the set  *)
(* leaves none out.                                                        *)
LEMMA AllAreListed ==
    ASSUME NEW s \in SetToSeqs(Repos)
    PROVE  s \in Seq(Repos) /\ Name \in ToSet(s)
<1> DEFINE n == Cardinality(Repos)
<1>1. IsFiniteSet(Repos) /\ Name \in Repos
  BY FactsAssumption
<1>2. n \in Nat
  BY <1>1, FS_CardinalityType
<1>3. s \in [1 .. n -> Repos] /\ \A i, j \in 1 .. n : i # j => s[i] # s[j]
  BY DEF SetToSeqs
<1>4. s \in Seq(Repos) /\ DOMAIN s = 1 .. n
  BY <1>2, <1>3, SeqDef
<1>5. s \in Injection(1 .. n, Repos)
  BY <1>3 DEF Injection, IsInjective
<1>6. IsFiniteSet(1 .. n) /\ Cardinality(1 .. n) = n
  BY <1>2, FS_Interval
<1>7. s \in Surjection(1 .. n, Repos)
  <2> HIDE DEF n
  <2>1. Cardinality(1 .. n) = Cardinality(Repos)
    BY <1>6 DEF n
  <2> QED  BY <1>1, <1>5, <2>1, FS_Injection
<1>8. PICK i \in 1 .. n : s[i] = Name
  BY <1>1, <1>7 DEF Surjection
<1> QED  BY <1>4, <1>8 DEF ToSet

LEMMA FactsInvInit == FactsInit => FactsInv
<1> SUFFICES ASSUME FactsInit PROVE FactsInv
  OBVIOUS
<1>1. /\ clock = 0 /\ stars = 0 /\ cookie = NoCookie /\ starsAt = <<{0}>> /\ delisted = FALSE
      /\ listed \in SetToSeqs(Repos)
      /\ view = [v \in Views |-> [step |-> "new", page |-> 0, since |-> 0, repos |-> <<>>,
                                count |-> 0, given |-> 0, facts |-> <<>>]]
      /\ kept = {}
  BY DEF FactsInit
<1>2. listed \in Seq(Repos) /\ Name \in ToSet(listed)
  BY <1>1, AllAreListed
<1>3. <<>> \in Seq(Nat) /\ <<>> \in Seq(Repos) /\ LastTick \in Nat /\ PerPage \in Nat
  BY EmptySeq, FactsAssumption
<1>4. /\ <<{0}>> \in Seq(SUBSET Nat) /\ Len(<<{0}>>) = 1 /\ <<{0}>>[1] = {0}
  OBVIOUS
<1>5. /\ view \in [Views -> ViewType]
      /\ \A v \in Views : view[v].step = "new" /\ view[v].page = 0 /\ view[v].since = 0
  BY <1>1, <1>3 DEF ViewType
<1>6. FactsTypeOK
  <2>1. clock \in 0 .. LastTick /\ stars \in 0 .. LastTick /\ Len(starsAt) = clock + 1
    BY <1>1, <1>3, <1>4
  <2> QED  BY <1>1, <1>2, <1>5, <2>1 DEF FactsTypeOK, ViewType
<1>7. StarsNow
  <2>1. 0 \in starsAt[0 + 1]
    BY <1>1, <1>4
  <2> QED  BY <1>1, <1>4, <1>5, <2>1 DEF StarsNow
<1>8. NameAhead
  <2>1. Skipped(0) = 0
    BY <1>3 DEF Skipped
  <2>2. \A i \in 1 .. Len(listed) : ~(i <= 0)
    BY <1>2, LenProperties
  <2>3. Behind(0)
    BY <2>1, <2>2 DEF Behind
  <2> QED  BY <1>2, <1>5, <2>3 DEF NameAhead, Ahead
<1>9. CookieIsTrue /\ ViewsAreTrue
  BY <1>1, <1>5 DEF CookieIsTrue, ViewsAreTrue, AnswerIsTrue, ShownIsTrue
<1> QED  BY <1>6, <1>7, <1>8, <1>9 DEF FactsInv

(* What was true at a tick stays so: the past only grows.                  *)
LEMMA PastStays ==
    ASSUME FactsInv, \A t \in DOMAIN starsAt : t \in DOMAIN starsAt' /\ starsAt[t] \subseteq starsAt'[t],
           delisted => delisted', UNCHANGED <<cookie, view, kept>>
    PROVE  CookieIsTrue' /\ ViewsAreTrue'
<1>1. \A f, t : TrueAt(f, t) => TrueAt(f, t)'
  BY DEF TrueAt
<1>2. CookieIsTrue'
  BY <1>1 DEF FactsInv, CookieIsTrue
<1>3. ASSUME NEW v \in Views PROVE AnswerIsTrue(view[v])' /\ ShownIsTrue(view[v])'
  <2>1. AnswerIsTrue(view[v]) /\ ShownIsTrue(view[v])
    BY DEF FactsInv, ViewsAreTrue
  <2>2. AnswerIsTrue(view[v])'
    BY <1>1, <2>1 DEF AnswerIsTrue
  <2>3. ShownIsTrue(view[v])'
    BY <1>1, <2>1 DEF ShownIsTrue
  <2> QED  BY <2>2, <2>3
<1> QED  BY <1>2, <1>3 DEF ViewsAreTrue

LEMMA GainStep ==
    ASSUME FactsInv, GainStar
    PROVE  FactsInv'
<1>1. /\ clock < LastTick /\ stars < clock /\ stars' = stars + 1
      /\ starsAt' = [starsAt EXCEPT ![clock + 1] = starsAt[clock + 1] \cup {stars + 1}]
      /\ UNCHANGED <<clock, listed, cookie, view, delisted, kept>>
  BY DEF GainStar
<1>2. /\ starsAt[clock + 1] \cup {stars + 1} \in SUBSET Nat
      /\ stars' \in 0 .. LastTick /\ stars' \in Nat /\ stars' <= clock
  BY <1>1, FactsTypes, ElementOfSeq
<1>3. /\ starsAt' \in Seq(SUBSET Nat) /\ Len(starsAt') = clock + 1
      /\ stars' \in starsAt'[clock + 1]
      /\ \A t \in DOMAIN starsAt : t \in DOMAIN starsAt' /\ starsAt[t] \subseteq starsAt'[t]
  <2>1. starsAt' \in Seq(SUBSET Nat) /\ Len(starsAt') = clock + 1
    BY <1>1, <1>2, FactsTypes, ExceptSeq
  <2>2. stars' \in starsAt'[clock + 1]
    BY <1>1, FactsTypes
  <2>3. \A t \in DOMAIN starsAt : t \in DOMAIN starsAt' /\ starsAt[t] \subseteq starsAt'[t]
    BY <1>1
  <2> QED  BY <2>1, <2>2, <2>3
<1>4. FactsTypeOK' /\ StarsNow'
  BY <1>1, <1>2, <1>3 DEF FactsInv, FactsTypeOK, StarsNow
<1>5. NameAhead'
  BY <1>1 DEF FactsInv, NameAhead, Ahead, Behind
<1> QED  BY <1>1, <1>3, <1>4, <1>5, PastStays DEF FactsInv

LEMMA TickStep ==
    ASSUME FactsInv, Tick
    PROVE  FactsInv'
<1>1. /\ clock < LastTick /\ clock' = clock + 1 /\ starsAt' = Append(starsAt, {stars})
      /\ UNCHANGED <<listed, stars, cookie, view, delisted, kept>>
  BY DEF Tick
<1>2. /\ starsAt' \in Seq(SUBSET Nat) /\ Len(starsAt') = clock + 2
      /\ starsAt'[clock + 2] = {stars}
      /\ \A t \in DOMAIN starsAt : t \in DOMAIN starsAt' /\ starsAt[t] \subseteq starsAt'[t]
  <2>1. {stars} \in SUBSET Nat
    BY FactsTypes
  <2>2. /\ starsAt' \in Seq(SUBSET Nat) /\ Len(starsAt') = Len(starsAt) + 1
        /\ \A i \in 1 .. Len(starsAt) : starsAt'[i] = starsAt[i]
        /\ starsAt'[Len(starsAt) + 1] = {stars}
    BY <1>1, <2>1, FactsTypes, AppendProperties
  <2>3. DOMAIN starsAt' = 1 .. Len(starsAt) + 1 /\ Len(starsAt) = clock + 1 /\ clock \in Nat
    BY <2>2, FactsTypes, LenProperties
  <2>4. \A t \in DOMAIN starsAt : t \in DOMAIN starsAt' /\ starsAt[t] \subseteq starsAt'[t]
    BY <2>2, <2>3, FactsTypes
  <2> QED  BY <2>2, <2>3, <2>4
<1>3. clock' \in 0 .. LastTick /\ clock' \in Nat /\ clock' + 1 = clock + 2 /\ stars <= clock'
  BY <1>1, FactsTypes DEF FactsInv, StarsNow
<1>4. FactsTypeOK'
  BY <1>1, <1>2, <1>3 DEF FactsInv, FactsTypeOK
<1>5. StarsNow'
  <2>1. \A v \in Views : view[v].since <= clock'
    <3> TAKE v \in Views
    <3>1. view[v].since <= clock /\ view[v].since \in Nat /\ clock \in Nat
      BY FactsTypes DEF FactsInv, StarsNow, ViewType
    <3> QED  BY <1>1, <3>1
  <2> QED  BY <1>1, <1>2, <1>3, <2>1, FactsTypes DEF StarsNow
<1>6. NameAhead'
  BY <1>1 DEF FactsInv, NameAhead, Ahead, Behind
<1> QED  BY <1>1, <1>2, <1>4, <1>5, <1>6, PastStays DEF FactsInv

LEMMA DelistStep ==
    ASSUME FactsInv, NEW i \in DOMAIN listed, Delist(i)
    PROVE  FactsInv'
<1>1. /\ listed' = SubSeq(listed, 1, i - 1) \o SubSeq(listed, i + 1, Len(listed))
      /\ delisted' = TRUE /\ UNCHANGED <<clock, stars, cookie, view, starsAt, kept>>
  BY DEF Delist, RemoveAt
<1>2. listed \in Seq(Repos) /\ Len(listed) \in Nat /\ i \in 1 .. Len(listed)
  BY FactsTypes, LenProperties
<1>3. \A j \in 1 .. Len(listed) : listed[j] \in Repos
  BY <1>2, ElementOfSeq
<1>4. SubSeq(listed, 1, i - 1) \in Seq(Repos)
  <2>1. \A j \in 1 .. i - 1 : listed[j] \in Repos
    BY <1>2, <1>3
  <2> QED  BY <1>2, <2>1, SubSeqProperties
<1>5. SubSeq(listed, i + 1, Len(listed)) \in Seq(Repos)
  <2>1. \A j \in i + 1 .. Len(listed) : listed[j] \in Repos
    BY <1>2, <1>3
  <2> QED  BY <1>2, <2>1, SubSeqProperties
<1>6. listed' \in Seq(Repos)
  BY <1>1, <1>4, <1>5, ConcatProperties
<1>7. FactsTypeOK' /\ StarsNow'
  BY <1>1, <1>6 DEF FactsInv, FactsTypeOK, StarsNow
<1>8. NameAhead'
  BY <1>1 DEF NameAhead
<1> QED  BY <1>1, <1>7, <1>8, PastStays DEF FactsInv

(* What one page holds.                                                    *)
LEMMA PageHolds ==
    ASSUME listed \in Seq(Repos), NEW n \in Nat
    PROVE  LET q == Skipped(n)
               r == Page(n)
           IN  /\ q \in Nat /\ r \in Seq(Repos)
               /\ Name \notin ToSet(r) =>
                    \A i \in 1 .. Len(listed) : q < i /\ i <= q + PerPage => listed[i] # Name
               /\ Len(r) # PerPage => Len(listed) < q + PerPage
<1> DEFINE k == IF n = 0 THEN 0 ELSE n - 1
           q == k * PerPage
           z == Len(listed)
           e == IF q + PerPage <= z THEN q + PerPage ELSE z
           r == SubSeq(listed, q + 1, e)
<1>1. k \in Nat /\ PerPage \in Nat \ {0} /\ z \in Nat
  BY FactsAssumption, LenProperties
<1>2. q \in Nat /\ (k + 1) * PerPage = q + PerPage
  <2> HIDE DEF k
  <2> QED  BY <1>1
<1>3. Skipped(n) = q /\ Page(n) = r
  <2>1. Skipped(n) = q
    BY DEF Skipped
  <2>2. Page(n) = SubSeq(listed, k * PerPage + 1,
                         IF (k + 1) * PerPage <= z THEN (k + 1) * PerPage ELSE z)
    BY DEF Page
  <2> HIDE DEF k
  <2> QED  BY <1>2, <2>1, <2>2
<1> HIDE DEF k, q
<1>4. e \in Nat /\ e <= z /\ e <= q + PerPage
  BY <1>1, <1>2
<1>5. \A i \in q + 1 .. e : listed[i] \in Repos
  <2>1. \A i \in 1 .. z : listed[i] \in Repos
    BY ElementOfSeq
  <2> QED  BY <1>1, <1>2, <1>4, <2>1
<1>6. /\ r \in Seq(Repos)
      /\ Len(r) = IF q + 1 <= e THEN e - (q + 1) + 1 ELSE 0
      /\ \A i \in 1 .. e - (q + 1) + 1 : r[i] = listed[q + 1 + i - 1]
  <2> HIDE DEF e
  <2> QED  BY <1>2, <1>4, <1>5, SubSeqProperties
<1>7. ASSUME Name \notin ToSet(r), NEW i \in 1 .. z, q < i, i <= q + PerPage
      PROVE  listed[i] # Name
  <2>1. i \in q + 1 .. e
    BY <1>1, <1>2, <1>7
  <2>2. i - q \in 1 .. Len(r) /\ r[i - q] = listed[i]
    <3> HIDE DEF e
    <3> QED  BY <1>2, <1>4, <1>6, <2>1
  <2>3. DOMAIN r = 1 .. Len(r)
    BY <1>6, LenProperties
  <2>4. r[i - q] \in ToSet(r)
    BY <2>2, <2>3 DEF ToSet
  <2> QED  BY <1>7, <2>2, <2>4
<1>8. Len(r) # PerPage => z < q + PerPage
  <2> SUFFICES ASSUME q + PerPage <= z PROVE Len(r) = PerPage
    BY <1>1, <1>2
  <2>1. e = q + PerPage
    OBVIOUS
  <2>2. q + 1 <= e /\ e - (q + 1) + 1 = PerPage
    BY <1>1, <1>2, <2>1
  <2> QED  BY <1>6, <2>2
<1> HIDE DEF r
<1> QED  BY <1>2, <1>3, <1>6, <1>7, <1>8

(* A step of one view, which may keep an answer and set the cookie.        *)
LEMMA ViewStep ==
    ASSUME FactsInv, NEW v \in Views, NEW w \in ViewType, view' = [view EXCEPT ![v] = w],
           UNCHANGED <<clock, listed, stars, starsAt, delisted>>,
           kept \subseteq kept', kept' \subseteq [facts : Seq(Nat), given : Nat, set : Nat],
           cookie' = NoCookie \/ cookie' \in [facts : Seq(Nat), expires : Nat], CookieIsTrue',
           w.since <= clock, ~delisted => Ahead(w), AnswerIsTrue(w), ShownIsTrue(w)'
    PROVE  FactsInv'
<1>1. view \in [Views -> ViewType]
  BY FactsTypes
<1>2. view' \in [Views -> ViewType] /\ view'[v] = w /\ \A u \in Views \ {v} : view'[u] = view[u]
  BY <1>1
<1>3. FactsTypeOK'
  BY <1>2 DEF FactsInv, FactsTypeOK, ViewType
<1>4. StarsNow'
  BY <1>2 DEF FactsInv, StarsNow
<1>5. NameAhead'
  <2>1. ASSUME ~delisted, NEW u \in Views PROVE Ahead(view'[u])
    BY <1>2, <2>1 DEF FactsInv, NameAhead
  <2>2. \A x : Ahead(x)' <=> Ahead(x)
    BY DEF Ahead, Behind
  <2>3. ASSUME ~delisted, NEW u \in Views PROVE Ahead(view[u])'
    BY <2>1, <2>2, <2>3 DEF Ahead, Behind
  <2> QED  BY <2>3 DEF FactsInv, NameAhead
<1>6. \A f, t : TrueAt(f, t)' <=> TrueAt(f, t)
  BY DEF TrueAt
<1>7. ASSUME NEW u \in Views PROVE AnswerIsTrue(view[u])' /\ ShownIsTrue(view[u])'
  <2>1. CASE u = v
    <3>1. AnswerIsTrue(view[u])'
      BY <1>2, <1>6, <2>1 DEF AnswerIsTrue
    <3>2. ShownIsTrue(view[u])'
      BY <1>2, <2>1 DEF ShownIsTrue
    <3> QED  BY <3>1, <3>2
  <2>2. CASE u # v
    <3>1. AnswerIsTrue(view[u]) /\ ShownIsTrue(view[u]) /\ view'[u] = view[u]
      BY <1>2, <2>2 DEF FactsInv, ViewsAreTrue
    <3>2. AnswerIsTrue(view[u])'
      BY <1>6, <3>1 DEF AnswerIsTrue
    <3>3. ShownIsTrue(view[u])'
      BY <1>6, <3>1 DEF ShownIsTrue
    <3> QED  BY <3>2, <3>3
  <2> QED  BY <2>1, <2>2
<1> QED  BY <1>3, <1>4, <1>5, <1>7 DEF FactsInv, ViewsAreTrue

(* The same for a step that keeps nothing.                                 *)
LEMMA ViewAlone ==
    ASSUME FactsInv, NEW v \in Views, NEW w \in ViewType, view' = [view EXCEPT ![v] = w],
           UNCHANGED <<clock, cookie, kept, listed, stars, starsAt, delisted>>,
           w.since <= clock, ~delisted => Ahead(w), AnswerIsTrue(w), ShownIsTrue(w)
    PROVE  FactsInv'
<1>1. \A f, t : TrueAt(f, t)' <=> TrueAt(f, t)
  BY DEF TrueAt
<1>2. CookieIsTrue'
  BY <1>1 DEF FactsInv, CookieIsTrue
<1>3. ShownIsTrue(w)'
  BY <1>1 DEF ShownIsTrue
<1>4. /\ kept' \subseteq [facts : Seq(Nat), given : Nat, set : Nat]
      /\ cookie' = NoCookie \/ cookie' \in [facts : Seq(Nat), expires : Nat]
  BY DEF FactsInv, FactsTypeOK
<1> QED  BY <1>2, <1>3, <1>4, ViewStep

LEMMA VisitStep ==
    ASSUME FactsInv, NEW v \in Views, Visit(v)
    PROVE  FactsInv'
<1>1. view \in [Views -> ViewType] /\ view[v] \in ViewType /\ clock \in Nat
  BY FactsTypes
<1>2. /\ view[v].step = "new"
      /\ UNCHANGED <<clock, cookie, kept, listed, stars, starsAt, delisted>>
  BY DEF Visit, github
<1>3. CASE HasCookie
  <2>1. view' = [view EXCEPT ![v].since = clock, ![v].step = "done", ![v].facts = cookie.facts]
    BY <1>3 DEF Visit
  <2>2. /\ cookie # NoCookie /\ clock < cookie.expires
        /\ cookie \in [facts : Seq(Nat), expires : Nat]
    BY <1>3 DEF HasCookie, FactsInv, FactsTypeOK
  <2>3. PICK f \in Seq(Nat), x \in Nat : f = cookie.facts /\ x = cookie.expires
    BY <2>2
  <2>4. PICK w : w = [view[v] EXCEPT !.since = clock, !.step = "done", !.facts = f]
    OBVIOUS
  <2>5. view' = [view EXCEPT ![v] = w]
    BY <1>1, <2>1, <2>3, <2>4
  <2>6. w \in ViewType /\ w.step = "done" /\ w.since = clock /\ w.facts = f
    BY <1>1, <2>3, <2>4 DEF ViewType
  <2>7. ShownIsTrue(w)
    BY <2>2, <2>3, <2>6 DEF FactsInv, CookieIsTrue, ShownIsTrue
  <2>8. Ahead(w) /\ AnswerIsTrue(w) /\ w.since <= clock
    BY <1>1, <2>6 DEF Ahead, AnswerIsTrue
  <2> QED  BY <1>2, <2>5, <2>6, <2>7, <2>8, ViewAlone
<1>4. CASE ~HasCookie
  <2>1. view' = [view EXCEPT ![v].since = clock, ![v].step = "asked", ![v].facts = <<>>]
    BY <1>4 DEF Visit
  <2>2. PICK w : w = [view[v] EXCEPT !.since = clock, !.step = "asked", !.facts = <<>>]
    OBVIOUS
  <2>3. view' = [view EXCEPT ![v] = w]
    BY <1>1, <2>1, <2>2
  <2>4. w \in ViewType /\ w.step = "asked" /\ w.since = clock /\ w.page = view[v].page
    <3>1. <<>> \in Seq(Nat)
      BY EmptySeq
    <3> QED  BY <1>1, <2>2, <3>1 DEF ViewType
  <2>5. ~delisted => Ahead(w)
    BY <1>2, <2>4 DEF FactsInv, NameAhead, Ahead
  <2>6. AnswerIsTrue(w) /\ ShownIsTrue(w) /\ w.since <= clock
    BY <1>1, <2>4 DEF AnswerIsTrue, ShownIsTrue
  <2> QED  BY <1>2, <2>3, <2>4, <2>5, <2>6, ViewAlone
<1> QED  BY <1>3, <1>4

LEMMA StallStep ==
    ASSUME FactsInv, NEW v \in Views, Stall(v)
    PROVE  FactsInv'
<1>1. view \in [Views -> ViewType] /\ view[v] \in ViewType
  BY FactsTypes
<1>2. /\ view' = [view EXCEPT ![v].step = "stalled"]
      /\ UNCHANGED <<clock, cookie, kept, listed, stars, starsAt, delisted>>
  BY DEF Stall, github
<1>3. PICK w : w = [view[v] EXCEPT !.step = "stalled"]
  OBVIOUS
<1>4. view' = [view EXCEPT ![v] = w]
  BY <1>1, <1>2, <1>3
<1>5. w \in ViewType /\ w.step = "stalled" /\ w.since = view[v].since
  BY <1>1, <1>3 DEF ViewType
<1>6. Ahead(w) /\ AnswerIsTrue(w) /\ ShownIsTrue(w) /\ w.since <= clock
  BY <1>5 DEF Ahead, AnswerIsTrue, ShownIsTrue, FactsInv, StarsNow
<1> QED  BY <1>2, <1>4, <1>5, <1>6, ViewAlone

(* A page that does not have the name is full, and the name behind it.     *)
LEMMA PageOrBehind ==
    ASSUME FactsInv, ~delisted, NEW n \in Nat, Behind(n), Name \notin ToSet(Page(n))
    PROVE  Len(Page(n)) = PerPage /\ Behind(n + 1)
<1>1. /\ listed \in Seq(Repos) /\ PerPage \in Nat \ {0} /\ Len(listed) \in Nat
      /\ Name \in ToSet(listed)
  BY FactsTypes DEF FactsInv, NameAhead
<1>2. PICK r, q : r = Page(n) /\ q = Skipped(n)
  OBVIOUS
<1>3. /\ q \in Nat
      /\ \A i \in 1 .. Len(listed) : q < i /\ i <= q + PerPage => listed[i] # Name
      /\ Len(r) # PerPage => Len(listed) < q + PerPage
  BY <1>1, <1>2, PageHolds
<1>4. \A i \in 1 .. Len(listed) : i <= q + PerPage => listed[i] # Name
  <2> TAKE i \in 1 .. Len(listed)
  <2> HAVE i <= q + PerPage
  <2>1. CASE i <= q
    BY <1>2, <2>1 DEF Behind
  <2>2. CASE q < i
    BY <1>3, <2>2
  <2> QED  BY <1>1, <1>3, <2>1, <2>2
<1>5. Len(r) = PerPage
  <2> SUFFICES ASSUME Len(r) # PerPage PROVE FALSE
    OBVIOUS
  <2>1. Len(listed) < q + PerPage
    BY <1>3
  <2>2. PICK i \in DOMAIN listed : listed[i] = Name
    BY <1>1 DEF ToSet
  <2>3. i \in 1 .. Len(listed) /\ i <= q + PerPage
    BY <1>1, <1>3, <2>1, LenProperties
  <2> QED  BY <1>4, <2>2, <2>3
<1>6. Behind(n + 1)
  <2> SUFFICES ASSUME NEW i \in 1 .. Len(listed), i <= Skipped(n + 1)
               PROVE  listed[i] # Name
    BY DEF Behind
  <2>1. Skipped(n + 1) <= q + PerPage
    <3>1. Skipped(n + 1) = n * PerPage
      BY DEF Skipped
    <3>2. CASE n = 0
      BY <1>1, <1>3, <3>1, <3>2
    <3>3. CASE n # 0
      <4>1. q = (n - 1) * PerPage
        BY <1>2, <3>3 DEF Skipped
      <4>2. (n - 1) * PerPage + PerPage = n * PerPage
        BY <1>1
      <4> QED  BY <1>1, <3>1, <4>1, <4>2
    <3> QED  BY <3>2, <3>3
  <2>2. Skipped(n + 1) \in Nat
    BY <1>1, PageHolds
  <2>3. i <= q + PerPage
    BY <1>1, <1>3, <2>1, <2>2
  <2> QED  BY <1>4, <2>3
<1> QED  BY <1>2, <1>5, <1>6

LEMMA ServeStep ==
    ASSUME FactsInv, NEW v \in Views, Serve(v)
    PROVE  FactsInv'
<1>1. /\ view \in [Views -> ViewType] /\ view[v] \in ViewType
      /\ clock \in Nat /\ stars \in Nat /\ listed \in Seq(Repos)
  BY FactsTypes
<1>2. PICK n \in Nat : n = view[v].page
  BY <1>1 DEF ViewType
<1>3. PICK r \in Seq(Repos) : r = Page(n)
  BY <1>1, PageHolds
<1>4. /\ view[v].step = "asked"
      /\ view' = [view EXCEPT ![v].step = "served", ![v].repos = r, ![v].count = stars,
                              ![v].given = clock]
      /\ UNCHANGED <<clock, cookie, kept, listed, stars, starsAt, delisted>>
  BY <1>2, <1>3 DEF Serve, github
<1>5. PICK w : w = [view[v] EXCEPT !.step = "served", !.repos = r, !.count = stars, !.given = clock]
  OBVIOUS
<1>6. view' = [view EXCEPT ![v] = w]
  BY <1>1, <1>4, <1>5
<1>7. /\ w \in ViewType /\ w.step = "served" /\ w.repos = r /\ w.count = stars
      /\ w.given = clock /\ w.since = view[v].since /\ w.page = n
  BY <1>1, <1>2, <1>5 DEF ViewType
<1>8. w.since <= clock
  BY <1>7 DEF FactsInv, StarsNow
<1>9. ASSUME ~delisted PROVE Ahead(w)
  <2>1. Behind(n)
    BY <1>2, <1>4, <1>9 DEF FactsInv, NameAhead, Ahead
  <2>2. Name \in ToSet(r) \/ (Len(r) = PerPage /\ Behind(n + 1))
    BY <1>3, <1>9, <2>1, PageOrBehind
  <2> QED  BY <1>7, <2>2 DEF Ahead
<1>10. AnswerIsTrue(w) /\ ShownIsTrue(w)
  <2>1. <<stars>>[1] = stars
    OBVIOUS
  <2>2. TrueAt(<<stars>>, clock)
    BY <2>1, FactsTypes DEF TrueAt, FactsInv, StarsNow
  <2> QED  BY <1>7, <1>8, <2>2 DEF AnswerIsTrue, ShownIsTrue
<1> QED  BY <1>4, <1>6, <1>7, <1>8, <1>9, <1>10, ViewAlone

LEMMA AnswerStep ==
    ASSUME FactsInv, NEW v \in Views, Answer(v)
    PROVE  FactsInv'
<1>1. view \in [Views -> ViewType] /\ view[v] \in ViewType
  BY FactsTypes
<1>2. PICK n \in Nat, r \in Seq(Repos), c \in Nat :
        n = view[v].page /\ r = view[v].repos /\ c = view[v].count
  BY <1>1 DEF ViewType
<1>3. /\ view[v].step = "served"
      /\ IF Name \notin ToSet(r) /\ Len(r) = PerPage
           THEN view' = [view EXCEPT ![v].step = "asked", ![v].page = n + 1]
           ELSE view' = [view EXCEPT ![v].step = "found", ![v].page = 0, ![v].repos = <<>>, ![v].count = 0,
                                     ![v].facts = IF Name \in ToSet(r) THEN <<c>> ELSE <<>>]
      /\ UNCHANGED <<clock, cookie, kept, listed, stars, starsAt, delisted>>
  BY <1>1, <1>2 DEF Answer, github
<1>4. /\ ~delisted => Name \in ToSet(r) \/ (Len(r) = PerPage /\ Behind(n + 1))
      /\ view[v].since <= view[v].given /\ TrueAt(<<c>>, view[v].given)
      /\ view[v].since <= clock
  BY <1>2, <1>3 DEF FactsInv, NameAhead, Ahead, ViewsAreTrue, AnswerIsTrue, StarsNow
<1>5. CASE Name \notin ToSet(r) /\ Len(r) = PerPage
  <2>1. PICK w : w = [view[v] EXCEPT !.step = "asked", !.page = n + 1]
    OBVIOUS
  <2>2. view' = [view EXCEPT ![v] = w]
    BY <1>1, <1>3, <1>5, <2>1
  <2>3. w \in ViewType /\ w.step = "asked" /\ w.page = n + 1 /\ w.since = view[v].since
    <3>1. n + 1 \in Nat
      BY <1>2
    <3> QED  BY <1>1, <2>1, <3>1 DEF ViewType
  <2>4. ~delisted => Ahead(w)
    BY <1>4, <1>5, <2>3 DEF Ahead
  <2>5. AnswerIsTrue(w) /\ ShownIsTrue(w) /\ w.since <= clock
    BY <1>4, <2>3 DEF AnswerIsTrue, ShownIsTrue
  <2> QED  BY <1>3, <2>2, <2>3, <2>4, <2>5, ViewAlone
<1>6. CASE ~(Name \notin ToSet(r) /\ Len(r) = PerPage)
  <2>1. PICK f : f \in Seq(Nat) /\ f = IF Name \in ToSet(r) THEN <<c>> ELSE <<>>
    <3>1. <<c>> \in Seq(Nat) /\ <<>> \in Seq(Nat)
      BY <1>2
    <3> QED  BY <3>1
  <2>2. PICK w : w = [view[v] EXCEPT !.step = "found", !.page = 0, !.repos = <<>>, !.count = 0, !.facts = f]
    OBVIOUS
  <2>3. view' = [view EXCEPT ![v] = w]
    BY <1>1, <1>3, <1>6, <2>1, <2>2
  <2>4. /\ w \in ViewType /\ w.step = "found" /\ w.facts = f
        /\ w.since = view[v].since /\ w.given = view[v].given
    <3>1. <<>> \in Seq(Repos) /\ 0 \in Nat
      BY EmptySeq
    <3> QED  BY <1>1, <2>1, <2>2, <3>1 DEF ViewType
  <2>5. f # <<>> => f = <<c>>
    BY <2>1
  <2>6. f = <<>> => Name \notin ToSet(r)
    BY <2>1
  <2>7. f = <<>> => delisted
    BY <1>4, <1>6, <2>6
  <2>8. AnswerIsTrue(w)
    BY <1>4, <2>4, <2>5, <2>7 DEF AnswerIsTrue
  <2>9. Ahead(w) /\ ShownIsTrue(w) /\ w.since <= clock
    BY <1>4, <2>4 DEF Ahead, ShownIsTrue
  <2> QED  BY <1>3, <2>3, <2>4, <2>8, <2>9, ViewAlone
<1> QED  BY <1>5, <1>6

LEMMA KeepStep ==
    ASSUME FactsInv, NEW v \in Views, Keep(v)
    PROVE  FactsInv'
<1>1. /\ view \in [Views -> ViewType] /\ view[v] \in ViewType /\ clock \in Nat /\ Life \in Nat
      /\ kept \subseteq [facts : Seq(Nat), given : Nat, set : Nat]
  BY FactsTypes DEF FactsInv, FactsTypeOK
<1>2. PICK f \in Seq(Nat), g \in Nat : f = view[v].facts /\ g = view[v].given
  BY <1>1 DEF ViewType
<1>3. PICK k, x : k = [facts |-> f, given |-> g, set |-> clock] /\ x = [facts |-> f, expires |-> clock + Life]
  OBVIOUS
<1>4. /\ view[v].step = "found" /\ cookie' = x /\ kept' = kept \cup {k}
      /\ view' = [view EXCEPT ![v].step = "done"]
      /\ UNCHANGED <<clock, listed, stars, starsAt, delisted>>
  BY <1>2, <1>3 DEF Keep, SetCookie, Initialize, github
<1>5. PICK w : w = [view[v] EXCEPT !.step = "done"]
  OBVIOUS
<1>6. view' = [view EXCEPT ![v] = w]
  BY <1>1, <1>4, <1>5
<1>7. w \in ViewType /\ w.step = "done" /\ w.since = view[v].since /\ w.facts = f
  BY <1>1, <1>2, <1>5 DEF ViewType
<1>8. /\ k \in [facts : Seq(Nat), given : Nat, set : Nat]
      /\ k.facts = f /\ k.given = g /\ k.set = clock
      /\ x \in [facts : Seq(Nat), expires : Nat] /\ x.facts = f /\ x.expires = clock + Life
  BY <1>1, <1>3
<1>9. /\ w.since <= g /\ w.since <= clock
      /\ f # <<>> => TrueAt(f, g)
      /\ f = <<>> => delisted
  BY <1>2, <1>4, <1>7 DEF FactsInv, ViewsAreTrue, AnswerIsTrue, StarsNow
<1>10. \A h, t : TrueAt(h, t)' <=> TrueAt(h, t)
  BY <1>4 DEF TrueAt
<1>11. k \in kept' /\ kept \subseteq kept' /\ kept' \subseteq [facts : Seq(Nat), given : Nat, set : Nat]
  BY <1>1, <1>4, <1>8
<1>12. CookieIsTrue'
  BY <1>4, <1>8, <1>9, <1>10, <1>11 DEF CookieIsTrue
<1>13. ShownIsTrue(w)'
  <2>1. g >= w.since
    BY <1>2, <1>7, <1>9 DEF ViewType
  <2> QED  BY <1>4, <1>7, <1>8, <1>9, <1>10, <1>11, <2>1 DEF ShownIsTrue
<1>14. Ahead(w) /\ AnswerIsTrue(w)
  BY <1>7 DEF Ahead, AnswerIsTrue
<1> QED  BY <1>4, <1>6, <1>7, <1>8, <1>9, <1>11, <1>12, <1>13, <1>14, ViewStep

LEMMA FactsInvHolds == FactsSpec => []FactsInv
<1>1. FactsInv /\ UNCHANGED factsVars => FactsInv'
  <2> SUFFICES ASSUME FactsInv, UNCHANGED factsVars PROVE FactsInv'
    OBVIOUS
  <2>1. UNCHANGED <<clock, listed, stars, cookie, view, starsAt, delisted, kept>>
    BY DEF factsVars
  <2>2. FactsTypeOK' /\ StarsNow' /\ NameAhead'
    BY <2>1 DEF FactsInv, FactsTypeOK, StarsNow, NameAhead, Ahead, Behind
  <2> QED  BY <2>1, <2>2, PastStays DEF FactsInv
<1>2. FactsInv /\ [FactsNext]_factsVars => FactsInv'
  BY <1>1, GainStep, TickStep, DelistStep, VisitStep, ServeStep, AnswerStep, KeepStep, StallStep
     DEF FactsNext
<1> QED  BY <1>2, FactsInvInit, PTL DEF FactsSpec

(* The values the variables of the repository facts take.                  *)
THEOREM FactsTyped == FactsSpec => []FactsTypeOK
<1>1. FactsInv => FactsTypeOK
  BY DEF FactsInv
<1> QED  BY <1>1, FactsInvHolds, PTL

(* A view shows stars the repository had when GitHub gave them, after the  *)
(* view was opened or to a window that received them less than Life before *)
(* that, and no facts only if a repository has gone from the list, however *)
(* late answers come and for any number of repositories, pages, windows    *)
(* and any life of the cookie.                                             *)
THEOREM ShownFactsAreTrue == FactsSpec => []FactsAreTrue
<1>1. FactsInv => FactsAreTrue
  <2> SUFFICES ASSUME FactsInv, NEW v \in Views, view[v].step = "done"
               PROVE  /\ view[v].facts # <<>> =>
                           \E k \in kept :
                             /\ k.facts = view[v].facts /\ k.facts[1] \in starsAt[k.given + 1]
                             /\ k.given >= view[v].since \/ view[v].since < k.set + Life
                      /\ view[v].facts = <<>> => delisted
    BY DEF FactsAreTrue
  <2>1. ShownIsTrue(view[v])
    BY DEF FactsInv, ViewsAreTrue
  <2> QED  BY <2>1 DEF ShownIsTrue, TrueAt
<1> QED  BY <1>1, FactsInvHolds, PTL


-----------------------------------------------------------------------------
(* The search panel                                                        *)

TimerWaits(s, kind) == \E i \in DOMAIN s : s[i].kind = kind
(* A position is given back before a result is gone to.                    *)
UnlockFirst(s) ==
    \A i, j \in DOMAIN s : s[i].kind = "unlock" /\ s[j].kind = "follow" => i < j

(* Search.Lock knows a position as soon as it may hide the page, and hides *)
(* it, now or soon, when the panel is open on a narrow window.             *)
LockHasPlace == lock \/ TimerWaits(timers, "lock") => offset # NoPlace
LockComes == checked /\ ~wide => lock \/ TimerWaits(timers, "lock")
(* Where the reader's place is: with Search.Lock while the panel hides the *)
(* page or a timer is to give it back, with a timer that follows a result, *)
(* or where the page is.                                                   *)
PlaceKept ==
    /\ lock \/ TimerWaits(timers, "lock") => checked /\ ~wide
    /\ checked /\ ~wide => offset = place /\ ~TimerWaits(timers, "follow")
    /\ UnlockFirst(timers) \/ offset = NoPlace
    /\ offset # NoPlace /\ TimerWaits(timers, "unlock") /\ ~TimerWaits(timers, "follow") =>
         offset = place
    /\ ~lock /\ ~Scrolls => scroll = place
PanelInv == PanelTypeOK /\ LockHasPlace /\ LockComes /\ (~disturbed => PlaceKept)

TimerSet == [kind : DOMAIN Delay, to : Places]

(* What waits in two sequences of timers, one after the other.             *)
LEMMA WaitsInBoth ==
    ASSUME NEW S, NEW s \in Seq(S), NEW u \in Seq(S)
    PROVE  /\ s \o u \in Seq(S)
           /\ \A kind : TimerWaits(s \o u, kind) <=> TimerWaits(s, kind) \/ TimerWaits(u, kind)
           /\ UnlockFirst(s) /\ UnlockFirst(u)
                /\ ~(TimerWaits(s, "follow") /\ TimerWaits(u, "unlock")) => UnlockFirst(s \o u)
<1>1. /\ Len(s) \in Nat /\ DOMAIN s = 1 .. Len(s)
      /\ Len(u) \in Nat /\ DOMAIN u = 1 .. Len(u)
  BY LenProperties
<1>2. /\ s \o u \in Seq(S) /\ Len(s \o u) = Len(s) + Len(u)
      /\ \A i \in 1 .. Len(s) + Len(u) : (s \o u)[i] =
           IF i <= Len(s) THEN s[i] ELSE u[i - Len(s)]
  BY ConcatProperties
<1>3. PICK b : b = s \o u
  OBVIOUS
<1>4. /\ DOMAIN b = 1 .. Len(s) + Len(u)
      /\ \A i \in 1 .. Len(s) : b[i] = s[i]
      /\ \A i \in 1 .. Len(u) : b[i + Len(s)] = u[i]
      /\ \A i \in DOMAIN b : (i \in 1 .. Len(s) /\ b[i] = s[i])
                               \/ (i - Len(s) \in 1 .. Len(u) /\ b[i] = u[i - Len(s)]
                                     /\ i > Len(s))
  <2>1. DOMAIN b = 1 .. Len(s) + Len(u)
    BY <1>2, <1>3, LenProperties
  <2>2. \A i \in 1 .. Len(s) + Len(u) : b[i] =
           IF i <= Len(s) THEN s[i] ELSE u[i - Len(s)]
    BY <1>2, <1>3
  <2>3. ASSUME NEW i \in 1 .. Len(u) PROVE b[i + Len(s)] = u[i]
    <3>1. i + Len(s) \in 1 .. Len(s) + Len(u) /\ ~(i + Len(s) <= Len(s))
             /\ (i + Len(s)) - Len(s) = i
      BY <1>1
    <3> QED  BY <2>2, <3>1
  <2> QED  BY <1>1, <2>1, <2>2, <2>3
<1>5. ASSUME NEW kind PROVE TimerWaits(b, kind) <=> TimerWaits(s, kind) \/ TimerWaits(u, kind)
  <2>1. ASSUME TimerWaits(b, kind) PROVE TimerWaits(s, kind) \/ TimerWaits(u, kind)
    <3>1. PICK i \in DOMAIN b : b[i].kind = kind
      BY <2>1 DEF TimerWaits
    <3> QED  BY <1>1, <1>4, <3>1 DEF TimerWaits
  <2>2. ASSUME TimerWaits(s, kind) PROVE TimerWaits(b, kind)
    <3>1. PICK i \in 1 .. Len(s) : s[i].kind = kind
      BY <1>1, <2>2 DEF TimerWaits
    <3>2. i \in DOMAIN b
      BY <1>1, <1>4
    <3> QED  BY <1>4, <3>1, <3>2 DEF TimerWaits
  <2>3. ASSUME TimerWaits(u, kind) PROVE TimerWaits(b, kind)
    <3>1. PICK i \in 1 .. Len(u) : u[i].kind = kind
      BY <1>1, <2>3 DEF TimerWaits
    <3>2. i + Len(s) \in DOMAIN b
      BY <1>1, <1>4
    <3> QED  BY <1>4, <3>1, <3>2 DEF TimerWaits
  <2> QED  BY <2>1, <2>2, <2>3
<1>6. ASSUME UnlockFirst(s), UnlockFirst(u), ~(TimerWaits(s, "follow") /\ TimerWaits(u, "unlock")),
             NEW i \in DOMAIN b, NEW j \in DOMAIN b,
             b[i].kind = "unlock", b[j].kind = "follow"
      PROVE  i < j
  <2>1. CASE i \in 1 .. Len(s) /\ b[i] = s[i] /\ j \in 1 .. Len(s) /\ b[j] = s[j]
    BY <1>1, <1>6, <2>1 DEF UnlockFirst
  <2>2. CASE i \in 1 .. Len(s) /\ j > Len(s)
    BY <1>1, <1>4, <2>2
  <2>3. CASE i - Len(s) \in 1 .. Len(u) /\ b[i] = u[i - Len(s)]
               /\ j \in 1 .. Len(s) /\ b[j] = s[j]
    <3>1. TimerWaits(s, "follow") /\ TimerWaits(u, "unlock")
      BY <1>1, <1>6, <2>3 DEF TimerWaits
    <3> QED  BY <1>6, <3>1
  <2>4. CASE /\ i - Len(s) \in 1 .. Len(u) /\ b[i] = u[i - Len(s)]
             /\ j - Len(s) \in 1 .. Len(u) /\ b[j] = u[j - Len(s)]
    <3>1. i - Len(s) < j - Len(s)
      BY <1>1, <1>6, <2>4 DEF UnlockFirst
    <3> QED  BY <1>1, <1>4, <3>1
  <2> QED  BY <1>4, <2>1, <2>2, <2>3, <2>4
<1> QED  BY <1>2, <1>3, <1>5, <1>6 DEF UnlockFirst

(* What waits in a sequence of one timer, and in none.                     *)
LEMMA WaitsInOne ==
    /\ \A t, kind : TimerWaits(<<t>>, kind) <=> t.kind = kind
    /\ \A t : UnlockFirst(<<t>>)
    /\ \A kind : ~TimerWaits(<<>>, kind)
    /\ UnlockFirst(<<>>)
  BY DEF TimerWaits, UnlockFirst

(* What waits once a timer has fired.                                      *)
LEMMA WaitsAfter ==
    ASSUME NEW S, NEW s \in Seq(S), NEW i \in DOMAIN s
    PROVE  /\ RemoveAt(s, i) \in Seq(S)
           /\ \A kind : TimerWaits(RemoveAt(s, i), kind) => TimerWaits(s, kind)
           /\ \A kind : TimerWaits(s, kind) /\ s[i].kind # kind => TimerWaits(RemoveAt(s, i), kind)
           /\ UnlockFirst(s) => UnlockFirst(RemoveAt(s, i))
<1>1. Len(s) \in Nat /\ DOMAIN s = 1 .. Len(s) /\ i \in 1 .. Len(s)
  BY LenProperties
<1>2. PICK a, c : a = SubSeq(s, 1, i - 1) /\ c = SubSeq(s, i + 1, Len(s))
  OBVIOUS
<1>3. RemoveAt(s, i) = a \o c
  BY <1>2 DEF RemoveAt
<1>4. \A j \in 1 .. Len(s) : s[j] \in S
  BY ElementOfSeq
<1>5. /\ a \in Seq(S) /\ Len(a) = i - 1 /\ \A j \in 1 .. i - 1 : a[j] = s[j]
  <2>1. \A j \in 1 .. i - 1 : s[j] \in S
    BY <1>1, <1>4
  <2>2. /\ SubSeq(s, 1, i - 1) \in Seq(S)
        /\ Len(SubSeq(s, 1, i - 1)) = IF 1 <= i - 1 THEN i - 1 - 1 + 1 ELSE 0
        /\ \A j \in 1 .. i - 1 - 1 + 1 : SubSeq(s, 1, i - 1)[j] = s[1 + j - 1]
    BY <1>1, <2>1, SubSeqProperties
  <2>3. Len(a) = i - 1
    BY <1>1, <1>2, <2>2
  <2>4. ASSUME NEW j \in 1 .. i - 1 PROVE a[j] = s[j]
    <3>1. j \in 1 .. i - 1 - 1 + 1 /\ 1 + j - 1 = j
      BY <1>1
    <3> QED  BY <1>2, <2>2, <3>1
  <2> QED  BY <1>2, <2>2, <2>3, <2>4
<1>6. /\ c \in Seq(S) /\ Len(c) = Len(s) - i /\ \A j \in 1 .. Len(s) - i : c[j] = s[i + j]
  <2>1. \A j \in i + 1 .. Len(s) : s[j] \in S
    BY <1>1, <1>4
  <2>2. /\ SubSeq(s, i + 1, Len(s)) \in Seq(S)
        /\ Len(SubSeq(s, i + 1, Len(s))) =
             IF i + 1 <= Len(s) THEN Len(s) - (i + 1) + 1 ELSE 0
        /\ \A j \in 1 .. Len(s) - (i + 1) + 1 : SubSeq(s, i + 1, Len(s))[j] = s[i + 1 + j - 1]
    BY <1>1, <2>1, SubSeqProperties
  <2>3. Len(c) = Len(s) - i
    BY <1>1, <1>2, <2>2
  <2>4. ASSUME NEW j \in 1 .. Len(s) - i PROVE c[j] = s[i + j]
    <3>1. j \in 1 .. Len(s) - (i + 1) + 1 /\ i + 1 + j - 1 = i + j
      BY <1>1
    <3> QED  BY <1>2, <2>2, <3>1
  <2> QED  BY <1>2, <2>2, <2>3, <2>4
<1>7. DOMAIN a = 1 .. i - 1 /\ DOMAIN c = 1 .. Len(s) - i
  BY <1>5, <1>6, LenProperties
<1>8. ASSUME NEW kind
      PROVE  /\ TimerWaits(a, kind) \/ TimerWaits(c, kind) => TimerWaits(s, kind)
             /\ TimerWaits(s, kind) /\ s[i].kind # kind => TimerWaits(a, kind) \/ TimerWaits(c, kind)
  <2>1. ASSUME TimerWaits(a, kind) PROVE TimerWaits(s, kind)
    BY <1>1, <1>5, <1>7, <2>1 DEF TimerWaits
  <2>2. ASSUME TimerWaits(c, kind) PROVE TimerWaits(s, kind)
    <3>1. PICK j \in 1 .. Len(s) - i : c[j].kind = kind
      BY <1>7, <2>2 DEF TimerWaits
    <3>2. i + j \in DOMAIN s
      BY <1>1
    <3> QED  BY <1>6, <3>1, <3>2 DEF TimerWaits
  <2>3. ASSUME TimerWaits(s, kind), s[i].kind # kind PROVE TimerWaits(a, kind) \/ TimerWaits(c, kind)
    <3>1. PICK j \in 1 .. Len(s) : s[j].kind = kind
      BY <1>1, <2>3 DEF TimerWaits
    <3>2. CASE j < i
      BY <1>1, <1>5, <1>7, <3>1, <3>2 DEF TimerWaits
    <3>3. CASE j > i
      <4>1. j - i \in 1 .. Len(s) - i /\ i + (j - i) = j
        BY <1>1, <3>3
      <4> QED  BY <1>6, <1>7, <3>1, <4>1 DEF TimerWaits
    <3>4. j # i
      BY <2>3, <3>1
    <3> QED  BY <1>1, <3>2, <3>3, <3>4
  <2> QED  BY <2>1, <2>2, <2>3
<1>9. ASSUME UnlockFirst(s) PROVE UnlockFirst(a \o c)
  <2>1. UnlockFirst(a)
    BY <1>1, <1>5, <1>7, <1>9 DEF UnlockFirst
  <2>2. UnlockFirst(c)
    <3> SUFFICES ASSUME NEW j \in 1 .. Len(s) - i, NEW k \in 1 .. Len(s) - i,
                        c[j].kind = "unlock", c[k].kind = "follow"
                 PROVE  j < k
      BY <1>7 DEF UnlockFirst
    <3>1. i + j \in DOMAIN s /\ i + k \in DOMAIN s
      BY <1>1
    <3>2. i + j < i + k
      BY <1>6, <1>9, <3>1 DEF UnlockFirst
    <3> QED  BY <1>1, <3>2
  <2>3. ~(TimerWaits(a, "follow") /\ TimerWaits(c, "unlock"))
    <3> SUFFICES ASSUME NEW j \in 1 .. i - 1, NEW k \in 1 .. Len(s) - i,
                        a[j].kind = "follow", c[k].kind = "unlock"
                 PROVE  FALSE
      BY <1>7 DEF TimerWaits
    <3>1. j \in DOMAIN s /\ i + k \in DOMAIN s
      BY <1>1
    <3>2. i + k < j
      BY <1>5, <1>6, <1>9, <3>1 DEF UnlockFirst
    <3> QED  BY <1>1, <3>2
  <2> QED  BY <1>5, <1>6, <2>1, <2>2, <2>3, WaitsInBoth
<1>10. \A kind : TimerWaits(a \o c, kind) <=> TimerWaits(a, kind) \/ TimerWaits(c, kind)
  BY <1>5, <1>6, WaitsInBoth
<1> QED  BY <1>3, <1>5, <1>6, <1>8, <1>9, <1>10, WaitsInBoth


LEMMA TimersAreTimers ==
    /\ \A kind \in DOMAIN Delay : Timer(kind) \in TimerSet /\ Timer(kind).kind = kind
    /\ \A to \in Places : [kind |-> "follow", to |-> to] \in TimerSet
    /\ DOMAIN Delay = {"lock", "focus", "follow", "unlock", "reset"}
    /\ 0 \in Places /\ NoPlace \notin Places
  BY PanelAssumption DEF Timer, TimerSet, Delay

LEMMA WhatScrolls ==
    /\ Returns <=> TimerWaits(timers, "lock") \/ (TimerWaits(timers, "unlock") /\ offset # NoPlace)
    /\ Scrolls <=> Returns \/ TimerWaits(timers, "follow")
  BY DEF Scrolls, Returns, Pending, TimerWaits

LEMMA NothingToFollow ==
    ASSUME NEW s, ~TimerWaits(s, "follow")
    PROVE  UnlockFirst(s)
  BY DEF TimerWaits, UnlockFirst

LEMMA PanelTypes ==
    ASSUME PanelInv
    PROVE  /\ wide \in BOOLEAN /\ checked \in BOOLEAN /\ focused \in BOOLEAN /\ lock \in BOOLEAN
           /\ disturbed \in BOOLEAN
           /\ offset \in Places \cup {NoPlace} /\ scroll \in Places /\ place \in Places
           /\ timers \in Seq(TimerSet)
  BY DEF PanelInv, PanelTypeOK, TimerSet

LEMMA WhatScrollsNext ==
    Scrolls' <=> \/ TimerWaits(timers', "lock") \/ TimerWaits(timers', "follow")
                 \/ TimerWaits(timers', "unlock") /\ offset' # NoPlace
  BY DEF Scrolls, Returns, Pending, TimerWaits

(* A step that leaves the timers of the scrolls as they were, and all but  *)
(* the focus and, on a wide window, the toggle.                            *)
LEMMA PanelStays ==
    ASSUME PanelInv,
           UNCHANGED <<wide, lock, offset, scroll, place, disturbed>>,
           checked' \in BOOLEAN, wide \/ checked' = checked,
           focused' \in BOOLEAN, timers' \in Seq(TimerSet),
           \A kind \in {"lock", "unlock", "follow"} :
             TimerWaits(timers', kind) <=> TimerWaits(timers, kind),
           UnlockFirst(timers) => UnlockFirst(timers')
    PROVE  PanelInv'
<1>1. PanelTypeOK'
  BY PanelTypes DEF PanelTypeOK, TimerSet
<1>2. LockHasPlace' /\ LockComes'
  BY DEF PanelInv, LockHasPlace, LockComes
<1>3. Scrolls' <=> Scrolls
  BY WhatScrolls, WhatScrollsNext
<1>4. PlaceKept => PlaceKept'
  BY <1>3 DEF PlaceKept
<1> QED  BY <1>1, <1>2, <1>4 DEF PanelInv

(* The timers a change of the toggle sets.                                 *)
LEMMA ChangeTimers ==
    ASSUME timers \in Seq(TimerSet), NEW opens \in BOOLEAN, NEW more \in Seq(TimerSet),
           ~TimerWaits(more, "lock"), ~TimerWaits(more, "unlock"), UnlockFirst(more),
           Change(opens, more)
    PROVE  /\ timers' \in Seq(TimerSet)
           /\ \A kind \in {"lock", "unlock", "follow"} :
                TimerWaits(timers', kind) <=>
                  \/ TimerWaits(timers, kind) \/ TimerWaits(more, kind)
                  \/ ~wide /\ kind = IF opens THEN "lock" ELSE "unlock"
           /\ UnlockFirst(timers) /\ (wide \/ opens \/ ~TimerWaits(timers, "follow")) =>
                UnlockFirst(timers')
<1>1. PICK f, l : f = <<Timer("focus")>> /\ l = <<Timer(IF opens THEN "lock" ELSE "unlock")>>
  OBVIOUS
<1>2. /\ f \in Seq(TimerSet) /\ UnlockFirst(f)
      /\ \A kind : TimerWaits(f, kind) <=> kind = "focus"
  BY <1>1, TimersAreTimers, WaitsInOne
<1>3. /\ l \in Seq(TimerSet) /\ UnlockFirst(l)
      /\ \A kind : TimerWaits(l, kind) <=> kind = IF opens THEN "lock" ELSE "unlock"
  BY <1>1, TimersAreTimers, WaitsInOne
<1>4. CASE wide
  <2>1. timers' = (timers \o f) \o more
    BY <1>1, <1>4 DEF Change
  <2>2. /\ timers \o f \in Seq(TimerSet)
        /\ \A kind : TimerWaits(timers \o f, kind) <=> TimerWaits(timers, kind) \/ TimerWaits(f, kind)
        /\ UnlockFirst(timers) => UnlockFirst(timers \o f)
    BY <1>2, WaitsInBoth
  <2>3. /\ timers' \in Seq(TimerSet)
        /\ \A kind : TimerWaits(timers', kind) <=> TimerWaits(timers \o f, kind) \/ TimerWaits(more, kind)
        /\ UnlockFirst(timers \o f) => UnlockFirst(timers')
    <3>1. PICK a \in Seq(TimerSet) : a = timers \o f
      BY <2>2
    <3>2. /\ a \o more \in Seq(TimerSet)
          /\ \A kind : TimerWaits(a \o more, kind) <=> TimerWaits(a, kind) \/ TimerWaits(more, kind)
          /\ UnlockFirst(a) => UnlockFirst(a \o more)
      BY WaitsInBoth
    <3> QED  BY <2>1, <3>1, <3>2
  <2> QED  BY <1>2, <1>4, <2>2, <2>3
<1>5. CASE ~wide
  <2>1. timers' = (timers \o l) \o (f \o more)
    BY <1>1, <1>5 DEF Change, Update
  <2>2. /\ timers \o l \in Seq(TimerSet)
        /\ \A kind : TimerWaits(timers \o l, kind) <=> TimerWaits(timers, kind) \/ TimerWaits(l, kind)
        /\ UnlockFirst(timers) /\ (opens \/ ~TimerWaits(timers, "follow")) =>
             UnlockFirst(timers \o l)
    BY <1>3, WaitsInBoth
  <2>3. /\ f \o more \in Seq(TimerSet)
        /\ \A kind : TimerWaits(f \o more, kind) <=> TimerWaits(f, kind) \/ TimerWaits(more, kind)
        /\ UnlockFirst(f \o more)
    BY <1>2, WaitsInBoth
  <2>4. /\ timers' \in Seq(TimerSet)
        /\ \A kind : TimerWaits(timers', kind) <=> TimerWaits(timers \o l, kind) \/ TimerWaits(f \o more, kind)
        /\ UnlockFirst(timers \o l) => UnlockFirst(timers')
    <3>1. ~TimerWaits(f \o more, "unlock")
      BY <1>2, <2>3
    <3>2. PICK a, c : a = timers \o l /\ c = f \o more
      OBVIOUS
    <3>3. a \in Seq(TimerSet) /\ c \in Seq(TimerSet) /\ UnlockFirst(c) /\ ~TimerWaits(c, "unlock")
      BY <2>2, <2>3, <3>1, <3>2
    <3>4. /\ a \o c \in Seq(TimerSet)
          /\ \A kind : TimerWaits(a \o c, kind) <=> TimerWaits(a, kind) \/ TimerWaits(c, kind)
          /\ UnlockFirst(a) => UnlockFirst(a \o c)
      BY <3>3, WaitsInBoth
    <3> QED  BY <2>1, <3>2, <3>4
  <2> QED  BY <1>2, <1>3, <1>5, <2>2, <2>3, <2>4
<1> QED  BY <1>4, <1>5

LEMMA OpenStep ==
    ASSUME PanelInv, ~checked, Change(TRUE, <<>>), focused' \in BOOLEAN,
           UNCHANGED <<wide, scroll, place>>
    PROVE  PanelInv'
<1>1. <<>> \in Seq(TimerSet)
  OBVIOUS
<1>2. /\ timers' \in Seq(TimerSet)
      /\ \A kind \in {"lock", "unlock", "follow"} :
           TimerWaits(timers', kind) <=> TimerWaits(timers, kind) \/ (~wide /\ kind = "lock")
      /\ UnlockFirst(timers) => UnlockFirst(timers')
  BY <1>1, PanelTypes, ChangeTimers, WaitsInOne
<1>3. /\ checked' = TRUE /\ (disturbed' <=> disturbed \/ (~wide /\ Scrolls)) /\ disturbed' \in BOOLEAN
      /\ wide => lock' = lock /\ offset' = offset
      /\ ~wide => offset' = scroll /\ lock' = lock
  BY PanelTypes DEF Change, Update
<1>4. CASE wide
  <2>1. \A kind \in {"lock", "unlock", "follow"} : TimerWaits(timers', kind) <=> TimerWaits(timers, kind)
    BY <1>2, <1>4
  <2>2. UNCHANGED <<wide, lock, offset, scroll, place, disturbed>>
    BY <1>3, <1>4, PanelTypes
  <2> QED  BY <1>2, <1>3, <1>4, <2>1, <2>2, PanelStays
<1>5. CASE ~wide
  <2>1. PanelTypeOK'
    BY <1>2, <1>3, <1>5, PanelTypes DEF PanelTypeOK, TimerSet
  <2>2. TimerWaits(timers', "lock") /\ offset' # NoPlace
    BY <1>2, <1>3, <1>5, PanelTypes, TimersAreTimers
  <2>3. LockHasPlace' /\ LockComes'
    BY <2>2 DEF LockHasPlace, LockComes
  <2>4. ASSUME ~disturbed' PROVE PlaceKept'
    <3>1. PlaceKept /\ ~Scrolls
      BY <1>3, <1>5, <2>4 DEF PanelInv
    <3>2. ~lock /\ scroll = place /\ ~TimerWaits(timers, "follow")
      BY <3>1, WhatScrolls DEF PlaceKept
    <3>3. offset' = place' /\ checked' /\ ~wide' /\ ~TimerWaits(timers', "follow")
      BY <1>2, <1>3, <1>5, <3>2
    <3>4. UnlockFirst(timers') /\ Scrolls'
      BY <2>2, <3>3, NothingToFollow, WhatScrollsNext
    <3> QED  BY <3>3, <3>4 DEF PlaceKept
  <2> QED  BY <2>1, <2>3, <2>4 DEF PanelInv
<1> QED  BY <1>4, <1>5

LEMMA CloseStep ==
    ASSUME PanelInv, checked, NEW more \in Seq(TimerSet),
           ~TimerWaits(more, "lock"), ~TimerWaits(more, "unlock"), UnlockFirst(more),
           Change(FALSE, more), focused' \in BOOLEAN,
           UNCHANGED <<wide, scroll, place>>
    PROVE  PanelInv'
<1>2. /\ timers' \in Seq(TimerSet)
      /\ \A kind \in {"lock", "unlock", "follow"} :
           TimerWaits(timers', kind) <=>
             TimerWaits(timers, kind) \/ TimerWaits(more, kind) \/ (~wide /\ kind = "unlock")
      /\ UnlockFirst(timers) /\ (wide \/ ~TimerWaits(timers, "follow")) => UnlockFirst(timers')
  BY PanelTypes, ChangeTimers
<1>3. /\ checked' = FALSE /\ (disturbed' <=> disturbed \/ (~wide /\ Scrolls)) /\ disturbed' \in BOOLEAN
      /\ wide => lock' = lock
      /\ ~wide => lock' = FALSE
      /\ offset' = offset
  BY PanelTypes DEF Change, Update
<1>4. PanelTypeOK'
  BY <1>2, <1>3, PanelTypes DEF PanelTypeOK, TimerSet
<1>5. LockHasPlace' /\ LockComes'
  BY <1>2, <1>3 DEF PanelInv, LockHasPlace, LockComes
<1>6. ASSUME ~disturbed' PROVE PlaceKept'
  <2>1. PlaceKept /\ (wide \/ ~Scrolls)
    BY <1>3, <1>6 DEF PanelInv
  <2>2. CASE wide
    <3>1. ~lock' /\ ~TimerWaits(timers', "lock") /\ wide'
      BY <1>2, <1>3, <2>1, <2>2 DEF PlaceKept
    <3>2. /\ UnlockFirst(timers') \/ offset' = NoPlace
          /\ offset' # NoPlace /\ TimerWaits(timers', "unlock") /\ ~TimerWaits(timers', "follow") =>
               offset' = place'
      BY <1>2, <1>3, <2>1, <2>2 DEF PlaceKept
    <3>3. ~Scrolls' => ~Scrolls
      BY <1>2, <1>3, WhatScrolls, WhatScrollsNext
    <3>4. ~Scrolls' => scroll' = place'
      BY <1>3, <2>1, <2>2, <3>1, <3>3 DEF PlaceKept
    <3> QED  BY <3>1, <3>2, <3>4 DEF PlaceKept
  <2>3. CASE ~wide
    <3>1. /\ offset = place /\ ~TimerWaits(timers, "follow") /\ ~TimerWaits(timers, "lock")
          /\ UnlockFirst(timers)
      BY <2>1, <2>3, NothingToFollow, WhatScrolls DEF PlaceKept
    <3>2. offset' = place' /\ offset' # NoPlace
      BY <1>3, <3>1, PanelTypes, TimersAreTimers
    <3>3. TimerWaits(timers', "unlock") /\ ~TimerWaits(timers', "lock") /\ UnlockFirst(timers')
      BY <1>2, <2>3, <3>1
    <3>4. Scrolls'
      BY <3>2, <3>3, WhatScrollsNext
    <3> QED  BY <1>3, <2>3, <3>2, <3>3, <3>4 DEF PlaceKept
  <2> QED  BY <2>2, <2>3
<1> QED  BY <1>4, <1>5, <1>6 DEF PanelInv

LEMMA ScrollPageStep ==
    ASSUME PanelInv, NEW to \in Places, ScrollPage(to)
    PROVE  PanelInv'
<1>1. /\ wide \/ ~lock
      /\ scroll' = to /\ place' = to
      /\ disturbed' <=> Returns \/ (disturbed /\ (Scrolls \/ lock))
      /\ disturbed' \in BOOLEAN
      /\ UNCHANGED <<wide, checked, focused, lock, offset, timers>>
  BY PanelTypes DEF ScrollPage, Returns, Pending
<1>2. PanelTypeOK'
  BY <1>1, PanelTypes DEF PanelTypeOK, TimerSet
<1>3. LockHasPlace' /\ LockComes'
  BY <1>1 DEF PanelInv, LockHasPlace, LockComes
<1>4. ASSUME ~disturbed' PROVE PlaceKept'
  <2>1. /\ ~TimerWaits(timers, "lock") /\ ~(TimerWaits(timers, "unlock") /\ offset # NoPlace)
        /\ PlaceKept \/ (~lock /\ ~TimerWaits(timers, "follow"))
    BY <1>1, <1>4, WhatScrolls DEF PanelInv
  <2>2. ~(checked /\ ~wide)
    BY <1>1, <2>1 DEF PanelInv, LockComes
  <2>3. ~lock /\ (UnlockFirst(timers) \/ offset = NoPlace)
    BY <2>1, <2>2, NothingToFollow DEF PlaceKept
  <2> QED  BY <1>1, <2>1, <2>2, <2>3 DEF PlaceKept
<1> QED  BY <1>2, <1>3, <1>4 DEF PanelInv

LEMMA UserStep ==
    ASSUME PanelInv,
           \/ Toggle \/ FocusQuery \/ CloseKey \/ Reset
           \/ \E to \in Places : FollowResult(to) \/ ScrollPage(to)
    PROVE  PanelInv'
<1>1. /\ <<>> \in Seq(TimerSet) /\ UnlockFirst(<<>>) /\ ~TimerWaits(<<>>, "lock")
      /\ ~TimerWaits(<<>>, "unlock")
  BY WaitsInOne
<1>2. CASE Toggle
  <2>1. CASE checked
    <3>1. Change(FALSE, <<>>)
      BY <1>2, <2>1 DEF Toggle
    <3> QED  BY <1>1, <1>2, <2>1, <3>1, CloseStep DEF Toggle
  <2>2. CASE ~checked
    <3>1. Change(TRUE, <<>>)
      BY <1>2, <2>2 DEF Toggle
    <3> QED  BY <1>2, <2>2, <3>1, OpenStep DEF Toggle
  <2> QED  BY <2>1, <2>2
<1>3. CASE FocusQuery
  <2>1. CASE checked
    BY <1>3, <2>1, PanelTypes, PanelStays DEF FocusQuery
  <2>2. CASE ~checked
    BY <1>3, <2>2, OpenStep DEF FocusQuery
  <2> QED  BY <2>1, <2>2
<1>4. CASE CloseKey
  BY <1>1, <1>4, CloseStep DEF CloseKey
<1>5. CASE Reset
  <2>1. timers' = timers \o <<Timer("reset")>>
    BY <1>5, PanelTypes, TimersAreTimers, AppendIsConcat DEF Reset
  <2>2. /\ <<Timer("reset")>> \in Seq(TimerSet) /\ UnlockFirst(<<Timer("reset")>>)
        /\ \A kind : TimerWaits(<<Timer("reset")>>, kind) <=> kind = "reset"
    BY TimersAreTimers, WaitsInOne
  <2>3. /\ timers' \in Seq(TimerSet)
        /\ \A kind \in {"lock", "unlock", "follow"} :
             TimerWaits(timers', kind) <=> TimerWaits(timers, kind)
        /\ UnlockFirst(timers) => UnlockFirst(timers')
    BY <2>1, <2>2, PanelTypes, WaitsInBoth
  <2> QED  BY <1>5, <2>3, PanelStays DEF Reset
<1>6. ASSUME NEW to \in Places, FollowResult(to) PROVE PanelInv'
  <2>1. PICK more : more = <<[kind |-> "follow", to |-> to]>>
    OBVIOUS
  <2>2. /\ more \in Seq(TimerSet) /\ UnlockFirst(more)
        /\ ~TimerWaits(more, "lock") /\ ~TimerWaits(more, "unlock")
    BY <2>1, TimersAreTimers, WaitsInOne
  <2> QED  BY <1>6, <2>1, <2>2, CloseStep DEF FollowResult
<1>7. ASSUME NEW to \in Places, ScrollPage(to) PROVE PanelInv'
  BY <1>7, ScrollPageStep
<1> QED  BY <1>2, <1>3, <1>4, <1>5, <1>6, <1>7


LEMMA NarrowStep ==
    ASSUME PanelInv, Resize, wide
    PROVE  PanelInv'
<1>1. /\ disturbed' <=> \/ disturbed
                        \/ IF checked THEN Scrolls
                                      ELSE offset # NoPlace /\ (offset # place \/ TimerWaits(timers, "follow"))
      /\ disturbed' \in BOOLEAN /\ wide' = FALSE
      /\ UNCHANGED <<checked, focused, place>>
  BY PanelTypes DEF Resize, Pending, TimerWaits
<1>2. Update(checked, <<>>) /\ scroll' = scroll
  BY DEF Resize
<1>3. PICK l : l = <<Timer(IF checked THEN "lock" ELSE "unlock")>>
  OBVIOUS
<1>4. /\ l \in Seq(TimerSet) /\ UnlockFirst(l)
      /\ \A kind : TimerWaits(l, kind) <=> kind = IF checked THEN "lock" ELSE "unlock"
  BY <1>3, TimersAreTimers, WaitsInOne
<1>5. timers' = timers \o l
  <2>1. timers' = (timers \o l) \o <<>>
    BY <1>2, <1>3 DEF Update
  <2>2. timers \o l \in Seq(TimerSet)
    BY <1>4, PanelTypes, WaitsInBoth
  <2> QED  BY <2>1, <2>2, ConcatEmptySeq
<1>6. /\ timers' \in Seq(TimerSet)
      /\ \A kind : TimerWaits(timers', kind) <=> TimerWaits(timers, kind) \/ TimerWaits(l, kind)
  BY <1>4, <1>5, PanelTypes, WaitsInBoth
<1>7. /\ checked => offset' = scroll /\ lock' = lock
      /\ ~checked => offset' = offset /\ lock' = FALSE
  BY <1>2, PanelTypes DEF Update
<1>8. PanelTypeOK'
  BY <1>1, <1>2, <1>6, <1>7, PanelTypes DEF PanelTypeOK, TimerSet
<1>9. LockHasPlace' /\ LockComes'
  BY <1>1, <1>4, <1>6, <1>7, PanelTypes, TimersAreTimers DEF PanelInv, LockHasPlace, LockComes
<1>10. ASSUME ~disturbed' PROVE PlaceKept'
  <2>1. PlaceKept /\ ~lock /\ ~TimerWaits(timers, "lock")
    BY <1>1, <1>10 DEF PanelInv, PlaceKept
  <2>2. CASE checked
    <3>1. scroll = place /\ ~TimerWaits(timers, "follow")
      BY <1>1, <1>10, <2>1, <2>2, WhatScrolls DEF PlaceKept
    <3>2. /\ offset' = place' /\ ~TimerWaits(timers', "follow") /\ TimerWaits(timers', "lock")
      BY <1>1, <1>4, <1>6, <1>7, <2>2, <3>1
    <3>3. UnlockFirst(timers') /\ Scrolls'
      BY <3>2, NothingToFollow, WhatScrollsNext
    <3> QED  BY <1>1, <2>2, <3>2, <3>3 DEF PlaceKept
  <2>3. CASE ~checked
    <3>1. offset = NoPlace \/ (offset = place /\ ~TimerWaits(timers, "follow"))
      BY <1>1, <1>10, <2>3
    <3>2. /\ ~lock' /\ ~TimerWaits(timers', "lock") /\ TimerWaits(timers', "unlock")
          /\ TimerWaits(timers', "follow") <=> TimerWaits(timers, "follow")
          /\ offset' = offset /\ place' = place /\ ~checked'
      BY <1>1, <1>4, <1>6, <1>7, <2>1, <2>3
    <3>3. UnlockFirst(timers') \/ offset' = NoPlace
      BY <3>1, <3>2, NothingToFollow
    <3>4. ASSUME ~Scrolls' PROVE scroll' = place'
      <4>1. offset = NoPlace /\ ~TimerWaits(timers, "follow")
        BY <3>2, <3>4, WhatScrollsNext
      <4>2. ~Scrolls
        BY <2>1, <4>1, WhatScrolls
      <4> QED  BY <1>1, <1>2, <2>1, <4>2 DEF PlaceKept
    <3> QED  BY <3>1, <3>2, <3>3, <3>4 DEF PlaceKept
  <2> QED  BY <2>2, <2>3
<1> QED  BY <1>8, <1>9, <1>10 DEF PanelInv

LEMMA ResizeStep ==
    ASSUME PanelInv, Resize
    PROVE  PanelInv'
<1>1. CASE ~wide
  <2>1. /\ scroll' = IF lock THEN offset ELSE scroll
        /\ lock' = FALSE /\ wide' = TRUE
        /\ disturbed' <=> disturbed \/ TimerWaits(timers, "lock")
        /\ disturbed' \in BOOLEAN
        /\ UNCHANGED <<offset, timers, checked, focused, place>>
    BY <1>1, PanelTypes DEF Resize, Pending, TimerWaits
  <2>2. scroll' \in Places
    BY <2>1, PanelTypes DEF PanelInv, LockHasPlace
  <2>3. PanelTypeOK'
    BY <2>1, <2>2, PanelTypes DEF PanelTypeOK, TimerSet
  <2>4. LockHasPlace' /\ LockComes'
    BY <2>1 DEF PanelInv, LockHasPlace, LockComes
  <2>5. ASSUME ~disturbed' PROVE PlaceKept'
    <3>1. PlaceKept /\ ~TimerWaits(timers, "lock")
      BY <2>1, <2>5 DEF PanelInv
    <3>2. Scrolls' <=> Scrolls
      BY <2>1, WhatScrolls, WhatScrollsNext
    <3>3. ~Scrolls => scroll' = place'
      BY <1>1, <2>1, <3>1 DEF PlaceKept
    <3> QED  BY <2>1, <3>1, <3>2, <3>3 DEF PlaceKept
  <2> QED  BY <2>3, <2>4, <2>5 DEF PanelInv
<1> QED  BY <1>1, NarrowStep

LEMMA TimerStep ==
    ASSUME PanelInv, NEW i \in DOMAIN timers,
           FireLock(i) \/ FireUnlock(i) \/ FireFollow(i) \/ FireFocus(i)
    PROVE  PanelInv'
<1>1. PICK rest, kind : rest = RemoveAt(timers, i) /\ kind = timers[i].kind
  OBVIOUS
<1>2. /\ rest \in Seq(TimerSet)
      /\ \A k : TimerWaits(rest, k) => TimerWaits(timers, k)
      /\ \A k : TimerWaits(timers, k) /\ k # kind => TimerWaits(rest, k)
      /\ UnlockFirst(timers) => UnlockFirst(rest)
  BY <1>1, PanelTypes, WaitsAfter
<1>3. TimerWaits(timers, kind)
  BY <1>1 DEF TimerWaits
<1>4. CASE FireLock(i)
  <2>1. /\ kind = "lock" /\ timers' = rest /\ scroll' = 0
        /\ lock' \in BOOLEAN /\ (lock' <=> lock \/ checked)
        /\ UNCHANGED <<wide, checked, focused, offset, place, disturbed>>
    BY <1>1, <1>4, PanelTypes DEF FireLock
  <2>2. PanelTypeOK'
    BY <1>2, <2>1, PanelTypes, TimersAreTimers DEF PanelTypeOK, TimerSet
  <2>3. LockHasPlace' /\ LockComes'
    BY <1>3, <2>1 DEF PanelInv, LockHasPlace, LockComes
  <2>4. ASSUME ~disturbed PROVE PlaceKept'
    <3>1. PlaceKept /\ checked /\ ~wide
      BY <1>3, <2>1, <2>4 DEF PanelInv, PlaceKept
    <3>2. lock' /\ offset' = place' /\ ~TimerWaits(timers', "follow")
      BY <1>2, <2>1, <3>1 DEF PlaceKept
    <3> QED  BY <2>1, <3>1, <3>2, NothingToFollow DEF PlaceKept
  <2> QED  BY <2>1, <2>2, <2>3, <2>4 DEF PanelInv
<1>5. CASE FireUnlock(i)
  <2>1. /\ kind = "unlock" /\ timers' = rest
        /\ scroll' = IF offset # NoPlace THEN offset ELSE scroll
        /\ UNCHANGED <<wide, checked, focused, lock, offset, place, disturbed>>
    BY <1>1, <1>5 DEF FireUnlock
  <2>2. PanelTypeOK'
    BY <1>2, <2>1, PanelTypes DEF PanelTypeOK, TimerSet
  <2>3. LockHasPlace' /\ LockComes'
    BY <1>2, <2>1 DEF PanelInv, LockHasPlace, LockComes
  <2>4. ASSUME ~disturbed PROVE PlaceKept'
    <3>1. PlaceKept
      BY <2>4 DEF PanelInv
    <3>2. ASSUME ~lock, ~Scrolls' PROVE scroll' = place'
      <4>1. ~TimerWaits(timers, "lock") /\ ~TimerWaits(timers, "follow")
        BY <1>2, <2>1, <3>2, WhatScrollsNext
      <4>2. CASE offset # NoPlace
        BY <1>3, <2>1, <3>1, <4>1, <4>2 DEF PlaceKept
      <4>3. CASE offset = NoPlace
        BY <2>1, <3>1, <3>2, <4>1, <4>3, WhatScrolls DEF PlaceKept
      <4> QED  BY <4>2, <4>3
    <3>3. /\ TimerWaits(timers', "lock") => TimerWaits(timers, "lock")
          /\ TimerWaits(timers', "follow") <=> TimerWaits(timers, "follow")
          /\ TimerWaits(timers', "unlock") => TimerWaits(timers, "unlock")
          /\ UnlockFirst(timers) => UnlockFirst(timers')
      BY <1>2, <2>1
    <3> QED  BY <2>1, <3>1, <3>2, <3>3 DEF PlaceKept
  <2> QED  BY <2>1, <2>2, <2>3, <2>4 DEF PanelInv
<1>6. CASE FireFollow(i)
  <2>1. /\ kind = "follow" /\ timers' = rest /\ Due(i)
        /\ scroll' = timers[i].to /\ place' = timers[i].to
        /\ UNCHANGED <<wide, checked, focused, lock, offset, disturbed>>
    BY <1>1, <1>6 DEF FireFollow
  <2>2. timers[i] \in TimerSet /\ timers[i].to \in Places
    <3>1. i \in 1 .. Len(timers)
      BY PanelTypes, LenProperties
    <3>2. timers[i] \in TimerSet
      BY <3>1, PanelTypes, ElementOfSeq
    <3> QED  BY <3>2 DEF TimerSet
  <2>3. PanelTypeOK'
    BY <1>2, <2>1, <2>2, PanelTypes DEF PanelTypeOK, TimerSet
  <2>4. LockHasPlace' /\ LockComes'
    BY <1>2, <2>1 DEF PanelInv, LockHasPlace, LockComes
  <2>5. ASSUME UnlockFirst(timers) PROVE ~TimerWaits(timers, "unlock")
    <3> SUFFICES ASSUME NEW j \in DOMAIN timers, timers[j].kind = "unlock" PROVE FALSE
      BY DEF TimerWaits
    <3>1. j < i
      BY <1>1, <2>1, <2>5 DEF UnlockFirst
    <3>2. j \in 1 .. i - 1
      BY <3>1, PanelTypes, LenProperties
    <3>3. Delay["unlock"] > Delay["follow"]
      BY <1>1, <2>1, <3>2 DEF Due
    <3> QED  BY <3>3 DEF Delay
  <2>6. ASSUME ~disturbed PROVE PlaceKept'
    <3>1. PlaceKept /\ ~(checked /\ ~wide)
      BY <1>3, <2>1, <2>6 DEF PanelInv, PlaceKept
    <3>2. offset = NoPlace \/ (~TimerWaits(rest, "unlock") /\ UnlockFirst(rest))
      BY <1>2, <2>5, <3>1 DEF PlaceKept
    <3>3. ~lock /\ ~TimerWaits(rest, "lock")
      BY <1>2, <3>1 DEF PlaceKept
    <3> QED  BY <2>1, <3>1, <3>2, <3>3 DEF PlaceKept
  <2> QED  BY <2>1, <2>3, <2>4, <2>6 DEF PanelInv
<1>7. CASE FireFocus(i)
  <2>1. /\ kind \in {"focus", "reset"}
        /\ focused' \in BOOLEAN /\ checked' \in BOOLEAN /\ (wide \/ checked' = checked)
        /\ timers' = rest \/ timers' = Append(rest, Timer("focus"))
        /\ UNCHANGED <<wide, lock, offset, scroll, place, disturbed>>
    BY <1>1, <1>7, PanelTypes DEF FireFocus
  <2>2. \A k \in {"lock", "unlock", "follow"} : TimerWaits(rest, k) <=> TimerWaits(timers, k)
    BY <1>2, <2>1
  <2>3. CASE timers' = rest
    BY <1>2, <2>1, <2>2, <2>3, PanelStays
  <2>4. CASE timers' = Append(rest, Timer("focus"))
    <3>1. /\ <<Timer("focus")>> \in Seq(TimerSet) /\ UnlockFirst(<<Timer("focus")>>)
          /\ \A k : TimerWaits(<<Timer("focus")>>, k) <=> k = "focus"
      BY TimersAreTimers, WaitsInOne
    <3>2. timers' = rest \o <<Timer("focus")>>
      BY <1>2, <2>4, TimersAreTimers, AppendIsConcat
    <3>3. /\ timers' \in Seq(TimerSet)
          /\ \A k \in {"lock", "unlock", "follow"} : TimerWaits(timers', k) <=> TimerWaits(rest, k)
          /\ UnlockFirst(rest) => UnlockFirst(timers')
      BY <1>2, <3>1, <3>2, WaitsInBoth
    <3> QED  BY <1>2, <2>1, <2>2, <3>3, PanelStays
  <2> QED  BY <2>1, <2>3, <2>4
<1> QED  BY <1>4, <1>5, <1>6, <1>7

LEMMA PanelInvInit == PanelInit => PanelInv
<1> SUFFICES ASSUME PanelInit PROVE PanelInv
  OBVIOUS
<1>1. PICK l : l = <<Timer("unlock")>>
  OBVIOUS
<1>2. /\ l \in Seq(TimerSet) /\ UnlockFirst(l) /\ <<>> \in Seq(TimerSet) /\ UnlockFirst(<<>>)
      /\ \A kind : TimerWaits(l, kind) <=> kind = "unlock"
      /\ \A kind : ~TimerWaits(<<>>, kind)
  BY <1>1, TimersAreTimers, WaitsInOne
<1>3. /\ wide \in BOOLEAN /\ checked = FALSE /\ focused = FALSE /\ lock = FALSE
      /\ offset = NoPlace /\ scroll \in Places /\ place = scroll
      /\ timers = IF wide THEN <<>> ELSE l
      /\ disturbed = FALSE
  BY <1>1 DEF PanelInit
<1>4. PanelTypeOK
  BY <1>2, <1>3 DEF PanelTypeOK, TimerSet
<1>5. LockHasPlace /\ LockComes
  BY <1>2, <1>3 DEF LockHasPlace, LockComes
<1>6. PlaceKept
  BY <1>2, <1>3, TimersAreTimers DEF PlaceKept
<1> QED  BY <1>4, <1>5, <1>6 DEF PanelInv

LEMMA PanelInvHolds == PanelSpec => []PanelInv
<1>1. PanelInv /\ UNCHANGED panelVars => PanelInv'
  <2> SUFFICES ASSUME PanelInv, UNCHANGED panelVars PROVE PanelInv'
    OBVIOUS
  <2>1. UNCHANGED <<wide, checked, focused, lock, offset, scroll, timers, place,
                    disturbed>>
    BY DEF panelVars
  <2> QED  BY <2>1, PanelTypes, PanelStays
<1>2. PanelInv /\ [PanelNext]_panelVars => PanelInv'
  BY <1>1, UserStep, ResizeStep, TimerStep DEF PanelNext
<1> QED  BY <1>2, PanelInvInit, PTL DEF PanelSpec

(* The values the variables of the search panel take.                      *)
THEOREM PanelTyped == PanelSpec => []PanelTypeOK
<1>1. PanelInv => PanelTypeOK
  BY DEF PanelInv
<1> QED  BY <1>1, PanelInvHolds, PTL

(* Search.Lock gives the reader's place back, and hides the page only      *)
(* behind an open panel of a narrow window, whatever is clicked and typed, *)
(* scrolled and resized between its timers and for any number of them,     *)
(* with the exceptions PlaceIsKept names.                                  *)
THEOREM PlaceComesBack == PanelSpec => []PlaceIsKept
<1>1. PanelInv => PlaceIsKept
  BY DEF PanelInv, PlaceKept, PlaceIsKept
<1> QED  BY <1>1, PanelInvHolds, PTL


-----------------------------------------------------------------------------
(* The script                                                              *)

(* Each part of the script behaves as its own specification says.          *)
LEMMA PartsAreSpecs ==
    Spec => /\ PromiseSpec /\ IndexSpec /\ PanelSpec /\ ResultSpec
            /\ FactsSpec /\ PageSpec /\ CollapseSpec /\ NavSpec
<1>1. Init => /\ PromiseInit /\ IndexInit /\ PanelInit /\ ResultInit
              /\ FactsInit /\ PageInit /\ CollapseInit /\ NavInit
  BY DEF Init
<1>2. ASSUME [Next]_<<part, parts>>
      PROVE  /\ [PromiseNext]_promiseVars /\ [IndexNext]_indexVars
             /\ [PanelNext]_panelVars /\ [ResultNext]_resultVars
             /\ [FactsNext]_factsVars /\ [PageNext]_scrollVars
             /\ [CollapseNext]_collapseVars /\ [NavNext]_navVars
  <2>1. CASE Next
    BY <2>1 DEF Next
  <2>2. CASE UNCHANGED <<part, parts>>
    BY <2>2 DEF parts
  <2> QED  BY <1>2, <2>1, <2>2
<1> QED  BY <1>1, <1>2, PTL DEF Spec, PromiseSpec, IndexSpec, PanelSpec, ResultSpec,
                                FactsSpec, PageSpec, CollapseSpec, NavSpec

(* TypeOK: the variables of all parts of the script keep their types, in   *)
(* every behaviour of the site.                                            *)
THEOREM SiteTyped == Spec => []TypeOK
<1>1. PromiseTypeOK /\ IndexTypeOK /\ PanelTypeOK /\ ResultTypeOK /\ FactsTypeOK
        /\ PageTypeOK /\ CollapseTypeOK /\ NavTypeOK => TypeOK
  BY DEF TypeOK
<1> QED  BY <1>1, PartsAreSpecs, PromiseTyped, IndexTyped, PanelTyped, ResultTyped,
            FactsTyped, PageTyped, CollapseTyped, NavTyped, PTL

=============================================================================
