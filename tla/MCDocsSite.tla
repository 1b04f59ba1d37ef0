------------------------------ MODULE MCDocsSite ------------------------------
(***************************************************************************)
(* Small instances, for TLC, of two libraries and six components of the    *)
(* documentation site's script.  Only one of them moves in a behaviour:    *)
(* they share nothing, and what one component does to another, the panel   *)
(* giving the query the focus, is an event that may come at any time in    *)
(* the other.                                                              *)
(***************************************************************************)
EXTENDS Promises, SearchIndex, SearchPanel, SearchResult, SourceFacts, PageScroll,
        NavCollapse, NavScrolling

CONSTANTS val, title, body, t1, t2, r1, r2, r3, v1, v2, n1, n2, n3

VARIABLE part

MCJoins == {<<1, 2>>}

MCTexts ==
    {<<>>, <<<<2, 2, 1>>>>, <<<<2, 1>>, <<>>, <<1, 2>>, <<2, 1>>>>,
     <<<<1, 2, 1>>, <<2, 1>>, <<1>>, <<1, 1>>>>}
MCChars == {1, 2, Star}
MCQueries ==
    {<<<<c, Star>>>> : c \in MCChars} \cup {<<<<c, d, Star>>>> : c, d \in MCChars}
      \cup {<<<<1, Star>>, <<c, Star>>>> : c \in MCChars} \cup {<<<<2, Star, 1>>>>, <<<<Star>>, <<Star, 1, Star, 1>>>>}

MCHits == (Empty :> 0) @@ (t1 :> 4) @@ (t2 :> 2)

MCLayout(w, side, headings) ==
    [wide |-> w, tops |-> headings,
     at |-> ("shadow" :> 1) @@ ("title" :> 2) @@ ("tabs" :> 1) @@ ("sidebar" :> side)]
MCLayouts == {MCLayout(TRUE, 2, <<0, 1, 3>>), MCLayout(TRUE, 3, <<1, 3, 4>>),
              MCLayout(FALSE, 3, <<1, 3, 4>>)}
MCPages == {Marks, {"shadow"}, {"shadow", "title"}}

MCOuter == (n1 :> Navigation) @@ (n2 :> n1) @@ (n3 :> Navigation)

parts == <<promiseVars, indexVars, panelVars, resultVars, factsVars, scrollVars,
           collapseVars, navVars>>
Init ==
    /\ part \in 1 .. 8
    /\ PromiseInit /\ IndexInit /\ PanelInit /\ ResultInit /\ FactsInit /\ PageInit
    /\ CollapseInit /\ NavInit
    /\ part # 3 => wide /\ scroll = 0
    /\ part # 5 => listed = <<r1, r2, r3>>
    /\ part # 6 => top = 0 /\ page = Marks /\ layout = MCLayout(TRUE, 2, <<0, 1, 3>>)
    /\ part # 7 => listens /\ opened
    /\ part # 8 => narrow /\ open = {}
Next ==
    /\ UNCHANGED part
    /\ \/ /\ part = 1 /\ PromiseNext
          /\ UNCHANGED <<indexVars, panelVars, resultVars, factsVars,
                         scrollVars, collapseVars, navVars>>
       \/ /\ part = 2 /\ IndexNext
          /\ UNCHANGED <<promiseVars, panelVars, resultVars, factsVars,
                         scrollVars, collapseVars, navVars>>
       \/ /\ part = 3 /\ PanelNext
          /\ UNCHANGED <<promiseVars, indexVars, resultVars, factsVars,
                         scrollVars, collapseVars, navVars>>
       \/ /\ part = 4 /\ ResultNext
          /\ UNCHANGED <<promiseVars, indexVars, panelVars, factsVars,
                         scrollVars, collapseVars, navVars>>
       \/ /\ part = 5 /\ FactsNext
          /\ UNCHANGED <<promiseVars, indexVars, panelVars, resultVars,
                         scrollVars, collapseVars, navVars>>
       \/ /\ part = 6 /\ PageNext
          /\ UNCHANGED <<promiseVars, indexVars, panelVars, resultVars,
                         factsVars, collapseVars, navVars>>
       \/ /\ part = 7 /\ CollapseNext
          /\ UNCHANGED <<promiseVars, indexVars, panelVars, resultVars,
                         factsVars, scrollVars, navVars>>
       \/ /\ part = 8 /\ NavNext
          /\ UNCHANGED <<promiseVars, indexVars, panelVars, resultVars,
                         factsVars, scrollVars, collapseVars>>
Spec == Init /\ [][Next]_<<part, parts>>

(* The values the variables take.                                          *)
TypeOK == /\ PromiseTypeOK /\ IndexTypeOK /\ PanelTypeOK /\ ResultTypeOK
          /\ FactsTypeOK /\ PageTypeOK /\ CollapseTypeOK /\ NavTypeOK
===============================================================================
