---------------------------- MODULE SearchResult ----------------------------
(***************************************************************************)
(* The result list of the documentation site's search                      *)
(* (docs/assets/js/application.js, Search.Result): the query's events, the *)
(* index that is fetched on the first focus, and the list, of which only   *)
(* what fits the panel is rendered: the rest waits as closures on stack_   *)
(* until the panel is scrolled.                                            *)
(***************************************************************************)
EXTENDS Integers, Sequences, FiniteSets, SequencesExt

CONSTANTS
    Inputs,           \* what the query may say, Empty among it
    Empty, NoText,
    Hits,            \* [Inputs -> Nat]: how many results a text has
    Screen,          \* how many results fill the panel
    Chunk,           \* the closures that one scroll renders (10)
    MaxLoads         \* a bound: how often the index is fetched

ASSUME ResultAssumption ==
    /\ Empty \in Inputs /\ NoText \notin Inputs
    /\ Hits \in [Inputs -> Nat] /\ {Screen, Chunk} \subseteq Nat \ {0}
    /\ MaxLoads \in Nat

VARIABLES
    field,           \* the text in the query
    shown,           \* value_: the text of the list, or NoText
    loaded,          \* index_ is there
    waiting,         \* the 250 ms timers before a fetch
    fetching,        \* the fetches under way
    loads,           \* how many there have been
    list,            \* the rendered results
    stack,           \* stack_: the results not rendered yet
    reloaded         \* the index came again after this list was made

resultVars == <<field, shown, loaded, waiting, fetching, loads, list, stack, reloaded>>
listVars == <<shown, list, stack, reloaded>>
loadVars == <<loaded, waiting, fetching, loads>>

ResultInit ==
    /\ field = Empty /\ shown = NoText
    /\ loaded = FALSE /\ waiting = 0 /\ fetching = 0 /\ loads = 0
    /\ list = <<>> /\ stack = <<>> /\ reloaded = FALSE

Results(t) == [i \in 1 .. Hits[t] |-> <<t, i>>]
First(s, n) == SubSeq(s, 1, IF n <= Len(s) THEN n ELSE Len(s))
From(s, n) == SubSeq(s, n + 1, Len(s))

-----------------------------------------------------------------------------
(* A faulty form: what the last text has left on the stack stays there.    *)
ShowOnTop(t) ==
    IF ~loaded \/ t = shown THEN UNCHANGED listVars
    ELSE /\ shown' = t
         /\ reloaded' = FALSE
         /\ IF t = Empty
              THEN list' = <<>> /\ UNCHANGED stack
              ELSE /\ list' = First(stack \o Results(t), Screen)
                   /\ stack' = From(stack \o Results(t), Screen)
(* update, on a focus or keyup event with t in the query: the list is      *)
(* cleared, its text remembered, and the panel filled.  An empty text      *)
(* leaves the stack alone.                                                 *)
Show(t) ==
    IF ~loaded \/ t = shown THEN UNCHANGED listVars
    ELSE /\ shown' = t
         /\ reloaded' = FALSE
         /\ IF t = Empty
              THEN list' = <<>> /\ UNCHANGED stack
              ELSE /\ list' = First(Results(t), Screen)
                   /\ stack' = From(Results(t), Screen)

(* The query gets the focus; without an index, it is sent for.             *)
FocusEvent ==
    /\ IF loaded THEN Show(field) /\ UNCHANGED loadVars
       ELSE /\ loads < MaxLoads
            /\ loads' = loads + 1 /\ waiting' = waiting + 1
            /\ UNCHANGED <<listVars, loaded, fetching>>
    /\ UNCHANGED field

(* A key is typed.  Without an index nothing is remembered.                *)
Type(t) ==
    /\ field' = t /\ Show(t)
    /\ UNCHANGED loadVars

(* The text changes without an event Search.Result listens to: it is       *)
(* pasted, or the form is reset.                                           *)
ChangeField(t) ==
    /\ t # field
    /\ field' = t
    /\ UNCHANGED <<listVars, loadVars>>

(* 250 ms after a focus, the index is fetched, be it there by now or not.  *)
Fetch ==
    /\ waiting > 0
    /\ waiting' = waiting - 1 /\ fetching' = fetching + 1
    /\ UNCHANGED <<field, listVars, loaded, loads>>

(* It arrives, and the stack starts anew; or the fetch fails.              *)
Load ==
    /\ fetching > 0
    /\ fetching' = fetching - 1
    /\ \/ loaded' = TRUE /\ stack' = <<>> /\ reloaded' = loaded
       \/ UNCHANGED <<loaded, stack, reloaded>>
    /\ UNCHANGED <<field, shown, list, waiting, loads>>

(* The panel is scrolled to its end.                                       *)
ScrollResults ==
    /\ loaded
    /\ list' = list \o First(stack, Chunk)
    /\ stack' = From(stack, Chunk)
    /\ UNCHANGED <<field, shown, reloaded, loadVars>>

-----------------------------------------------------------------------------
ResultNext ==
    \/ FocusEvent \/ Fetch \/ Load \/ ScrollResults
    \/ \E t \in Inputs : Type(t) \/ ChangeField(t)

ResultSpec == ResultInit /\ [][ResultNext]_resultVars

-----------------------------------------------------------------------------
(* Properties                                                              *)

(* The values the variables take.                                          *)
ResultTypeOK ==
    /\ field \in Inputs /\ shown \in Inputs \cup {NoText}
    /\ {loaded, reloaded} \subseteq BOOLEAN
    /\ {waiting, fetching, loads} \subseteq 0 .. MaxLoads
    /\ list \in Seq(Inputs \X Nat) /\ stack \in Seq(Inputs \X Nat)

(* Search.Result: the list and the stack together are the results of the   *)
(* text the list is for, in order, none twice and none of another text's,  *)
(* however keys, scrolls and loads follow each other; an index that comes  *)
(* a second time costs the ones still on the stack.                        *)
ListIsOfItsText ==
    shown \notin {NoText, Empty} =>
        IF reloaded THEN IsPrefix(list, Results(shown)) /\ stack = <<>>
                    ELSE list \o stack = Results(shown)
=============================================================================
