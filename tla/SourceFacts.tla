----------------------------- MODULE SourceFacts -----------------------------
(***************************************************************************)
(* The repository facts (stars and forks) in the header of the             *)
(* documentation site (docs/assets/js/application.js: Source.Adapter,      *)
(* js-cookie and Source.Repository).  A page takes them from a cookie of   *)
(* 15 minutes or pages through the owner's repositories at GitHub.  An     *)
(* answer may be long on its way, while the list and the counts change.    *)
(* Pages of one reader share the cookie.                                   *)
(***************************************************************************)
EXTENDS Integers, Sequences, FiniteSets, SequencesExt

CONSTANTS
    Views,           \* the views of the page, in the reader's windows
    Repos, Name,     \* the repositories of the owner, and the one linked to
    PerPage,         \* per_page=30
    Life,            \* 15 minutes, in ticks of the clock
    LastTick,        \* a bound on the clock
    NoCookie

ASSUME FactsAssumption ==
    /\ IsFiniteSet(Repos) /\ Name \in Repos
    /\ PerPage \in Nat \ {0} /\ {Life, LastTick} \subseteq Nat

VARIABLES
    clock,
    listed,          \* GitHub: the owner's repositories, in order
    stars,           \* GitHub: the stars of the one linked to
    cookie,          \* [facts, expires] or NoCookie
    view,            \* [Views -> [step, page, since, repos, count, given, facts]]:
                     \* opened at since; repos, count were given at given
    \* what the property needs to remember
    starsAt,         \* the stars at each tick so far
    delisted,        \* a repository has gone from the list
    kept             \* the answers cookies were set to: [facts, given, set]

factsVars == <<clock, listed, stars, cookie, view, starsAt, delisted, kept>>
github == <<listed, stars, starsAt, delisted>>

(* Facts are <<>>, or the number of stars.                                 *)
FactsInit ==
    /\ clock = 0
    /\ listed \in SetToSeqs(Repos)
    /\ stars = 0
    /\ cookie = NoCookie
    /\ view = [v \in Views |-> [step |-> "new", page |-> 0, since |-> 0, repos |-> <<>>,
                                count |-> 0, given |-> 0, facts |-> <<>>]]
    /\ starsAt = <<{0}>> /\ delisted = FALSE /\ kept = {}

-----------------------------------------------------------------------------
(* GitHub, and time                                                        *)

(* Pages count from 1; page 0 is page 1.                                   *)
Page(n) == LET k == IF n = 0 THEN 0 ELSE n - 1
           IN  SubSeq(listed, k * PerPage + 1,
                      IF (k + 1) * PerPage <= Len(listed) THEN (k + 1) * PerPage
                                                          ELSE Len(listed))

GainStar ==
    /\ clock < LastTick          \* a bound: no more stars than ticks
    /\ stars < clock
    /\ stars' = stars + 1
    /\ starsAt' = [starsAt EXCEPT ![clock + 1] = @ \cup {stars + 1}]
    /\ UNCHANGED <<clock, listed, cookie, view, delisted, kept>>

Delist(i) ==
    /\ listed' = RemoveAt(listed, i)
    /\ delisted' = TRUE
    /\ UNCHANGED <<clock, stars, cookie, view, starsAt, kept>>

Tick ==
    /\ clock < LastTick
    /\ clock' = clock + 1
    /\ starsAt' = Append(starsAt, {stars})
    /\ UNCHANGED <<listed, stars, cookie, view, delisted, kept>>

(* GitHub answers the request of v with what it holds now.                 *)
Serve(v) ==
    /\ view[v].step = "asked"
    /\ view' = [view EXCEPT ![v].step = "served", ![v].repos = Page(view[v].page),
                            ![v].count = stars, ![v].given = clock]
    /\ UNCHANGED <<clock, cookie, kept, github>>

-----------------------------------------------------------------------------
(* js-cookie                                                               *)

(* A faulty form: a cookie of the session.                                 *)
SetCookieForever(f) == cookie' = [facts |-> f, expires |-> LastTick + 1]
SetCookie(f) == cookie' = [facts |-> f, expires |-> clock + Life]

HasCookie == cookie # NoCookie /\ clock < cookie.expires

-----------------------------------------------------------------------------
(* A view                                                                  *)

(* Source.Repository: the facts, if any, and mdState "done".               *)
Initialize(v) == view' = [view EXCEPT ![v].step = "done"]

(* fetch: from the cookie, or the first request.                           *)
Visit(v) ==
    /\ view[v].step = "new"
    /\ view' = [view EXCEPT ![v].since = clock,
                            ![v].step = IF HasCookie THEN "done" ELSE "asked",
                            ![v].facts = IF HasCookie THEN cookie.facts ELSE <<>>]
    /\ UNCHANGED <<clock, cookie, kept, github>>

(* fetch_: the body of an answer has arrived.  The next page is asked for  *)
(* if this one is full and does not have the name; a name on none has no   *)
(* facts.  With them the request is over, and its page and body are gone.  *)
Answer(v) ==
    LET r == view[v].repos IN
    /\ view[v].step = "served"
    /\ IF Name \notin ToSet(r) /\ Len(r) = PerPage
         THEN view' = [view EXCEPT ![v].step = "asked", ![v].page = @ + 1]
         ELSE view' = [view EXCEPT ![v].step = "found", ![v].page = 0, ![v].repos = <<>>, ![v].count = 0,
                                   ![v].facts = IF Name \in ToSet(r) THEN <<view[v].count>> ELSE <<>>]
    /\ UNCHANGED <<clock, cookie, kept, github>>

(* The reactions of fetch set the cookie, and the facts are shown.         *)
Keep(v) ==
    /\ view[v].step = "found"
    /\ SetCookie(view[v].facts)
    /\ kept' = kept \cup {[facts |-> view[v].facts, given |-> view[v].given, set |-> clock]}
    /\ Initialize(v)
    /\ UNCHANGED <<clock, github>>

(* The request fails, or what it brings is no list: nobody handles that,   *)
(* and the promise fetch has returned is never settled.                    *)
Stall(v) ==
    /\ view[v].step \in {"asked", "served"}
    /\ view' = [view EXCEPT ![v].step = "stalled"]
    /\ UNCHANGED <<clock, cookie, kept, github>>

-----------------------------------------------------------------------------
FactsNext ==
    \/ GainStar \/ Tick \/ \E i \in DOMAIN listed : Delist(i)
    \/ \E v \in Views : Visit(v) \/ Serve(v) \/ Answer(v) \/ Keep(v) \/ Stall(v)

FactsSpec == FactsInit /\ [][FactsNext]_factsVars

-----------------------------------------------------------------------------
(* Properties                                                              *)

(* The values the variables take.                                          *)
FactsTypeOK ==
    /\ clock \in 0 .. LastTick /\ stars \in 0 .. LastTick
    /\ listed \in Seq(Repos) /\ Len(starsAt) = clock + 1
    /\ cookie = NoCookie \/ cookie \in [facts : Seq(Nat), expires : Nat]
    /\ view \in [Views -> [step : {"new", "asked", "served", "found", "done", "stalled"},
                           page : Nat, since : Nat, repos : Seq(Repos), count : Nat,
                           given : Nat, facts : Seq(Nat)]]
    /\ kept \subseteq [facts : Seq(Nat), given : Nat, set : Nat]

(* What a view shows is an answer that was true when GitHub gave it: one   *)
(* given after the view was opened, or one that some window had received   *)
(* less than Life before.  So the cookie adds Life to the age of an answer *)
(* and no more, however late it came and however many windows share it.    *)
(* And as long as no repository goes, the name is found on whatever page   *)
(* it is.                                                                  *)
FactsAreTrue ==
    \A v \in Views : view[v].step = "done" =>
        /\ view[v].facts # <<>> =>
             \E k \in kept : /\ k.facts = view[v].facts /\ k.facts[1] \in starsAt[k.given + 1]
                             /\ k.given >= view[v].since \/ view[v].since < k.set + Life
        /\ view[v].facts = <<>> => delisted
=============================================================================
