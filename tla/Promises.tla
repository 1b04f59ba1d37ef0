------------------------------ MODULE Promises ------------------------------
(***************************************************************************)
(* The promises of the documentation site's script                         *)
(* (docs/assets/js/application.js: promise-polyfill, which the script      *)
(* bundles for browsers without promises, on top of its setImmediate).     *)
(* The program that uses them is any: it creates promises, settles them,   *)
(* chains reactions to them and joins them in any order, and what a        *)
(* handler of its own returns or throws is any value or promise.           *)
(*                                                                         *)
(* What a program may not do here is to close a cycle of adoptions through *)
(* a second promise: the code only refuses a promise's own, and follows a  *)
(* longer cycle forever (line 401).                                        *)
(***************************************************************************)
EXTENDS Integers, Sequences, FiniteSets, SequencesExt

CONSTANTS
    Promises,        \* numbers: the promises a program may create, in order
    Joins,           \* the arrays of promises it gives to all or race
    Values,          \* what it settles them with, or throws
    SelfError,       \* the TypeError of a promise resolved with itself
    Joined,          \* the array of values of a promise made by all
    Undefined

ASSUME PromisesAssumption ==
    /\ Promises = 1 .. Cardinality(Promises)
    /\ \A es \in Joins : es \in Seq(Promises) /\ es # <<>> /\ IsInjective(es)
    /\ Values \cap {SelfError, Joined, Undefined} = {}
    /\ Promises \cap (Values \cup {SelfError, Joined, Undefined}) = {}

Settled == {"fulfilled", "rejected"}
Plain == Values \cup {SelfError, Joined, Undefined}

(* A Handler object: what runs once the promise "on" is settled, and the   *)
(* promise it settles.  A "then" may lack either function.                 *)
Reactions == [on : Promises, to : Promises, kind : {"then", "all", "race"},
              onF : BOOLEAN, onR : BOOLEAN]
Tasks == [react : Reactions, from : Promises] \cup [check : Promises]

VARIABLES
    world,         \* [promise, queue]: the promises and setImmediate's tasks
    resolver,      \* [Promises -> ...]: "open" until doResolve's flag is set
    remaining,     \* [Promises -> Nat]: the count of a promise made by all
    elements,      \* [Promises -> Seq(Promises)]: what all or race was given
    registered,    \* every reaction, in the order of the calls
    ran            \* those that have run, in their order

promiseVars == <<world, resolver, remaining, elements, registered, ran>>

PromiseInit ==
    /\ world = [promise |-> [p \in Promises |->
                  [state |-> "none", value |-> Undefined,
                   deferreds |-> <<>>, handled |-> FALSE]],
                queue |-> <<>>]
    /\ resolver = [p \in Promises |-> "none"]
    /\ remaining = [p \in Promises |-> 0]
    /\ elements = [p \in Promises |-> <<>>]
    /\ registered = <<>> /\ ran = <<>>

Created == {p \in Promises : world.promise[p].state # "none"}

(* The promise a chain of adoptions ends at.                               *)
Root(w, p) ==
    LET root[q \in Promises] ==
          IF w.promise[q].state = "adopted" THEN root[w.promise[q].value] ELSE q
    IN  root[p]

-----------------------------------------------------------------------------
(* handle, finale, resolve and reject, on the world w                      *)

(* setImmediate: registered and posted as a message; messages keep order.  *)
Immediate(w, task) == [w EXCEPT !.queue = Append(@, task)]

(* A faulty form: the reactions stay with the promise that was adopted.    *)
HandleHere(w, p, rs) ==
    IF w.promise[p].state \in {"pending", "adopted"}
      THEN [w EXCEPT !.promise[p].deferreds = @ \o rs]
      ELSE [w EXCEPT !.promise[p].handled = @ \/ rs # <<>>,
                     !.queue = @ \o [i \in DOMAIN rs |-> [react |-> rs[i], from |-> p]]]
(* handle for each of rs, which follow p.                                  *)
Handle(w, p, rs) ==
    LET q == Root(w, p) IN
    IF w.promise[q].state = "pending"
      THEN [w EXCEPT !.promise[q].deferreds = @ \o rs]
      ELSE [w EXCEPT !.promise[q].handled = @ \/ rs # <<>>,
                     !.queue = @ \o [i \in DOMAIN rs |-> [react |-> rs[i], from |-> q]]]

(* Every reaction that waited goes on, to the queue or to the promise that *)
(* was adopted; a rejection nobody waited for is looked at later.          *)
Finale(w, p) ==
    LET d == w.promise[p].deferreds
        checked == IF w.promise[p].state = "rejected" /\ d = <<>>
                     THEN Immediate(w, [check |-> p]) ELSE w
    IN  Handle([checked EXCEPT !.promise[p].deferreds = <<>>], p, d)

Become(w, p, state, value) ==
    Finale([w EXCEPT !.promise[p].state = state, !.promise[p].value = value], p)

RejectTo(w, p, x) == Become(w, p, "rejected", x)
ResolveTo(w, p, x) ==
    CASE x = p                 -> RejectTo(w, p, SelfError)
      [] x \in Promises \ {p}  -> Become(w, p, "adopted", x)
      [] OTHER                 -> Become(w, p, "fulfilled", x)

(* What p may be resolved with: no longer cycle of adoptions.              *)
Resolutions(p) == Values \cup {p} \cup {q \in Created : Root(world, q) # p}

-----------------------------------------------------------------------------
(* The program                                                             *)

Next1(p) == world.promise[p].state = "none" /\ \A q \in Promises : q < p => q \in Created
AsPending(w, p) == [w EXCEPT !.promise[p].state = "pending"]

(* new Promise(...), its functions kept for later.                         *)
Create(p) ==
    /\ Next1(p)
    /\ world' = AsPending(world, p)
    /\ resolver' = [resolver EXCEPT ![p] = "open"]
    /\ UNCHANGED <<remaining, elements, registered, ran>>

(* A faulty form: doResolve does not remember that it was called.          *)
SettleAgain(p) ==
    /\ resolver[p] # "none" /\ elements[p] = <<>>
    /\ \/ \E x \in Resolutions(p) : world' = ResolveTo(world, p, x)
       \/ \E x \in Values : world' = RejectTo(world, p, x)
    /\ resolver' = [resolver EXCEPT ![p] = "used"]
    /\ UNCHANGED <<remaining, elements, registered, ran>>
(* Its resolve or reject function is called; any later call does nothing.  *)
(* A thenable that is no promise of this kind gets functions of its own    *)
(* and the promise waits for one of them, which is a later call here.      *)
Settle(p) ==
    /\ resolver[p] = "open" /\ elements[p] = <<>>
    /\ \/ \E x \in Resolutions(p) : world' = ResolveTo(world, p, x)
       \/ \E x \in Values : world' = RejectTo(world, p, x)
    /\ resolver' = [resolver EXCEPT ![p] = "used"]
    /\ UNCHANGED <<remaining, elements, registered, ran>>

(* p.then with or without its functions, which creates the promise c.      *)
Then(p, c) ==
    /\ p \in Created /\ Next1(c)
    /\ \E onF, onR \in BOOLEAN :
         LET r == [on |-> p, to |-> c, kind |-> "then", onF |-> onF, onR |-> onR]
         IN  /\ world' = Handle(AsPending(world, c), p, <<r>>)
             /\ registered' = Append(registered, r)
    /\ UNCHANGED <<resolver, remaining, elements, ran>>

(* Calls of then, one after the other.                                     *)
HandleEach(w, rs) ==
    LET after[i \in 0 .. Len(rs)] ==
          IF i = 0 THEN w ELSE Handle(after[i - 1], rs[i].on, <<rs[i]>>)
    IN  after[Len(rs)]

(* Promise.all and Promise.race over promises: c is settled by its own     *)
(* functions, which a reaction on each element calls.                      *)
Join(c, es, kind) ==
    LET rs == [i \in DOMAIN es |-> [on |-> es[i], to |-> c, kind |-> kind,
                                    onF |-> TRUE, onR |-> TRUE]]
    IN  /\ Next1(c) /\ \A i \in DOMAIN es : es[i] \in Created
        /\ world' = HandleEach(AsPending(world, c), rs)
        /\ resolver' = [resolver EXCEPT ![c] = "open"]
        /\ elements' = [elements EXCEPT ![c] = es]
        /\ remaining' = [remaining EXCEPT ![c] = IF kind = "all" THEN Len(es) ELSE 0]
        /\ registered' = registered \o rs
        /\ UNCHANGED ran

-----------------------------------------------------------------------------
(* runIfPresent: the next task of setImmediate                             *)

(* What follows from r, run with its promise settled by the reaction's     *)
(* handler: what that returns, what it throws, or what it has no function  *)
(* for.                                                                    *)
RunThen(w, r, from) ==
    LET ok == w.promise[from].state = "fulfilled"
        x == w.promise[from].value
    IN  IF IF ok THEN r.onF ELSE r.onR
          THEN \/ \E y \in Resolutions(r.to) : world' = ResolveTo(w, r.to, y)
               \/ \E y \in Values : world' = RejectTo(w, r.to, y)
          ELSE world' = IF ok THEN ResolveTo(w, r.to, x) ELSE RejectTo(w, r.to, x)

(* An element of a join is settled: a race ends with it, all counts the    *)
(* fulfilled ones down and ends with the last, or with a rejected one.     *)
RunJoin(w, r, from) ==
    LET ok == w.promise[from].state = "fulfilled"
        x == w.promise[from].value
        calls == ~ok \/ r.kind = "race" \/ remaining[r.to] = 1
    IN  /\ remaining' = IF ok /\ r.kind = "all"
                          THEN [remaining EXCEPT ![r.to] = @ - 1] ELSE remaining
        /\ IF calls /\ resolver[r.to] = "open"
             THEN /\ world' = IF ~ok THEN RejectTo(w, r.to, x)
                              ELSE ResolveTo(w, r.to, IF r.kind = "all" THEN Joined ELSE x)
                  /\ resolver' = [resolver EXCEPT ![r.to] = "used"]
             ELSE world' = w /\ UNCHANGED resolver

RunReaction ==
    /\ world.queue # <<>>
    /\ "react" \in DOMAIN Head(world.queue)
    /\ LET t == Head(world.queue)
           w == [world EXCEPT !.queue = Tail(@)]
       IN  /\ ran' = Append(ran, t.react)
           /\ IF t.react.kind = "then"
                THEN RunThen(w, t.react, t.from) /\ UNCHANGED <<resolver, remaining>>
                ELSE RunJoin(w, t.react, t.from)
    /\ UNCHANGED <<elements, registered>>

(* The look at a rejection: at most a warning.                             *)
RunCheck ==
    /\ world.queue # <<>>
    /\ "check" \in DOMAIN Head(world.queue)
    /\ world' = [world EXCEPT !.queue = Tail(@)]
    /\ UNCHANGED <<resolver, remaining, elements, registered, ran>>

-----------------------------------------------------------------------------
PromiseNext ==
    \/ \E p \in Promises : Create(p) \/ Settle(p)
    \/ \E p, c \in Promises : Then(p, c)
    \/ \E c \in Promises, es \in Joins, kind \in {"all", "race"} : Join(c, es, kind)
    \/ RunReaction \/ RunCheck

PromiseSpec == PromiseInit /\ [][PromiseNext]_promiseVars

-----------------------------------------------------------------------------
(* Properties                                                              *)

(* The values the variables take.                                          *)
PromiseTypeOK ==
    /\ world.promise \in [Promises ->
         [state : {"none", "pending", "adopted"} \cup Settled,
          value : Plain \cup Promises,
          deferreds : Seq(Reactions), handled : BOOLEAN]]
    /\ world.queue \in Seq(Tasks)
    /\ resolver \in [Promises -> {"none", "open", "used"}]
    /\ remaining \in [Promises -> Nat]
    /\ elements \in [Promises -> Seq(Promises)]
    /\ registered \in Seq(Reactions) /\ ran \in Seq(Reactions)

Count(s, x) == Cardinality({i \in DOMAIN s : s[i] = x})

(* Each reaction runs once: it waits on the pending promise its own one    *)
(* leads to by adoptions, or is a task, or has run, and none is left with  *)
(* a promise that is settled already.  Those on one promise run in the     *)
(* order in which they were added, the ones added before it adopted        *)
(* another promise and the ones added after.                               *)
ReactionsRunOnce ==
    /\ \A i \in DOMAIN registered :
         LET r == registered[i]
             p == Root(world, r.on)
             waits == Count(world.promise[p].deferreds, r)
         IN  /\ waits > 0 => world.promise[p].state = "pending"
             /\ waits
                  + Cardinality({j \in DOMAIN world.queue :
                                   /\ "react" \in DOMAIN world.queue[j]
                                   /\ world.queue[j].react = r})
                  + Count(ran, r) = 1
    /\ \A i, j \in DOMAIN registered :
         i < j /\ registered[i].on = registered[j].on =>
           \A n \in DOMAIN ran :
             ran[n] = registered[j] => \E m \in 1 .. (n - 1) : ran[m] = registered[i]

(* A promise settles once: nothing that is called twice or comes late      *)
(* changes what it holds, nor what it adopted.                             *)
SettledForGood ==
    [][\A p \in Promises : world.promise[p].state \in Settled \cup {"adopted"} =>
         /\ world'.promise[p].state = world.promise[p].state
         /\ world'.promise[p].value = world.promise[p].value]_promiseVars
=============================================================================
