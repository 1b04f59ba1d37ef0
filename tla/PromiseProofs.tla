---------------------------- MODULE PromiseProofs ----------------------------
(***************************************************************************)
(* The promises of the documentation site's script: proofs that a promise  *)
(* settles once, and that each reaction to one runs once and in its turn,  *)
(* whatever promises adopt, join and settle each other in between.         *)
(***************************************************************************)
EXTENDS Promises, SequenceTheorems, WellFoundedInduction, FiniteSetTheorems, TLAPS

-----------------------------------------------------------------------------
(* The invariant                                                           *)

Cells == [state : {"none", "pending", "adopted"} \cup Settled,
          value : Plain \cup Promises,
          deferreds : Seq(Reactions), handled : BOOLEAN]
Worlds == [promise : [Promises -> Cells], queue : Seq(Tasks)]

(* Adoptions lead from created promises to created ones, and never in a    *)
(* cycle.  f is where they lead.                                           *)
Leads(w, f) ==
    f = [p \in Promises |->
           IF w.promise[p].state = "adopted" THEN f[w.promise[p].value] ELSE p]
Acyclic(w) ==
    \A s \in SUBSET Promises : s # {} =>
      \E p \in s : ~(w.promise[p].state = "adopted" /\ w.promise[p].value \in s)
Adoptions(w) ==
    /\ Acyclic(w) /\ \E f : Leads(w, f)
    /\ \A p \in Promises : w.promise[p].state = "adopted" =>
         /\ w.promise[p].value \in Promises
         /\ w.promise[w.promise[p].value].state # "none"
    /\ \A p \in Promises : w.promise[p].state \in Settled => w.promise[p].value \in Plain

(* Where a reaction r is: it has run, is a task, or waits on q.            *)
At(s, n, r) == n \in DOMAIN s /\ s[n] = r
Runs(rn, r) == \E n \in DOMAIN rn : rn[n] = r
IsTask(w, n, r) ==
    n \in DOMAIN w.queue /\ "react" \in DOMAIN w.queue[n] /\ w.queue[n].react = r
Queues(w, r) == \E n \in DOMAIN w.queue : IsTask(w, n, r)
IsWaiting(w, q, n, r) == At(w.promise[q].deferreds, n, r)
Waits(w, q, r) == Runs(w.promise[q].deferreds, r)
Knows(reg, r) == \E i \in DOMAIN reg : reg[i] = r

(* The reactions h are on their way from one place to the next; between    *)
(* two steps there are none.  What waits, waits on the pending promise its *)
(* own one leads to; what is queued or has run follows a settled one.      *)
Right(w, reg, rn, h, r) ==
    /\ Knows(reg, r) <=> \/ \E q \in Promises : Waits(w, q, r)
                        \/ Queues(w, r) \/ Runs(rn, r) \/ Runs(h, r)
    /\ Knows(reg, r) => w.promise[r.on].state # "none"
    /\ \A q \in Promises : Waits(w, q, r) =>
         Root(w, r.on) = q /\ w.promise[q].state = "pending"
    /\ Queues(w, r) \/ Runs(rn, r) => w.promise[Root(w, r.on)].state \in Settled
    /\ ~(Queues(w, r) /\ Runs(rn, r))
    /\ Runs(h, r) => ~Queues(w, r) /\ ~Runs(rn, r) /\ \A q \in Promises : ~Waits(w, q, r)
InPlace(w, reg, rn, h) == \A r \in Reactions : Right(w, reg, rn, h, r)
FromSettled(w) ==
    \A n \in DOMAIN w.queue : "react" \in DOMAIN w.queue[n] =>
      w.promise[w.queue[n].from].state \in Settled

(* No reaction is twice in one place.                                      *)
OnceIn(s) == \A m, n \in DOMAIN s : s[m] = s[n] => m = n
OnceEach(w, rn, h) ==
    /\ \A q \in Promises : OnceIn(w.promise[q].deferreds)
    /\ \A r \in Reactions : \A m, n : IsTask(w, m, r) /\ IsTask(w, n, r) => m = n
    /\ OnceIn(rn) /\ OnceIn(h)

(* A reaction added before another one to the same promise is before it in *)
(* the line of what has run, what is queued and what waits.                *)
OlderFirst(w, rn, h, r, s) ==
    /\ \A n \in DOMAIN rn : rn[n] = s => \E m \in 1 .. (n - 1) : rn[m] = r
    /\ \A n : IsTask(w, n, s) => Runs(rn, r) \/ \E m \in 1 .. (n - 1) : IsTask(w, m, r)
    /\ \A q \in Promises : \A n : IsWaiting(w, q, n, s) =>
         \E m \in 1 .. (n - 1) : IsWaiting(w, q, m, r)
    /\ \A n \in DOMAIN h : h[n] = s =>
         \/ Runs(rn, r) \/ Queues(w, r) \/ \E q \in Promises : Waits(w, q, r)
         \/ \E m \in 1 .. (n - 1) : h[m] = r
InTurn(w, reg, rn, h) ==
    \A i, j \in DOMAIN reg : i < j /\ reg[i].on = reg[j].on =>
      OlderFirst(w, rn, h, reg[i], reg[j])

Held(w, reg, rn, h) ==
    /\ InPlace(w, reg, rn, h) /\ FromSettled(w)
    /\ OnceEach(w, rn, h) /\ InTurn(w, reg, rn, h)

(* Who may settle a promise: its functions, until they have, or the one    *)
(* reaction it was made for, until that has run.                           *)
Owed ==
    /\ \A p \in Promises :
         /\ resolver[p] = "open" => world.promise[p].state = "pending"
         /\ world.promise[p].state = "none" => resolver[p] = "none"
    /\ \A i \in DOMAIN registered : LET r == registered[i] IN
         /\ world.promise[r.to].state # "none"
         /\ r.kind = "then" =>
              /\ resolver[r.to] = "none"
              /\ Runs(ran, r) \/ world.promise[r.to].state = "pending"
              /\ \A j \in DOMAIN registered : j # i => registered[j].to # r.to

(* A promise made by all still counts each of its elements whose reaction  *)
(* has not run.                                                            *)
Element(c, n) ==
    [on |-> elements[c][n], to |-> c, kind |-> "all", onF |-> TRUE, onR |-> TRUE]
Missing(c) == {n \in DOMAIN elements[c] : ~Runs(ran, Element(c, n))}
Counts(r) == r.kind = "all" =>
    /\ \E n \in DOMAIN elements[r.to] : r = Element(r.to, n)
    /\ Cardinality(Missing(r.to)) <= remaining[r.to]
Counted == \A i \in DOMAIN registered : Counts(registered[i])

PromiseInv ==
    /\ PromiseTypeOK /\ world \in Worlds
    /\ Adoptions(world) /\ Held(world, registered, ran, <<>>) /\ Owed /\ Counted

-----------------------------------------------------------------------------
(* Where adoptions lead                                                    *)

LEMMA LeadsOnce ==
    ASSUME NEW w, Acyclic(w), NEW f, NEW g, Leads(w, f), Leads(w, g),
           \A p \in Promises : w.promise[p].state = "adopted" =>
             w.promise[p].value \in Promises
    PROVE  f = g
<1> DEFINE s == {p \in Promises : f[p] # g[p]}
<1>1. ASSUME NEW p \in s
      PROVE  w.promise[p].state = "adopted"
  <2>1. CASE w.promise[p].state # "adopted"
    <3>1. f[p] = p
      BY <2>1 DEF Leads
    <3>2. g[p] = p
      BY <2>1 DEF Leads
    <3> QED  BY <3>1, <3>2
  <2> QED  BY <2>1
<1>2. \A p \in s : w.promise[p].value \in s
  <2> SUFFICES ASSUME NEW p \in s PROVE w.promise[p].value \in s
    OBVIOUS
  <2>1. f[p] = f[w.promise[p].value] /\ g[p] = g[w.promise[p].value]
    BY <1>1 DEF Leads
  <2>2. w.promise[p].value \in Promises
    BY <1>1
  <2> QED  BY <2>1, <2>2
<1>3. s = {}
  BY <1>1, <1>2 DEF Acyclic
<1>4. f = [p \in Promises |-> f[p]] /\ g = [p \in Promises |-> g[p]]
  BY DEF Leads
<1> QED  BY <1>3, <1>4

LEMMA RootLeads ==
    ASSUME NEW w, Adoptions(w)
    PROVE  \A f : Leads(w, f) => \A p \in Promises : Root(w, p) = f[p]
<1> DEFINE root == CHOOSE f : Leads(w, f)
<1>1. Leads(w, root)
  BY DEF Adoptions
<1>2. \A p \in Promises : Root(w, p) = root[p]
  BY DEF Root, Leads
<1> QED  BY <1>1, <1>2, LeadsOnce DEF Adoptions

LEMMA RootFacts ==
    ASSUME NEW w, Adoptions(w)
    PROVE  \A p \in Promises :
             /\ Root(w, p) \in Promises /\ w.promise[Root(w, p)].state # "adopted"
             /\ Root(w, p) = IF w.promise[p].state = "adopted"
                               THEN Root(w, w.promise[p].value) ELSE p
             /\ w.promise[p].state # "none" => w.promise[Root(w, p)].state # "none"
<1>1. PICK f : Leads(w, f)
  BY DEF Adoptions
<1>2. \A p \in Promises : Root(w, p) = f[p]
  BY <1>1, RootLeads
<1>3. \A p \in Promises :
        f[p] = IF w.promise[p].state = "adopted" THEN f[w.promise[p].value] ELSE p
  BY <1>1 DEF Leads
<1> DEFINE ends == {p \in Promises : f[p] \in Promises /\ w.promise[f[p]].state # "adopted"
                      /\ (w.promise[p].state # "none" => w.promise[f[p]].state # "none")}
           s == Promises \ ends
<1>4. ASSUME NEW p \in s PROVE w.promise[p].state = "adopted" /\ w.promise[p].value \in s
  <2>1. w.promise[p].state = "adopted"
    BY <1>3
  <2>2. /\ w.promise[p].value \in Promises
        /\ w.promise[w.promise[p].value].state # "none"
        /\ f[p] = f[w.promise[p].value]
    BY <1>3, <2>1 DEF Adoptions
  <2> QED  BY <2>1, <2>2
<1>5. s = {}
  BY <1>4 DEF Adoptions, Acyclic
<1>6. ASSUME NEW p \in Promises, w.promise[p].state = "adopted"
      PROVE  w.promise[p].value \in Promises
  BY <1>6 DEF Adoptions
<1> QED  BY <1>2, <1>3, <1>5, <1>6

(* What a promise leads to depends on who adopted whom only.               *)
LEMMA SameAdoptions ==
    ASSUME NEW w, NEW v, Adoptions(w),
           \A p \in Promises :
             /\ v.promise[p].state = "adopted" <=> w.promise[p].state = "adopted"
             /\ w.promise[p].state # "none" => v.promise[p].state # "none"
             /\ v.promise[p].state = "adopted" => v.promise[p].value = w.promise[p].value
             /\ v.promise[p].state \in Settled => v.promise[p].value \in Plain
    PROVE  Adoptions(v) /\ \A p \in Promises : Root(v, p) = Root(w, p)
<1>1. PICK f : Leads(w, f)
  BY DEF Adoptions
<1>2. Leads(v, f)
  BY <1>1 DEF Leads
<1>3. Acyclic(v)
  BY DEF Acyclic, Adoptions
<1>4. Adoptions(v)
  BY <1>2, <1>3 DEF Adoptions
<1> QED  BY <1>1, <1>2, <1>4, RootLeads

(* A promise p that is not settled adopts x, which does not lead to it.    *)
Adopts(w, v, p, x) ==
    /\ w.promise[p].state = "pending" /\ w.promise[x].state # "none" /\ Root(w, x) # p
    /\ v.promise[p].state = "adopted" /\ v.promise[p].value = x
    /\ \A q \in Promises \ {p} : /\ v.promise[q].state = w.promise[q].state
                                 /\ v.promise[q].value = w.promise[q].value

LEMMA NewAdoption ==
    ASSUME NEW w, NEW v, Adoptions(w), NEW p \in Promises, NEW x \in Promises,
           Adopts(w, v, p, x)
    PROVE  /\ Adoptions(v)
           /\ \A q \in Promises :
                Root(v, q) = IF Root(w, q) = p THEN Root(w, x) ELSE Root(w, q)
<1> USE DEF Adopts
<1>1. PICK f : Leads(w, f)
  BY DEF Adoptions
<1>2. \A q \in Promises : Root(w, q) = f[q]
  BY <1>1, RootLeads
<1>3. \A q \in Promises :
        f[q] = IF w.promise[q].state = "adopted" THEN f[w.promise[q].value] ELSE q
  BY <1>1 DEF Leads
<1>4. \A q \in Promises : w.promise[q].state = "adopted" => w.promise[q].value \in Promises
  BY DEF Adoptions
<1> DEFINE g == [q \in Promises |-> IF f[q] = p THEN f[x] ELSE f[q]]
<1>5. f[p] = p /\ f[x] # p
  BY <1>2, <1>3
<1>6. Leads(v, g)
  <2>1. ASSUME NEW q \in Promises
        PROVE  g[q] = IF v.promise[q].state = "adopted" THEN g[v.promise[q].value] ELSE q
    <3>1. CASE q = p
      BY <1>5, <3>1
    <3>2. CASE q # p
      <4>1. CASE w.promise[q].state = "adopted"
        BY <1>3, <1>4, <3>2, <4>1
      <4>2. CASE w.promise[q].state # "adopted"
        BY <1>3, <3>2, <4>2
      <4> QED  BY <4>1, <4>2
    <3> QED  BY <3>1, <3>2
  <2> QED  BY <2>1 DEF Leads
<1>7. Acyclic(v)
  <2> SUFFICES ASSUME NEW s \in SUBSET Promises, s # {},
                      \A q \in s : v.promise[q].state = "adopted" /\ v.promise[q].value \in s
               PROVE  FALSE
    BY DEF Acyclic
  <2>1. CASE p \notin s
    BY <2>1 DEF Adoptions, Acyclic
  <2>2. CASE p \in s
    <3> DEFINE t == {q \in s : f[q] = f[x]}
    <3>1. x \in t /\ p \notin t
      BY <1>5, <2>2
    <3>2. \A q \in t : w.promise[q].state = "adopted" /\ w.promise[q].value \in t
      BY <1>3, <1>4, <3>1
    <3> QED  BY <3>1, <3>2 DEF Adoptions, Acyclic
  <2> QED  BY <2>1, <2>2
<1>8. Adoptions(v)
  <2>1. \A q \in Promises : v.promise[q].state = "adopted" =>
          /\ v.promise[q].value \in Promises
          /\ v.promise[v.promise[q].value].state # "none"
    <3> SUFFICES ASSUME NEW q \in Promises, v.promise[q].state = "adopted"
                 PROVE  /\ v.promise[q].value \in Promises
                        /\ v.promise[v.promise[q].value].state # "none"
      OBVIOUS
    <3>1. CASE q = p
      <4>1. v.promise[x].state # "none"
        BY <1>5
      <4> QED  BY <3>1, <4>1
    <3>2. CASE q # p
      <4>1. w.promise[q].state = "adopted" /\ v.promise[q].value = w.promise[q].value
        BY <3>2
      <4>2. PICK y \in Promises : y = w.promise[q].value /\ w.promise[y].state # "none"
        BY <4>1 DEF Adoptions
      <4>3. v.promise[y].state # "none"
        BY <4>2
      <4> QED  BY <4>1, <4>2, <4>3
    <3> QED  BY <3>1, <3>2
  <2>2. \A q \in Promises : v.promise[q].state \in Settled => v.promise[q].value \in Plain
    BY DEF Adoptions, Settled
  <2> QED  BY <1>6, <1>7, <2>1, <2>2 DEF Adoptions
<1>9. \A q \in Promises : Root(v, q) = g[q]
  BY <1>6, <1>8, RootLeads
<1> QED  BY <1>2, <1>8, <1>9

-----------------------------------------------------------------------------
(* What handle and finale do                                               *)

TasksOf(rs, q) == [i \in DOMAIN rs |-> [react |-> rs[i], from |-> q]]

LEMMA TasksOfReactions ==
    ASSUME NEW rs \in Seq(Reactions), NEW q \in Promises
    PROVE  /\ TasksOf(rs, q) \in Seq(Tasks) /\ Len(TasksOf(rs, q)) = Len(rs)
           /\ \A i \in 1 .. Len(rs) : /\ "react" \in DOMAIN TasksOf(rs, q)[i]
                                      /\ TasksOf(rs, q)[i].react = rs[i]
                                      /\ TasksOf(rs, q)[i].from = q
<1>1. \A i \in 1 .. Len(rs) : rs[i] \in Reactions
  BY ElementOfSeq
<1>2. TasksOf(rs, q) \in [1 .. Len(rs) -> Tasks]
  BY <1>1 DEF TasksOf, Tasks
<1> QED  BY <1>1, <1>2, SeqDef DEF TasksOf

LEMMA TaskParts ==
    ASSUME NEW x \in Tasks, "react" \in DOMAIN x
    PROVE  x.react \in Reactions /\ x.from \in Promises
  BY DEF Tasks

LEMMA JoinedSeqs ==
    ASSUME NEW S, NEW a \in Seq(S), NEW b \in Seq(S)
    PROVE  /\ a \o b \in Seq(S) /\ Len(a \o b) = Len(a) + Len(b)
           /\ \A n \in 1 .. Len(a) : (a \o b)[n] = a[n]
           /\ \A n \in 1 .. Len(b) : (a \o b)[Len(a) + n] = b[n]
           /\ \A n \in 1 .. Len(a \o b) :
                n \in 1 .. Len(a) \/ \E m \in 1 .. Len(b) : n = Len(a) + m
<1>1. /\ a \o b \in Seq(S) /\ Len(a \o b) = Len(a) + Len(b)
      /\ Len(a) \in Nat /\ Len(b) \in Nat
  BY ConcatProperties, LenProperties
<1>2. \A n \in 1 .. Len(a) + Len(b) :
        (a \o b)[n] = IF n <= Len(a) THEN a[n] ELSE b[n - Len(a)]
  BY ConcatProperties
<1>3. ASSUME NEW n \in 1 .. Len(b) PROVE (a \o b)[Len(a) + n] = b[n]
  <2>1. Len(a) + n \in 1 .. Len(a) + Len(b) /\ ~(Len(a) + n <= Len(a))
        /\ Len(a) + n - Len(a) = n
    BY <1>1
  <2> QED  BY <1>2, <2>1
<1>4. ASSUME NEW n \in 1 .. Len(a \o b), n \notin 1 .. Len(a)
      PROVE  \E m \in 1 .. Len(b) : n = Len(a) + m
  <2>1. n - Len(a) \in 1 .. Len(b) /\ n = Len(a) + (n - Len(a))
    BY <1>1, <1>4
  <2> QED  BY <2>1
<1> QED  BY <1>1, <1>2, <1>3, <1>4

LEMMA InJoined ==
    ASSUME NEW S, NEW a \in Seq(S), NEW b \in Seq(S), NEW n, NEW r
    PROVE  At(a \o b, n, r) <=> At(a, n, r) \/ \E m \in DOMAIN b : n = Len(a) + m /\ b[m] = r
<1>1. /\ Len(a) \in Nat /\ Len(b) \in Nat /\ Len(a \o b) = Len(a) + Len(b)
      /\ DOMAIN a = 1 .. Len(a) /\ DOMAIN b = 1 .. Len(b)
      /\ DOMAIN (a \o b) = 1 .. Len(a \o b)
  BY JoinedSeqs, LenProperties
<1>2. /\ \A i \in 1 .. Len(a) : (a \o b)[i] = a[i] /\ i \in 1 .. Len(a \o b)
      /\ \A i \in 1 .. Len(b) : (a \o b)[Len(a) + i] = b[i] /\ Len(a) + i \in 1 .. Len(a \o b)
  BY <1>1, JoinedSeqs
<1>3. \A i \in 1 .. Len(a \o b) :
        i \in 1 .. Len(a) \/ \E m \in 1 .. Len(b) : i = Len(a) + m
  BY JoinedSeqs
<1>4. ASSUME At(a \o b, n, r)
      PROVE  At(a, n, r) \/ \E m \in DOMAIN b : n = Len(a) + m /\ b[m] = r
  <2>1. n \in 1 .. Len(a \o b) /\ (a \o b)[n] = r
    BY <1>1, <1>4 DEF At
  <2>2. CASE n \in 1 .. Len(a)
    BY <1>1, <1>2, <2>1, <2>2 DEF At
  <2>3. CASE n \notin 1 .. Len(a)
    <3>1. PICK m \in 1 .. Len(b) : n = Len(a) + m
      BY <1>3, <2>1, <2>3
    <3> QED  BY <1>1, <1>2, <2>1, <3>1
  <2> QED  BY <2>2, <2>3
<1>5. At(a, n, r) => At(a \o b, n, r)
  BY <1>1, <1>2 DEF At
<1>6. ASSUME NEW m \in DOMAIN b, n = Len(a) + m, b[m] = r PROVE At(a \o b, n, r)
  BY <1>1, <1>2, <1>6 DEF At
<1> QED  BY <1>4, <1>5, <1>6

LEMMA OnceJoined ==
    ASSUME NEW S, NEW a \in Seq(S), NEW b \in Seq(S), OnceIn(a), OnceIn(b),
           \A r : ~(Runs(a, r) /\ Runs(b, r))
    PROVE  OnceIn(a \o b)
<1> SUFFICES ASSUME NEW m, NEW n, NEW r, At(a \o b, m, r), At(a \o b, n, r) PROVE m = n
  BY DEF OnceIn, At
<1>1. \A i : At(a \o b, i, r) =>
        At(a, i, r) \/ \E k \in DOMAIN b : i = Len(a) + k /\ b[k] = r
  BY InJoined
<1>2. (\E i : At(a, i, r)) => ~Runs(b, r)
  BY DEF At, Runs
<1>3. \A i, j : At(a, i, r) /\ At(a, j, r) => i = j
  BY DEF At, OnceIn
<1>4. \A i, j \in DOMAIN b : b[i] = r /\ b[j] = r => i = j
  BY DEF OnceIn
<1>5. (\E k \in DOMAIN b : b[k] = r) => Runs(b, r)
  BY DEF Runs
<1> QED  BY <1>1, <1>2, <1>3, <1>4, <1>5

LEMMA WorldParts ==
    ASSUME NEW w \in Worlds
    PROVE  /\ w.queue \in Seq(Tasks)
           /\ \A p \in Promises :
                /\ w.promise[p].state \in {"none", "pending", "adopted"} \cup Settled
                /\ w.promise[p].value \in Plain \cup Promises
                /\ w.promise[p].deferreds \in Seq(Reactions)
                /\ w.promise[p].handled \in BOOLEAN
  BY DEF Worlds, Cells

LEMMA CellChanges ==
    ASSUME NEW c \in Cells
    PROVE  /\ \A d \in Seq(Reactions) : LET e == [c EXCEPT !.deferreds = d] IN
                e \in Cells /\ e.state = c.state /\ e.value = c.value /\ e.deferreds = d
           /\ \A b \in BOOLEAN : LET e == [c EXCEPT !.handled = b] IN
                /\ e \in Cells /\ e.state = c.state /\ e.value = c.value
                /\ e.deferreds = c.deferreds
<1>1. ASSUME NEW d \in Seq(Reactions)
      PROVE  LET e == [c EXCEPT !.deferreds = d] IN
               e \in Cells /\ e.state = c.state /\ e.value = c.value /\ e.deferreds = d
  BY DEF Cells
<1>2. ASSUME NEW b \in BOOLEAN
      PROVE  LET e == [c EXCEPT !.handled = b] IN
               /\ e \in Cells /\ e.state = c.state /\ e.value = c.value
               /\ e.deferreds = c.deferreds
  BY DEF Cells
<1> QED  BY <1>1, <1>2

LEMMA CellPut ==
    ASSUME NEW w \in Worlds, NEW p \in Promises, NEW c \in Cells
    PROVE  LET v == [w EXCEPT !.promise = [w.promise EXCEPT ![p] = c]] IN
           /\ v \in Worlds /\ v.queue = w.queue /\ v.promise[p] = c
           /\ \A y \in Promises \ {p} : v.promise[y] = w.promise[y]
<1> DEFINE cells == [w.promise EXCEPT ![p] = c]
           v == [w EXCEPT !.promise = cells]
<1>1. w.promise \in [Promises -> Cells] /\ w.queue \in Seq(Tasks)
  BY DEF Worlds
<1>2. /\ cells \in [Promises -> Cells] /\ cells[p] = c
      /\ \A y \in Promises \ {p} : cells[y] = w.promise[y]
  BY <1>1
<1> HIDE DEF cells
<1>3. v \in Worlds /\ v.queue = w.queue /\ v.promise = cells
  BY <1>1, <1>2 DEF Worlds
<1> QED  BY <1>2, <1>3 DEF cells

LEMMA CellSet ==
    ASSUME NEW c \in Cells
    PROVE  /\ \A s \in {"none", "pending", "adopted"} \cup Settled :
                LET e == [c EXCEPT !.state = s] IN
                /\ e \in Cells /\ e.state = s /\ e.value = c.value /\ e.deferreds = c.deferreds
           /\ \A x \in Plain \cup Promises : LET e == [c EXCEPT !.value = x] IN
                /\ e \in Cells /\ e.state = c.state /\ e.value = x /\ e.deferreds = c.deferreds
<1>1. ASSUME NEW s \in {"none", "pending", "adopted"} \cup Settled
      PROVE  LET e == [c EXCEPT !.state = s] IN
                /\ e \in Cells /\ e.state = s /\ e.value = c.value /\ e.deferreds = c.deferreds
  BY DEF Cells
<1>2. ASSUME NEW x \in Plain \cup Promises
      PROVE  LET e == [c EXCEPT !.value = x] IN
                /\ e \in Cells /\ e.state = c.state /\ e.value = x /\ e.deferreds = c.deferreds
  BY DEF Cells
<1> QED  BY <1>1, <1>2

(* What handle for each of rs does where w leads to q: they wait there, or  *)
(* are queued.                                                             *)
Handled(w, v, q, rs) ==
    /\ v \in Worlds /\ Adoptions(v) /\ q \in Promises
    /\ \A y \in Promises : /\ v.promise[y].state = w.promise[y].state
                           /\ v.promise[y].value = w.promise[y].value
                           /\ Root(v, y) = Root(w, y)
    /\ w.promise[q].state = "pending" =>
         /\ v.queue = w.queue
         /\ v.promise[q].deferreds = w.promise[q].deferreds \o rs
         /\ \A y \in Promises \ {q} :
              v.promise[y].deferreds = w.promise[y].deferreds
    /\ w.promise[q].state # "pending" =>
         /\ w.promise[q].state \in Settled
         /\ v.queue = w.queue \o TasksOf(rs, q)
         /\ \A y \in Promises : v.promise[y].deferreds = w.promise[y].deferreds

LEMMA HandleEffect ==
    ASSUME NEW w \in Worlds, Adoptions(w), NEW p \in Promises,
           w.promise[p].state # "none", NEW rs \in Seq(Reactions),
           NEW v, v = Handle(w, p, rs), NEW q, q = Root(w, p)
    PROVE  Handled(w, v, q, rs)
<1>1. q \in Promises /\ w.promise[q].state # "adopted" /\ w.promise[q].state # "none"
  BY RootFacts
<1>2. /\ w.queue \in Seq(Tasks) /\ w.promise \in [Promises -> Cells]
      /\ w.promise[q].deferreds \in Seq(Reactions)
  BY <1>1, WorldParts DEF Worlds
<1>3. w = [promise |-> w.promise, queue |-> w.queue]
  BY DEF Worlds
<1>4. CASE w.promise[q].state = "pending"
  <2> DEFINE cell == [w.promise[q] EXCEPT !.deferreds = w.promise[q].deferreds \o rs]
  <2>1. v = [w EXCEPT !.promise = [w.promise EXCEPT ![q] = cell]]
    BY <1>1, <1>4 DEF Handle
  <2>2. w.promise[q].deferreds \o rs \in Seq(Reactions)
    BY <1>2, ConcatProperties
  <2>3. /\ cell \in Cells /\ cell.state = w.promise[q].state
        /\ cell.value = w.promise[q].value /\ cell.deferreds = w.promise[q].deferreds \o rs
    <3>1. PICK c \in Cells : c = w.promise[q]
      BY <1>1, <1>2
    <3> DEFINE e == [c EXCEPT !.deferreds = w.promise[q].deferreds \o rs]
    <3>2. /\ e \in Cells /\ e.state = c.state /\ e.value = c.value
          /\ e.deferreds = w.promise[q].deferreds \o rs
      BY <2>2, CellChanges
    <3>3. cell = e
      BY <3>1
    <3> HIDE DEF cell, e
    <3> QED  BY <3>1, <3>2, <3>3
  <2> HIDE DEF cell
  <2>4. /\ v \in Worlds /\ v.queue = w.queue /\ v.promise[q] = cell
        /\ \A y \in Promises \ {q} : v.promise[y] = w.promise[y]
    BY <1>1, <2>1, <2>3, CellPut
  <2>5. \A y \in Promises : /\ v.promise[y].state = w.promise[y].state
                            /\ v.promise[y].value = w.promise[y].value
    BY <2>3, <2>4
  <2>6. /\ v.promise[q].deferreds = w.promise[q].deferreds \o rs
        /\ \A y \in Promises \ {q} : v.promise[y].deferreds = w.promise[y].deferreds
    BY <2>3, <2>4
  <2>7. Adoptions(v) /\ \A y \in Promises : Root(v, y) = Root(w, y)
    <3>1. \A y \in Promises : w.promise[y].state \in Settled => w.promise[y].value \in Plain
      BY DEF Adoptions
    <3> QED  BY <2>5, <3>1, SameAdoptions
  <2> QED  BY <1>1, <1>4, <2>4, <2>5, <2>6, <2>7 DEF Handled
<1>5. CASE w.promise[q].state # "pending"
  <2> DEFINE b == w.promise[q].handled \/ rs # <<>>
             cell == [w.promise[q] EXCEPT !.handled = b]
             line == w.queue \o TasksOf(rs, q)
  <2>1. v = [w EXCEPT !.promise = [w.promise EXCEPT ![q] = cell], !.queue = line]
    BY <1>1, <1>5 DEF Handle, TasksOf
  <2>2. line \in Seq(Tasks)
    BY <1>1, <1>2, ConcatProperties, TasksOfReactions
  <2>9. b \in BOOLEAN
    OBVIOUS
  <2> HIDE DEF b
  <2>3. /\ cell \in Cells /\ cell.state = w.promise[q].state
        /\ cell.value = w.promise[q].value /\ cell.deferreds = w.promise[q].deferreds
    BY <1>1, <1>2, <2>9, CellChanges
  <2> HIDE DEF cell, line
  <2>4. v.queue = line /\ v.promise = [w.promise EXCEPT ![q] = cell]
    BY <1>3, <2>1
  <2>5. v \in Worlds
    <3>1. PICK cells \in [Promises -> Cells] : cells = [w.promise EXCEPT ![q] = cell]
      BY <1>2, <2>3
    <3>2. v = [w EXCEPT !.promise = cells, !.queue = line]
      BY <2>1, <3>1
    <3>3. v = [promise |-> cells, queue |-> line]
      BY <1>3, <3>2
    <3> QED  BY <2>2, <3>3 DEF Worlds
  <2>6. \A y \in Promises : /\ v.promise[y].state = w.promise[y].state
                            /\ v.promise[y].value = w.promise[y].value
                            /\ v.promise[y].deferreds = w.promise[y].deferreds
    BY <1>1, <1>2, <2>3, <2>4
  <2>7. Adoptions(v) /\ \A y \in Promises : Root(v, y) = Root(w, y)
    <3>1. \A y \in Promises : w.promise[y].state \in Settled => w.promise[y].value \in Plain
      BY DEF Adoptions
    <3> QED  BY <2>6, <3>1, SameAdoptions
  <2>8. w.promise[q].state \in Settled
    BY <1>1, <1>5, WorldParts
  <2> QED  BY <1>1, <1>5, <2>4, <2>5, <2>6, <2>7, <2>8 DEF line, Handled
<1> QED  BY <1>4, <1>5

-----------------------------------------------------------------------------
(* Reactions in hand are put where they belong                             *)

LEMMA PlacedToWait ==
    ASSUME NEW w \in Worlds, NEW v \in Worlds, Adoptions(w), NEW q \in Promises,
           NEW reg \in Seq(Reactions), NEW rn \in Seq(Reactions), NEW h \in Seq(Reactions),
           Held(w, reg, rn, h), \A n \in DOMAIN h : Root(w, h[n].on) = q,
           w.promise[q].state = "pending", v.queue = w.queue,
           v.promise[q].deferreds = w.promise[q].deferreds \o h,
           \A y \in Promises \ {q} : v.promise[y].deferreds = w.promise[y].deferreds,
           \A y \in Promises : /\ v.promise[y].state = w.promise[y].state
                               /\ Root(v, y) = Root(w, y)
    PROVE  Held(v, reg, rn, <<>>)
<1> DEFINE d == w.promise[q].deferreds
<1>1. d \in Seq(Reactions) /\ Len(d) \in Nat /\ Len(h) \in Nat
  BY WorldParts
<1>4. ASSUME NEW n, NEW r
      PROVE  IsWaiting(v, q, n, r) <=>
               IsWaiting(w, q, n, r) \/ \E m \in DOMAIN h : n = Len(d) + m /\ h[m] = r
  BY <1>1, InJoined DEF IsWaiting
<1> HIDE DEF d
<1>5. ASSUME NEW y \in Promises \ {q}, NEW n, NEW r
      PROVE  IsWaiting(v, y, n, r) <=> IsWaiting(w, y, n, r)
  <2>1. v.promise[y].deferreds = w.promise[y].deferreds
    OBVIOUS
  <2> QED  BY <2>1 DEF IsWaiting
<1>6. \A n, r : IsTask(v, n, r) <=> IsTask(w, n, r)
  BY DEF IsTask
<1>7. ASSUME NEW y \in Promises, NEW r
      PROVE  Waits(v, y, r) <=> Waits(w, y, r) \/ (y = q /\ Runs(h, r))
  <2>1. /\ Waits(v, y, r) <=> \E n : IsWaiting(v, y, n, r)
        /\ Waits(w, y, r) <=> \E n : IsWaiting(w, y, n, r)
    BY DEF Waits, IsWaiting, At, Runs
  <2>2. CASE y = q
    <3>1. \A n : IsWaiting(v, y, n, r) <=>
            IsWaiting(w, y, n, r) \/ \E m \in DOMAIN h : n = Len(d) + m /\ h[m] = r
      BY <1>4, <2>2
    <3>2. Runs(h, r) <=> \E n : \E m \in DOMAIN h : n = Len(d) + m /\ h[m] = r
      BY DEF Runs
    <3> QED  BY <2>1, <2>2, <3>1, <3>2
  <2>3. CASE y # q
    <3>1. \A n : IsWaiting(v, y, n, r) <=> IsWaiting(w, y, n, r)
      BY <1>5, <2>3
    <3> QED  BY <2>1, <2>3, <3>1
  <2> QED  BY <2>2, <2>3
<1>8. \A r : Queues(v, r) <=> Queues(w, r)
  BY DEF Queues, IsTask
<1>9. \A r \in Reactions : r.on \in Promises
  BY DEF Reactions
<1>10. InPlace(v, reg, rn, <<>>)
  <2> SUFFICES ASSUME NEW r \in Reactions PROVE Right(v, reg, rn, <<>>, r)
    BY DEF InPlace
  <2>1. r.on \in Promises /\ Root(w, r.on) \in Promises /\ Root(v, r.on) = Root(w, r.on)
    BY <1>9, RootFacts
  <2>2. Runs(h, r) => Root(w, r.on) = q
    BY DEF Runs
  <2>3. ~Runs(<<>>, r)
    BY DEF Runs
  <2>4. Right(w, reg, rn, h, r)
    BY DEF Held, InPlace
  <2>5. \A y \in Promises : v.promise[y].state = w.promise[y].state
    OBVIOUS
  <2>6. \A y \in Promises : Waits(v, y, r) <=> Waits(w, y, r) \/ (y = q /\ Runs(h, r))
    BY <1>7
  <2>7. Queues(v, r) <=> Queues(w, r)
    BY <1>8
  <2> QED  BY <2>1, <2>2, <2>3, <2>4, <2>5, <2>6, <2>7 DEF Right
<1>11. FromSettled(v)
  <2>1. \A n \in DOMAIN w.queue : "react" \in DOMAIN w.queue[n] => w.queue[n].from \in Promises
    BY WorldParts, ElementOfSeq DEF Tasks
  <2> QED  BY <2>1 DEF Held, FromSettled
<1>12. OnceEach(v, rn, <<>>)
  <2>1. ASSUME NEW y \in Promises PROVE OnceIn(v.promise[y].deferreds)
    <3>1. OnceIn(w.promise[y].deferreds) /\ OnceIn(h)
      BY DEF Held, OnceEach
    <3>2. CASE y = q
      <4>1. ASSUME NEW r PROVE ~(Runs(d, r) /\ Runs(h, r))
        <5>1. Runs(h, r) => r \in Reactions
          BY ElementOfSeq DEF Runs
        <5>2. r \in Reactions => Right(w, reg, rn, h, r)
          BY DEF Held, InPlace
        <5>3. Runs(d, r) <=> Waits(w, q, r)
          BY DEF Waits, d
        <5> QED  BY <5>1, <5>2, <5>3 DEF Right
      <4>2. OnceIn(d)
        BY <3>1, <3>2 DEF d
      <4>3. OnceIn(d \o h)
        BY <1>1, <3>1, <4>1, <4>2, OnceJoined
      <4> QED  BY <3>2, <4>3 DEF d
    <3>3. CASE y # q
      <4>1. v.promise[y].deferreds = w.promise[y].deferreds
        BY <3>3
      <4> QED  BY <3>1, <4>1
    <3> QED  BY <3>2, <3>3
  <2>2. OnceIn(<<>>) /\ OnceIn(rn)
    BY DEF OnceIn, Held, OnceEach
  <2>3. \A r \in Reactions : \A m, n : IsTask(w, m, r) /\ IsTask(w, n, r) => m = n
    BY DEF Held, OnceEach
  <2> QED  BY <1>6, <2>1, <2>2, <2>3 DEF OnceEach
<1>13. InTurn(v, reg, rn, <<>>)
  <2> SUFFICES ASSUME NEW i \in DOMAIN reg, NEW j \in DOMAIN reg, i < j,
                      reg[i].on = reg[j].on
               PROVE  OlderFirst(v, rn, <<>>, reg[i], reg[j])
    BY DEF InTurn
  <2>1. OlderFirst(w, rn, h, reg[i], reg[j])
    BY DEF Held, InTurn
  <2>2. PICK r \in Reactions : r = reg[i]
    BY ElementOfSeq
  <2>3. PICK s \in Reactions : s = reg[j] /\ s.on = r.on
    BY <2>2, ElementOfSeq
  <2>4. Right(w, reg, rn, h, r) /\ Right(w, reg, rn, h, s)
    BY DEF Held, InPlace
  <2>5. \A n \in DOMAIN rn : rn[n] = s => \E m \in 1 .. (n - 1) : rn[m] = r
    BY <2>1, <2>2, <2>3 DEF OlderFirst
  <2>6. \A n : IsTask(v, n, s) => Runs(rn, r) \/ \E m \in 1 .. (n - 1) : IsTask(v, m, r)
    BY <1>6, <2>1, <2>2, <2>3 DEF OlderFirst
  <2>7. ASSUME NEW y \in Promises, NEW n, IsWaiting(v, y, n, s)
        PROVE  \E m \in 1 .. (n - 1) : IsWaiting(v, y, m, r)
    <3>1. CASE IsWaiting(w, y, n, s)
      <4>1. PICK m \in 1 .. (n - 1) : IsWaiting(w, y, m, r)
        BY <2>1, <2>2, <2>3, <3>1 DEF OlderFirst
      <4>2. IsWaiting(v, y, m, r)
        BY <1>4, <1>5, <4>1
      <4> QED  BY <4>2
    <3>2. CASE ~IsWaiting(w, y, n, s)
      <4>1. y = q
        BY <1>5, <2>7, <3>2
      <4>2. PICK k \in DOMAIN h : n = Len(d) + k /\ h[k] = s
        BY <1>4, <2>7, <3>2, <4>1
      <4>3. k \in Nat /\ k >= 1
        BY <1>1
      <4>4. Root(w, r.on) = q
        BY <2>3, <4>2
      <4>5. ~Runs(rn, r) /\ ~Queues(w, r)
        BY <2>4, <4>4 DEF Right, Settled
      <4>6. CASE \E m \in 1 .. (k - 1) : h[m] = r
        <5>1. PICK m \in 1 .. (k - 1) : h[m] = r
          BY <4>6
        <5>2. m \in DOMAIN h
          BY <1>1, <4>2, <4>3
        <5>3. IsWaiting(v, q, Len(d) + m, r)
          BY <1>4, <5>1, <5>2
        <5>4. Len(d) + m \in 1 .. (n - 1)
          <6>1. PICK c \in Nat : c = Len(d)
            BY <1>1
          <6>2. n = c + k /\ k \in Nat /\ m \in 1 .. (k - 1)
            BY <4>2, <4>3, <5>1, <6>1
          <6>3. c + m \in 1 .. (n - 1)
            BY <6>2
          <6> QED  BY <6>1, <6>3
        <5> QED  BY <4>1, <5>3, <5>4
      <4>7. CASE \E x \in Promises : Waits(w, x, r)
        <5>1. Waits(w, q, r)
          BY <2>4, <4>4, <4>7 DEF Right
        <5>2. PICK m \in DOMAIN d : IsWaiting(w, q, m, r)
          BY <5>1 DEF Waits, Runs, IsWaiting, At, d
        <5>3. IsWaiting(v, q, m, r)
          BY <1>4, <5>2
        <5>4. m \in 1 .. (n - 1)
          BY <1>1, <4>2, <4>3
        <5> QED  BY <4>1, <5>3, <5>4
      <4> QED  BY <2>1, <2>2, <2>3, <4>2, <4>5, <4>6, <4>7 DEF OlderFirst
    <3> QED  BY <3>1, <3>2
  <2> QED  BY <2>2, <2>3, <2>5, <2>6, <2>7 DEF OlderFirst
<1> QED  BY <1>10, <1>11, <1>12, <1>13 DEF Held

LEMMA PlacedToRun ==
    ASSUME NEW w \in Worlds, NEW v \in Worlds, Adoptions(w), NEW q \in Promises,
           NEW reg \in Seq(Reactions), NEW rn \in Seq(Reactions), NEW h \in Seq(Reactions),
           Held(w, reg, rn, h), \A n \in DOMAIN h : Root(w, h[n].on) = q,
           w.promise[q].state \in Settled, v.queue = w.queue \o TasksOf(h, q),
           \A y \in Promises : /\ v.promise[y].deferreds = w.promise[y].deferreds
                               /\ v.promise[y].state = w.promise[y].state
                               /\ Root(v, y) = Root(w, y)
    PROVE  Held(v, reg, rn, <<>>)
<1> DEFINE d == w.queue
           t == TasksOf(h, q)
<1>1. /\ d \in Seq(Tasks) /\ Len(d) \in Nat /\ Len(h) \in Nat /\ t \in Seq(Tasks)
      /\ DOMAIN h = 1 .. Len(h) /\ DOMAIN t = 1 .. Len(h) /\ DOMAIN d = 1 .. Len(d)
  BY WorldParts, TasksOfReactions, LenProperties
<1>2. \A m \in DOMAIN t : /\ "react" \in DOMAIN t[m] /\ t[m].react = h[m] /\ t[m].from = q
  BY <1>1, TasksOfReactions
<1>14. v.queue = d \o t
  OBVIOUS
<1> HIDE DEF d, t
<1>3. \A n, x : At(v.queue, n, x) <=>
        At(d, n, x) \/ \E m \in DOMAIN t : n = Len(d) + m /\ t[m] = x
  <2> SUFFICES ASSUME NEW n, NEW x
               PROVE  At(d \o t, n, x) <=>
                        At(d, n, x) \/ \E m \in DOMAIN t : n = Len(d) + m /\ t[m] = x
    BY <1>14
  <2>1. d \in Seq(Tasks) /\ t \in Seq(Tasks)
    BY <1>1
  <2> QED  BY <2>1, InJoined
<1> USE DEF d
<1>4. ASSUME NEW n, NEW r
      PROVE  IsTask(v, n, r) <=>
               IsTask(w, n, r) \/ \E m \in DOMAIN h : n = Len(d) + m /\ h[m] = r
  <2>1. IsTask(v, n, r) <=> \E x : At(v.queue, n, x) /\ "react" \in DOMAIN x /\ x.react = r
    BY DEF IsTask, At
  <2>2. IsTask(w, n, r) <=> \E x : At(d, n, x) /\ "react" \in DOMAIN x /\ x.react = r
    BY DEF IsTask, At
  <2>3. (\E x : /\ \E m \in DOMAIN t : n = Len(d) + m /\ t[m] = x
                /\ "react" \in DOMAIN x /\ x.react = r)
          <=> \E m \in DOMAIN h : n = Len(d) + m /\ h[m] = r
    BY <1>1, <1>2
  <2> QED  BY <1>3, <2>1, <2>2, <2>3
<1>5. \A y \in Promises : \A n, r : IsWaiting(v, y, n, r) <=> IsWaiting(w, y, n, r)
  BY DEF IsWaiting
<1>6. \A y \in Promises : \A r : Waits(v, y, r) <=> Waits(w, y, r)
  BY DEF Waits
<1>7. ASSUME NEW r PROVE Queues(v, r) <=> Queues(w, r) \/ Runs(h, r)
  <2>1. /\ Queues(v, r) <=> \E n : IsTask(v, n, r)
        /\ Queues(w, r) <=> \E n : IsTask(w, n, r)
    BY DEF Queues, IsTask
  <2>2. Runs(h, r) <=> \E n : \E m \in DOMAIN h : n = Len(d) + m /\ h[m] = r
    BY DEF Runs
  <2> QED  BY <1>4, <2>1, <2>2
<1>8. \A r \in Reactions : r.on \in Promises
  BY DEF Reactions
<1>9. \A r : Runs(h, r) => Root(w, r.on) = q
  BY DEF Runs
<1>10. InPlace(v, reg, rn, <<>>)
  <2> SUFFICES ASSUME NEW r \in Reactions PROVE Right(v, reg, rn, <<>>, r)
    BY DEF InPlace
  <2>1. r.on \in Promises /\ Root(w, r.on) \in Promises /\ Root(v, r.on) = Root(w, r.on)
    BY <1>8, RootFacts
  <2>2. Runs(h, r) => Root(w, r.on) = q
    BY <1>9
  <2>3. ~Runs(<<>>, r)
    BY DEF Runs
  <2>4. Right(w, reg, rn, h, r)
    BY DEF Held, InPlace
  <2>5. \A y \in Promises : v.promise[y].state = w.promise[y].state
    OBVIOUS
  <2>6. \A y \in Promises : Waits(v, y, r) <=> Waits(w, y, r)
    BY <1>6
  <2>7. Queues(v, r) <=> Queues(w, r) \/ Runs(h, r)
    BY <1>7
  <2> QED  BY <2>1, <2>2, <2>3, <2>4, <2>5, <2>6, <2>7 DEF Right
<1>11. FromSettled(v)
  <2> SUFFICES ASSUME NEW n, NEW x, At(v.queue, n, x), "react" \in DOMAIN x
               PROVE  v.promise[x.from].state \in Settled
    BY DEF FromSettled, At
  <2>1. CASE At(d, n, x)
    <3>1. x \in Tasks /\ x.from \in Promises
      BY <1>1, <2>1, ElementOfSeq DEF Tasks, At
    <3> QED  BY <2>1, <3>1 DEF Held, FromSettled, At
  <2>2. CASE \E m \in DOMAIN t : t[m] = x
    BY <1>2, <2>2
  <2> QED  BY <1>3, <2>1, <2>2
<1>12. OnceEach(v, rn, <<>>)
  <2>1. \A y \in Promises : OnceIn(v.promise[y].deferreds)
    BY DEF Held, OnceEach
  <2>2. OnceIn(<<>>) /\ OnceIn(rn)
    BY DEF OnceIn, Held, OnceEach
  <2>3. ASSUME NEW r \in Reactions, NEW m, NEW n, IsTask(v, m, r), IsTask(v, n, r)
        PROVE  m = n
    <3>1. Right(w, reg, rn, h, r)
      BY DEF Held, InPlace
    <3>2. \A i : IsTask(w, i, r) => Queues(w, r)
      BY DEF IsTask, Queues
    <3>3. \A i \in DOMAIN h : h[i] = r => Runs(h, r)
      BY DEF Runs
    <3>4. \A i, j : IsTask(w, i, r) /\ IsTask(w, j, r) => i = j
      BY DEF Held, OnceEach
    <3>5. \A i, j \in DOMAIN h : h[i] = r /\ h[j] = r => i = j
      BY DEF Held, OnceEach, OnceIn
    <3>6. Runs(h, r) => ~Queues(w, r)
      BY <3>1 DEF Right
    <3> QED  BY <1>4, <2>3, <3>2, <3>3, <3>4, <3>5, <3>6
  <2> QED  BY <2>1, <2>2, <2>3 DEF OnceEach
<1>13. InTurn(v, reg, rn, <<>>)
  <2> SUFFICES ASSUME NEW i \in DOMAIN reg, NEW j \in DOMAIN reg, i < j,
                      reg[i].on = reg[j].on
               PROVE  OlderFirst(v, rn, <<>>, reg[i], reg[j])
    BY DEF InTurn
  <2>1. OlderFirst(w, rn, h, reg[i], reg[j])
    BY DEF Held, InTurn
  <2>2. PICK r \in Reactions : r = reg[i]
    BY ElementOfSeq
  <2>3. PICK s \in Reactions : s = reg[j] /\ s.on = r.on
    BY <2>2, ElementOfSeq
  <2>4. Right(w, reg, rn, h, r) /\ Right(w, reg, rn, h, s)
    BY DEF Held, InPlace
  <2>5. \A n \in DOMAIN rn : rn[n] = s => \E m \in 1 .. (n - 1) : rn[m] = r
    BY <2>1, <2>2, <2>3 DEF OlderFirst
  <2>6. ASSUME NEW y \in Promises, NEW n, IsWaiting(v, y, n, s)
        PROVE  \E m \in 1 .. (n - 1) : IsWaiting(v, y, m, r)
    BY <1>5, <2>1, <2>2, <2>3, <2>6 DEF OlderFirst
  <2>7. ASSUME NEW n, IsTask(v, n, s)
        PROVE  Runs(rn, r) \/ \E m \in 1 .. (n - 1) : IsTask(v, m, r)
    <3>1. CASE IsTask(w, n, s)
      BY <1>4, <2>1, <2>2, <2>3, <3>1 DEF OlderFirst
    <3>2. CASE ~IsTask(w, n, s)
      <4>1. PICK k \in DOMAIN h : n = Len(d) + k /\ h[k] = s
        BY <1>4, <2>7, <3>2
      <4>2. k \in Nat /\ k >= 1
        BY <1>1
      <4>3. Root(w, r.on) = q
        BY <2>3, <4>1
      <4>4. \A x \in Promises : ~Waits(w, x, r)
        BY <2>4, <4>3 DEF Right, Settled
      <4>5. CASE \E m \in 1 .. (k - 1) : h[m] = r
        <5>1. PICK m \in 1 .. (k - 1) : h[m] = r
          BY <4>5
        <5>2. m \in DOMAIN h
          BY <1>1, <4>1, <4>2
        <5>3. IsTask(v, Len(d) + m, r)
          BY <1>4, <5>1, <5>2
        <5>4. Len(d) + m \in 1 .. (n - 1)
          <6>1. PICK c \in Nat : c = Len(d)
            BY <1>1
          <6>2. n = c + k /\ k \in Nat /\ m \in 1 .. (k - 1)
            BY <4>1, <4>2, <5>1, <6>1
          <6>3. c + m \in 1 .. (n - 1)
            BY <6>2
          <6> QED  BY <6>1, <6>3
        <5> QED  BY <5>3, <5>4
      <4>6. CASE Queues(w, r)
        <5>1. PICK m \in DOMAIN d : IsTask(w, m, r)
          BY <4>6 DEF Queues
        <5>2. IsTask(v, m, r)
          BY <1>4, <5>1
        <5>3. m \in 1 .. (n - 1)
          <6>1. PICK c \in Nat : c = Len(d)
            BY <1>1
          <6>2. n = c + k /\ k \in Nat /\ k >= 1 /\ m \in 1 .. c
            BY <1>1, <4>1, <4>2, <6>1
          <6> QED  BY <6>2
        <5> QED  BY <5>2, <5>3
      <4> QED  BY <2>1, <2>2, <2>3, <4>1, <4>4, <4>5, <4>6 DEF OlderFirst
    <3> QED  BY <3>1, <3>2
  <2> QED  BY <2>2, <2>3, <2>5, <2>6, <2>7 DEF OlderFirst
<1> QED  BY <1>10, <1>11, <1>12, <1>13 DEF Held

LEMMA Placed ==
    ASSUME NEW w \in Worlds, Adoptions(w), NEW p \in Promises, w.promise[p].state # "none",
           NEW reg \in Seq(Reactions), NEW rn \in Seq(Reactions), NEW h \in Seq(Reactions),
           Held(w, reg, rn, h), \A n \in DOMAIN h : Root(w, h[n].on) = Root(w, p)
    PROVE  Held(Handle(w, p, h), reg, rn, <<>>)
<1> DEFINE v == Handle(w, p, h)
           q == Root(w, p)
<1> HIDE DEF v, q
<1>1. /\ v \in Worlds /\ q \in Promises
      /\ \A y \in Promises : v.promise[y].state = w.promise[y].state /\ Root(v, y) = Root(w, y)
      /\ w.promise[q].state = "pending" =>
           /\ v.queue = w.queue
           /\ v.promise[q].deferreds = w.promise[q].deferreds \o h
           /\ \A y \in Promises \ {q} : v.promise[y].deferreds = w.promise[y].deferreds
      /\ w.promise[q].state # "pending" =>
           /\ w.promise[q].state \in Settled
           /\ v.queue = w.queue \o TasksOf(h, q)
           /\ \A y \in Promises : v.promise[y].deferreds = w.promise[y].deferreds
  <2>1. Handled(w, v, q, h)
    BY HandleEffect DEF v, q
  <2> QED  BY <2>1 DEF Handled
<1>2. \A n \in DOMAIN h : Root(w, h[n].on) = q
  BY DEF q
<1>3. CASE w.promise[q].state = "pending"
  BY <1>1, <1>2, <1>3, PlacedToWait DEF v
<1>4. CASE w.promise[q].state # "pending"
  <2>1. /\ v.queue = w.queue \o TasksOf(h, q) /\ w.promise[q].state \in Settled
        /\ \A y \in Promises : v.promise[y].deferreds = w.promise[y].deferreds
    BY <1>1, <1>4
  <2>2. \A y \in Promises : /\ v.promise[y].deferreds = w.promise[y].deferreds
                            /\ v.promise[y].state = w.promise[y].state
                            /\ Root(v, y) = Root(w, y)
    BY <1>1, <2>1
  <2>3. Held(v, reg, rn, <<>>)
    BY <1>1, <1>2, <2>1, <2>2, PlacedToRun
  <2> QED  BY <2>3 DEF v
<1> QED  BY <1>3, <1>4

-----------------------------------------------------------------------------
(* Reactions are taken in hand                                             *)

LEMMA SameTasks ==
    ASSUME NEW w, NEW u, NEW r, \A n : IsTask(u, n, r) <=> IsTask(w, n, r)
    PROVE  Queues(u, r) <=> Queues(w, r)
<1>1. /\ Queues(u, r) <=> \E n : IsTask(u, n, r)
      /\ Queues(w, r) <=> \E n : IsTask(w, n, r)
  BY DEF Queues, IsTask
<1> QED  BY <1>1

(* Those that wait on p, when it is settled or adopts a promise.           *)
LEMMA LetGo ==
    ASSUME NEW w \in Worlds, NEW u \in Worlds, Adoptions(w),
           NEW p \in Promises, NEW q \in Promises,
           NEW reg \in Seq(Reactions), NEW rn \in Seq(Reactions), Held(w, reg, rn, <<>>),
           w.promise[p].state = "pending", u.promise[p].state # "none",
           u.promise[p].deferreds = <<>>,
           \A y \in Promises \ {p} : /\ u.promise[y].state = w.promise[y].state
                                     /\ u.promise[y].deferreds = w.promise[y].deferreds,
           \A y \in Promises : Root(u, y) = IF Root(w, y) = p THEN q ELSE Root(w, y),
           \A n : "react" \in DOMAIN u.queue[n] /\ n \in DOMAIN u.queue
                    <=> "react" \in DOMAIN w.queue[n] /\ n \in DOMAIN w.queue,
           \A n \in DOMAIN w.queue : u.queue[n] = w.queue[n]
    PROVE  /\ Held(u, reg, rn, w.promise[p].deferreds)
           /\ \A n \in DOMAIN w.promise[p].deferreds :
                Root(u, w.promise[p].deferreds[n].on) = q
<1> DEFINE h == w.promise[p].deferreds
<1>1. h \in Seq(Reactions) /\ DOMAIN h = 1 .. Len(h) /\ Len(h) \in Nat
  BY WorldParts, LenProperties
<1>2. \A r : Runs(h, r) <=> Waits(w, p, r)
  BY DEF Waits
<1> HIDE DEF h
<1>3. \A n, r : IsTask(u, n, r) <=> IsTask(w, n, r)
  BY DEF IsTask
<1>4. \A r : Queues(u, r) <=> Queues(w, r)
  BY <1>3, SameTasks
<1>5. \A y \in Promises : \A n, r : IsWaiting(u, y, n, r) <=> y # p /\ IsWaiting(w, y, n, r)
  <2> SUFFICES ASSUME NEW y \in Promises, NEW n, NEW r
               PROVE  IsWaiting(u, y, n, r) <=> y # p /\ IsWaiting(w, y, n, r)
    OBVIOUS
  <2>1. CASE y = p
    BY <2>1 DEF IsWaiting, At
  <2>2. CASE y # p
    BY <2>2 DEF IsWaiting
  <2> QED  BY <2>1, <2>2
<1>6. \A y \in Promises : \A r : Waits(u, y, r) <=> y # p /\ Waits(w, y, r)
  <2> SUFFICES ASSUME NEW y \in Promises, NEW r
               PROVE  Waits(u, y, r) <=> y # p /\ Waits(w, y, r)
    OBVIOUS
  <2>1. CASE y = p
    BY <2>1 DEF Waits, Runs
  <2>2. CASE y # p
    BY <2>2 DEF Waits
  <2> QED  BY <2>1, <2>2
<1>7. \A r \in Reactions : /\ r.on \in Promises /\ Root(w, r.on) \in Promises
                           /\ Right(w, reg, rn, <<>>, r)
  BY RootFacts DEF Reactions, Held, InPlace
<1>8. \A r : ~Runs(<<>>, r)
  BY DEF Runs
<1>9. ASSUME NEW r \in Reactions PROVE Right(u, reg, rn, h, r)
  <2>1. /\ r.on \in Promises /\ Root(w, r.on) \in Promises /\ Right(w, reg, rn, <<>>, r)
        /\ ~Runs(<<>>, r) /\ (Runs(h, r) <=> Waits(w, p, r))
        /\ (Queues(u, r) <=> Queues(w, r))
    BY <1>2, <1>4, <1>7, <1>8
  <2>2. Knows(reg, r) <=> \/ \E y \in Promises : Waits(u, y, r)
                          \/ Queues(u, r) \/ Runs(rn, r) \/ Runs(h, r)
    <3>1. (\E y \in Promises : Waits(w, y, r)) <=>
             Waits(w, p, r) \/ \E y \in Promises : Waits(u, y, r)
      BY <1>6
    <3> QED  BY <2>1, <3>1 DEF Right
  <2>3. Knows(reg, r) => u.promise[r.on].state # "none"
    <3>1. u.promise[r.on].state = w.promise[r.on].state \/ r.on = p
      BY <2>1
    <3> QED  BY <2>1, <3>1 DEF Right
  <2>4. ASSUME NEW y \in Promises, Waits(u, y, r)
        PROVE  Root(u, r.on) = y /\ u.promise[y].state = "pending"
    <3>1. y # p /\ Waits(w, y, r)
      BY <1>6, <2>4
    <3>2. Root(w, r.on) = y /\ w.promise[y].state = "pending"
      BY <2>1, <3>1 DEF Right
    <3> QED  BY <2>1, <3>1, <3>2
  <2>5. ASSUME Queues(u, r) \/ Runs(rn, r)
        PROVE  u.promise[Root(u, r.on)].state \in Settled
    <3>1. w.promise[Root(w, r.on)].state \in Settled
      BY <2>1, <2>5 DEF Right
    <3>2. Root(w, r.on) # p
      BY <3>1 DEF Settled
    <3> QED  BY <2>1, <3>1, <3>2
  <2>6. Runs(h, r) => ~Queues(u, r) /\ ~Runs(rn, r) /\ \A y \in Promises : ~Waits(u, y, r)
    <3> SUFFICES ASSUME Runs(h, r)
                 PROVE  ~Queues(u, r) /\ ~Runs(rn, r) /\ \A y \in Promises : ~Waits(u, y, r)
      OBVIOUS
    <3>1. Root(w, r.on) = p
      BY <2>1 DEF Right
    <3>2. ~Queues(w, r) /\ ~Runs(rn, r)
      BY <2>1, <3>1 DEF Right, Settled
    <3>3. \A y \in Promises : Waits(w, y, r) => y = p
      BY <2>1, <3>1 DEF Right
    <3> QED  BY <1>6, <2>1, <3>2, <3>3
  <2>7. ~(Queues(u, r) /\ Runs(rn, r))
    BY <2>1 DEF Right
  <2> QED  BY <2>2, <2>3, <2>4, <2>5, <2>6, <2>7 DEF Right
<1>10. FromSettled(u)
  <2> SUFFICES ASSUME NEW n \in DOMAIN w.queue, "react" \in DOMAIN w.queue[n],
                      u.queue[n] = w.queue[n]
               PROVE  u.promise[w.queue[n].from].state \in Settled
    BY DEF FromSettled
  <2>1. w.queue[n].from \in Promises
    <3>1. w.queue \in Seq(Tasks) /\ n \in 1 .. Len(w.queue)
      BY WorldParts
    <3>2. w.queue[n] \in Tasks
      BY <3>1, ElementOfSeq
    <3> QED  BY <3>2, TaskParts
  <2>2. w.promise[w.queue[n].from].state \in Settled
    BY DEF Held, FromSettled
  <2>3. w.queue[n].from # p
    BY <2>2 DEF Settled
  <2> QED  BY <2>1, <2>2, <2>3
<1>11. OnceEach(u, rn, h)
  <2>1. ASSUME NEW y \in Promises PROVE OnceIn(u.promise[y].deferreds)
    <3>1. CASE y = p
      BY <3>1 DEF OnceIn
    <3>2. CASE y # p
      BY <3>2 DEF Held, OnceEach
    <3> QED  BY <3>1, <3>2
  <2>2. OnceIn(h) /\ OnceIn(rn)
    BY DEF Held, OnceEach, h
  <2>3. \A r \in Reactions : \A m, n : IsTask(w, m, r) /\ IsTask(w, n, r) => m = n
    BY DEF Held, OnceEach
  <2> QED  BY <1>3, <2>1, <2>2, <2>3 DEF OnceEach
<1>12. InTurn(u, reg, rn, h)
  <2> SUFFICES ASSUME NEW i \in DOMAIN reg, NEW j \in DOMAIN reg, i < j,
                      reg[i].on = reg[j].on
               PROVE  OlderFirst(u, rn, h, reg[i], reg[j])
    BY DEF InTurn
  <2>1. OlderFirst(w, rn, <<>>, reg[i], reg[j])
    BY DEF Held, InTurn
  <2>2. PICK r : r = reg[i]
    OBVIOUS
  <2>3. PICK s : s = reg[j]
    OBVIOUS
  <2>4. \A n \in DOMAIN rn : rn[n] = s => \E m \in 1 .. (n - 1) : rn[m] = r
    BY <2>1, <2>2, <2>3 DEF OlderFirst
  <2>5. \A n : IsTask(u, n, s) => Runs(rn, r) \/ \E m \in 1 .. (n - 1) : IsTask(u, m, r)
    BY <1>3, <2>1, <2>2, <2>3 DEF OlderFirst
  <2>6. \A y \in Promises : \A n : IsWaiting(w, y, n, s) =>
          \E m \in 1 .. (n - 1) : IsWaiting(w, y, m, r)
    BY <2>1, <2>2, <2>3 DEF OlderFirst
  <2>7. \A y \in Promises : \A n : IsWaiting(u, y, n, s) =>
          \E m \in 1 .. (n - 1) : IsWaiting(u, y, m, r)
    BY <1>5, <2>6
  <2>8. \A n \in DOMAIN h : h[n] = s => \E m \in 1 .. (n - 1) : h[m] = r
    BY <2>6 DEF IsWaiting, At, h
  <2> QED  BY <2>2, <2>3, <2>4, <2>5, <2>7, <2>8 DEF OlderFirst
<1>13. \A n \in DOMAIN h : Root(u, h[n].on) = q
  <2> SUFFICES ASSUME NEW n \in DOMAIN h PROVE Root(u, h[n].on) = q
    OBVIOUS
  <2>1. h[n] \in Reactions /\ Runs(h, h[n])
    BY <1>1, ElementOfSeq DEF Runs
  <2>2. Root(w, h[n].on) = p
    BY <1>2, <1>7, <2>1 DEF Right
  <2> QED  BY <1>7, <2>1, <2>2
<1>14. Held(u, reg, rn, h)
  BY <1>9, <1>10, <1>11, <1>12 DEF Held, InPlace
<1> QED  BY <1>13, <1>14 DEF h

(* A new one.                                                              *)
LEMMA NewReaction ==
    ASSUME NEW w \in Worlds, NEW reg \in Seq(Reactions), NEW rn \in Seq(Reactions),
           Held(w, reg, rn, <<>>), NEW r \in Reactions, ~Knows(reg, r),
           w.promise[r.on].state # "none"
    PROVE  Held(w, Append(reg, r), rn, <<r>>)
<1>1. /\ Append(reg, r) \in Seq(Reactions) /\ Len(Append(reg, r)) = Len(reg) + 1
      /\ Len(reg) \in Nat /\ DOMAIN reg = 1 .. Len(reg)
      /\ DOMAIN Append(reg, r) = 1 .. Len(reg) + 1
      /\ \A i \in 1 .. Len(reg) : Append(reg, r)[i] = reg[i]
      /\ Append(reg, r)[Len(reg) + 1] = r
  BY AppendProperties, LenProperties
<1>2. \A s : Knows(Append(reg, r), s) <=> Knows(reg, s) \/ s = r
  BY <1>1 DEF Knows
<1>3. \A s : Runs(<<r>>, s) <=> s = r
  BY DEF Runs
<1>4. \A s : ~Runs(<<>>, s)
  BY DEF Runs
<1>5. InPlace(w, Append(reg, r), rn, <<r>>)
  <2> SUFFICES ASSUME NEW s \in Reactions PROVE Right(w, Append(reg, r), rn, <<r>>, s)
    BY DEF InPlace
  <2>1. Right(w, reg, rn, <<>>, s)
    BY DEF Held, InPlace
  <2>2. /\ Knows(Append(reg, r), s) <=> Knows(reg, s) \/ s = r
        /\ Runs(<<r>>, s) <=> s = r
        /\ ~Runs(<<>>, s)
    BY <1>2, <1>3, <1>4
  <2> QED  BY <2>1, <2>2 DEF Right
<1>6. OnceEach(w, rn, <<r>>)
  BY DEF Held, OnceEach, OnceIn
<1>7. InTurn(w, Append(reg, r), rn, <<r>>)
  <2> SUFFICES ASSUME NEW i \in 1 .. Len(reg), NEW j \in 1 .. Len(reg) + 1, i < j,
                      reg[i].on = Append(reg, r)[j].on
               PROVE  OlderFirst(w, rn, <<r>>, reg[i], Append(reg, r)[j])
    BY <1>1 DEF InTurn
  <2>1. reg[i] \in Reactions /\ Knows(reg, reg[i]) /\ Right(w, reg, rn, <<>>, reg[i])
    BY <1>1, ElementOfSeq DEF Knows, Held, InPlace
  <2>2. \/ Runs(rn, reg[i]) \/ Queues(w, reg[i]) \/ \E q \in Promises : Waits(w, q, reg[i])
    BY <1>4, <2>1 DEF Right
  <2>3. CASE j \in 1 .. Len(reg)
    <3>1. Append(reg, r)[j] = reg[j]
      BY <1>1, <2>3
    <3>2. OlderFirst(w, rn, <<>>, reg[i], reg[j])
      BY <1>1, <2>3, <3>1 DEF Held, InTurn
    <3> QED  BY <2>2, <3>1, <3>2 DEF OlderFirst
  <2>4. CASE j = Len(reg) + 1
    <3>1. Append(reg, r)[j] = r
      BY <1>1, <2>4
    <3>2. Right(w, reg, rn, <<>>, r)
      BY DEF Held, InPlace
    <3>3. ~Runs(rn, r) /\ ~Queues(w, r) /\ \A q \in Promises : ~Waits(w, q, r)
      BY <3>2 DEF Right
    <3>4. /\ \A n \in DOMAIN rn : rn[n] # r
          /\ \A n : ~IsTask(w, n, r)
          /\ \A q \in Promises : \A n : ~IsWaiting(w, q, n, r)
      BY <3>3 DEF Runs, Queues, Waits, IsTask, IsWaiting, At
    <3> QED  BY <2>2, <3>1, <3>4 DEF OlderFirst
  <2> QED  BY <1>1, <2>3, <2>4
<1> QED  BY <1>5, <1>6, <1>7 DEF Held

-----------------------------------------------------------------------------
(* A task is taken from the queue                                          *)

LEMMA SamePromises ==
    ASSUME NEW w, NEW u, Adoptions(w), u.promise = w.promise
    PROVE  Adoptions(u) /\ \A p \in Promises : Root(u, p) = Root(w, p)
<1>1. PICK f : Leads(w, f)
  BY DEF Adoptions
<1>2. Leads(u, f)
  BY <1>1 DEF Leads
<1>3. Adoptions(u)
  BY <1>2 DEF Adoptions, Acyclic
<1> QED  BY <1>1, <1>2, <1>3, RootLeads

Shifted(w, u) ==
    /\ u \in Worlds /\ Adoptions(u) /\ u.promise = w.promise
    /\ \A p \in Promises : Root(u, p) = Root(w, p)
    /\ Head(w.queue) \in Tasks /\ Head(w.queue) = w.queue[1] /\ 1 \in DOMAIN w.queue
    /\ \A n : n \in DOMAIN u.queue <=> n \in Nat \ {0} /\ n + 1 \in DOMAIN w.queue
    /\ \A n \in DOMAIN u.queue : u.queue[n] = w.queue[n + 1]
    /\ DOMAIN w.queue \subseteq Nat \ {0}

LEMMA NextTask ==
    ASSUME NEW w \in Worlds, Adoptions(w), w.queue # <<>>
    PROVE  Shifted(w, [w EXCEPT !.queue = Tail(w.queue)])
<1> DEFINE u == [w EXCEPT !.queue = Tail(w.queue)]
<1>1. w.queue \in Seq(Tasks)
  BY WorldParts
<1>2. u.promise = w.promise /\ u.queue = Tail(w.queue)
  BY DEF Worlds
<1>3. Tail(w.queue) \in Seq(Tasks)
  BY <1>1, HeadTailProperties
<1>4. u \in Worlds
  BY <1>1, <1>3 DEF Worlds
<1> HIDE DEF u
<1>6. Adoptions(u) /\ \A p \in Promises : Root(u, p) = Root(w, p)
  BY <1>2, SamePromises
<1>7. /\ Head(w.queue) \in Tasks /\ Head(w.queue) = w.queue[1] /\ 1 \in DOMAIN w.queue
      /\ Len(w.queue) \in Nat \ {0} /\ Len(u.queue) = Len(w.queue) - 1
      /\ DOMAIN w.queue = 1 .. Len(w.queue) /\ DOMAIN u.queue = 1 .. Len(w.queue) - 1
      /\ \A n \in 1 .. Len(w.queue) - 1 : u.queue[n] = w.queue[n + 1]
  BY <1>1, <1>2, <1>3, HeadTailProperties, LenProperties, EmptySeq
<1>8. \A n : n \in DOMAIN u.queue <=> n \in Nat \ {0} /\ n + 1 \in DOMAIN w.queue
  BY <1>7
<1>9. DOMAIN w.queue \subseteq Nat \ {0}
  BY <1>7
<1> QED  BY <1>2, <1>4, <1>6, <1>7, <1>8, <1>9 DEF Shifted, u

LEMMA CheckTaken ==
    ASSUME NEW w \in Worlds, NEW u, Shifted(w, u),
           "react" \notin DOMAIN Head(w.queue),
           NEW reg \in Seq(Reactions), NEW rn \in Seq(Reactions), Held(w, reg, rn, <<>>)
    PROVE  Held(u, reg, rn, <<>>)
<1>1. /\ u.promise = w.promise
      /\ \A p \in Promises : Root(u, p) = Root(w, p)
      /\ Head(w.queue) = w.queue[1] /\ 1 \in DOMAIN w.queue
      /\ \A n : n \in DOMAIN u.queue <=> n \in Nat \ {0} /\ n + 1 \in DOMAIN w.queue
      /\ \A n \in DOMAIN u.queue : u.queue[n] = w.queue[n + 1]
      /\ DOMAIN w.queue \subseteq Nat \ {0}
  BY DEF Shifted
<1>2. \A n, r : IsTask(u, n, r) <=> n \in Nat \ {0} /\ IsTask(w, n + 1, r)
  BY <1>1 DEF IsTask
<1>3. ASSUME NEW n, NEW r, IsTask(w, n, r)
      PROVE  \E k \in Nat \ {0} : n = k + 1 /\ IsTask(u, k, r)
  <2>1. n \in Nat \ {0} /\ n # 1
    BY <1>1, <1>3 DEF IsTask
  <2>2. PICK k \in Nat \ {0} : n = k + 1
    <3>1. n - 1 \in Nat \ {0} /\ n = (n - 1) + 1
      BY <2>1
    <3> QED  BY <3>1
  <2> QED  BY <1>2, <1>3, <2>2
<1>4. \A r : Queues(u, r) <=> Queues(w, r)
  <2> SUFFICES ASSUME NEW r PROVE Queues(u, r) <=> Queues(w, r)
    OBVIOUS
  <2>1. /\ Queues(u, r) <=> \E n : IsTask(u, n, r)
        /\ Queues(w, r) <=> \E n : IsTask(w, n, r)
    BY DEF Queues, IsTask
  <2> QED  BY <1>2, <1>3, <2>1
<1>5. \A y : \A n, r : /\ IsWaiting(u, y, n, r) <=> IsWaiting(w, y, n, r)
                       /\ Waits(u, y, r) <=> Waits(w, y, r)
  BY <1>1 DEF IsWaiting, Waits
<1>6. InPlace(u, reg, rn, <<>>)
  <2> SUFFICES ASSUME NEW r \in Reactions PROVE Right(u, reg, rn, <<>>, r)
    BY DEF InPlace
  <2>1. Right(w, reg, rn, <<>>, r) /\ Root(u, r.on) = Root(w, r.on)
    BY <1>1 DEF Held, InPlace, Reactions
  <2> QED  BY <1>1, <1>4, <1>5, <2>1 DEF Right
<1>7. FromSettled(u)
  BY <1>1 DEF Held, FromSettled
<1>8. OnceEach(u, rn, <<>>)
  <2>1. ASSUME NEW r \in Reactions, NEW m, NEW n, IsTask(u, m, r), IsTask(u, n, r) PROVE m = n
    <3>1. m \in Nat /\ n \in Nat /\ IsTask(w, m + 1, r) /\ IsTask(w, n + 1, r)
      BY <1>2, <2>1
    <3>2. m + 1 = n + 1
      BY <3>1 DEF Held, OnceEach
    <3> QED  BY <3>1, <3>2
  <2> QED  BY <1>1, <2>1 DEF Held, OnceEach
<1>9. InTurn(u, reg, rn, <<>>)
  <2> SUFFICES ASSUME NEW i \in DOMAIN reg, NEW j \in DOMAIN reg, i < j,
                      reg[i].on = reg[j].on
               PROVE  OlderFirst(u, rn, <<>>, reg[i], reg[j])
    BY DEF InTurn
  <2>1. OlderFirst(w, rn, <<>>, reg[i], reg[j])
    BY DEF Held, InTurn
  <2>2. PICK r : r = reg[i]
    OBVIOUS
  <2>3. PICK s : s = reg[j]
    OBVIOUS
  <2>4. ASSUME NEW n, IsTask(u, n, s)
        PROVE  Runs(rn, r) \/ \E m \in 1 .. (n - 1) : IsTask(u, m, r)
    <3>1. n \in Nat /\ IsTask(w, n + 1, s)
      BY <1>2, <2>4
    <3>2. Runs(rn, r) \/ \E m \in 1 .. n : IsTask(w, m, r)
      BY <2>1, <2>2, <2>3, <3>1 DEF OlderFirst
    <3>3. \A m \in 1 .. n : IsTask(w, m, r) => \E k \in 1 .. (n - 1) : IsTask(u, k, r)
      <4> SUFFICES ASSUME NEW m \in 1 .. n, IsTask(w, m, r)
                   PROVE  \E k \in 1 .. (n - 1) : IsTask(u, k, r)
        OBVIOUS
      <4>1. PICK k \in Nat \ {0} : m = k + 1 /\ IsTask(u, k, r)
        BY <1>3
      <4> QED  BY <3>1, <4>1
    <3> QED  BY <3>2, <3>3
  <2>5. \A q \in Promises : \A n : IsWaiting(u, q, n, s) =>
          \E m \in 1 .. (n - 1) : IsWaiting(u, q, m, r)
    BY <1>5, <2>1, <2>2, <2>3 DEF OlderFirst
  <2>6. /\ \A n \in DOMAIN rn : rn[n] = s => \E m \in 1 .. (n - 1) : rn[m] = r
        /\ \A n \in DOMAIN <<>> : <<>>[n] # s
    BY <2>1, <2>2, <2>3 DEF OlderFirst
  <2> QED  BY <2>2, <2>3, <2>4, <2>5, <2>6 DEF OlderFirst
<1> QED  BY <1>6, <1>7, <1>8, <1>9 DEF Held

LEMMA ReactionTaken ==
    ASSUME NEW w \in Worlds, NEW u, Shifted(w, u),
           "react" \in DOMAIN Head(w.queue), NEW h, h = Head(w.queue).react,
           NEW reg \in Seq(Reactions), NEW rn \in Seq(Reactions), Held(w, reg, rn, <<>>)
    PROVE  Held(u, reg, Append(rn, h), <<>>)
<1>1. /\ u.promise = w.promise
      /\ \A p \in Promises : Root(u, p) = Root(w, p)
      /\ Head(w.queue) = w.queue[1] /\ 1 \in DOMAIN w.queue
      /\ \A n : n \in DOMAIN u.queue <=> n \in Nat \ {0} /\ n + 1 \in DOMAIN w.queue
      /\ \A n \in DOMAIN u.queue : u.queue[n] = w.queue[n + 1]
      /\ DOMAIN w.queue \subseteq Nat \ {0} /\ Head(w.queue) \in Tasks
  BY DEF Shifted
<1>2. h \in Reactions /\ IsTask(w, 1, h)
  BY <1>1, TaskParts DEF IsTask
<1>3. \A n, r : IsTask(u, n, r) <=> n \in Nat \ {0} /\ IsTask(w, n + 1, r)
  BY <1>1 DEF IsTask
<1>4. ASSUME NEW n, NEW r, IsTask(w, n, r), r # h
      PROVE  \E k \in Nat \ {0} : n = k + 1 /\ IsTask(u, k, r)
  <2>1. n \in Nat \ {0} /\ n # 1
    BY <1>1, <1>4 DEF IsTask
  <2>2. PICK k \in Nat \ {0} : n = k + 1
    <3>1. n - 1 \in Nat \ {0} /\ n = (n - 1) + 1
      BY <2>1
    <3> QED  BY <3>1
  <2> QED  BY <1>3, <1>4, <2>2
<1>5. \A n : IsTask(w, n, h) => n = 1
  BY <1>2 DEF Held, OnceEach
<1>6. \A n : ~IsTask(u, n, h)
  <2> SUFFICES ASSUME NEW n \in Nat \ {0}, IsTask(w, n + 1, h) PROVE FALSE
    BY <1>3
  <2> QED  BY <1>5
<1>7. \A r : Queues(w, r) <=> Queues(u, r) \/ r = h
  <2> SUFFICES ASSUME NEW r PROVE Queues(w, r) <=> Queues(u, r) \/ r = h
    OBVIOUS
  <2>1. /\ Queues(u, r) <=> \E n : IsTask(u, n, r)
        /\ Queues(w, r) <=> \E n : IsTask(w, n, r)
    BY DEF Queues, IsTask
  <2>2. (\E n : IsTask(u, n, r)) => \E n : IsTask(w, n, r)
    BY <1>3
  <2>3. r = h => \E n : IsTask(w, n, r)
    BY <1>2
  <2>4. (\E n : IsTask(w, n, r)) => r = h \/ \E n : IsTask(u, n, r)
    BY <1>4
  <2> QED  BY <2>1, <2>2, <2>3, <2>4
<1>8. ~Queues(u, h)
  BY <1>6 DEF Queues
<1>9. \A y : \A n, r : /\ IsWaiting(u, y, n, r) <=> IsWaiting(w, y, n, r)
                       /\ Waits(u, y, r) <=> Waits(w, y, r)
  BY <1>1 DEF IsWaiting, Waits
<1>10. /\ Append(rn, h) \in Seq(Reactions) /\ Len(rn) \in Nat /\ DOMAIN rn = 1 .. Len(rn)
       /\ DOMAIN Append(rn, h) = 1 .. Len(rn) + 1
       /\ \A i \in 1 .. Len(rn) : Append(rn, h)[i] = rn[i]
       /\ Append(rn, h)[Len(rn) + 1] = h
  BY <1>2, AppendProperties, LenProperties
<1>11. \A r : Runs(Append(rn, h), r) <=> Runs(rn, r) \/ r = h
  BY <1>10 DEF Runs
<1>12. ~Runs(rn, h)
  BY <1>2, <1>7 DEF Held, InPlace, Right
<1>13. InPlace(u, reg, Append(rn, h), <<>>)
  <2> SUFFICES ASSUME NEW r \in Reactions PROVE Right(u, reg, Append(rn, h), <<>>, r)
    BY DEF InPlace
  <2>1. Right(w, reg, rn, <<>>, r) /\ Root(u, r.on) = Root(w, r.on)
    BY <1>1 DEF Held, InPlace, Reactions
  <2>2. ~Runs(<<>>, r)
    BY DEF Runs
  <2> QED  BY <1>1, <1>7, <1>8, <1>9, <1>11, <1>12, <2>1, <2>2 DEF Right
<1>14. FromSettled(u)
  BY <1>1 DEF Held, FromSettled
<1>15. OnceEach(u, Append(rn, h), <<>>)
  <2>1. ASSUME NEW r \in Reactions, NEW m, NEW n, IsTask(u, m, r), IsTask(u, n, r) PROVE m = n
    <3>1. m \in Nat /\ n \in Nat /\ IsTask(w, m + 1, r) /\ IsTask(w, n + 1, r)
      BY <1>3, <2>1
    <3>2. m + 1 = n + 1
      BY <3>1 DEF Held, OnceEach
    <3> QED  BY <3>1, <3>2
  <2>2. OnceIn(Append(rn, h))
    <3>1. OnceIn(rn)
      BY DEF Held, OnceEach
    <3> QED  BY <1>10, <1>12, <3>1 DEF OnceIn, Runs
  <2> QED  BY <1>1, <2>1, <2>2 DEF Held, OnceEach
<1>16. InTurn(u, reg, Append(rn, h), <<>>)
  <2> SUFFICES ASSUME NEW i \in DOMAIN reg, NEW j \in DOMAIN reg, i < j,
                      reg[i].on = reg[j].on
               PROVE  OlderFirst(u, Append(rn, h), <<>>, reg[i], reg[j])
    BY DEF InTurn
  <2>1. OlderFirst(w, rn, <<>>, reg[i], reg[j])
    BY DEF Held, InTurn
  <2>2. PICK r : r = reg[i]
    OBVIOUS
  <2>3. PICK s : s = reg[j]
    OBVIOUS
  <2>4. ASSUME NEW n, IsTask(u, n, s)
        PROVE  Runs(Append(rn, h), r) \/ \E m \in 1 .. (n - 1) : IsTask(u, m, r)
    <3>1. n \in Nat /\ IsTask(w, n + 1, s)
      BY <1>3, <2>4
    <3>2. Runs(rn, r) \/ \E m \in 1 .. n : IsTask(w, m, r)
      BY <2>1, <2>2, <2>3, <3>1 DEF OlderFirst
    <3>3. CASE r = h \/ Runs(rn, r)
      BY <1>11, <3>3
    <3>4. CASE r # h /\ \E m \in 1 .. n : IsTask(w, m, r)
      <4>1. PICK m \in 1 .. n : IsTask(w, m, r)
        BY <3>4
      <4>2. PICK k \in Nat \ {0} : m = k + 1 /\ IsTask(u, k, r)
        BY <1>4, <3>4, <4>1
      <4> QED  BY <3>1, <4>1, <4>2
    <3> QED  BY <3>2, <3>3, <3>4
  <2>5. ASSUME NEW n \in DOMAIN Append(rn, h), Append(rn, h)[n] = s
        PROVE  \E m \in 1 .. (n - 1) : Append(rn, h)[m] = r
    <3>1. CASE n \in 1 .. Len(rn)
      <4>1. PICK m \in 1 .. (n - 1) : rn[m] = r
        BY <1>10, <2>1, <2>2, <2>3, <2>5, <3>1 DEF OlderFirst
      <4>2. m \in 1 .. Len(rn)
        BY <1>10, <3>1
      <4> QED  BY <1>10, <4>1, <4>2
    <3>2. CASE n = Len(rn) + 1
      <4>1. IsTask(w, 1, s)
        BY <1>2, <1>10, <2>5, <3>2
      <4>2. Runs(rn, r) \/ \E m \in 1 .. (1 - 1) : IsTask(w, m, r)
        BY <2>1, <2>2, <2>3, <4>1 DEF OlderFirst
      <4>3. PICK m \in 1 .. Len(rn) : rn[m] = r
        BY <1>10, <4>2 DEF Runs
      <4>4. m \in 1 .. (n - 1)
        BY <1>10, <3>2
      <4> QED  BY <1>10, <4>3, <4>4
    <3> QED  BY <1>10, <3>1, <3>2
  <2>6. \A q \in Promises : \A n : IsWaiting(u, q, n, s) =>
          \E m \in 1 .. (n - 1) : IsWaiting(u, q, m, r)
    BY <1>9, <2>1, <2>2, <2>3 DEF OlderFirst
  <2>7. \A n \in DOMAIN <<>> : <<>>[n] # s
    OBVIOUS
  <2> QED  BY <2>2, <2>3, <2>4, <2>5, <2>6, <2>7 DEF OlderFirst
<1> QED  BY <1>13, <1>14, <1>15, <1>16 DEF Held

-----------------------------------------------------------------------------
(* A promise is settled, or adopts another one                             *)

LEMMA ImmediateEffect ==
    ASSUME NEW w \in Worlds, NEW p \in Promises
    PROVE  LET v == Immediate(w, [check |-> p]) IN
           /\ v \in Worlds /\ v.promise = w.promise
           /\ \A n \in DOMAIN w.queue : n \in DOMAIN v.queue /\ v.queue[n] = w.queue[n]
           /\ \A n \in DOMAIN v.queue : "react" \in DOMAIN v.queue[n] => n \in DOMAIN w.queue
<1> DEFINE line == Append(w.queue, [check |-> p])
           v == [w EXCEPT !.queue = line]
<1>1. w.promise \in [Promises -> Cells] /\ w.queue \in Seq(Tasks)
  BY DEF Worlds
<1>2. [check |-> p] \in Tasks
  BY DEF Tasks
<1>3. /\ line \in Seq(Tasks) /\ Len(line) = Len(w.queue) + 1 /\ Len(w.queue) \in Nat
      /\ DOMAIN w.queue = 1 .. Len(w.queue) /\ DOMAIN line = 1 .. Len(line)
      /\ \A n \in 1 .. Len(w.queue) : line[n] = w.queue[n]
      /\ line[Len(w.queue) + 1] = [check |-> p]
  BY <1>1, <1>2, AppendProperties, LenProperties
<1>4. "react" \notin DOMAIN [check |-> p]
  OBVIOUS
<1> HIDE DEF line
<1>5. v \in Worlds /\ v.promise = w.promise /\ v.queue = line
  BY <1>1, <1>3 DEF Worlds
<1>6. \A n \in DOMAIN w.queue : n \in DOMAIN line /\ line[n] = w.queue[n]
  BY <1>3
<1>7. ASSUME NEW n \in DOMAIN line, "react" \in DOMAIN line[n] PROVE n \in DOMAIN w.queue
  <2>1. n # Len(w.queue) + 1
    BY <1>3, <1>4, <1>7
  <2> QED  BY <1>3, <2>1
<1> QED  BY <1>5, <1>6, <1>7 DEF Immediate, line

(* What a promise p may become, and the world before what waits on it goes *)
(* on.                                                                     *)
May(w, p, st, x) ==
    \/ st \in Settled /\ x \in Plain
    \/ /\ st = "adopted" /\ x \in Promises /\ w.promise[x].state # "none"
       /\ Root(w, x) # p
Cleared(a, w, p, st) ==
    LET c == IF st = "rejected" /\ w.promise[p].deferreds = <<>>
               THEN Immediate(a, [check |-> p]) ELSE a
    IN  [c EXCEPT !.promise[p].deferreds = <<>>]
Emptied(w, p, st, x) ==
    Cleared([w EXCEPT !.promise[p].state = st, !.promise[p].value = x], w, p, st)

LEMMA EmptiedEffect ==
    ASSUME NEW w \in Worlds, NEW p \in Promises, NEW st, NEW x, May(w, p, st, x),
           NEW u, u = Emptied(w, p, st, x)
    PROVE  /\ u \in Worlds /\ u.promise[p].state = st /\ u.promise[p].value = x
           /\ u.promise[p].deferreds = <<>>
           /\ \A y \in Promises \ {p} : u.promise[y] = w.promise[y]
           /\ \A n \in DOMAIN w.queue : n \in DOMAIN u.queue /\ u.queue[n] = w.queue[n]
           /\ \A n \in DOMAIN u.queue : "react" \in DOMAIN u.queue[n] => n \in DOMAIN w.queue
           /\ Become(w, p, st, x) = Handle(u, p, w.promise[p].deferreds)
<1>1. /\ st \in {"none", "pending", "adopted"} \cup Settled /\ x \in Plain \cup Promises
      /\ w.promise[p] \in Cells
  BY DEF May, Worlds
<1> DEFINE c1 == [w.promise[p] EXCEPT !.state = st]
           a1 == [w EXCEPT !.promise = [w.promise EXCEPT ![p] = c1]]
<1>2. /\ c1 \in Cells /\ c1.state = st /\ c1.deferreds = w.promise[p].deferreds
      /\ a1 \in Worlds /\ a1.queue = w.queue /\ a1.promise[p] = c1
      /\ \A y \in Promises \ {p} : a1.promise[y] = w.promise[y]
  <2>1. c1 \in Cells /\ c1.state = st /\ c1.deferreds = w.promise[p].deferreds
    <3>1. PICK c \in Cells : c = w.promise[p]
      BY <1>1
    <3> DEFINE e == [c EXCEPT !.state = st]
    <3>2. e \in Cells /\ e.state = st /\ e.deferreds = c.deferreds
      BY <1>1, CellSet
    <3>3. c1 = e
      BY <3>1
    <3> HIDE DEF c1, e
    <3> QED  BY <3>1, <3>2, <3>3
  <2> HIDE DEF c1
  <2>2. /\ a1 \in Worlds /\ a1.queue = w.queue /\ a1.promise[p] = c1
        /\ \A y \in Promises \ {p} : a1.promise[y] = w.promise[y]
    BY <2>1, CellPut
  <2> QED  BY <2>1, <2>2
<1> HIDE DEF c1, a1
<1> DEFINE c2 == [c1 EXCEPT !.value = x]
           a2 == [a1 EXCEPT !.promise = [a1.promise EXCEPT ![p] = c2]]
<1>3. /\ c2 \in Cells /\ c2.state = st /\ c2.value = x
      /\ c2.deferreds = w.promise[p].deferreds
      /\ a2 \in Worlds /\ a2.queue = w.queue /\ a2.promise[p] = c2
      /\ \A y \in Promises \ {p} : a2.promise[y] = w.promise[y]
  <2>1. /\ c2 \in Cells /\ c2.state = c1.state /\ c2.value = x /\ c2.deferreds = c1.deferreds
    BY <1>1, <1>2, CellSet
  <2> HIDE DEF c2
  <2>2. /\ a2 \in Worlds /\ a2.queue = a1.queue /\ a2.promise[p] = c2
        /\ \A y \in Promises \ {p} : a2.promise[y] = a1.promise[y]
    BY <1>2, <2>1, CellPut
  <2> QED  BY <1>2, <2>1, <2>2
<1>4. a2 = [w EXCEPT !.promise[p].state = st, !.promise[p].value = x]
  <2>1. [w EXCEPT !.promise[p].state = st, !.promise[p].value = x]
          = [a1 EXCEPT !.promise[p].value = x]
    BY DEF a1, c1
  <2>2. [a1 EXCEPT !.promise[p].value = x] = a2
    BY <1>2
  <2> QED  BY <2>1, <2>2
<1> HIDE DEF c2, a2
<1> DEFINE a3 == IF st = "rejected" /\ w.promise[p].deferreds = <<>>
                   THEN Immediate(a2, [check |-> p]) ELSE a2
<1>5. /\ a3 \in Worlds /\ a3.promise = a2.promise
      /\ \A n \in DOMAIN w.queue : n \in DOMAIN a3.queue /\ a3.queue[n] = w.queue[n]
      /\ \A n \in DOMAIN a3.queue : "react" \in DOMAIN a3.queue[n] => n \in DOMAIN w.queue
  BY <1>3, ImmediateEffect
<1>6. u = [a3 EXCEPT !.promise[p].deferreds = <<>>]
  <2>1. u = Cleared(a2, w, p, st)
    BY <1>4, Zenon DEF Emptied
  <2> QED  BY <2>1, Zenon DEF Cleared
<1>7. Become(w, p, st, x) = Handle(u, p, w.promise[p].deferreds)
  <2>1. /\ a2.promise[p].deferreds = w.promise[p].deferreds
        /\ a2.promise[p].state = st
    BY <1>3
  <2>2. Become(w, p, st, x) = Finale(a2, p)
    BY <1>4 DEF Become
  <2> QED  BY <1>6, <2>1, <2>2 DEF Finale
<1> HIDE DEF a3
<1> DEFINE c3 == [a3.promise[p] EXCEPT !.deferreds = <<>>]
<1>8. u = [a3 EXCEPT !.promise = [a3.promise EXCEPT ![p] = c3]]
  BY <1>6
<1>9. /\ c3 \in Cells /\ c3.state = st /\ c3.value = x /\ c3.deferreds = <<>>
  <2>1. <<>> \in Seq(Reactions) /\ a3.promise[p] = c2
    BY <1>3, <1>5, EmptySeq
  <2> DEFINE e == [c2 EXCEPT !.deferreds = <<>>]
  <2>2. e \in Cells /\ e.state = c2.state /\ e.value = c2.value /\ e.deferreds = <<>>
    BY <1>3, <2>1, CellChanges
  <2>3. c3 = e
    BY <2>1
  <2> QED  BY <1>3, <2>2, <2>3
<1> HIDE DEF c3
<1>10. /\ u \in Worlds /\ u.queue = a3.queue /\ u.promise[p] = c3
       /\ \A y \in Promises \ {p} : u.promise[y] = a3.promise[y]
  BY <1>5, <1>8, <1>9, CellPut
<1> QED  BY <1>3, <1>5, <1>7, <1>9, <1>10

LEMMA Becomes ==
    ASSUME NEW w \in Worlds, Adoptions(w), NEW p \in Promises, w.promise[p].state = "pending",
           NEW st, NEW x, May(w, p, st, x),
           NEW reg \in Seq(Reactions), NEW rn \in Seq(Reactions), Held(w, reg, rn, <<>>),
           NEW v, v = Become(w, p, st, x)
    PROVE  /\ v \in Worlds /\ Adoptions(v) /\ Held(v, reg, rn, <<>>)
           /\ v.promise[p].state = st /\ v.promise[p].value = x
           /\ \A y \in Promises \ {p} : /\ v.promise[y].state = w.promise[y].state
                                        /\ v.promise[y].value = w.promise[y].value
<1> DEFINE u == Emptied(w, p, st, x)
           h == w.promise[p].deferreds
           q == IF st = "adopted" THEN Root(w, x) ELSE p
<1>1. /\ u \in Worlds /\ u.promise[p].state = st /\ u.promise[p].value = x
      /\ u.promise[p].deferreds = <<>>
      /\ \A y \in Promises \ {p} : u.promise[y] = w.promise[y]
      /\ \A n \in DOMAIN w.queue : n \in DOMAIN u.queue /\ u.queue[n] = w.queue[n]
      /\ \A n \in DOMAIN u.queue : "react" \in DOMAIN u.queue[n] => n \in DOMAIN w.queue
      /\ v = Handle(u, p, h)
  BY EmptiedEffect
<1> HIDE DEF u, q
<1>2. h \in Seq(Reactions)
  BY WorldParts
<1> HIDE DEF h
<1>3. \A y \in Promises \ {p} : /\ u.promise[y].state = w.promise[y].state
                               /\ u.promise[y].value = w.promise[y].value
                               /\ u.promise[y].deferreds = w.promise[y].deferreds
  BY <1>1
<1>4. /\ Adoptions(u) /\ q \in Promises /\ u.promise[p].state # "none"
      /\ \A y \in Promises : Root(u, y) = IF Root(w, y) = p THEN q ELSE Root(w, y)
  <2>1. CASE st = "adopted"
    <3>1. x \in Promises /\ w.promise[x].state # "none" /\ Root(w, x) # p
      BY <2>1 DEF May, Settled
    <3>2. /\ Adoptions(u)
          /\ \A y \in Promises : Root(u, y) = IF Root(w, y) = p THEN Root(w, x) ELSE Root(w, y)
      <4>1. u.promise[p].state = "adopted" /\ u.promise[p].value = x
        BY <1>1, <2>1
      <4>2. \A y \in Promises \ {p} : /\ u.promise[y].state = w.promise[y].state
                                       /\ u.promise[y].value = w.promise[y].value
        BY <1>3
      <4>3. Adopts(w, u, p, x)
        BY <3>1, <4>1, <4>2 DEF Adopts
      <4> QED  BY <3>1, <4>3, NewAdoption
    <3>3. q = Root(w, x) /\ q \in Promises
      BY <2>1, <3>1, RootFacts DEF q
    <3> QED  BY <1>1, <2>1, <3>2, <3>3
  <2>2. CASE st \in Settled /\ x \in Plain
    <3>1. st # "adopted" /\ st # "none" /\ q = p
      BY <2>2 DEF Settled, q
    <3>2. \A y \in Promises : w.promise[y].state \in Settled => w.promise[y].value \in Plain
      BY DEF Adoptions
    <3>3. \A y \in Promises :
            /\ u.promise[y].state = "adopted" <=> w.promise[y].state = "adopted"
            /\ w.promise[y].state # "none" => u.promise[y].state # "none"
            /\ u.promise[y].state = "adopted" => u.promise[y].value = w.promise[y].value
            /\ u.promise[y].state \in Settled => u.promise[y].value \in Plain
      <4> SUFFICES ASSUME NEW y \in Promises
                   PROVE
            /\ u.promise[y].state = "adopted" <=> w.promise[y].state = "adopted"
            /\ w.promise[y].state # "none" => u.promise[y].state # "none"
            /\ u.promise[y].state = "adopted" => u.promise[y].value = w.promise[y].value
            /\ u.promise[y].state \in Settled => u.promise[y].value \in Plain
        OBVIOUS
      <4>1. CASE y = p
        BY <1>1, <2>2, <3>1, <4>1
      <4>2. CASE y # p
        BY <1>3, <3>2, <4>2
      <4> QED  BY <4>1, <4>2
    <3>4. Adoptions(u) /\ \A y \in Promises : Root(u, y) = Root(w, y)
      BY <3>3, SameAdoptions
    <3> QED  BY <1>1, <3>1, <3>4
  <2> QED  BY <2>1, <2>2 DEF May
<1>5. /\ Held(u, reg, rn, h)
      /\ \A n \in DOMAIN h : Root(u, h[n].on) = q
  <2>1. \A n : "react" \in DOMAIN u.queue[n] /\ n \in DOMAIN u.queue
                 <=> "react" \in DOMAIN w.queue[n] /\ n \in DOMAIN w.queue
    BY <1>1
  <2>2. \A n \in DOMAIN w.queue : u.queue[n] = w.queue[n]
    BY <1>1
  <2> QED  BY <1>1, <1>3, <1>4, <2>1, <2>2, LetGo DEF h
<1>6. Root(u, p) = q
  BY <1>4, RootFacts
<1>7. /\ v \in Worlds /\ Adoptions(v)
      /\ \A y \in Promises : /\ v.promise[y].state = u.promise[y].state
                             /\ v.promise[y].value = u.promise[y].value
  <2>1. PICK z : z = Root(u, p)
    OBVIOUS
  <2>2. Handled(u, v, z, h)
    BY <1>1, <1>2, <1>4, <2>1, HandleEffect
  <2> QED  BY <2>2 DEF Handled
<1>8. Held(v, reg, rn, <<>>)
  BY <1>1, <1>2, <1>4, <1>5, <1>6, Placed
<1> QED  BY <1>1, <1>3, <1>7, <1>8

-----------------------------------------------------------------------------
(* A promise is created, and what follows others is added to them          *)

LEMMA Created1 ==
    ASSUME NEW w \in Worlds, Adoptions(w), NEW c \in Promises, w.promise[c].state = "none",
           NEW reg \in Seq(Reactions), NEW rn \in Seq(Reactions), Held(w, reg, rn, <<>>),
           NEW v, v = AsPending(w, c)
    PROVE  /\ v \in Worlds /\ Adoptions(v) /\ Held(v, reg, rn, <<>>)
           /\ v.promise[c].state = "pending" /\ v.promise[c].value = w.promise[c].value
           /\ \A y \in Promises \ {c} : v.promise[y] = w.promise[y]
<1> DEFINE e == [w.promise[c] EXCEPT !.state = "pending"]
<1>1. v = [w EXCEPT !.promise = [w.promise EXCEPT ![c] = e]]
  BY DEF AsPending
<1>2. /\ e \in Cells /\ e.state = "pending" /\ e.value = w.promise[c].value
      /\ e.deferreds = w.promise[c].deferreds
  BY CellSet DEF Worlds
<1> HIDE DEF e
<1>3. /\ v \in Worlds /\ v.queue = w.queue /\ v.promise[c] = e
      /\ \A y \in Promises \ {c} : v.promise[y] = w.promise[y]
  BY <1>1, <1>2, CellPut
<1>4. \A y \in Promises : /\ v.promise[y].deferreds = w.promise[y].deferreds
                         /\ v.promise[y].state = (IF y = c THEN "pending" ELSE w.promise[y].state)
                         /\ v.promise[y].value = w.promise[y].value
  BY <1>2, <1>3
<1>5. Adoptions(v) /\ \A y \in Promises : Root(v, y) = Root(w, y)
  <2>1. \A y \in Promises : w.promise[y].state \in Settled => w.promise[y].value \in Plain
    BY DEF Adoptions
  <2>2. \A y \in Promises :
          /\ v.promise[y].state = "adopted" <=> w.promise[y].state = "adopted"
          /\ w.promise[y].state # "none" => v.promise[y].state # "none"
          /\ v.promise[y].state = "adopted" => v.promise[y].value = w.promise[y].value
          /\ v.promise[y].state \in Settled => v.promise[y].value \in Plain
    BY <1>4, <2>1 DEF Settled
  <2> QED  BY <2>2, SameAdoptions
<1>6. \A y \in Promises : w.promise[y].state \in Settled \cup {"pending"} =>
        v.promise[y].state = w.promise[y].state
  BY <1>4 DEF Settled
<1>7. \A n, r : IsTask(v, n, r) <=> IsTask(w, n, r)
  BY <1>3 DEF IsTask
<1>8. \A r : Queues(v, r) <=> Queues(w, r)
  BY <1>7, SameTasks
<1>9. \A y \in Promises : \A r : Waits(v, y, r) <=> Waits(w, y, r)
  BY <1>4 DEF Waits
<1>14. \A y \in Promises : \A n, r : IsWaiting(v, y, n, r) <=> IsWaiting(w, y, n, r)
  BY <1>4 DEF IsWaiting
<1>10. InPlace(v, reg, rn, <<>>)
  <2> SUFFICES ASSUME NEW r \in Reactions PROVE Right(v, reg, rn, <<>>, r)
    BY DEF InPlace
  <2>1. /\ Right(w, reg, rn, <<>>, r) /\ r.on \in Promises
        /\ Root(v, r.on) = Root(w, r.on) /\ Root(w, r.on) \in Promises
    BY <1>5, RootFacts DEF Held, InPlace, Reactions
  <2>2. w.promise[r.on].state # "none" => v.promise[r.on].state # "none"
    BY <1>4, <2>1
  <2>3. \A y \in Promises : Waits(v, y, r) <=> Waits(w, y, r)
    BY <1>9
  <2>4. Queues(v, r) <=> Queues(w, r)
    BY <1>8
  <2>5. \A y \in Promises : Waits(v, y, r) =>
          Root(v, r.on) = y /\ v.promise[y].state = "pending"
    BY <1>6, <2>1, <2>3 DEF Right
  <2>6. Queues(v, r) \/ Runs(rn, r) => v.promise[Root(v, r.on)].state \in Settled
    BY <1>6, <2>1, <2>4 DEF Right
  <2> QED  BY <2>1, <2>2, <2>3, <2>4, <2>5, <2>6 DEF Right
<1>11. FromSettled(v)
  <2> SUFFICES ASSUME NEW n \in DOMAIN w.queue, "react" \in DOMAIN w.queue[n]
               PROVE  v.promise[w.queue[n].from].state \in Settled
    BY <1>3 DEF FromSettled
  <2>1. w.queue \in Seq(Tasks) /\ n \in 1 .. Len(w.queue)
    BY WorldParts
  <2>2. w.queue[n] \in Tasks
    BY <2>1, ElementOfSeq
  <2>3. w.queue[n].from \in Promises
    BY <2>2, TaskParts
  <2>4. w.promise[w.queue[n].from].state \in Settled
    BY DEF Held, FromSettled
  <2> QED  BY <1>6, <2>3, <2>4
<1>12. OnceEach(v, rn, <<>>)
  BY <1>4, <1>7 DEF Held, OnceEach
<1>13. InTurn(v, reg, rn, <<>>)
  <2> SUFFICES ASSUME NEW i \in DOMAIN reg, NEW j \in DOMAIN reg, i < j,
                      reg[i].on = reg[j].on
               PROVE  OlderFirst(v, rn, <<>>, reg[i], reg[j])
    BY DEF InTurn
  <2>1. OlderFirst(w, rn, <<>>, reg[i], reg[j])
    BY DEF Held, InTurn
  <2>2. \A n \in DOMAIN <<>> : <<>>[n] # reg[j]
    OBVIOUS
  <2>3. \A q \in Promises : \A n : IsWaiting(v, q, n, reg[j]) =>
          \E m \in 1 .. (n - 1) : IsWaiting(v, q, m, reg[i])
    BY <1>14, <2>1 DEF OlderFirst
  <2>4. \A n : IsTask(v, n, reg[j]) =>
          Runs(rn, reg[i]) \/ \E m \in 1 .. (n - 1) : IsTask(v, m, reg[i])
    BY <1>7, <2>1 DEF OlderFirst
  <2>5. \A n \in DOMAIN rn : rn[n] = reg[j] => \E m \in 1 .. (n - 1) : rn[m] = reg[i]
    BY <2>1 DEF OlderFirst
  <2> QED  BY <2>2, <2>3, <2>4, <2>5 DEF OlderFirst
<1> QED  BY <1>2, <1>3, <1>5, <1>10, <1>11, <1>12, <1>13 DEF Held

LEMMA Follows ==
    ASSUME NEW w \in Worlds, Adoptions(w),
           NEW reg \in Seq(Reactions), NEW rn \in Seq(Reactions), Held(w, reg, rn, <<>>),
           NEW r \in Reactions, ~Knows(reg, r), w.promise[r.on].state # "none",
           NEW v, v = Handle(w, r.on, <<r>>)
    PROVE  /\ v \in Worlds /\ Adoptions(v) /\ Held(v, Append(reg, r), rn, <<>>)
           /\ \A y \in Promises : /\ v.promise[y].state = w.promise[y].state
                                  /\ v.promise[y].value = w.promise[y].value
<1>1. /\ r.on \in Promises /\ <<r>> \in Seq(Reactions) /\ Append(reg, r) \in Seq(Reactions)
  BY AppendProperties DEF Reactions
<1>2. /\ v \in Worlds /\ Adoptions(v)
      /\ \A y \in Promises : /\ v.promise[y].state = w.promise[y].state
                             /\ v.promise[y].value = w.promise[y].value
  <2>1. PICK p \in Promises : p = r.on
    BY <1>1
  <2>2. PICK q : q = Root(w, p)
    OBVIOUS
  <2>3. PICK rs \in Seq(Reactions) : rs = <<r>>
    BY <1>1
  <2>4. w.promise[p].state # "none" /\ v = Handle(w, p, rs)
    BY <2>1, <2>3
  <2>5. Handled(w, v, q, rs)
    BY <2>2, <2>4, HandleEffect
  <2> QED  BY <2>5 DEF Handled
<1>3. Held(w, Append(reg, r), rn, <<r>>)
  BY NewReaction
<1>4. \A n \in DOMAIN <<r>> : Root(w, <<r>>[n].on) = Root(w, r.on)
  OBVIOUS
<1>5. Held(v, Append(reg, r), rn, <<>>)
  BY <1>1, <1>3, <1>4, Placed
<1> QED  BY <1>2, <1>5

-----------------------------------------------------------------------------
(* The loop of all and race, by a least-number argument                    *)

LEMMA LeastCount ==
    ASSUME NEW T \in SUBSET Nat, T # {}
    PROVE  \E x \in T : \A y \in T : x <= y
<1> DEFINE R == OpToRel(<, Nat)
<1>1. IsWellFoundedOn(R, Nat)
  BY NatLessThanWellFounded
<1>2. \A x, y \in Nat : <<y, x>> \in R <=> y < x
  BY DEF OpToRel
<1> HIDE DEF R
<1>3. PICK x \in T : \A y \in T : ~(<<y, x>> \in R)
  BY <1>1, WFMin
<1>4. ASSUME NEW y \in T PROVE x <= y
  <2>1. x \in Nat /\ y \in Nat
    OBVIOUS
  <2>2. ~(y < x)
    BY <1>2, <1>3, <2>1
  <2> QED  BY <2>1, <2>2
<1> QED  BY <1>4

LEMMA EachStep ==
    ASSUME NEW w, NEW rs \in Seq(Reactions)
    PROVE  \E f : /\ f[0] = w /\ HandleEach(w, rs) = f[Len(rs)]
                  /\ \A i \in 1 .. Len(rs) : f[i] = Handle(f[i - 1], rs[i].on, <<rs[i]>>)
<1> DEFINE step(f, i) == IF i = 0 THEN w ELSE Handle(f[i - 1], rs[i].on, <<rs[i]>>)
           eq(f) == f = [i \in 0 .. Len(rs) |-> step(f, i)]
           upto(f, n) == \A i \in 0 .. n : f[i] = step(f, i)
           bad == {n \in 0 .. Len(rs) : ~\E f : upto(f, n)}
<1>1. Len(rs) \in Nat
  BY LenProperties
<1>2. bad = {}
  <2> SUFFICES ASSUME bad # {} PROVE FALSE
    OBVIOUS
  <2>1. bad \in SUBSET Nat
    BY <1>1
  <2> HIDE DEF bad
  <2>2. PICK n \in bad : \A m \in bad : n <= m
    BY <2>1, LeastCount
  <2> USE DEF bad
  <2>3. n \in 0 .. Len(rs) /\ n \in Nat
    BY <1>1
  <2>4. CASE n = 0
    <3> DEFINE f == [i \in {0} |-> w]
    <3>1. upto(f, 0)
      OBVIOUS
    <3> QED  BY <2>2, <2>4, <3>1
  <2>5. CASE n # 0
    <3>1. n - 1 \in 0 .. Len(rs) /\ ~(n <= n - 1) /\ n - 1 \in Nat
      BY <2>3, <2>5
    <3>2. PICK g : upto(g, n - 1)
      BY <2>2, <3>1
    <3> DEFINE f == [i \in 0 .. n |-> IF i = n THEN step(g, n) ELSE g[i]]
    <3>3. ASSUME NEW i \in 0 .. n PROVE f[i] = step(f, i)
      <4>1. CASE i = 0
        <5>1. 0 \in 0 .. (n - 1)
          BY <3>1
        <5>2. g[0] = step(g, 0)
          BY <3>2, <5>1
        <5>3. f[i] = g[0]
          BY <2>5, <4>1
        <5> QED  BY <4>1, <5>2, <5>3
      <4>2. CASE i # 0
        <5>1. i - 1 \in 0 .. n /\ i - 1 # n
          BY <2>3, <4>2
        <5>2. f[i - 1] = g[i - 1]
          BY <5>1
        <5>3. step(f, i) = step(g, i)
          BY <4>2, <5>2
        <5>4. f[i] = step(g, i)
          <6>1. CASE i = n
            BY <6>1
          <6>2. CASE i # n
            <7>1. i \in 0 .. (n - 1)
              BY <2>3, <6>2
            <7>2. g[i] = step(g, i)
              BY <3>2, <7>1
            <7> QED  BY <6>2, <7>2
          <6> QED  BY <6>1, <6>2
        <5> QED  BY <5>3, <5>4
      <4> QED  BY <4>1, <4>2
    <3>4. upto(f, n)
      BY <3>3
    <3> QED  BY <2>2, <3>4
  <2> QED  BY <2>4, <2>5
<1>3. \E f : eq(f)
  <2>1. Len(rs) \in 0 .. Len(rs)
    BY <1>1
  <2>2. PICK g : upto(g, Len(rs))
    BY <1>2, <2>1
  <2> DEFINE f == [i \in 0 .. Len(rs) |-> g[i]]
  <2>3. ASSUME NEW i \in 0 .. Len(rs) PROVE f[i] = step(f, i)
    <3>1. g[i] = step(g, i)
      BY <2>2
    <3>2. i # 0 => i - 1 \in 0 .. Len(rs)
      BY <1>1
    <3>3. step(f, i) = step(g, i)
      BY <3>2
    <3> QED  BY <3>1, <3>3
  <2>4. eq(f)
    BY <2>3
  <2> QED  BY <2>4
<1> DEFINE after == CHOOSE f : eq(f)
<1>4. eq(after)
  BY <1>3
<1>5. HandleEach(w, rs) = after[Len(rs)]
  BY DEF HandleEach
<1> HIDE DEF after
<1>6. after[0] = w /\ \A i \in 1 .. Len(rs) : after[i] = Handle(after[i - 1], rs[i].on, <<rs[i]>>)
  BY <1>1, <1>4
<1> QED  BY <1>5, <1>6

LEMMA FollowsEach ==
    ASSUME NEW w \in Worlds, Adoptions(w),
           NEW reg \in Seq(Reactions), NEW rn \in Seq(Reactions), Held(w, reg, rn, <<>>),
           NEW rs \in Seq(Reactions), OnceIn(rs),
           \A i \in DOMAIN rs : ~Knows(reg, rs[i]) /\ w.promise[rs[i].on].state # "none",
           NEW v, v = HandleEach(w, rs)
    PROVE  /\ v \in Worlds /\ Adoptions(v) /\ Held(v, reg \o rs, rn, <<>>)
           /\ \A y \in Promises : /\ v.promise[y].state = w.promise[y].state
                                  /\ v.promise[y].value = w.promise[y].value
<1> DEFINE k == Len(reg)
<1>1. /\ Len(rs) \in Nat /\ k \in Nat /\ DOMAIN rs = 1 .. Len(rs) /\ DOMAIN reg = 1 .. k
      /\ \A i \in 1 .. Len(rs) : rs[i] \in Reactions
      /\ \A i \in 1 .. k : reg[i] \in Reactions
  BY LenProperties, ElementOfSeq
<1>2. PICK f : /\ f[0] = w /\ v = f[Len(rs)]
               /\ \A i \in 1 .. Len(rs) : f[i] = Handle(f[i - 1], rs[i].on, <<rs[i]>>)
  BY EachStep
<1> HIDE DEF k
<1>11. k \in Nat /\ Len(rs) \in Nat
  BY <1>1
<1> DEFINE all(n) == [i \in 1 .. k + n |-> IF i <= k THEN reg[i] ELSE rs[i - k]]
<1>3. ASSUME NEW n \in 0 .. Len(rs)
      PROVE  /\ all(n) \in Seq(Reactions) /\ Len(all(n)) = k + n
             /\ \A r : Knows(all(n), r) <=> Knows(reg, r) \/ \E i \in 1 .. n : rs[i] = r
  <2>1. ASSUME NEW i \in 1 .. k + n PROVE all(n)[i] \in Reactions
    <3>1. ~(i <= k) => i - k \in 1 .. Len(rs)
      BY <1>1
    <3>2. i <= k => i \in 1 .. k
      BY <1>1
    <3> QED  BY <1>1, <3>1, <3>2
  <2>2. all(n) \in [1 .. k + n -> Reactions] /\ k + n \in Nat
    BY <1>1, <2>1
  <2>3. all(n) \in Seq(Reactions) /\ Len(all(n)) = k + n /\ DOMAIN all(n) = 1 .. k + n
    <3> HIDE DEF all
    <3>1. all(n) \in Seq(Reactions) /\ DOMAIN all(n) = 1 .. k + n
      BY <2>2, SeqDef
    <3> QED  BY <2>2, <3>1, LenProperties
  <2>4. ASSUME NEW r, Knows(all(n), r)
        PROVE  Knows(reg, r) \/ \E i \in 1 .. n : rs[i] = r
    <3>1. PICK i \in 1 .. k + n : all(n)[i] = r
      BY <2>3, <2>4 DEF Knows
    <3>2. CASE i <= k
      <4>1. i \in DOMAIN reg /\ reg[i] = r
        BY <1>1, <3>1, <3>2
      <4> QED  BY <4>1 DEF Knows
    <3>3. CASE ~(i <= k)
      <4>1. i - k \in 1 .. n /\ rs[i - k] = r
        BY <1>1, <3>1, <3>3
      <4> QED  BY <4>1
    <3> QED  BY <3>2, <3>3
  <2>5. ASSUME NEW r, NEW i \in DOMAIN reg, reg[i] = r PROVE Knows(all(n), r)
    <3>1. i \in 1 .. k + n /\ i <= k
      BY <1>1
    <3>2. all(n)[i] = r
      BY <2>5, <3>1
    <3> QED  BY <2>3, <3>1, <3>2 DEF Knows
  <2>6. ASSUME NEW r, NEW i \in 1 .. n, rs[i] = r PROVE Knows(all(n), r)
    <3> DEFINE j == k + i
    <3> HIDE DEF j
    <3>2. j - k = i /\ j \in 1 .. k + n /\ ~(j <= k)
      BY <1>11 DEF j
    <3>3. all(n)[j] = r
      BY <2>6, <3>2
    <3> QED  BY <2>3, <3>2, <3>3 DEF Knows
  <2>7. \A r : Knows(reg, r) <=> \E i \in DOMAIN reg : reg[i] = r
    BY DEF Knows
  <2> HIDE DEF all
  <2> QED  BY <2>3, <2>4, <2>5, <2>6, <2>7
<1>4. all(0) = reg
  <2>1. 0 \in 0 .. Len(rs)
    BY <1>1
  <2>2. all(0) \in Seq(Reactions) /\ Len(all(0)) = k
    BY <1>1, <1>3, <2>1
  <2>3. \A i \in 1 .. k : all(0)[i] = reg[i]
    BY <1>1
  <2> HIDE DEF all
  <2> QED  BY <2>2, <2>3, SeqEqual DEF k
<1>5. ASSUME NEW n \in 1 .. Len(rs) PROVE all(n) = Append(all(n - 1), rs[n])
  <2>1. n - 1 \in 0 .. Len(rs) /\ n \in 0 .. Len(rs) /\ n \in Nat
    BY <1>1
  <2>2. /\ all(n) \in Seq(Reactions) /\ Len(all(n)) = k + n
        /\ all(n - 1) \in Seq(Reactions) /\ Len(all(n - 1)) = k + (n - 1)
    BY <1>3, <2>1
  <2>3. \A i \in 1 .. k + n : all(n)[i] = IF i <= k + (n - 1) THEN all(n - 1)[i] ELSE rs[n]
    <3> SUFFICES ASSUME NEW i \in 1 .. k + n
                 PROVE  all(n)[i] = IF i <= k + (n - 1) THEN all(n - 1)[i] ELSE rs[n]
      OBVIOUS
    <3>1. CASE i <= k + (n - 1)
      <4>1. i \in 1 .. k + (n - 1)
        BY <1>1, <2>1, <3>1
      <4> QED  BY <3>1, <4>1
    <3>2. CASE ~(i <= k + (n - 1))
      <4>1. i \in Nat /\ n \in Nat /\ k \in Nat /\ i = k + n /\ n > 0
        BY <1>11, <2>1, <3>2
      <4>2. ~(i <= k) /\ i - k = n
        BY <4>1
      <4> QED  BY <3>2, <4>2
    <3> QED  BY <3>1, <3>2
  <2> HIDE DEF all
  <2> DEFINE b == Append(all(n - 1), rs[n])
  <2>4. /\ b \in Seq(Reactions) /\ Len(b) = k + n
        /\ \A i \in 1 .. k + (n - 1) : b[i] = all(n - 1)[i]
        /\ b[k + n] = rs[n]
    <3>1. /\ b \in Seq(Reactions) /\ Len(b) = Len(all(n - 1)) + 1
          /\ \A i \in 1 .. Len(all(n - 1)) : b[i] = all(n - 1)[i]
          /\ b[Len(all(n - 1)) + 1] = rs[n]
      BY <1>1, <2>2, AppendProperties
    <3>2. k + (n - 1) + 1 = k + n
      BY <1>1, <2>1
    <3> QED  BY <2>2, <3>1, <3>2
  <2> HIDE DEF b
  <2>5. ASSUME NEW i \in 1 .. k + n PROVE all(n)[i] = b[i]
    <3>1. CASE i <= k + (n - 1)
      <4>1. i \in 1 .. k + (n - 1)
        BY <1>1, <2>1, <3>1
      <4> QED  BY <2>3, <2>4, <3>1, <4>1
    <3>2. CASE ~(i <= k + (n - 1))
      <4>1. i = k + n
        BY <1>1, <2>1, <3>2
      <4> QED  BY <2>3, <2>4, <3>2, <4>1
    <3> QED  BY <3>1, <3>2
  <2>6. all(n) = b
    BY <2>2, <2>4, <2>5, SeqEqual
  <2> QED  BY <2>6 DEF b
<1>6. all(Len(rs)) = reg \o rs
  <2>1. Len(rs) \in 0 .. Len(rs)
    BY <1>1
  <2>2. all(Len(rs)) \in Seq(Reactions) /\ Len(all(Len(rs))) = k + Len(rs)
    BY <1>3, <2>1
  <2>3. /\ reg \o rs \in Seq(Reactions) /\ Len(reg \o rs) = k + Len(rs)
        /\ \A i \in 1 .. k + Len(rs) :
             (reg \o rs)[i] = IF i <= k THEN reg[i] ELSE rs[i - k]
    BY ConcatProperties DEF k
  <2>4. \A i \in 1 .. k + Len(rs) : all(Len(rs))[i] = (reg \o rs)[i]
    BY <2>3
  <2> HIDE DEF all
  <2> QED  BY <2>2, <2>3, <2>4, SeqEqual
<1> DEFINE good(n) ==
             /\ f[n] \in Worlds /\ Adoptions(f[n]) /\ Held(f[n], all(n), rn, <<>>)
             /\ \A y \in Promises : /\ f[n].promise[y].state = w.promise[y].state
                                    /\ f[n].promise[y].value = w.promise[y].value
           bad == {n \in 0 .. Len(rs) : ~good(n)}
<1> HIDE DEF all
<1>7. good(0)
  BY <1>2, <1>4
<1>8. ASSUME NEW n \in 1 .. Len(rs), good(n - 1) PROVE good(n)
  <2>1. n - 1 \in 0 .. Len(rs)
    BY <1>1
  <2>2. PICK u : u = f[n - 1]
    OBVIOUS
  <2>3. PICK r \in Reactions : r = rs[n]
    BY <1>1
  <2>4. PICK a \in Seq(Reactions) : a = all(n - 1)
    BY <1>3, <2>1
  <2>5. u \in Worlds /\ Adoptions(u) /\ Held(u, a, rn, <<>>)
    BY <1>8, <2>2, <2>4
  <2>6. ~Knows(a, r)
    <3>1. Knows(a, r) <=> Knows(reg, r) \/ \E i \in 1 .. (n - 1) : rs[i] = r
      BY <1>3, <2>1, <2>4
    <3>2. \A i \in 1 .. (n - 1) : rs[i] # r
      <4> SUFFICES ASSUME NEW i \in 1 .. (n - 1), rs[i] = rs[n] PROVE FALSE
        BY <2>3
      <4>1. i \in DOMAIN rs /\ n \in DOMAIN rs /\ i # n
        BY <1>1
      <4> QED  BY <4>1 DEF OnceIn
    <3> QED  BY <1>1, <2>3, <3>1, <3>2
  <2>7. u.promise[r.on].state # "none"
    <3>1. r.on \in Promises
      BY DEF Reactions
    <3> QED  BY <1>1, <1>8, <2>2, <2>3, <3>1
  <2>8. PICK x : x = Handle(u, r.on, <<r>>)
    OBVIOUS
  <2>9. f[n] = x
    BY <1>2, <2>2, <2>3, <2>8
  <2>10. /\ x \in Worlds /\ Adoptions(x) /\ Held(x, Append(a, r), rn, <<>>)
         /\ \A y \in Promises : /\ x.promise[y].state = u.promise[y].state
                                /\ x.promise[y].value = u.promise[y].value
    BY <2>5, <2>6, <2>7, <2>8, Follows
  <2>11. all(n) = Append(a, r)
    BY <1>5, <2>3, <2>4
  <2> QED  BY <1>8, <2>2, <2>9, <2>10, <2>11
<1> HIDE DEF good
<1>9. bad = {}
  <2> SUFFICES ASSUME bad # {} PROVE FALSE
    OBVIOUS
  <2>1. bad \in SUBSET Nat
    BY <1>1
  <2> HIDE DEF bad
  <2>2. PICK n \in bad : \A m \in bad : n <= m
    BY <2>1, LeastCount
  <2> USE DEF bad
  <2>3. n \in Nat /\ n # 0
    BY <1>1, <1>7, <2>2
  <2>4. n \in 1 .. Len(rs) /\ n - 1 \in 0 .. Len(rs) /\ ~(n <= n - 1)
    BY <1>1, <2>3
  <2>5. good(n - 1)
    BY <2>2, <2>4
  <2> QED  BY <1>8, <2>2, <2>4, <2>5
<1>10. good(Len(rs))
  BY <1>1, <1>9
<1> QED  BY <1>2, <1>6, <1>10 DEF good

(* What a program or a handler may resolve p with.                         *)
Given(w, p, x) ==
    \/ x \in Plain \cup {p}
    \/ x \in Promises /\ w.promise[x].state # "none" /\ Root(w, x) # p
Becoming(w, v, p, reg, rn) ==
    /\ v \in Worlds /\ Adoptions(v) /\ Held(v, reg, rn, <<>>)
    /\ v.promise[p].state # "none"
    /\ \A y \in Promises \ {p} : /\ v.promise[y].state = w.promise[y].state
                                 /\ v.promise[y].value = w.promise[y].value

LEMMA Resolves ==
    ASSUME NEW w \in Worlds, Adoptions(w), NEW p \in Promises, w.promise[p].state = "pending",
           NEW reg \in Seq(Reactions), NEW rn \in Seq(Reactions), Held(w, reg, rn, <<>>),
           NEW x, Given(w, p, x),
           NEW v,
                  \/ v = ResolveTo(w, p, x)
                  \/ x \in Plain /\ v = RejectTo(w, p, x)
    PROVE  Becoming(w, v, p, reg, rn)
<1>1. \E st, y : May(w, p, st, y) /\ v = Become(w, p, st, y)
  <2>1. CASE x \in Plain /\ v = RejectTo(w, p, x)
    <3>1. May(w, p, "rejected", x)
      BY <2>1 DEF May, Settled
    <3> QED  BY <2>1, <3>1 DEF RejectTo
  <2>2. CASE v = ResolveTo(w, p, x)
    <3>1. CASE x = p
      <4>1. May(w, p, "rejected", SelfError)
        BY DEF May, Settled, Plain
      <4> QED  BY <2>2, <3>1, <4>1 DEF ResolveTo, RejectTo
    <3>2. CASE x \in Promises \ {p}
      <4>1. x \notin Plain
        BY <3>2, PromisesAssumption DEF Plain
      <4>2. May(w, p, "adopted", x)
        BY <3>2, <4>1 DEF May, Given
      <4>3. v = Become(w, p, "adopted", x)
        BY <2>2, <3>2 DEF ResolveTo
      <4> QED  BY <4>2, <4>3
    <3>3. CASE x \notin Promises
      <4>1. May(w, p, "fulfilled", x)
        BY <3>3 DEF May, Given, Settled
      <4>2. v = Become(w, p, "fulfilled", x)
        BY <2>2, <3>3 DEF ResolveTo
      <4> QED  BY <4>1, <4>2
    <3> QED  BY <3>1, <3>2, <3>3
  <2> QED  BY <2>1, <2>2
<1>2. PICK st, y : May(w, p, st, y) /\ v = Become(w, p, st, y)
  BY <1>1
<1>3. st # "none"
  BY <1>2 DEF May, Settled
<1>4. /\ v \in Worlds /\ Adoptions(v) /\ Held(v, reg, rn, <<>>)
      /\ v.promise[p].state = st
      /\ \A z \in Promises \ {p} : /\ v.promise[z].state = w.promise[z].state
                                   /\ v.promise[z].value = w.promise[z].value
  BY <1>2, Becomes
<1> QED  BY <1>3, <1>4 DEF Becoming

-----------------------------------------------------------------------------
(* The invariant is inductive                                              *)

LEMMA PromiseInvInit == PromiseInit => PromiseInv
<1> SUFFICES ASSUME PromiseInit PROVE PromiseInv
  OBVIOUS
<1>1. world \in Worlds /\ PromiseTypeOK
  <2>1. \A S : <<>> \in Seq(S)
    OBVIOUS
  <2>2. world.promise \in [Promises -> Cells] /\ world.queue = <<>>
    BY <2>1 DEF PromiseInit, Cells, Plain
  <2>3. world \in Worlds
    BY <2>1, <2>2 DEF PromiseInit, Worlds
  <2> QED  BY <2>1, <2>2, <2>3 DEF PromiseInit, PromiseTypeOK, Cells
<1>2. \A p \in Promises : /\ world.promise[p].state = "none"
                          /\ world.promise[p].deferreds = <<>>
  BY DEF PromiseInit
<1>3. world.queue = <<>> /\ registered = <<>> /\ ran = <<>>
  BY DEF PromiseInit
<1>4. Adoptions(world)
  <2>1. Leads(world, [p \in Promises |-> p])
    BY <1>2 DEF Leads
  <2>2. Acyclic(world)
    BY <1>2 DEF Acyclic
  <2> QED  BY <1>2, <2>1, <2>2 DEF Adoptions, Settled
<1>5. Held(world, registered, ran, <<>>)
  <2>1. \A r : ~Queues(world, r) /\ ~Runs(<<>>, r) /\ \A q \in Promises : ~Waits(world, q, r)
    BY <1>2, <1>3 DEF Queues, IsTask, Runs, Waits
  <2>2. \A r : ~Knows(registered, r)
    BY <1>3 DEF Knows
  <2>3. InPlace(world, registered, ran, <<>>)
    BY <1>3, <2>1, <2>2 DEF InPlace, Right
  <2>4. FromSettled(world) /\ InTurn(world, registered, ran, <<>>)
    BY <1>3 DEF FromSettled, InTurn
  <2>5. OnceEach(world, ran, <<>>)
    BY <1>2, <1>3 DEF OnceEach, OnceIn, IsTask
  <2> QED  BY <2>3, <2>4, <2>5 DEF Held
<1>6. Owed /\ Counted
  BY <1>3 DEF PromiseInit, Owed, Counted
<1> QED  BY <1>1, <1>4, <1>5, <1>6 DEF PromiseInv

(* What the steps have in common.                                          *)
Kept ==
    \A p \in Promises : world.promise[p].state \in Settled \cup {"adopted"} =>
      /\ world'.promise[p].state = world.promise[p].state
      /\ world'.promise[p].value = world.promise[p].value

LEMMA WorldTyped ==
    ASSUME world' \in Worlds, resolver' \in [Promises -> {"none", "open", "used"}],
           remaining' \in [Promises -> Nat], elements' \in [Promises -> Seq(Promises)],
           registered' \in Seq(Reactions), ran' \in Seq(Reactions)
    PROVE  PromiseTypeOK'
  BY DEF PromiseTypeOK, Worlds, Cells

LEMMA Registered ==
    ASSUME PromiseTypeOK
    PROVE  \A i \in DOMAIN registered : /\ registered[i] \in Reactions
                                        /\ registered[i].to \in Promises
                                        /\ registered[i].on \in Promises
<1>1. \A i \in DOMAIN registered : registered[i] \in Reactions
  BY ElementOfSeq, LenProperties DEF PromiseTypeOK
<1> QED  BY <1>1 DEF Reactions

LEMMA CreateStep ==
    ASSUME PromiseInv, NEW c \in Promises, Create(c)
    PROVE  PromiseInv' /\ Kept
<1>1. /\ world.promise[c].state = "none" /\ world' = AsPending(world, c)
      /\ UNCHANGED <<remaining, elements, registered, ran>>
  BY DEF Create, Next1
<1>2. /\ world' \in Worlds /\ Adoptions(world') /\ Held(world', registered, ran, <<>>)
      /\ world'.promise[c].state = "pending"
      /\ \A y \in Promises \ {c} : world'.promise[y] = world.promise[y]
  BY <1>1, Created1 DEF PromiseInv, PromiseTypeOK
<1>3. PromiseTypeOK'
  <2>1. resolver' \in [Promises -> {"none", "open", "used"}]
    BY DEF Create, PromiseInv, PromiseTypeOK
  <2> QED  BY <1>1, <1>2, <2>1, WorldTyped DEF PromiseInv, PromiseTypeOK
<1>4. resolver'[c] = "open" /\ \A y \in Promises \ {c} : resolver'[y] = resolver[y]
  BY DEF Create, PromiseInv, PromiseTypeOK
<1>5. \A i \in DOMAIN registered : registered[i].to \in Promises \ {c}
  BY <1>1, Registered DEF PromiseInv, Owed
<1>6. Owed'
  <2>1. \A p \in Promises :
          /\ resolver'[p] = "open" => world'.promise[p].state = "pending"
          /\ world'.promise[p].state = "none" => resolver'[p] = "none"
    BY <1>2, <1>4 DEF PromiseInv, Owed
  <2>2. ASSUME NEW i \in DOMAIN registered, NEW r, r = registered[i]
        PROVE  /\ world'.promise[r.to].state # "none"
               /\ r.kind = "then" =>
                    /\ resolver'[r.to] = "none"
                    /\ Runs(ran, r) \/ world'.promise[r.to].state = "pending"
                    /\ \A j \in DOMAIN registered : j # i => registered[j].to # r.to
    <3>1. r.to \in Promises \ {c}
      BY <1>5, <2>2
    <3>2. world'.promise[r.to].state = world.promise[r.to].state /\ resolver'[r.to] = resolver[r.to]
      BY <1>2, <1>4, <3>1
    <3> QED  BY <2>2, <3>2 DEF PromiseInv, Owed
  <2> QED  BY <1>1, <2>1, <2>2 DEF Owed
<1>7. Counted'
  BY <1>1 DEF PromiseInv, Counted, Counts, Missing, Element
<1>8. Kept
  BY <1>1, <1>2 DEF Kept, Settled
<1> QED  BY <1>1, <1>2, <1>3, <1>6, <1>7, <1>8 DEF PromiseInv

LEMMA SettleStep ==
    ASSUME PromiseInv, NEW p \in Promises, Settle(p)
    PROVE  PromiseInv' /\ Kept
<1>1. /\ resolver[p] = "open" /\ world.promise[p].state = "pending"
      /\ resolver' = [resolver EXCEPT ![p] = "used"]
      /\ UNCHANGED <<remaining, elements, registered, ran>>
  BY DEF Settle, PromiseInv, Owed
<1>2. \E x : /\ Given(world, p, x)
             /\ \/ world' = ResolveTo(world, p, x)
                \/ x \in Plain /\ world' = RejectTo(world, p, x)
  <2>1. CASE \E x \in Resolutions(p) : world' = ResolveTo(world, p, x)
    <3>1. \A x \in Resolutions(p) : Given(world, p, x)
      BY DEF Resolutions, Created, Given, Plain
    <3>2. PICK x \in Resolutions(p) : world' = ResolveTo(world, p, x)
      BY <2>1
    <3>3. Given(world, p, x)
      BY <3>1, <3>2
    <3> QED  BY <3>2, <3>3
  <2>2. CASE \E x \in Values : world' = RejectTo(world, p, x)
    <3>1. \A x \in Values : x \in Plain /\ Given(world, p, x)
      BY DEF Given, Plain
    <3> QED  BY <2>2, <3>1
  <2> QED  BY <2>1, <2>2 DEF Settle
<1>3. Becoming(world, world', p, registered, ran)
  BY <1>1, <1>2, Resolves DEF PromiseInv, PromiseTypeOK
<1>4. PromiseTypeOK'
  <2>1. resolver' \in [Promises -> {"none", "open", "used"}]
    BY <1>1 DEF PromiseInv, PromiseTypeOK
  <2> QED  BY <1>1, <1>3, <2>1, WorldTyped DEF PromiseInv, PromiseTypeOK, Becoming
<1>5. resolver'[p] = "used" /\ \A y \in Promises \ {p} : resolver'[y] = resolver[y]
  BY <1>1 DEF PromiseInv, PromiseTypeOK
<1>6. /\ world'.promise[p].state # "none"
      /\ \A y \in Promises \ {p} : /\ world'.promise[y].state = world.promise[y].state
                                   /\ world'.promise[y].value = world.promise[y].value
  BY <1>3 DEF Becoming
<1>7. Owed'
  <2>1. \A q \in Promises :
          /\ resolver'[q] = "open" => world'.promise[q].state = "pending"
          /\ world'.promise[q].state = "none" => resolver'[q] = "none"
    BY <1>5, <1>6 DEF PromiseInv, Owed
  <2>2. ASSUME NEW i \in DOMAIN registered, NEW r, r = registered[i]
        PROVE  /\ world'.promise[r.to].state # "none"
               /\ r.kind = "then" =>
                    /\ resolver'[r.to] = "none"
                    /\ Runs(ran, r) \/ world'.promise[r.to].state = "pending"
                    /\ \A j \in DOMAIN registered : j # i => registered[j].to # r.to
    <3>1. r.to \in Promises
      BY <2>2, Registered DEF PromiseInv
    <3>2. CASE r.to = p
      <4>1. r.kind # "then"
        BY <1>1, <2>2, <3>2 DEF PromiseInv, Owed
      <4> QED  BY <1>6, <3>2, <4>1
    <3>3. CASE r.to # p
      <4>1. world'.promise[r.to].state = world.promise[r.to].state /\ resolver'[r.to] = resolver[r.to]
        BY <1>5, <1>6, <3>1, <3>3
      <4> QED  BY <2>2, <4>1 DEF PromiseInv, Owed
    <3> QED  BY <3>2, <3>3
  <2> QED  BY <1>1, <2>1, <2>2 DEF Owed
<1>8. Counted'
  BY <1>1 DEF PromiseInv, Counted, Counts, Missing, Element
<1>9. Kept
  BY <1>1, <1>6 DEF Kept, Settled
<1> QED  BY <1>1, <1>3, <1>4, <1>7, <1>8, <1>9 DEF PromiseInv, Becoming

LEMMA Appended ==
    ASSUME NEW S, NEW s \in Seq(S), NEW x \in S, NEW t, t = Append(s, x)
    PROVE  /\ t \in Seq(S)
           /\ \A i \in DOMAIN t : \/ i \in DOMAIN s /\ t[i] = s[i]
                                  \/ i = Len(s) + 1 /\ i \notin DOMAIN s /\ t[i] = x
           /\ \A i \in DOMAIN s : i \in DOMAIN t /\ t[i] = s[i]
           /\ Len(s) + 1 \in DOMAIN t /\ t[Len(s) + 1] = x
<1>1. /\ t \in Seq(S) /\ Len(t) = Len(s) + 1 /\ Len(s) \in Nat
      /\ DOMAIN s = 1 .. Len(s) /\ DOMAIN t = 1 .. Len(t)
      /\ \A i \in 1 .. Len(s) : t[i] = s[i]
      /\ t[Len(s) + 1] = x
  BY AppendProperties, LenProperties
<1> QED  BY <1>1

LEMMA Fresh ==
    ASSUME PromiseInv, NEW c \in Promises, world.promise[c].state = "none"
    PROVE  /\ \A i \in DOMAIN registered : registered[i].to \in Promises \ {c}
           /\ \A r : r.to = c => ~Knows(registered, r)
<1>1. \A i \in DOMAIN registered : registered[i].to \in Promises \ {c}
  BY Registered DEF PromiseInv, Owed
<1> QED  BY <1>1 DEF Knows

LEMMA ThenStep ==
    ASSUME PromiseInv, NEW p \in Promises, NEW c \in Promises, Then(p, c)
    PROVE  PromiseInv' /\ Kept
<1>1. /\ world.promise[c].state = "none" /\ world.promise[p].state # "none"
      /\ UNCHANGED <<resolver, remaining, elements, ran>>
  BY DEF Then, Next1, Created
<1>2. PICK onF \in BOOLEAN, onR \in BOOLEAN :
        LET r == [on |-> p, to |-> c, kind |-> "then", onF |-> onF, onR |-> onR]
        IN  /\ world' = Handle(AsPending(world, c), p, <<r>>)
            /\ registered' = Append(registered, r)
  BY DEF Then
<1>3. PICK r : r = [on |-> p, to |-> c, kind |-> "then", onF |-> onF, onR |-> onR]
  OBVIOUS
<1>4. r \in Reactions /\ r.on = p /\ r.to = c /\ r.kind = "then"
  BY <1>3 DEF Reactions
<1>5. /\ world' = Handle(AsPending(world, c), r.on, <<r>>)
      /\ registered' = Append(registered, r)
  BY <1>2, <1>3
<1>6. PICK v : v = AsPending(world, c)
  OBVIOUS
<1>7. /\ v \in Worlds /\ Adoptions(v) /\ Held(v, registered, ran, <<>>)
      /\ v.promise[c].state = "pending"
      /\ \A y \in Promises \ {c} : v.promise[y] = world.promise[y]
  BY <1>1, <1>6, Created1 DEF PromiseInv, PromiseTypeOK
<1>8. /\ \A i \in DOMAIN registered : registered[i].to \in Promises \ {c}
      /\ ~Knows(registered, r)
  BY <1>1, <1>4, Fresh
<1>9. v.promise[r.on].state # "none"
  BY <1>1, <1>4, <1>7
<1>10. /\ world' \in Worlds /\ Adoptions(world')
       /\ Held(world', Append(registered, r), ran, <<>>)
       /\ \A y \in Promises : /\ world'.promise[y].state = v.promise[y].state
                              /\ world'.promise[y].value = v.promise[y].value
  <2>1. registered \in Seq(Reactions) /\ ran \in Seq(Reactions)
    BY DEF PromiseInv, PromiseTypeOK
  <2>2. world' = Handle(v, r.on, <<r>>)
    BY <1>5, <1>6
  <2>3. r \in Reactions
    BY <1>4
  <2> QED  BY <1>7, <1>8, <1>9, <2>1, <2>2, <2>3, Follows
<1>11. /\ world'.promise[c].state = "pending"
       /\ \A y \in Promises \ {c} : /\ world'.promise[y].state = world.promise[y].state
                                    /\ world'.promise[y].value = world.promise[y].value
  BY <1>7, <1>10
<1>12. /\ registered' \in Seq(Reactions)
       /\ \A i \in DOMAIN registered' :
            \/ i \in DOMAIN registered /\ registered'[i] = registered[i]
            \/ i = Len(registered) + 1 /\ i \notin DOMAIN registered /\ registered'[i] = r
  BY <1>4, <1>5, Appended DEF PromiseInv, PromiseTypeOK
<1>13. PromiseTypeOK'
  BY <1>1, <1>10, <1>12, WorldTyped DEF PromiseInv, PromiseTypeOK
<1>14. Owed'
  <2>1. \A q \in Promises :
          /\ resolver'[q] = "open" => world'.promise[q].state = "pending"
          /\ world'.promise[q].state = "none" => resolver'[q] = "none"
    BY <1>1, <1>11 DEF PromiseInv, Owed
  <2>2. ASSUME NEW i \in DOMAIN registered', NEW s, s = registered'[i]
        PROVE  /\ world'.promise[s.to].state # "none"
               /\ s.kind = "then" =>
                    /\ resolver'[s.to] = "none"
                    /\ Runs(ran', s) \/ world'.promise[s.to].state = "pending"
                    /\ \A j \in DOMAIN registered' : j # i => registered'[j].to # s.to
    <3>1. CASE i \in DOMAIN registered /\ s = registered[i]
      <4>1. s.to \in Promises \ {c}
        BY <1>8, <3>1
      <4>2. world'.promise[s.to].state = world.promise[s.to].state
        BY <1>11, <4>1
      <4>3. ASSUME s.kind = "then", NEW j \in DOMAIN registered', j # i
            PROVE  registered'[j].to # s.to
        <5>1. CASE j \in DOMAIN registered /\ registered'[j] = registered[j]
          BY <3>1, <4>3, <5>1 DEF PromiseInv, Owed
        <5>2. CASE registered'[j] = r
          BY <1>4, <4>1, <5>2
        <5> QED  BY <1>12, <5>1, <5>2
      <4> QED  BY <1>1, <3>1, <4>2, <4>3 DEF PromiseInv, Owed
    <3>2. CASE i = Len(registered) + 1 /\ s = r
      <4>1. resolver'[c] = "none"
        BY <1>1 DEF PromiseInv, Owed
      <4>2. ASSUME NEW j \in DOMAIN registered', j # i PROVE registered'[j].to # c
        BY <1>8, <1>12, <3>2, <4>2
      <4> QED  BY <1>4, <1>11, <3>2, <4>1, <4>2
    <3> QED  BY <1>12, <2>2, <3>1, <3>2
  <2> QED  BY <2>1, <2>2 DEF Owed
<1>15. Counted'
  <2>1. ASSUME NEW i \in DOMAIN registered', NEW s, s = registered'[i] PROVE Counts(s)'
    <3>1. CASE i \in DOMAIN registered /\ s = registered[i]
      BY <1>1, <3>1 DEF PromiseInv, Counted, Counts, Missing, Element
    <3>2. CASE s = r
      BY <1>4, <3>2 DEF Counts
    <3> QED  BY <1>12, <2>1, <3>1, <3>2
  <2> QED  BY <2>1 DEF Counted
<1>16. Kept
  BY <1>1, <1>11 DEF Kept, Settled
<1>17. Held(world', registered', ran', <<>>)
  BY <1>1, <1>5, <1>10
<1> QED  BY <1>10, <1>13, <1>14, <1>15, <1>16, <1>17 DEF PromiseInv

LEMMA JoinStep ==
    ASSUME PromiseInv, NEW c \in Promises, NEW es \in Joins, NEW kind \in {"all", "race"},
           Join(c, es, kind)
    PROVE  PromiseInv' /\ Kept
<1>1. /\ world.promise[c].state = "none" /\ \A i \in DOMAIN es : es[i] \in Created
      /\ resolver' = [resolver EXCEPT ![c] = "open"]
      /\ elements' = [elements EXCEPT ![c] = es]
      /\ remaining' = [remaining EXCEPT ![c] = IF kind = "all" THEN Len(es) ELSE 0]
      /\ ran' = ran
  BY DEF Join, Next1
<1>2. /\ es \in Seq(Promises) /\ Len(es) \in Nat /\ DOMAIN es = 1 .. Len(es)
      /\ \A i \in 1 .. Len(es) : es[i] \in Promises
      /\ \A i, j \in DOMAIN es : es[i] = es[j] => i = j
  <2>1. es \in Seq(Promises) /\ IsInjective(es)
    BY PromisesAssumption
  <2> QED  BY <2>1, ElementOfSeq, LenProperties DEF IsInjective
<1>3. PICK rs : rs = [i \in DOMAIN es |-> [on |-> es[i], to |-> c, kind |-> kind,
                                           onF |-> TRUE, onR |-> TRUE]]
  OBVIOUS
<1>4. /\ world' = HandleEach(AsPending(world, c), rs)
      /\ registered' = registered \o rs
  BY <1>3 DEF Join
<1>5. /\ DOMAIN rs = 1 .. Len(es)
      /\ \A i \in 1 .. Len(es) : /\ rs[i] \in Reactions /\ rs[i].on = es[i] /\ rs[i].to = c
                                 /\ rs[i].kind = kind
                                 /\ rs[i] = [on |-> es[i], to |-> c, kind |-> kind,
                                             onF |-> TRUE, onR |-> TRUE]
  BY <1>2, <1>3 DEF Reactions
<1>6. rs \in Seq(Reactions) /\ OnceIn(rs)
  <2>1. rs \in [1 .. Len(es) -> Reactions]
    BY <1>2, <1>3, <1>5
  <2>2. rs \in Seq(Reactions)
    BY <1>2, <2>1, SeqDef
  <2>3. OnceIn(rs)
    BY <1>2, <1>5 DEF OnceIn
  <2> QED  BY <2>2, <2>3
<1>7. PICK v : v = AsPending(world, c)
  OBVIOUS
<1>8. /\ v \in Worlds /\ Adoptions(v) /\ Held(v, registered, ran, <<>>)
      /\ v.promise[c].state = "pending"
      /\ \A y \in Promises \ {c} : v.promise[y] = world.promise[y]
  BY <1>1, <1>7, Created1 DEF PromiseInv, PromiseTypeOK
<1>9. \A i \in DOMAIN registered : registered[i].to \in Promises \ {c}
  BY <1>1, Fresh
<1>10. \A i \in DOMAIN rs : ~Knows(registered, rs[i]) /\ v.promise[rs[i].on].state # "none"
  <2> SUFFICES ASSUME NEW i \in DOMAIN rs
               PROVE  ~Knows(registered, rs[i]) /\ v.promise[rs[i].on].state # "none"
    OBVIOUS
  <2>1. ~Knows(registered, rs[i])
    BY <1>1, <1>5, Fresh
  <2>2. es[i] \in Promises /\ world.promise[es[i]].state # "none"
    BY <1>1, <1>2, <1>5 DEF Created
  <2> QED  BY <1>5, <1>8, <2>1, <2>2
<1>11. /\ world' \in Worlds /\ Adoptions(world') /\ Held(world', registered \o rs, ran, <<>>)
       /\ \A y \in Promises : /\ world'.promise[y].state = v.promise[y].state
                              /\ world'.promise[y].value = v.promise[y].value
  <2>1. registered \in Seq(Reactions) /\ ran \in Seq(Reactions)
    BY DEF PromiseInv, PromiseTypeOK
  <2>2. world' = HandleEach(v, rs)
    BY <1>4, <1>7
  <2> QED  BY <1>6, <1>8, <1>10, <2>1, <2>2, FollowsEach
<1>12. /\ world'.promise[c].state = "pending"
       /\ \A y \in Promises \ {c} : /\ world'.promise[y].state = world.promise[y].state
                                    /\ world'.promise[y].value = world.promise[y].value
  BY <1>8, <1>11
<1>13. /\ registered' \in Seq(Reactions)
       /\ \A i \in DOMAIN registered' :
            \/ i \in DOMAIN registered /\ registered'[i] = registered[i]
            \/ \E m \in 1 .. Len(es) : registered'[i] = rs[m]
  <2>1. registered \in Seq(Reactions)
    BY DEF PromiseInv, PromiseTypeOK
  <2>2. DOMAIN registered = 1 .. Len(registered) /\ Len(rs) = Len(es)
    BY <1>2, <1>5, <1>6, <2>1, LenProperties
  <2>3. DOMAIN registered' = 1 .. Len(registered')
    BY <1>4, <1>6, <2>1, JoinedSeqs, LenProperties
  <2> QED  BY <1>4, <1>6, <2>1, <2>2, <2>3, JoinedSeqs
<1>14. /\ resolver'[c] = "open" /\ elements'[c] = es
       /\ remaining'[c] = IF kind = "all" THEN Len(es) ELSE 0
       /\ \A y \in Promises \ {c} : /\ resolver'[y] = resolver[y] /\ elements'[y] = elements[y]
                                    /\ remaining'[y] = remaining[y]
  BY <1>1 DEF PromiseInv, PromiseTypeOK
<1>15. PromiseTypeOK'
  <2>1. /\ resolver' \in [Promises -> {"none", "open", "used"}]
        /\ elements' \in [Promises -> Seq(Promises)]
        /\ remaining' \in [Promises -> Nat]
    BY <1>1, <1>2 DEF PromiseInv, PromiseTypeOK
  <2> QED  BY <1>1, <1>11, <1>13, <2>1, WorldTyped DEF PromiseInv, PromiseTypeOK
<1>16. Owed'
  <2>1. \A q \in Promises :
          /\ resolver'[q] = "open" => world'.promise[q].state = "pending"
          /\ world'.promise[q].state = "none" => resolver'[q] = "none"
    BY <1>12, <1>14 DEF PromiseInv, Owed
  <2>2. ASSUME NEW i \in DOMAIN registered', NEW s, s = registered'[i]
        PROVE  /\ world'.promise[s.to].state # "none"
               /\ s.kind = "then" =>
                    /\ resolver'[s.to] = "none"
                    /\ Runs(ran', s) \/ world'.promise[s.to].state = "pending"
                    /\ \A j \in DOMAIN registered' : j # i => registered'[j].to # s.to
    <3>1. CASE i \in DOMAIN registered /\ s = registered[i]
      <4>1. s.to \in Promises \ {c}
        BY <1>9, <3>1
      <4>2. /\ world'.promise[s.to].state = world.promise[s.to].state
            /\ resolver'[s.to] = resolver[s.to]
        BY <1>12, <1>14, <4>1
      <4>3. ASSUME s.kind = "then", NEW j \in DOMAIN registered', j # i
            PROVE  registered'[j].to # s.to
        <5>1. CASE j \in DOMAIN registered /\ registered'[j] = registered[j]
          BY <3>1, <4>3, <5>1 DEF PromiseInv, Owed
        <5>2. CASE \E m \in 1 .. Len(es) : registered'[j] = rs[m]
          BY <1>5, <4>1, <5>2
        <5> QED  BY <1>13, <5>1, <5>2
      <4> QED  BY <1>1, <3>1, <4>2, <4>3 DEF PromiseInv, Owed
    <3>2. CASE \E m \in 1 .. Len(es) : s = rs[m]
      <4>1. s.to = c /\ s.kind # "then"
        BY <1>5, <3>2
      <4> QED  BY <1>12, <4>1
    <3> QED  BY <1>13, <2>2, <3>1, <3>2
  <2> QED  BY <2>1, <2>2 DEF Owed
<1>17. Counted'
  <2>1. ASSUME NEW i \in DOMAIN registered', NEW s, s = registered'[i] PROVE Counts(s)'
    <3>1. CASE i \in DOMAIN registered /\ s = registered[i]
      <4>1. s.to \in Promises \ {c} /\ Counts(s)
        BY <1>9, <3>1 DEF PromiseInv, Counted
      <4>2. elements'[s.to] = elements[s.to] /\ remaining'[s.to] = remaining[s.to]
        BY <1>14, <4>1
      <4> QED  BY <1>1, <4>1, <4>2 DEF Counts, Missing, Element
    <3>2. CASE \E m \in 1 .. Len(es) : s = rs[m]
      <4>1. PICK m \in 1 .. Len(es) : s = rs[m]
        BY <3>2
      <4>2. CASE s.kind = "all"
        <5>1. s.to = c /\ s = Element(c, m)' /\ remaining'[c] = Len(es)
          BY <1>5, <1>14, <4>1, <4>2 DEF Element
        <5>2. Missing(c)' \in SUBSET (1 .. Len(es))
          BY <1>2, <1>14 DEF Missing
        <5>3. Cardinality(Missing(c)') <= Len(es)
          <6>1. PICK n \in Nat : n = Len(es)
            BY <1>2
          <6>2. IsFiniteSet(1 .. n) /\ Cardinality(1 .. n) = n
            BY FS_Interval
          <6>3. PICK M \in SUBSET (1 .. n) : M = Missing(c)'
            BY <5>2, <6>1
          <6>4. Cardinality(M) <= n
            BY <6>2, FS_Subset
          <6> QED  BY <6>1, <6>3, <6>4
        <5> QED  BY <1>2, <1>14, <4>1, <5>1, <5>3 DEF Counts
      <4>3. CASE s.kind # "all"
        BY <4>3 DEF Counts
      <4> QED  BY <4>2, <4>3
    <3> QED  BY <1>13, <2>1, <3>1, <3>2
  <2> QED  BY <2>1 DEF Counted
<1>18. Kept
  BY <1>1, <1>12 DEF Kept, Settled
<1>19. Held(world', registered', ran', <<>>)
  BY <1>1, <1>4, <1>11
<1> QED  BY <1>11, <1>15, <1>16, <1>17, <1>18, <1>19 DEF PromiseInv

(* The next task is taken, and w is the world without it.                  *)
LEMMA TakenReaction ==
    ASSUME PromiseInv, world.queue # <<>>, "react" \in DOMAIN Head(world.queue),
           NEW h, h = Head(world.queue).react, NEW from, from = Head(world.queue).from,
           NEW w, w = [world EXCEPT !.queue = Tail(world.queue)]
    PROVE  /\ w \in Worlds /\ Adoptions(w) /\ Held(w, registered, Append(ran, h), <<>>)
           /\ w.promise = world.promise /\ \A p \in Promises : Root(w, p) = Root(world, p)
           /\ h \in Reactions /\ h.to \in Promises /\ Knows(registered, h) /\ ~Runs(ran, h)
           /\ from \in Promises /\ world.promise[from].value \in Plain
           /\ \A r : Runs(Append(ran, h), r) <=> Runs(ran, r) \/ r = h
<1>1. world \in Worlds /\ Adoptions(world) /\ Held(world, registered, ran, <<>>)
      /\ registered \in Seq(Reactions) /\ ran \in Seq(Reactions)
  BY DEF PromiseInv, PromiseTypeOK
<1>2. Shifted(world, w)
  BY <1>1, NextTask
<1>3. Held(w, registered, Append(ran, h), <<>>)
  BY <1>1, <1>2, ReactionTaken
<1>4. /\ w \in Worlds /\ Adoptions(w) /\ w.promise = world.promise
      /\ \A p \in Promises : Root(w, p) = Root(world, p)
      /\ Head(world.queue) \in Tasks /\ Head(world.queue) = world.queue[1]
      /\ 1 \in DOMAIN world.queue
  BY <1>2 DEF Shifted
<1>5. h \in Reactions /\ from \in Promises
  BY <1>4, TaskParts
<1>6. h.to \in Promises
  BY <1>5 DEF Reactions
<1>7. IsTask(world, 1, h)
  <2>1. PICK t : t = Head(world.queue)
    OBVIOUS
  <2>2. "react" \in DOMAIN t
    BY <2>1
  <2>3. t.react = h
    BY <2>1
  <2>4. world.queue[1] = t
    BY <1>4, <2>1
  <2> QED  BY <1>4, <2>2, <2>3, <2>4 DEF IsTask
<1>8. Queues(world, h)
  BY <1>4, <1>7 DEF Queues
<1>9. Right(world, registered, ran, <<>>, h)
  BY <1>1, <1>5 DEF Held, InPlace
<1>10. Knows(registered, h) /\ ~Runs(ran, h)
  BY <1>8, <1>9 DEF Right
<1>11. world.promise[from].value \in Plain
  <2>1. world.promise[from].state \in Settled
    BY <1>1, <1>4 DEF Held, FromSettled
  <2> QED  BY <1>1, <1>5, <2>1 DEF Adoptions
<1>12. \A r : Runs(Append(ran, h), r) <=> Runs(ran, r) \/ r = h
  <2>1. PICK t : t = Append(ran, h)
    OBVIOUS
  <2>2. /\ \A i \in DOMAIN t : \/ i \in DOMAIN ran /\ t[i] = ran[i]
                               \/ i = Len(ran) + 1 /\ i \notin DOMAIN ran /\ t[i] = h
        /\ \A i \in DOMAIN ran : i \in DOMAIN t /\ t[i] = ran[i]
        /\ Len(ran) + 1 \in DOMAIN t /\ t[Len(ran) + 1] = h
    BY <1>1, <1>5, <2>1, Appended
  <2> QED  BY <2>1, <2>2 DEF Runs
<1> QED  BY <1>3, <1>4, <1>5, <1>6, <1>10, <1>11, <1>12

(* What is owed once the reaction h has run: it settled its promise or     *)
(* left the promises as they are.                                          *)
LEMMA OwedAfterRun ==
    ASSUME PromiseInv, NEW h \in Reactions, h.to \in Promises, Knows(registered, h),
           UNCHANGED registered, \A r : Runs(ran', r) <=> Runs(ran, r) \/ r = h,
           \A y \in Promises \ {h.to} : /\ world'.promise[y].state = world.promise[y].state
                                        /\ resolver'[y] = resolver[y],
           \/ /\ h.kind # "then" /\ world'.promise[h.to].state = world.promise[h.to].state
              /\ resolver'[h.to] = resolver[h.to]
           \/ /\ h.kind # "then" /\ world'.promise[h.to].state # "none"
              /\ resolver'[h.to] = "used"
           \/ /\ h.kind = "then" /\ world'.promise[h.to].state # "none"
              /\ resolver'[h.to] = resolver[h.to]
    PROVE  Owed'
<1>1. PICK k \in DOMAIN registered : registered[k] = h
  BY DEF Knows
<1>2. h.kind = "then" =>
        /\ resolver[h.to] = "none"
        /\ \A j \in DOMAIN registered : j # k => registered[j].to # h.to
  BY <1>1 DEF PromiseInv, Owed
<1>3. ASSUME NEW q \in Promises
      PROVE  /\ resolver'[q] = "open" => world'.promise[q].state = "pending"
             /\ world'.promise[q].state = "none" => resolver'[q] = "none"
  BY <1>2 DEF PromiseInv, Owed
<1>4. ASSUME NEW i \in DOMAIN registered, NEW r, r = registered[i]
      PROVE  /\ world'.promise[r.to].state # "none"
             /\ r.kind = "then" =>
                  /\ resolver'[r.to] = "none"
                  /\ Runs(ran', r) \/ world'.promise[r.to].state = "pending"
                  /\ \A j \in DOMAIN registered : j # i => registered[j].to # r.to
  <2>1. r.to \in Promises
    BY <1>4, Registered DEF PromiseInv
  <2>2. /\ world.promise[r.to].state # "none"
        /\ r.kind = "then" =>
             /\ resolver[r.to] = "none"
             /\ Runs(ran, r) \/ world.promise[r.to].state = "pending"
             /\ \A j \in DOMAIN registered : j # i => registered[j].to # r.to
    BY <1>4 DEF PromiseInv, Owed
  <2>3. CASE r.to # h.to
    BY <2>1, <2>2, <2>3
  <2>4. CASE r.to = h.to /\ h.kind = "then"
    <3>1. r = h
      BY <1>1, <1>2, <1>4, <2>4
    <3> QED  BY <2>2, <2>4, <3>1
  <2>5. CASE r.to = h.to /\ h.kind # "then"
    <3>1. r.kind # "then"
      BY <1>1, <1>4, <2>2, <2>5
    <3> QED  BY <2>2, <2>5, <3>1
  <2> QED  BY <2>3, <2>4, <2>5
<1> QED  BY <1>3, <1>4 DEF Owed

(* What is counted then: one less if the promise is made by all and its    *)
(* element is fulfilled.                                                   *)
LEMMA CountedAfterRun ==
    ASSUME PromiseInv, NEW h \in Reactions, h.to \in Promises, Knows(registered, h),
           ~Runs(ran, h), UNCHANGED <<registered, elements>>,
           \A r : Runs(ran', r) <=> Runs(ran, r) \/ r = h,
           NEW ok \in BOOLEAN,
           remaining' = IF ok /\ h.kind = "all"
                          THEN [remaining EXCEPT ![h.to] = @ - 1] ELSE remaining
    PROVE  Counted' /\ remaining' \in [Promises -> Nat]
<1>1. /\ remaining \in [Promises -> Nat] /\ elements \in [Promises -> Seq(Promises)]
  BY DEF PromiseInv, PromiseTypeOK
<1>2. ASSUME NEW c \in Promises
      PROVE  IsFiniteSet(Missing(c)) /\ Cardinality(Missing(c)) \in Nat
  <2>1. PICK n \in Nat : DOMAIN elements[c] = 1 .. n
    BY <1>1, LenProperties
  <2>2. Missing(c) \in SUBSET (1 .. n)
    BY <2>1 DEF Missing
  <2>3. IsFiniteSet(1 .. n)
    BY FS_Interval
  <2> QED  BY <2>2, <2>3, FS_Subset, FS_CardinalityType
<1>3. ASSUME NEW c \in Promises
      PROVE  /\ IsFiniteSet(Missing(c)') /\ Cardinality(Missing(c)') \in Nat
             /\ Cardinality(Missing(c)') <= Cardinality(Missing(c))
  <2>1. PICK M : M = Missing(c)
    OBVIOUS
  <2>2. PICK N : N = Missing(c)'
    OBVIOUS
  <2>3. N \in SUBSET M
    BY <2>1, <2>2 DEF Missing, Element
  <2>4. IsFiniteSet(M)
    BY <1>2, <2>1
  <2>5. IsFiniteSet(N) /\ Cardinality(N) <= Cardinality(M) /\ Cardinality(N) \in Nat
    BY <2>3, <2>4, FS_Subset, FS_CardinalityType
  <2> QED  BY <2>1, <2>2, <2>5
<1>4. ASSUME h.kind = "all"
      PROVE  /\ Cardinality(Missing(h.to)') + 1 <= Cardinality(Missing(h.to))
             /\ Cardinality(Missing(h.to)) <= remaining[h.to]
  <2>1. Counts(h)
    BY DEF PromiseInv, Counted, Knows
  <2>2. PICK n \in DOMAIN elements[h.to] : h = Element(h.to, n)
    BY <1>4, <2>1 DEF Counts
  <2>3. PICK M : M = Missing(h.to)
    OBVIOUS
  <2>4. PICK N : N = Missing(h.to)'
    OBVIOUS
  <2>5. n \in M
    BY <2>2, <2>3 DEF Missing
  <2>6. N \in SUBSET (M \ {n})
    BY <2>2, <2>3, <2>4 DEF Missing, Element
  <2>7. IsFiniteSet(M) /\ Cardinality(M) \in Nat
    BY <1>2, <2>3
  <2>8. IsFiniteSet(M \ {n}) /\ Cardinality(M \ {n}) = Cardinality(M) - 1
    BY <2>5, <2>7, FS_RemoveElement
  <2>9. Cardinality(N) <= Cardinality(M \ {n})
    BY <2>6, <2>8, FS_Subset
  <2>10. Cardinality(N) \in Nat
    BY <1>3, <2>4
  <2>11. Cardinality(N) + 1 <= Cardinality(M)
    BY <2>7, <2>8, <2>9, <2>10
  <2> QED  BY <1>4, <2>1, <2>3, <2>4, <2>11 DEF Counts
<1>5. \A c \in Promises : remaining'[c] =
        IF ok /\ h.kind = "all" /\ c = h.to THEN remaining[c] - 1 ELSE remaining[c]
  BY <1>1
<1>6. remaining' \in [Promises -> Nat]
  <2>1. CASE ok /\ h.kind = "all"
    <3>1. remaining[h.to] - 1 \in Nat
      BY <1>1, <1>2, <1>3, <1>4, <2>1
    <3> QED  BY <1>1, <2>1, <3>1
  <2>2. CASE ~(ok /\ h.kind = "all")
    BY <1>1, <2>2
  <2> QED  BY <2>1, <2>2
<1>7. ASSUME NEW i \in DOMAIN registered, NEW r, r = registered[i] PROVE Counts(r)'
  <2>1. r.to \in Promises /\ Counts(r)
    BY <1>7, Registered DEF PromiseInv, Counted
  <2>2. SUFFICES ASSUME r.kind = "all"
                 PROVE  Cardinality(Missing(r.to)') <= remaining'[r.to]
    BY <2>1 DEF Counts, Element
  <2>3. PICK m \in Nat : m = Cardinality(Missing(r.to))
    BY <1>2, <2>1
  <2>4. PICK k \in Nat : k = Cardinality(Missing(r.to)')
    BY <1>3, <2>1
  <2>5. PICK b \in Nat : b = remaining[r.to]
    BY <1>1, <2>1
  <2>6. k <= m /\ m <= b
    BY <1>3, <2>1, <2>2, <2>3, <2>4, <2>5 DEF Counts
  <2>7. CASE ok /\ h.kind = "all" /\ r.to = h.to
    <3>1. k + 1 <= m /\ remaining'[r.to] = b - 1
      BY <1>4, <1>5, <2>1, <2>3, <2>4, <2>5, <2>7
    <3> QED  BY <2>4, <2>6, <3>1
  <2>8. CASE ~(ok /\ h.kind = "all" /\ r.to = h.to)
    <3>1. remaining'[r.to] = b
      BY <1>5, <2>1, <2>5, <2>8
    <3> QED  BY <2>4, <2>6, <3>1
  <2> QED  BY <2>7, <2>8
<1> QED  BY <1>6, <1>7 DEF Counted

LEMMA RunReactionStep ==
    ASSUME PromiseInv, RunReaction
    PROVE  PromiseInv' /\ Kept
<1>1. /\ world.queue # <<>> /\ "react" \in DOMAIN Head(world.queue)
      /\ UNCHANGED <<elements, registered>>
  BY DEF RunReaction
<1>2. PICK h : h = Head(world.queue).react
  OBVIOUS
<1>3. PICK from : from = Head(world.queue).from
  OBVIOUS
<1>4. PICK w : w = [world EXCEPT !.queue = Tail(world.queue)]
  OBVIOUS
<1>5. /\ ran' = Append(ran, h)
      /\ IF h.kind = "then"
           THEN RunThen(w, h, from) /\ UNCHANGED <<resolver, remaining>>
           ELSE RunJoin(w, h, from)
  BY <1>2, <1>3, <1>4 DEF RunReaction
<1>6. /\ w \in Worlds /\ Adoptions(w) /\ Held(w, registered, Append(ran, h), <<>>)
      /\ w.promise = world.promise /\ \A p \in Promises : Root(w, p) = Root(world, p)
      /\ h \in Reactions /\ h.to \in Promises /\ Knows(registered, h) /\ ~Runs(ran, h)
      /\ from \in Promises /\ world.promise[from].value \in Plain
      /\ \A r : Runs(Append(ran, h), r) <=> Runs(ran, r) \/ r = h
  BY <1>1, <1>2, <1>3, <1>4, TakenReaction
<1> DEFINE x == world.promise[from].value
           ok == world.promise[from].state = "fulfilled"
<1>7. /\ ran' \in Seq(Reactions) /\ registered' \in Seq(Reactions)
      /\ registered \in Seq(Reactions)
      /\ elements' \in [Promises -> Seq(Promises)]
      /\ resolver \in [Promises -> {"none", "open", "used"}]
  BY <1>1, <1>5, <1>6, AppendProperties DEF PromiseInv, PromiseTypeOK
<1>8. Held(w, registered, ran', <<>>) /\ \A r : Runs(ran', r) <=> Runs(ran, r) \/ r = h
  BY <1>5, <1>6
<1>9. PICK k \in DOMAIN registered : registered[k] = h
  BY <1>6 DEF Knows
<1>10. CASE h.kind = "then"
  <2>1. RunThen(w, h, from) /\ UNCHANGED <<resolver, remaining>>
    BY <1>5, <1>10
  <2>2. w.promise[h.to].state = "pending" /\ world.promise[h.to].state = "pending"
    BY <1>6, <1>9, <1>10 DEF PromiseInv, Owed
  <2>3. \E y : /\ Given(w, h.to, y)
               /\ \/ world' = ResolveTo(w, h.to, y)
                  \/ y \in Plain /\ world' = RejectTo(w, h.to, y)
    <3>1. \A y \in Resolutions(h.to) : Given(w, h.to, y)
      BY <1>6 DEF Resolutions, Created, Given, Plain
    <3>2. \A y \in Values : y \in Plain /\ Given(w, h.to, y)
      BY DEF Given, Plain
    <3>3. x \in Plain /\ Given(w, h.to, x)
      BY <1>6 DEF Given
    <3>4. CASE \E y \in Resolutions(h.to) : world' = ResolveTo(w, h.to, y)
      BY <3>1, <3>4
    <3>5. CASE \E y \in Values : world' = RejectTo(w, h.to, y)
      BY <3>2, <3>5
    <3>6. CASE world' = IF ok THEN ResolveTo(w, h.to, x) ELSE RejectTo(w, h.to, x)
      BY <3>3, <3>6
    <3> QED  BY <1>6, <2>1, <3>4, <3>5, <3>6 DEF RunThen
  <2>4. Becoming(w, world', h.to, registered, ran')
    BY <1>6, <1>7, <1>8, <2>2, <2>3, Resolves
  <2>5. /\ world' \in Worlds /\ Adoptions(world') /\ Held(world', registered, ran', <<>>)
        /\ world'.promise[h.to].state # "none"
        /\ \A y \in Promises \ {h.to} : /\ world'.promise[y].state = world.promise[y].state
                                        /\ world'.promise[y].value = world.promise[y].value
    BY <1>6, <2>4 DEF Becoming
  <2>6. Owed'
    BY <1>1, <1>6, <1>8, <1>10, <2>1, <2>5, OwedAfterRun
  <2>7. Counted' /\ remaining' \in [Promises -> Nat]
    <3>1. remaining' = IF FALSE /\ h.kind = "all"
                         THEN [remaining EXCEPT ![h.to] = @ - 1] ELSE remaining
      BY <2>1
    <3> QED  BY <1>1, <1>6, <1>8, <3>1, CountedAfterRun
  <2>8. PromiseTypeOK'
    BY <1>7, <2>1, <2>5, <2>7, WorldTyped
  <2>9. Kept
    BY <2>2, <2>5 DEF Kept, Settled
  <2> QED  BY <1>1, <2>5, <2>6, <2>7, <2>8, <2>9 DEF PromiseInv
<1>11. CASE h.kind # "then"
  <2>1. RunJoin(w, h, from)
    BY <1>5, <1>11
  <2>2. Counted' /\ remaining' \in [Promises -> Nat]
    <3>1. remaining' = IF ok /\ h.kind = "all"
                         THEN [remaining EXCEPT ![h.to] = @ - 1] ELSE remaining
      BY <1>6, <2>1 DEF RunJoin
    <3> QED  BY <1>1, <1>6, <1>8, <3>1, CountedAfterRun
  <2>3. CASE world' = w /\ UNCHANGED resolver
    <3>1. \A y \in Promises : world'.promise[y] = world.promise[y]
      BY <1>6, <2>3
    <3>2. Owed'
      BY <1>1, <1>6, <1>8, <1>11, <2>3, <3>1, OwedAfterRun
    <3>3. PromiseTypeOK'
      BY <1>6, <1>7, <2>2, <2>3, WorldTyped
    <3>4. Kept
      BY <3>1 DEF Kept
    <3> QED  BY <1>1, <1>6, <1>8, <2>2, <2>3, <3>2, <3>3, <3>4 DEF PromiseInv
  <2>4. CASE /\ resolver[h.to] = "open"
             /\ world' = IF ~ok THEN RejectTo(w, h.to, x)
                         ELSE ResolveTo(w, h.to, IF h.kind = "all" THEN Joined ELSE x)
             /\ resolver' = [resolver EXCEPT ![h.to] = "used"]
    <3>1. w.promise[h.to].state = "pending" /\ world.promise[h.to].state = "pending"
      BY <1>6, <2>4 DEF PromiseInv, Owed
    <3>2. \E y : /\ Given(w, h.to, y)
                 /\ \/ world' = ResolveTo(w, h.to, y)
                    \/ y \in Plain /\ world' = RejectTo(w, h.to, y)
      <4>1. x \in Plain /\ Given(w, h.to, x) /\ Given(w, h.to, Joined)
        BY <1>6 DEF Given, Plain
      <4> QED  BY <2>4, <4>1
    <3>3. Becoming(w, world', h.to, registered, ran')
      BY <1>6, <1>7, <1>8, <3>1, <3>2, Resolves
    <3>4. /\ world' \in Worlds /\ Adoptions(world') /\ Held(world', registered, ran', <<>>)
          /\ world'.promise[h.to].state # "none"
          /\ \A y \in Promises \ {h.to} : /\ world'.promise[y].state = world.promise[y].state
                                          /\ world'.promise[y].value = world.promise[y].value
      BY <1>6, <3>3 DEF Becoming
    <3>5. /\ resolver' \in [Promises -> {"none", "open", "used"}] /\ resolver'[h.to] = "used"
          /\ \A y \in Promises \ {h.to} : resolver'[y] = resolver[y]
      BY <1>6, <1>7, <2>4
    <3>6. Owed'
      BY <1>1, <1>6, <1>8, <1>11, <3>4, <3>5, OwedAfterRun
    <3>7. PromiseTypeOK'
      BY <1>7, <2>2, <3>4, <3>5, WorldTyped
    <3>8. Kept
      BY <3>1, <3>4 DEF Kept, Settled
    <3> QED  BY <1>1, <2>2, <3>4, <3>6, <3>7, <3>8 DEF PromiseInv
  <2> QED  BY <1>6, <2>1, <2>3, <2>4 DEF RunJoin
<1> QED  BY <1>10, <1>11

LEMMA RunCheckStep ==
    ASSUME PromiseInv, RunCheck
    PROVE  PromiseInv' /\ Kept
<1>1. /\ world.queue # <<>> /\ "check" \in DOMAIN Head(world.queue)
      /\ world' = [world EXCEPT !.queue = Tail(world.queue)]
      /\ UNCHANGED <<resolver, remaining, elements, registered, ran>>
  BY DEF RunCheck
<1>2. /\ world \in Worlds /\ Adoptions(world) /\ Held(world, registered, ran, <<>>)
      /\ registered \in Seq(Reactions) /\ ran \in Seq(Reactions)
  BY DEF PromiseInv, PromiseTypeOK
<1>3. Shifted(world, world')
  BY <1>1, <1>2, NextTask
<1>4. "react" \notin DOMAIN Head(world.queue)
  <2>1. Head(world.queue) \in Tasks
    BY <1>3 DEF Shifted
  <2> QED  BY <1>1, <2>1 DEF Tasks
<1>5. Held(world', registered, ran, <<>>)
  BY <1>2, <1>3, <1>4, CheckTaken
<1>6. world' \in Worlds /\ Adoptions(world') /\ world'.promise = world.promise
  BY <1>3 DEF Shifted
<1>7. PromiseTypeOK'
  BY <1>1, <1>6, WorldTyped DEF PromiseInv, PromiseTypeOK
<1>8. Owed' /\ Counted'
  BY <1>1, <1>6 DEF PromiseInv, Owed, Counted, Counts, Missing, Element
<1>9. Kept
  BY <1>6 DEF Kept
<1> QED  BY <1>1, <1>5, <1>6, <1>7, <1>8, <1>9 DEF PromiseInv

LEMMA PromiseStep == PromiseInv /\ [PromiseNext]_promiseVars => PromiseInv' /\ Kept
<1> SUFFICES ASSUME PromiseInv, [PromiseNext]_promiseVars PROVE PromiseInv' /\ Kept
  OBVIOUS
<1>1. ASSUME NEW p \in Promises, Create(p) PROVE PromiseInv' /\ Kept
  BY <1>1, CreateStep
<1>2. ASSUME NEW p \in Promises, Settle(p) PROVE PromiseInv' /\ Kept
  BY <1>2, SettleStep
<1>3. ASSUME NEW p \in Promises, NEW c \in Promises, Then(p, c) PROVE PromiseInv' /\ Kept
  BY <1>3, ThenStep
<1>4. ASSUME NEW c \in Promises, NEW es \in Joins, NEW kind \in {"all", "race"}, Join(c, es, kind)
      PROVE  PromiseInv' /\ Kept
  BY <1>4, JoinStep
<1>5. CASE UNCHANGED promiseVars
  <2>1. PromiseInv'
    <3>1. PromiseTypeOK' /\ Owed'
      BY <1>5 DEF promiseVars, PromiseInv, PromiseTypeOK, Owed
    <3>2. Counted'
      BY <1>5 DEF promiseVars, PromiseInv, Counted, Counts, Missing, Element
    <3> QED  BY <1>5, <3>1, <3>2 DEF promiseVars, PromiseInv
  <2>2. Kept
    BY <1>5 DEF promiseVars, Kept
  <2> QED  BY <2>1, <2>2
<1> QED  BY <1>1, <1>2, <1>3, <1>4, <1>5, RunReactionStep, RunCheckStep DEF PromiseNext

LEMMA PromiseInvariant == PromiseSpec => []PromiseInv
<1>1. PromiseInv /\ [PromiseNext]_promiseVars => PromiseInv'
  BY PromiseStep
<1> QED  BY <1>1, PromiseInvInit, PTL DEF PromiseSpec

-----------------------------------------------------------------------------
(* The results                                                             *)

(* The variables keep their types; in particular the count of a promise    *)
(* made by all never goes below zero.                                      *)
THEOREM PromiseTyped == PromiseSpec => []PromiseTypeOK
<1>1. PromiseInv => PromiseTypeOK
  BY DEF PromiseInv
<1> QED  BY <1>1, PromiseInvariant, PTL

(* A promise that is settled, or has adopted another one, stays so with    *)
(* the same value, whoever calls its functions or settles it late.         *)
THEOREM SettlesOnce == PromiseSpec => SettledForGood
<1>1. PromiseInv /\ [PromiseNext]_promiseVars => [Kept]_promiseVars
  BY PromiseStep
<1>2. PromiseSpec => [][Kept]_promiseVars
  BY <1>1, PromiseInvariant, PTL DEF PromiseSpec
<1> QED  BY <1>2 DEF SettledForGood, Kept

(* A sequence without repetitions has each member once.                    *)
LEMMA CountOnce ==
    ASSUME NEW T, NEW s \in Seq(T), OnceIn(s), NEW r
    PROVE  Count(s, r) = IF Runs(s, r) THEN 1 ELSE 0
<1> DEFINE places == {i \in DOMAIN s : s[i] = r}
<1>1. CASE Runs(s, r)
  <2>1. PICK n \in DOMAIN s : s[n] = r
    BY <1>1 DEF Runs
  <2>2. places = {n}
    BY <2>1 DEF OnceIn
  <2>3. Cardinality({n}) = 1
    BY FS_Singleton
  <2> QED  BY <1>1, <2>2, <2>3 DEF Count
<1>2. CASE ~Runs(s, r)
  <2>1. places = {}
    BY <1>2 DEF Runs
  <2> QED  BY <1>2, <2>1, FS_EmptySet DEF Count
<1> QED  BY <1>1, <1>2

(* Every reaction is in one place, once: waiting on the pending promise    *)
(* its own one leads to, queued, or run; and those on one promise run in   *)
(* the order of the calls, across every adoption.                          *)
THEOREM ReactionsOnce == PromiseSpec => []ReactionsRunOnce
<1>1. ASSUME PromiseInv PROVE ReactionsRunOnce
  <2>1. /\ world \in Worlds /\ Adoptions(world) /\ Held(world, registered, ran, <<>>)
        /\ registered \in Seq(Reactions) /\ ran \in Seq(Reactions)
    BY <1>1 DEF PromiseInv, PromiseTypeOK
  <2>2. /\ InPlace(world, registered, ran, <<>>) /\ OnceEach(world, ran, <<>>)
        /\ InTurn(world, registered, ran, <<>>)
    BY <2>1 DEF Held
  <2>3. ASSUME NEW i \in DOMAIN registered,
               NEW r, r = registered[i], NEW p, p = Root(world, r.on)
        PROVE  LET waits == Count(world.promise[p].deferreds, r)
               IN  /\ waits > 0 => world.promise[p].state = "pending"
                   /\ waits
                        + Cardinality({j \in DOMAIN world.queue :
                                         /\ "react" \in DOMAIN world.queue[j]
                                         /\ world.queue[j].react = r})
                        + Count(ran, r) = 1
    <3>1. r \in Reactions /\ r.on \in Promises
      BY <1>1, <2>3, Registered DEF PromiseInv
    <3>2. p \in Promises
      BY <2>1, <2>3, <3>1, RootFacts
    <3>3. /\ Right(world, registered, ran, <<>>, r) /\ Knows(registered, r)
          /\ ~Runs(<<>>, r)
      BY <2>2, <2>3, <3>1 DEF InPlace, Knows, Runs
    <3>4. /\ Waits(world, p, r) \/ Queues(world, r) \/ Runs(ran, r)
          /\ Waits(world, p, r) => world.promise[p].state = "pending"
          /\ Queues(world, r) \/ Runs(ran, r) => world.promise[p].state \in Settled
          /\ ~(Queues(world, r) /\ Runs(ran, r))
      BY <2>3, <3>2, <3>3 DEF Right
    <3>5. Count(world.promise[p].deferreds, r) = IF Waits(world, p, r) THEN 1 ELSE 0
      <4>1. world.promise[p].deferreds \in Seq(Reactions)
        BY <2>1, <3>2, WorldParts
      <4>2. OnceIn(world.promise[p].deferreds)
        BY <2>2, <3>2 DEF OnceEach
      <4> QED  BY <4>1, <4>2, CountOnce DEF Waits
    <3>6. Count(ran, r) = IF Runs(ran, r) THEN 1 ELSE 0
      BY <2>1, <2>2, CountOnce DEF OnceEach
    <3> DEFINE tasks == {j \in DOMAIN world.queue : /\ "react" \in DOMAIN world.queue[j]
                                                    /\ world.queue[j].react = r}
    <3>7. Cardinality(tasks) = IF Queues(world, r) THEN 1 ELSE 0
      <4>1. \A m, n : IsTask(world, m, r) /\ IsTask(world, n, r) => m = n
        BY <2>2, <3>1 DEF OnceEach
      <4>2. \A n : n \in tasks <=> IsTask(world, n, r)
        BY DEF IsTask
      <4> HIDE DEF tasks
      <4>3. CASE Queues(world, r)
        <5>1. PICK n : IsTask(world, n, r)
          BY <4>3 DEF Queues
        <5>2. tasks = {n}
          BY <4>1, <4>2, <5>1
        <5>3. Cardinality({n}) = 1
          BY FS_Singleton
        <5> QED  BY <4>3, <5>2, <5>3
      <4>4. CASE ~Queues(world, r)
        <5>1. \A n : IsTask(world, n, r) => Queues(world, r)
          BY DEF Queues, IsTask
        <5>2. tasks = {}
          BY <4>2, <4>4, <5>1
        <5> QED  BY <4>4, <5>2, FS_EmptySet
      <4> QED  BY <4>3, <4>4
    <3> HIDE DEF tasks
    <3>8. /\ Count(world.promise[p].deferreds, r) > 0 => world.promise[p].state = "pending"
          /\ Count(world.promise[p].deferreds, r) + Cardinality(tasks) + Count(ran, r) = 1
      BY <3>4, <3>5, <3>6, <3>7 DEF Settled
    <3> QED  BY <3>8 DEF tasks
  <2>4. \A i, j \in DOMAIN registered :
          i < j /\ registered[i].on = registered[j].on =>
            \A n \in DOMAIN ran :
              ran[n] = registered[j] => \E m \in 1 .. (n - 1) : ran[m] = registered[i]
    BY <2>2 DEF InTurn, OlderFirst
  <2> QED  BY <2>3, <2>4 DEF ReactionsRunOnce
<1> QED  BY <1>1, PromiseInvariant, PTL

=============================================================================
