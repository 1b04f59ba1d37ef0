--------------------------- MODULE TokenSetProofs ---------------------------
(***************************************************************************)
(* The documentation site's index: proofs, for any words and any clauses,  *)
(* that the automaton TokenSet.Builder makes of the terms holds these and  *)
(* no other word, that it is the least one that does, and that a query     *)
(* finds what its clauses stand for and scores it by what it matches.  The *)
(* words are those SearchIndex models: without digits, so that a node's    *)
(* toString tells any two nodes apart.                                     *)
(***************************************************************************)
EXTENDS IndexProofs

-----------------------------------------------------------------------------
(* Words and nodes                                                         *)

IsCons(v, c, w) ==
    /\ Len(v) = Len(w) + 1 /\ v # <<>> /\ v[1] = c
    /\ \A i \in 1 .. Len(w) : v[i + 1] = w[i]

LEMMA ConsFacts ==
    ASSUME NEW S, NEW c \in S, NEW w \in Seq(S)
    PROVE  Cons(c, w) \in Seq(S) /\ IsCons(Cons(c, w), c, w)
<1>1. <<c>> \in Seq(S) /\ Len(<<c>>) = 1 /\ <<c>>[1] = c
  OBVIOUS
<1>2. Len(w) \in Nat
  BY LenProperties
<1>3. PICK v : v = <<c>> \o w
  OBVIOUS
<1>4. /\ v \in Seq(S) /\ Len(v) = 1 + Len(w)
      /\ \A i \in 1 .. 1 + Len(w) : v[i] = IF i <= 1 THEN <<c>>[i] ELSE w[i - 1]
  BY <1>1, <1>3, ConcatProperties
<1>5. v[1] = c
  <2>1. 1 \in 1 .. 1 + Len(w)
    BY <1>2
  <2> QED  BY <1>1, <1>4, <2>1
<1>6. ASSUME NEW i \in 1 .. Len(w) PROVE v[i + 1] = w[i]
  <2>1. i + 1 \in 1 .. 1 + Len(w) /\ ~(i + 1 <= 1) /\ (i + 1) - 1 = i
    BY <1>2
  <2> QED  BY <1>4, <2>1
<1>7. v # <<>>
  <2>1. Len(v) # 0
    BY <1>2, <1>4
  <2> QED  BY <2>1, EmptySeq
<1>8. Len(v) = Len(w) + 1
  BY <1>2, <1>4
<1> QED  BY <1>3, <1>4, <1>5, <1>6, <1>7, <1>8 DEF Cons, IsCons

LEMMA SameWord ==
    ASSUME NEW S, NEW v \in Seq(S), NEW w \in Seq(S), Len(v) = Len(w),
           \A i \in 1 .. Len(v) : v[i] = w[i]
    PROVE  v = w
BY SeqEqual

LEMMA ConsInjective ==
    ASSUME NEW S, NEW c \in S, NEW w \in Seq(S), NEW d \in S, NEW v \in Seq(S),
           Cons(c, w) = Cons(d, v)
    PROVE  c = d /\ w = v
<1>1. IsCons(Cons(c, w), c, w) /\ IsCons(Cons(d, v), d, v)
  BY ConsFacts
<1>2. Len(w) \in Nat /\ Len(v) \in Nat
  OBVIOUS
<1>3. c = d /\ Len(w) = Len(v)
  BY <1>1, <1>2 DEF IsCons
<1>4. \A i \in 1 .. Len(w) : w[i] = v[i]
  BY <1>1, <1>3 DEF IsCons
<1> QED  BY <1>3, <1>4, SameWord

(* What is left of w after i characters.                                   *)
After(w, i) == [j \in 1 .. Len(w) - i |-> w[i + j]]

LEMMA AfterFacts ==
    ASSUME NEW S, NEW w \in Seq(S)
    PROVE  /\ \A i \in 0 .. Len(w) : After(w, i) \in Seq(S) /\ Len(After(w, i)) = Len(w) - i
           /\ \A i \in 0 .. Len(w) - 1 : After(w, i) = Cons(w[i + 1], After(w, i + 1))
           /\ After(w, 0) = w /\ After(w, Len(w)) = <<>>
<1>1. Len(w) \in Nat /\ (\A i \in 1 .. Len(w) : w[i] \in S) /\ w = [i \in 1 .. Len(w) |-> w[i]]
  BY LenProperties, ElementOfSeq
<1>2. ASSUME NEW i \in 0 .. Len(w)
      PROVE  /\ After(w, i) \in Seq(S) /\ Len(After(w, i)) = Len(w) - i
             /\ \A j \in 1 .. Len(w) - i : After(w, i)[j] = w[i + j]
  <2>1. Len(w) - i \in Nat /\ \A j \in 1 .. Len(w) - i : i + j \in 1 .. Len(w)
    BY <1>1
  <2>2. After(w, i) \in [1 .. Len(w) - i -> S] /\ DOMAIN After(w, i) = 1 .. Len(w) - i
    BY <1>1, <2>1 DEF After
  <2>3. After(w, i) \in Seq(S)
    BY <2>1, <2>2, SeqDef
  <2>4. \A j \in 1 .. Len(w) - i : After(w, i)[j] = w[i + j]
    BY DEF After
  <2> QED  BY <2>1, <2>2, <2>3, <2>4, LenProperties
<1>3. ASSUME NEW i \in 0 .. Len(w) - 1 PROVE After(w, i) = Cons(w[i + 1], After(w, i + 1))
  <2>1. i \in 0 .. Len(w) /\ i + 1 \in 0 .. Len(w) /\ i + 1 \in 1 .. Len(w) /\ w[i + 1] \in S
    BY <1>1
  <2>2. PICK a, b, c : a = After(w, i) /\ b = After(w, i + 1) /\ c = Cons(w[i + 1], b)
    OBVIOUS
  <2>3. a \in Seq(S) /\ Len(a) = Len(w) - i /\ \A j \in 1 .. Len(w) - i : a[j] = w[i + j]
    BY <1>2, <2>1, <2>2
  <2>4. /\ b \in Seq(S) /\ Len(b) = Len(w) - (i + 1)
        /\ \A j \in 1 .. Len(w) - (i + 1) : b[j] = w[i + 1 + j]
    BY <1>2, <2>1, <2>2
  <2>5. c \in Seq(S) /\ IsCons(c, w[i + 1], b)
    BY <2>1, <2>2, <2>4, ConsFacts
  <2>6. Len(a) = Len(c)
    BY <1>1, <2>3, <2>4, <2>5 DEF IsCons
  <2>7. ASSUME NEW j \in 1 .. Len(a) PROVE a[j] = c[j]
    <3>1. CASE j = 1
      BY <2>3, <2>5, <3>1 DEF IsCons
    <3>2. CASE j # 1
      <4>1. j - 1 \in 1 .. Len(b) /\ (j - 1) + 1 = j /\ i + 1 + (j - 1) = i + j
        BY <1>1, <2>3, <2>4, <3>2
      <4>2. c[j] = b[j - 1] /\ b[j - 1] = w[i + j]
        BY <2>4, <2>5, <4>1 DEF IsCons
      <4> QED  BY <2>3, <4>2
    <3> QED  BY <3>1, <3>2
  <2>8. a = c
    BY <2>3, <2>5, <2>6, <2>7, SameWord
  <2> QED  BY <2>2, <2>8
<1>4. After(w, 0) = w
  <2>1. 0 \in 0 .. Len(w) /\ Len(w) - 0 = Len(w) /\ \A j \in 1 .. Len(w) : 0 + j = j
    BY <1>1
  <2>2. \A j \in 1 .. Len(w) : After(w, 0)[j] = w[j]
    BY <1>2, <2>1
  <2>3. After(w, 0) \in Seq(S) /\ Len(After(w, 0)) = Len(w)
    BY <1>2, <2>1
  <2> QED  BY <2>2, <2>3, SameWord
<1>5. After(w, Len(w)) = <<>>
  <2>1. Len(w) \in 0 .. Len(w) /\ Len(w) - Len(w) = 0
    BY <1>1
  <2> QED  BY <1>2, <2>1, EmptySeq
<1> QED  BY <1>2, <1>3, <1>4, <1>5

(* A word is empty, or a character and a word.                             *)
LEMMA WordCases ==
    ASSUME NEW S, NEW w \in Seq(S), w # <<>>
    PROVE  /\ w[1] \in S /\ After(w, 1) \in Seq(S) /\ w = Cons(w[1], After(w, 1))
           /\ Len(After(w, 1)) = Len(w) - 1 /\ Len(w) \in Nat /\ Len(w) >= 1
<1>1. Len(w) \in Nat /\ Len(w) # 0
  BY EmptySeq
<1>2. 0 \in 0 .. Len(w) - 1 /\ 1 \in 0 .. Len(w) /\ 1 \in 1 .. Len(w) /\ 0 + 1 = 1
  BY <1>1
<1>3. w[1] \in S
  BY <1>2, ElementOfSeq
<1>4. After(w, 0) = Cons(w[0 + 1], After(w, 0 + 1)) /\ After(w, 0) = w
  BY <1>2, AfterFacts
<1>5. After(w, 1) \in Seq(S) /\ Len(After(w, 1)) = Len(w) - 1
  BY <1>2, AfterFacts
<1>6. Len(w) >= 1
  BY <1>1
<1> QED  BY <1>1, <1>2, <1>3, <1>4, <1>5, <1>6

(* Nodes with edges for characters of C.                                   *)
NodeOver(C) == [final : BOOLEAN, edges : UNION {[S -> Nat] : S \in SUBSET C}]

LEMMA NodeFacts ==
    ASSUME NEW C, NEW x \in NodeOver(C)
    PROVE  /\ x = [final |-> x.final, edges |-> x.edges] /\ x.final \in BOOLEAN
           /\ DOMAIN x.edges \subseteq C /\ x.edges = [c \in DOMAIN x.edges |-> x.edges[c]]
           /\ \A c \in DOMAIN x.edges : x.edges[c] \in Nat
<1>1. x = [final |-> x.final, edges |-> x.edges] /\ x.final \in BOOLEAN /\ x.edges \in UNION {[S -> Nat] : S \in SUBSET C}
  BY DEF NodeOver
<1>2. PICK S \in SUBSET C : x.edges \in [S -> Nat]
  BY <1>1
<1> QED  BY <1>1, <1>2

LEMMA NewNode == \A C : Node \in NodeOver(C) /\ ~Node.final /\ DOMAIN Node.edges = {}
<1> TAKE C
<1>1. Node = [final |-> FALSE, edges |-> <<>>]
  BY DEF Node
<1>2. <<>> \in [{} -> Nat] /\ {} \in SUBSET C
  OBVIOUS
<1>3. <<>> \in UNION {[S -> Nat] : S \in SUBSET C}
  BY <1>2
<1>4. Node \in NodeOver(C)
  BY <1>1, <1>3 DEF NodeOver
<1>5. Node.final = FALSE /\ Node.edges = <<>>
  BY <1>1
<1> QED  BY <1>4, <1>5

(* Node y is x with the edge c, which leads to n.                          *)
Linked(y, x, c, n) ==
    /\ y.final = x.final /\ DOMAIN y.edges = DOMAIN x.edges \cup {c} /\ y.edges[c] = n
    /\ \A d \in DOMAIN x.edges : d # c => y.edges[d] = x.edges[d]

LEMMA EdgeAdded ==
    ASSUME NEW C, NEW x \in NodeOver(C), NEW c \in C, NEW n \in Nat
    PROVE  WithEdge(x, c, n) \in NodeOver(C) /\ Linked(WithEdge(x, c, n), x, c, n)
<1>1. /\ x = [final |-> x.final, edges |-> x.edges] /\ x.final \in BOOLEAN
      /\ DOMAIN x.edges \subseteq C
      /\ \A d \in DOMAIN x.edges : x.edges[d] \in Nat
  BY NodeFacts
<1>2. PICK e : e = [d \in DOMAIN x.edges \cup {c} |-> IF d = c THEN n ELSE x.edges[d]]
  OBVIOUS
<1>3. WithEdge(x, c, n) = [x EXCEPT !.edges = e]
  BY <1>2, Zenon DEF WithEdge
<1>4. WithEdge(x, c, n) = [final |-> x.final, edges |-> e]
  BY <1>1, <1>3
<1>5. e \in [DOMAIN x.edges \cup {c} -> Nat] /\ DOMAIN x.edges \cup {c} \in SUBSET C
  BY <1>1, <1>2
<1>6. e \in UNION {[S -> Nat] : S \in SUBSET C}
  BY <1>5
<1>7. WithEdge(x, c, n) \in NodeOver(C)
  BY <1>1, <1>4, <1>6 DEF NodeOver
<1>8. WithEdge(x, c, n).final = x.final /\ WithEdge(x, c, n).edges = e
  BY <1>4
<1> QED  BY <1>2, <1>7, <1>8 DEF Linked

-----------------------------------------------------------------------------
(* TokenSet.Builder                                                        *)

Nodes == Seq(NodeOver(Int))
Links == [parent : Nat, char : Int, child : Nat]
Autos == [nodes : Nodes, unchecked : Seq(Links), minimized : SUBSET Nat,
          previousWord : Word, at : Nat]

(* The nodes of the word at hand that are still unchecked: from the root   *)
(* one by one, along its characters, and no other edge leads to them.      *)
OnPath(a, i) == IF i = 0 THEN 1 ELSE a.unchecked[i].child
Path(a, x) ==
    /\ Len(a.unchecked) <= Len(x)
    /\ \A i \in 0 .. Len(a.unchecked) :
         OnPath(a, i) \in 1 .. Len(a.nodes) /\ OnPath(a, i) \notin a.minimized
    /\ \A i, j \in 0 .. Len(a.unchecked) : OnPath(a, i) = OnPath(a, j) => i = j
    /\ \A i \in 1 .. Len(a.unchecked) :
         /\ a.unchecked[i].parent = OnPath(a, i - 1) /\ a.unchecked[i].char = x[i]
         /\ x[i] \in DOMAIN a.nodes[OnPath(a, i - 1)].edges
         /\ a.nodes[OnPath(a, i - 1)].edges[x[i]] = OnPath(a, i)
Aims(a, x) ==
    \A m \in 1 .. Len(a.nodes) : \A c \in DOMAIN a.nodes[m].edges :
      \/ a.nodes[m].edges[c] \in a.minimized
      \/ \E i \in 1 .. Len(a.unchecked) :
           m = OnPath(a, i - 1) /\ c = x[i] /\ a.nodes[m].edges[c] = OnPath(a, i)

(* They may get edges only of later characters, and no two minimized ones  *)
(* are equal.                                                              *)
Fresh(a, x) ==
    \A i \in 0 .. Len(a.unchecked) :
      \A c \in DOMAIN a.nodes[OnPath(a, i)].edges : i < Len(x) /\ c <= x[i + 1]
Least(a) ==
    /\ a.minimized \subseteq 1 .. Len(a.nodes)
    /\ \A m, n \in a.minimized : a.nodes[m] = a.nodes[n] => m = n
Shape(a, x) == a \in Autos /\ x \in Word /\ Path(a, x) /\ Aims(a, x) /\ Fresh(a, x) /\ Least(a)

(* What a node stands for.                                                 *)
Spells(ns, L) ==
    /\ L \in [1 .. Len(ns) -> SUBSET Word]
    /\ \A m \in 1 .. Len(ns) : <<>> \in L[m] <=> ns[m].final
    /\ \A m \in 1 .. Len(ns) : \A c \in Int : \A w \in Word :
         Cons(c, w) \in L[m] <=> c \in DOMAIN ns[m].edges /\ w \in L[ns[m].edges[c]]

(* The edge c of node q leads to t now, and nothing else has changed.      *)
Relinked(new, old, q, c, t) ==
    /\ new \in Nodes /\ Len(new) = Len(old)
    /\ \A m \in 1 .. Len(old) : m # q => new[m] = old[m]
    /\ new[q].final = old[q].final /\ DOMAIN new[q].edges = DOMAIN old[q].edges
    /\ new[q].edges[c] = t
    /\ \A d \in DOMAIN old[q].edges : d # c => new[q].edges[d] = old[q].edges[d]

Equal(a, t, n) == \/ t = n /\ \A m \in a.minimized : a.nodes[m] # a.nodes[n]
                  \/ t \in a.minimized /\ a.nodes[t] = a.nodes[n]
Minimized(b, a, q, c, n, t) ==
    /\ b \in Autos /\ Relinked(b.nodes, a.nodes, q, c, t) /\ Equal(a, t, n)
    /\ b.minimized = a.minimized \cup {t} /\ b.unchecked = Front(a.unchecked)
    /\ b.previousWord = a.previousWord /\ b.at = a.at

LEMMA AutoFacts ==
    ASSUME NEW a \in Autos
    PROVE  /\ a.nodes \in Nodes /\ a.unchecked \in Seq(Links) /\ a.minimized \in SUBSET Nat
           /\ a.previousWord \in Word /\ a.at \in Nat
           /\ Len(a.nodes) \in Nat /\ Len(a.unchecked) \in Nat
           /\ \A m \in 1 .. Len(a.nodes) : a.nodes[m] \in NodeOver(Int)
           /\ \A i \in 1 .. Len(a.unchecked) : a.unchecked[i] \in Links
           /\ a = [nodes |-> a.nodes, unchecked |-> a.unchecked, minimized |-> a.minimized,
                   previousWord |-> a.previousWord, at |-> a.at]
<1>1. /\ a.nodes \in Nodes /\ a.unchecked \in Seq(Links) /\ a.minimized \in SUBSET Nat
      /\ a.previousWord \in Word /\ a.at \in Nat
      /\ a = [nodes |-> a.nodes, unchecked |-> a.unchecked, minimized |-> a.minimized,
              previousWord |-> a.previousWord, at |-> a.at]
  BY DEF Autos
<1>2. Len(a.nodes) \in Nat /\ \A m \in 1 .. Len(a.nodes) : a.nodes[m] \in NodeOver(Int)
  BY <1>1, LenProperties, ElementOfSeq DEF Nodes
<1>3. Len(a.unchecked) \in Nat /\ \A i \in 1 .. Len(a.unchecked) : a.unchecked[i] \in Links
  BY <1>1, LenProperties, ElementOfSeq
<1> QED  BY <1>1, <1>2, <1>3

LEMMA PathFacts ==
    ASSUME NEW a, NEW x, Shape(a, x)
    PROVE  /\ Len(a.unchecked) \in Nat /\ Len(x) \in Nat /\ Len(a.unchecked) <= Len(x)
           /\ Len(a.nodes) \in Nat
           /\ \A i \in 1 .. Len(x) : x[i] \in Int
           /\ \A i \in 0 .. Len(a.unchecked) :
                /\ OnPath(a, i) \in 1 .. Len(a.nodes) /\ OnPath(a, i) \notin a.minimized
                /\ a.nodes[OnPath(a, i)] \in NodeOver(Int)
<1>1. a \in Autos /\ x \in Word /\ Path(a, x)
  BY DEF Shape
<1>2. Len(x) \in Nat /\ \A i \in 1 .. Len(x) : x[i] \in Int
  BY <1>1, LenProperties, ElementOfSeq DEF Word
<1>3. Len(a.unchecked) \in Nat /\ Len(a.nodes) \in Nat
      /\ \A m \in 1 .. Len(a.nodes) : a.nodes[m] \in NodeOver(Int)
  BY <1>1, AutoFacts
<1> QED  BY <1>1, <1>2, <1>3 DEF Path

LEMMA NodeRelinked ==
    ASSUME NEW s \in Nodes, NEW q \in 1 .. Len(s), NEW c \in Int, c \in DOMAIN s[q].edges, NEW t \in Nat,
           NEW r, r = [s EXCEPT ![q] = WithEdge(s[q], c, t)]
    PROVE  Relinked(r, s, q, c, t)
<1>1. Len(s) \in Nat /\ DOMAIN s = 1 .. Len(s) /\ s[q] \in NodeOver(Int)
  BY LenProperties, ElementOfSeq DEF Nodes
<1>2. PICK e : e = WithEdge(s[q], c, t)
  OBVIOUS
<1>3. e \in NodeOver(Int) /\ Linked(e, s[q], c, t)
  BY <1>1, <1>2, EdgeAdded
<1>4. r = [s EXCEPT ![q] = e]
  BY <1>2
<1>5. r \in Seq(NodeOver(Int)) /\ Len(r) = Len(s) /\ \A m \in 1 .. Len(s) : r[m] = IF m = q THEN e ELSE s[m]
  BY <1>3, <1>4, ExceptSeq DEF Nodes
<1>6. r[q] = e /\ r \in Nodes
  BY <1>5 DEF Nodes
<1>7. DOMAIN e.edges = DOMAIN s[q].edges
  BY <1>3 DEF Linked
<1> QED  BY <1>3, <1>5, <1>6, <1>7 DEF Relinked, Linked

LEMMA FrontFacts ==
    ASSUME NEW S, NEW s \in Seq(S), Len(s) > 0
    PROVE  /\ Front(s) \in Seq(S) /\ Len(Front(s)) = Len(s) - 1 /\ Last(s) = s[Len(s)]
           /\ Len(s) \in Nat /\ \A i \in 1 .. Len(s) - 1 : Front(s)[i] = s[i]
<1>1. Len(s) \in Nat /\ \A i \in 1 .. Len(s) : s[i] \in S
  BY LenProperties, ElementOfSeq
<1>2. Front(s) = SubSeq(s, 1, Len(s) - 1) /\ Last(s) = s[Len(s)]
  BY DEF Front, Last
<1>3. PICK n \in Int : n = Len(s) - 1
  BY <1>1
<1>4. \A i \in 1 .. n : s[i] \in S
  BY <1>1, <1>3
<1>5. PICK f : f = SubSeq(s, 1, n)
  OBVIOUS
<1>6. f \in Seq(S) /\ Len(f) = IF 1 <= n THEN n - 1 + 1 ELSE 0
  BY <1>4, <1>5, SubSeqProperties
<1>7. \A i \in 1 .. n - 1 + 1 : f[i] = s[1 + i - 1]
  BY <1>4, <1>5, SubSeqProperties
<1>8. Len(f) = n
  BY <1>1, <1>3, <1>6
<1>9. ASSUME NEW i \in 1 .. n PROVE f[i] = s[i]
  <2>1. n - 1 + 1 = n /\ 1 + i - 1 = i
    BY <1>3
  <2>2. f[i] = s[1 + i - 1]
    BY <1>7, <2>1
  <2> QED  BY <2>1, <2>2
<1> QED  BY <1>1, <1>2, <1>3, <1>5, <1>6, <1>8, <1>9

(* What minimizeLast does.                                                 *)
LEMMA LastMinimized ==
    ASSUME NEW a, NEW x, Shape(a, x), NEW p, p = Len(a.unchecked), p > 0
    PROVE  \E t \in 1 .. Len(a.nodes) :
             Minimized(minimizeLast(a), a, OnPath(a, p - 1), x[p], OnPath(a, p), t)
<1>1. a \in Autos /\ Path(a, x) /\ Least(a)
  BY DEF Shape
<1>2. /\ a.nodes \in Nodes /\ a.unchecked \in Seq(Links) /\ a.minimized \in SUBSET Nat
      /\ a.previousWord \in Word /\ a.at \in Nat
      /\ Len(a.nodes) \in Nat /\ p \in Nat
      /\ a = [nodes |-> a.nodes, unchecked |-> a.unchecked, minimized |-> a.minimized,
              previousWord |-> a.previousWord, at |-> a.at]
  BY <1>1, AutoFacts
<1>3. PICK q, n, u, same : /\ q = OnPath(a, p - 1) /\ n = OnPath(a, p) /\ u = a.unchecked[p]
                           /\ same = {m \in a.minimized : a.nodes[m] = a.nodes[n]}
  OBVIOUS
<1>4. p \in 1 .. p /\ p \in 0 .. p /\ p - 1 \in 0 .. p
  BY <1>2
<1>5. u.parent = q /\ u.char = x[p] /\ u.child = n /\ x[p] \in DOMAIN a.nodes[q].edges
      /\ a.nodes[q].edges[x[p]] = n
  <2>1. /\ u.parent = q /\ u.char = x[p] /\ x[p] \in DOMAIN a.nodes[q].edges
        /\ a.nodes[q].edges[x[p]] = n
    BY <1>1, <1>3, <1>4 DEF Path
  <2>2. n = u.child
    BY <1>3 DEF OnPath
  <2> QED  BY <2>1, <2>2
<1>6. q \in 1 .. Len(a.nodes) /\ n \in 1 .. Len(a.nodes) /\ n \in Nat
  BY <1>1, <1>2, <1>3, <1>4 DEF Path
<1>7. Last(a.unchecked) = u /\ Front(a.unchecked) \in Seq(Links)
  BY <1>2, <1>3, FrontFacts
<1>8. x[p] \in Int
  BY <1>4, PathFacts DEF Shape
<1>9. PICK t : t = IF same = {} THEN n ELSE CHOOSE m \in same : TRUE
  OBVIOUS
<1>10. t \in 1 .. Len(a.nodes) /\ Equal(a, t, n) /\ t \in Nat
  <2>1. CASE same = {}
    BY <1>3, <1>6, <1>9, <2>1 DEF Equal
  <2>2. CASE same # {}
    <3>1. t \in same
      BY <1>9, <2>2
    <3> QED  BY <1>1, <1>2, <1>3, <3>1 DEF Equal, Least
  <2> QED  BY <2>1, <2>2
<1>11. PICK r : r = IF same = {} THEN a.nodes ELSE [a.nodes EXCEPT ![q] = WithEdge(a.nodes[q], x[p], t)]
  OBVIOUS
<1>12. Relinked(r, a.nodes, q, x[p], t)
  <2>1. CASE same = {}
    <3>1. r = a.nodes /\ t = n
      BY <1>9, <1>11, <2>1
    <3> QED  BY <1>2, <1>5, <3>1 DEF Relinked
  <2>2. CASE same # {}
    <3>1. r = [a.nodes EXCEPT ![q] = WithEdge(a.nodes[q], x[p], t)]
      BY <1>11, <2>2
    <3> QED  BY <1>2, <1>5, <1>6, <1>8, <1>10, <3>1, NodeRelinked
  <2> QED  BY <2>1, <2>2
<1>13. PICK v : v = [nodes |-> r, unchecked |-> Front(a.unchecked), minimized |-> a.minimized \cup {t},
                     previousWord |-> a.previousWord, at |-> a.at]
  OBVIOUS
<1>14. minimizeLast(a) = v
  <2>1. a.minimized \cup {t} = IF same = {} THEN a.minimized \cup {n} ELSE a.minimized
    <3>1. CASE same = {}
      BY <1>9, <3>1
    <3>2. CASE same # {}
      <4>1. t \in same
        BY <1>9, <3>2
      <4> QED  BY <1>3, <3>2, <4>1
    <3> QED  BY <3>1, <3>2
  <2>2. r = [a.nodes EXCEPT ![q] = IF same = {} THEN a.nodes[q] ELSE WithEdge(a.nodes[q], x[p], CHOOSE m \in same : TRUE)]
    <3>1. CASE same = {}
      <4>1. r = a.nodes
        BY <1>11, <3>1
      <4>2. [a.nodes EXCEPT ![q] = a.nodes[q]] = a.nodes
        BY <1>2 DEF Nodes
      <4> QED  BY <3>1, <4>1, <4>2
    <3>2. CASE same # {}
      BY <1>9, <1>11, <3>2
    <3> QED  BY <3>1, <3>2
  <2>3. minimizeLast(a) =
          [a EXCEPT !.nodes[q] = IF same = {} THEN @ ELSE WithEdge(@, x[p], CHOOSE m \in same : TRUE),
                    !.minimized = IF same = {} THEN @ \cup {n} ELSE @,
                    !.unchecked = Front(@)]
    <3>1. /\ Last(a.unchecked).parent = q /\ Last(a.unchecked).char = x[p]
          /\ Last(a.unchecked).child = n
      BY <1>5, <1>7
    <3>2. {m \in a.minimized : a.nodes[m] = a.nodes[Last(a.unchecked).child]} = same
      BY <1>3, <3>1
    <3> QED  BY <3>1, <3>2, Zenon DEF minimizeLast
  <2>4. minimizeLast(a) =
          [nodes |-> [a.nodes EXCEPT ![q] = IF same = {} THEN a.nodes[q] ELSE WithEdge(a.nodes[q], x[p], CHOOSE m \in same : TRUE)],
           unchecked |-> Front(a.unchecked), minimized |-> IF same = {} THEN a.minimized \cup {n} ELSE a.minimized,
           previousWord |-> a.previousWord, at |-> a.at]
    BY <1>2, <2>3
  <2> QED  BY <1>13, <2>1, <2>2, <2>4
<1>15. v \in Autos
  <2>1. r \in Nodes /\ a.minimized \cup {t} \in SUBSET Nat
    BY <1>2, <1>10, <1>12 DEF Relinked
  <2> QED  BY <1>2, <1>7, <1>13, <2>1 DEF Autos
<1>16. Minimized(v, a, q, x[p], n, t)
  <2>1. /\ v.nodes = r /\ v.unchecked = Front(a.unchecked) /\ v.minimized = a.minimized \cup {t}
        /\ v.previousWord = a.previousWord /\ v.at = a.at
    BY <1>13
  <2> QED  BY <1>10, <1>12, <1>15, <2>1 DEF Minimized
<1> QED  BY <1>3, <1>10, <1>14, <1>16

(* The path is one node shorter, and everything else holds as before.      *)
LEMMA ShapeMinimized ==
    ASSUME NEW a, NEW b, NEW x, Shape(a, x), NEW p, p = Len(a.unchecked), p > 0,
           NEW t \in 1 .. Len(a.nodes),
           Minimized(b, a, OnPath(a, p - 1), x[p], OnPath(a, p), t)
    PROVE  Shape(b, x) /\ Len(b.unchecked) = p - 1
<1>1. a \in Autos /\ x \in Word /\ Path(a, x) /\ Aims(a, x) /\ Fresh(a, x) /\ Least(a)
  BY DEF Shape
<1>2. PICK q, n, c : q = OnPath(a, p - 1) /\ n = OnPath(a, p) /\ c = x[p]
  OBVIOUS
<1>3. /\ b \in Autos /\ Relinked(b.nodes, a.nodes, q, c, t) /\ Equal(a, t, n)
      /\ b.minimized = a.minimized \cup {t} /\ b.unchecked = Front(a.unchecked)
  BY <1>2 DEF Minimized
<1>4. /\ p \in Nat /\ Len(x) \in Nat /\ p <= Len(x) /\ Len(a.nodes) \in Nat
      /\ \A i \in 0 .. p : OnPath(a, i) \in 1 .. Len(a.nodes) /\ OnPath(a, i) \notin a.minimized
  BY PathFacts
<1>5. p - 1 \in 0 .. p /\ p \in 0 .. p /\ p \in 1 .. p
  BY <1>4
<1>6. q \in 1 .. Len(a.nodes) /\ n \in 1 .. Len(a.nodes) /\ q \notin a.minimized
  BY <1>2, <1>4, <1>5
<1>7. /\ b.nodes \in Nodes /\ Len(b.nodes) = Len(a.nodes)
      /\ \A m \in 1 .. Len(a.nodes) : m # q => b.nodes[m] = a.nodes[m]
      /\ b.nodes[q].final = a.nodes[q].final /\ DOMAIN b.nodes[q].edges = DOMAIN a.nodes[q].edges
      /\ b.nodes[q].edges[c] = t
      /\ \A d \in DOMAIN a.nodes[q].edges : d # c => b.nodes[q].edges[d] = a.nodes[q].edges[d]
  BY <1>3 DEF Relinked
<1>8. a.unchecked \in Seq(Links)
  BY <1>1, AutoFacts
<1>9. Len(b.unchecked) = p - 1 /\ \A i \in 1 .. p - 1 : b.unchecked[i] = a.unchecked[i]
  BY <1>3, <1>8, FrontFacts
<1>10. \A i \in 0 .. p - 1 : OnPath(b, i) = OnPath(a, i) /\ i \in 0 .. p
  BY <1>4, <1>9 DEF OnPath
<1>11. \A i \in 0 .. p - 1 : OnPath(a, i) # n /\ (OnPath(a, i) = q => i = p - 1)
  <2>1. \A i, j \in 0 .. p : OnPath(a, i) = OnPath(a, j) => i = j
    BY <1>1 DEF Path
  <2> QED  BY <1>2, <1>4, <1>5, <1>10, <2>1
<1>12. \A i \in 0 .. p - 1 : OnPath(a, i) # t
  BY <1>3, <1>4, <1>10, <1>11 DEF Equal
<1>13. Path(b, x)
  <2>1. Len(b.unchecked) <= Len(x)
    BY <1>4, <1>9
  <2>2. ASSUME NEW i \in 0 .. Len(b.unchecked)
        PROVE  OnPath(b, i) \in 1 .. Len(b.nodes) /\ OnPath(b, i) \notin b.minimized
    BY <1>3, <1>4, <1>7, <1>9, <1>10, <1>12
  <2>3. ASSUME NEW i \in 0 .. Len(b.unchecked), NEW j \in 0 .. Len(b.unchecked),
               OnPath(b, i) = OnPath(b, j)
        PROVE  i = j
    <3>1. OnPath(a, i) = OnPath(a, j) /\ i \in 0 .. p /\ j \in 0 .. p
      BY <1>9, <1>10, <2>3
    <3> QED  BY <1>1, <3>1 DEF Path
  <2>4. ASSUME NEW i \in 1 .. Len(b.unchecked)
        PROVE  /\ b.unchecked[i].parent = OnPath(b, i - 1) /\ b.unchecked[i].char = x[i]
               /\ x[i] \in DOMAIN b.nodes[OnPath(b, i - 1)].edges
               /\ b.nodes[OnPath(b, i - 1)].edges[x[i]] = OnPath(b, i)
    <3>1. i \in 1 .. p - 1 /\ i \in 1 .. p /\ i - 1 \in 0 .. p - 1 /\ i \in 0 .. p - 1 /\ i - 1 # p - 1
      BY <1>4, <1>9
    <3>2. /\ a.unchecked[i].parent = OnPath(a, i - 1) /\ a.unchecked[i].char = x[i]
          /\ x[i] \in DOMAIN a.nodes[OnPath(a, i - 1)].edges
          /\ a.nodes[OnPath(a, i - 1)].edges[x[i]] = OnPath(a, i)
      BY <1>1, <3>1 DEF Path
    <3>3. OnPath(b, i - 1) = OnPath(a, i - 1) /\ OnPath(b, i) = OnPath(a, i)
      BY <1>10, <3>1
    <3>4. b.nodes[OnPath(a, i - 1)] = a.nodes[OnPath(a, i - 1)]
      <4>1. OnPath(a, i - 1) # q
        BY <1>11, <3>1
      <4>2. OnPath(a, i - 1) \in 1 .. Len(a.nodes)
        BY <1>4, <1>10, <3>1
      <4> QED  BY <1>7, <4>1, <4>2
    <3> QED  BY <1>9, <3>1, <3>2, <3>3, <3>4
  <2> QED  BY <2>1, <2>2, <2>3, <2>4 DEF Path
<1>14. Aims(b, x)
  <2> SUFFICES ASSUME NEW m \in 1 .. Len(b.nodes), NEW d \in DOMAIN b.nodes[m].edges,
                      b.nodes[m].edges[d] \notin b.minimized
               PROVE  \E i \in 1 .. Len(b.unchecked) :
                        m = OnPath(b, i - 1) /\ d = x[i] /\ b.nodes[m].edges[d] = OnPath(b, i)
    BY DEF Aims
  <2>1. ~(m = q /\ d = c)
    BY <1>3, <1>7
  <2>2. m \in 1 .. Len(a.nodes) /\ d \in DOMAIN a.nodes[m].edges /\ b.nodes[m].edges[d] = a.nodes[m].edges[d]
    BY <1>7, <2>1
  <2>3. PICK i \in 1 .. p : m = OnPath(a, i - 1) /\ d = x[i] /\ a.nodes[m].edges[d] = OnPath(a, i)
    <3>1. a.nodes[m].edges[d] \notin a.minimized
      BY <1>3, <2>2
    <3> QED  BY <1>1, <2>2, <3>1 DEF Aims
  <2>4. i # p
    BY <1>2, <2>1, <2>3
  <2>5. i \in 1 .. Len(b.unchecked) /\ i \in 0 .. p - 1 /\ i - 1 \in 0 .. p - 1
    BY <1>4, <1>9, <2>4
  <2>6. OnPath(b, i - 1) = OnPath(a, i - 1) /\ OnPath(b, i) = OnPath(a, i)
    BY <1>10, <2>5
  <2> QED  BY <2>2, <2>3, <2>5, <2>6
<1>15. Fresh(b, x)
  <2> SUFFICES ASSUME NEW i \in 0 .. Len(b.unchecked), NEW d \in DOMAIN b.nodes[OnPath(b, i)].edges
               PROVE  i < Len(x) /\ d <= x[i + 1]
    BY DEF Fresh
  <2>1. i \in 0 .. p - 1 /\ i \in 0 .. p
    BY <1>9, <1>10
  <2>2. OnPath(b, i) = OnPath(a, i) /\ OnPath(a, i) \in 1 .. Len(a.nodes)
    BY <1>4, <1>10, <2>1
  <2>3. d \in DOMAIN a.nodes[OnPath(a, i)].edges
    BY <1>7, <2>2
  <2> QED  BY <1>1, <2>1, <2>3 DEF Fresh
<1>16. Least(b)
  <2>1. b.minimized \subseteq 1 .. Len(b.nodes)
    BY <1>1, <1>3, <1>7 DEF Least
  <2>2. \A m \in b.minimized : m # q /\ m \in 1 .. Len(a.nodes) /\ b.nodes[m] = a.nodes[m]
    <3>1. t # q
      BY <1>2, <1>5, <1>12, <1>4
    <3> QED  BY <1>1, <1>3, <1>6, <1>7, <3>1 DEF Least
  <2>3. ASSUME NEW m \in b.minimized, NEW k \in b.minimized, b.nodes[m] = b.nodes[k] PROVE m = k
    <3>1. a.nodes[m] = a.nodes[k]
      BY <2>2, <2>3
    <3> QED  BY <1>1, <1>3, <3>1 DEF Least, Equal
  <2> QED  BY <2>1, <2>3 DEF Least
<1> QED  BY <1>1, <1>3, <1>9, <1>13, <1>14, <1>15, <1>16 DEF Shape

(* Equal nodes stand for the same words.                                   *)
LEMMA SpellsSame ==
    ASSUME NEW ns, NEW L, Spells(ns, L), NEW m \in 1 .. Len(ns), NEW n \in 1 .. Len(ns),
           ns[m] = ns[n]
    PROVE  L[m] = L[n]
<1>1. L[m] \subseteq Word /\ L[n] \subseteq Word
  BY DEF Spells
<1>2. ASSUME NEW w \in Word PROVE w \in L[m] <=> w \in L[n]
  <2>1. CASE w = <<>>
    BY <2>1 DEF Spells
  <2>2. CASE w # <<>>
    <3>1. PICK c, v : c = w[1] /\ v = After(w, 1)
      OBVIOUS
    <3>2. c \in Int /\ v \in Word /\ w = Cons(c, v)
      BY <2>2, <3>1, WordCases DEF Word
    <3> QED  BY <3>2 DEF Spells
  <2> QED  BY <2>1, <2>2
<1> QED  BY <1>1, <1>2

LEMMA SpellsMinimized ==
    ASSUME NEW a, NEW b, NEW x, Shape(a, x), NEW p, p = Len(a.unchecked), p > 0,
           NEW t \in 1 .. Len(a.nodes),
           Minimized(b, a, OnPath(a, p - 1), x[p], OnPath(a, p), t),
           NEW L, Spells(a.nodes, L)
    PROVE  Spells(b.nodes, L)
<1>1. PICK q, n, c : q = OnPath(a, p - 1) /\ n = OnPath(a, p) /\ c = x[p]
  OBVIOUS
<1>2. Relinked(b.nodes, a.nodes, q, c, t) /\ Equal(a, t, n)
  BY <1>1 DEF Minimized
<1>3. /\ Len(b.nodes) = Len(a.nodes)
      /\ \A m \in 1 .. Len(a.nodes) : m # q => b.nodes[m] = a.nodes[m]
      /\ b.nodes[q].final = a.nodes[q].final /\ DOMAIN b.nodes[q].edges = DOMAIN a.nodes[q].edges
      /\ b.nodes[q].edges[c] = t
      /\ \A d \in DOMAIN a.nodes[q].edges : d # c => b.nodes[q].edges[d] = a.nodes[q].edges[d]
  BY <1>2 DEF Relinked
<1>4. p \in Nat /\ p \in 1 .. p /\ p \in 0 .. p
  BY PathFacts
<1>5. n \in 1 .. Len(a.nodes) /\ a.nodes[q].edges[c] = n
  BY <1>1, <1>4 DEF Shape, Path
<1>6. L[t] = L[n]
  BY <1>2, <1>5, SpellsSame DEF Equal
<1>7. ASSUME NEW m \in 1 .. Len(a.nodes), NEW d \in Int
      PROVE  /\ d \in DOMAIN b.nodes[m].edges <=> d \in DOMAIN a.nodes[m].edges
             /\ d \in DOMAIN a.nodes[m].edges => L[b.nodes[m].edges[d]] = L[a.nodes[m].edges[d]]
  <2>1. CASE m = q /\ d = c
    BY <1>3, <1>5, <1>6, <2>1
  <2>2. CASE ~(m = q /\ d = c)
    BY <1>3, <2>2
  <2> QED  BY <2>1, <2>2
<1>8. L \in [1 .. Len(b.nodes) -> SUBSET Word]
  BY <1>3 DEF Spells
<1>9. \A m \in 1 .. Len(b.nodes) : <<>> \in L[m] <=> b.nodes[m].final
  <2> TAKE m \in 1 .. Len(b.nodes)
  <2>1. b.nodes[m].final = a.nodes[m].final
    BY <1>3
  <2> QED  BY <1>3, <2>1 DEF Spells
<1>10. ASSUME NEW m \in 1 .. Len(b.nodes), NEW d \in Int, NEW w \in Word
       PROVE  Cons(d, w) \in L[m] <=> d \in DOMAIN b.nodes[m].edges /\ w \in L[b.nodes[m].edges[d]]
  <2>1. m \in 1 .. Len(a.nodes)
    BY <1>3
  <2>2. Cons(d, w) \in L[m] <=> d \in DOMAIN a.nodes[m].edges /\ w \in L[a.nodes[m].edges[d]]
    BY <2>1 DEF Spells
  <2> QED  BY <1>7, <2>1, <2>2
<1> QED  BY <1>8, <1>9, <1>10 DEF Spells

State(a, x, L) == Shape(a, x) /\ Spells(a.nodes, L)
Shorter(b, a, x, L, n) ==
    /\ State(b, x, L) /\ Len(b.unchecked) = n /\ Len(b.nodes) = Len(a.nodes)
    /\ b.previousWord = a.previousWord

LEMMA OneMinimized ==
    ASSUME NEW a, NEW x, NEW L, State(a, x, L), Len(a.unchecked) > 0
    PROVE  Shorter(minimizeLast(a), a, x, L, Len(a.unchecked) - 1)
<1>1. PICK p : p = Len(a.unchecked)
  OBVIOUS
<1>2. Shape(a, x) /\ Spells(a.nodes, L) /\ p > 0
  BY <1>1 DEF State
<1>3. PICK b : b = minimizeLast(a)
  OBVIOUS
<1>4. PICK t \in 1 .. Len(a.nodes) : Minimized(b, a, OnPath(a, p - 1), x[p], OnPath(a, p), t)
  BY <1>1, <1>2, <1>3, LastMinimized
<1>5. Shape(b, x) /\ Len(b.unchecked) = p - 1
  BY <1>1, <1>2, <1>4, ShapeMinimized
<1>6. Spells(b.nodes, L)
  BY <1>1, <1>2, <1>4, SpellsMinimized
<1>7. Len(b.nodes) = Len(a.nodes) /\ b.previousWord = a.previousWord
  BY <1>4 DEF Minimized, Relinked
<1> QED  BY <1>1, <1>3, <1>5, <1>6, <1>7 DEF Shorter, State

LEMMA MinimizedTo ==
    ASSUME NEW a, NEW x, NEW L, State(a, x, L), NEW e \in 0 .. Len(a.unchecked)
    PROVE  Shorter(minimize(a, e), a, x, L, e)
<1> DEFINE n == Len(a.unchecked) - e
           D == [i \in 0 .. n |-> {z \in Autos : Shorter(z, a, x, L, Len(a.unchecked) - i)}]
           turn == [i \in 1 .. n |-> [z \in Autos |-> minimizeLast(z)]]
           eq(h) == h = [i \in 0 .. n |-> IF i = 0 THEN a ELSE minimizeLast(h[i - 1])]
<1>1. n \in Nat /\ Len(a.unchecked) \in Nat /\ Len(a.unchecked) - n = e /\ n <= Len(a.unchecked)
  BY PathFacts DEF State
<1>2. \A z, k : Shorter(z, a, x, L, k) => z \in Autos
  BY DEF Shorter, State, Shape
<1>3. \A i \in 0 .. n : \A z : z \in D[i] <=> Shorter(z, a, x, L, Len(a.unchecked) - i)
  BY <1>2
<1> HIDE DEF D, n
<1>4. a \in D[0]
  <2>1. Len(a.unchecked) - 0 = Len(a.unchecked) /\ 0 \in 0 .. n
    BY <1>1
  <2>2. Shorter(a, a, x, L, Len(a.unchecked))
    BY DEF Shorter
  <2> QED  BY <1>3, <2>1, <2>2
<1>5. \A i \in 1 .. n : \A z \in D[i - 1] : turn[i][z] \in D[i] /\ turn[i][z] = minimizeLast(z)
  <2> TAKE i \in 1 .. n
  <2> TAKE z \in D[i - 1]
  <2>1. i - 1 \in 0 .. n /\ i \in 0 .. n
    BY <1>1
  <2>2. Shorter(z, a, x, L, Len(a.unchecked) - (i - 1)) /\ z \in Autos
    BY <1>2, <1>3, <2>1
  <2>3. /\ State(z, x, L) /\ Len(z.unchecked) = Len(a.unchecked) - (i - 1) /\ Len(z.unchecked) > 0
        /\ Len(z.nodes) = Len(a.nodes) /\ z.previousWord = a.previousWord
    BY <1>1, <2>1, <2>2 DEF Shorter
  <2>4. PICK y : y = minimizeLast(z)
    OBVIOUS
  <2>5. Shorter(y, z, x, L, Len(z.unchecked) - 1)
    BY <2>3, <2>4, OneMinimized
  <2>6. Len(z.unchecked) - 1 = Len(a.unchecked) - i
    BY <1>1, <2>1, <2>3
  <2>7. Shorter(y, a, x, L, Len(a.unchecked) - i)
    BY <2>3, <2>5, <2>6 DEF Shorter
  <2>8. turn[i][z] = y
    BY <2>2, <2>4
  <2> QED  BY <1>3, <2>1, <2>4, <2>7, <2>8
<1> HIDE DEF turn
<1>6. \E h : eq(h)
  <2>0. Turns(n, D, turn)
    BY <1>5 DEF Turns
  <2>1. PICK h : Loop(h, n, a, turn) /\ \A i \in 0 .. n : h[i] \in D[i]
    BY <1>1, <1>4, <2>0, LoopRuns
  <2>2. \A i \in 0 .. n : i # 0 => i \in 1 .. n /\ i - 1 \in 0 .. n
    BY <1>1
  <2>3. \A i \in 0 .. n : i # 0 => turn[i][h[i - 1]] = minimizeLast(h[i - 1])
    BY <1>5, <2>1, <2>2
  <2> QED  BY <2>1, <2>3 DEF Loop
<1> DEFINE h == CHOOSE h : eq(h)
<1>7. eq(h)
  BY <1>6
<1>8. minimize(a, e) = h[n]
  BY DEF minimize, n
<1> HIDE DEF h
<1>9. h[0] = a /\ \A i \in 1 .. n : h[i] = minimizeLast(h[i - 1])
  <2>1. 0 \in 0 .. n /\ \A i \in 1 .. n : i \in 0 .. n /\ i # 0
    BY <1>1
  <2>2. \A i \in 0 .. n : h[i] = IF i = 0 THEN a ELSE minimizeLast(h[i - 1])
    BY <1>7
  <2> QED  BY <2>1, <2>2
<1>10. \A i \in 0 .. n : h[i] \in D[i]
  <2>1. h[0] \in D[0]
    BY <1>4, <1>9
  <2>2. \A i \in 1 .. n : h[i - 1] \in D[i - 1] => h[i] \in D[i]
    BY <1>5, <1>9
  <2> QED  BY <1>1, <2>1, <2>2, LoopStays
<1> QED  BY <1>1, <1>3, <1>8, <1>10

(* The path of one word is that of another as far as both agree, and where *)
(* they part the other is the later one.                                   *)
Parts(v, w, n) ==
    /\ n <= Len(v) /\ n <= Len(w) /\ \A i \in 1 .. n : v[i] = w[i]
    /\ n < Len(v) => n < Len(w) /\ v[n + 1] < w[n + 1]
Open(a, x) ==
    Len(a.unchecked) < Len(x) =>
      x[Len(a.unchecked) + 1] \notin DOMAIN a.nodes[OnPath(a, Len(a.unchecked))].edges

LEMMA PathSwitches ==
    ASSUME NEW a, NEW v, NEW w \in Word, Shape(a, v), Parts(v, w, Len(a.unchecked))
    PROVE  Shape(a, w) /\ Open(a, w)
<1>1. PICK n : n = Len(a.unchecked)
  OBVIOUS
<1>2. a \in Autos /\ v \in Word /\ Path(a, v) /\ Aims(a, v) /\ Fresh(a, v) /\ Least(a)
  BY DEF Shape
<1>3. n \in Nat /\ Len(v) \in Nat /\ n <= Len(v) /\ \A i \in 1 .. Len(v) : v[i] \in Int
  BY <1>1, PathFacts
<1>4. Len(w) \in Nat /\ \A i \in 1 .. Len(w) : w[i] \in Int
  BY LenProperties, ElementOfSeq DEF Word
<1>5. n <= Len(w) /\ (\A i \in 1 .. n : v[i] = w[i]) /\ (n < Len(v) => n < Len(w) /\ v[n + 1] < w[n + 1])
  BY <1>1 DEF Parts
<1>6. Path(a, w)
  BY <1>1, <1>2, <1>5 DEF Path
<1>7. Aims(a, w)
  BY <1>1, <1>2, <1>5 DEF Aims
<1>8. ASSUME NEW i \in 0 .. n, NEW c \in DOMAIN a.nodes[OnPath(a, i)].edges
      PROVE  i < Len(w) /\ c <= w[i + 1] /\ (i = n => c # w[i + 1])
  <2>1. i < Len(v) /\ c <= v[i + 1]
    BY <1>1, <1>2 DEF Fresh
  <2>2. c \in Int
    <3>1. a.nodes[OnPath(a, i)] \in NodeOver(Int)
      BY <1>1, PathFacts
    <3> QED  BY <3>1, NodeFacts
  <2>3. i + 1 \in 1 .. Len(v) /\ v[i + 1] \in Int
    BY <1>3, <2>1
  <2>4. CASE i = n
    <3>1. i < Len(w) /\ v[i + 1] < w[i + 1]
      BY <1>5, <2>1, <2>4
    <3>2. i + 1 \in 1 .. Len(w) /\ w[i + 1] \in Int
      BY <1>4, <3>1
    <3> QED  BY <2>1, <2>2, <2>3, <3>1, <3>2
  <2>5. CASE i # n
    <3>1. i + 1 \in 1 .. n
      BY <1>3, <2>5
    <3>2. v[i + 1] = w[i + 1] /\ i < Len(w)
      BY <1>3, <1>4, <1>5, <3>1
    <3> QED  BY <2>1, <2>5, <3>2
  <2> QED  BY <2>4, <2>5
<1>9. Fresh(a, w)
  BY <1>1, <1>8 DEF Fresh
<1>10. Open(a, w)
  <2>1. n \in 0 .. n
    BY <1>3
  <2> QED  BY <1>1, <1>8, <2>1 DEF Open
<1> QED  BY <1>2, <1>6, <1>7, <1>9, <1>10 DEF Shape

(* What grow does.                                                         *)
Extended(b, a, c) ==
    /\ b \in Autos /\ Len(b.nodes) = Len(a.nodes) + 1 /\ b.nodes[Len(a.nodes) + 1] = Node
    /\ Linked(b.nodes[a.at], a.nodes[a.at], c, Len(a.nodes) + 1)
    /\ \A m \in 1 .. Len(a.nodes) : m # a.at => b.nodes[m] = a.nodes[m]
    /\ b.minimized = a.minimized /\ b.previousWord = a.previousWord /\ b.at = Len(a.nodes) + 1
    /\ Len(b.unchecked) = Len(a.unchecked) + 1
    /\ \A i \in 1 .. Len(a.unchecked) : b.unchecked[i] = a.unchecked[i]
    /\ b.unchecked[Len(a.unchecked) + 1] = [parent |-> a.at, char |-> c, child |-> Len(a.nodes) + 1]

LEMMA GrowExtends ==
    ASSUME NEW a \in Autos, a.at \in 1 .. Len(a.nodes), NEW c \in Int
    PROVE  Extended(grow(a, c), a, c)
<1>1. /\ a.nodes \in Nodes /\ a.unchecked \in Seq(Links) /\ a.minimized \in SUBSET Nat
      /\ a.previousWord \in Word /\ Len(a.nodes) \in Nat /\ Len(a.unchecked) \in Nat
      /\ a.nodes[a.at] \in NodeOver(Int)
      /\ a = [nodes |-> a.nodes, unchecked |-> a.unchecked, minimized |-> a.minimized,
              previousWord |-> a.previousWord, at |-> a.at]
  BY AutoFacts
<1>2. PICK id, e, l, u : /\ id = Len(a.nodes) + 1 /\ e = WithEdge(a.nodes[a.at], c, id)
                         /\ l = [a.nodes EXCEPT ![a.at] = e]
                         /\ u = [parent |-> a.at, char |-> c, child |-> id]
  OBVIOUS
<1>3. id \in Nat /\ u \in Links
  BY <1>1, <1>2 DEF Links
<1>4. e \in NodeOver(Int) /\ Linked(e, a.nodes[a.at], c, id)
  BY <1>1, <1>2, <1>3, EdgeAdded
<1>5. l \in Seq(NodeOver(Int)) /\ Len(l) = Len(a.nodes) /\ \A m \in 1 .. Len(a.nodes) : l[m] = IF m = a.at THEN e ELSE a.nodes[m]
  BY <1>1, <1>2, <1>4, ExceptSeq DEF Nodes
<1>6. PICK r, us : r = Append(l, Node) /\ us = Append(a.unchecked, u)
  OBVIOUS
<1>7. Node \in NodeOver(Int)
  BY NewNode
<1>8. r \in Seq(NodeOver(Int)) /\ Len(r) = id /\ r[id] = Node /\ \A m \in 1 .. Len(a.nodes) : r[m] = l[m]
  <2>1. r \in Seq(NodeOver(Int)) /\ Len(r) = Len(l) + 1 /\ (\A m \in 1 .. Len(l) : r[m] = l[m]) /\ r[Len(l) + 1] = Node
    BY <1>5, <1>6, <1>7, AppendProperties
  <2> QED  BY <1>2, <1>5, <2>1
<1>9. /\ us \in Seq(Links) /\ Len(us) = Len(a.unchecked) + 1 /\ us[Len(a.unchecked) + 1] = u
      /\ \A i \in 1 .. Len(a.unchecked) : us[i] = a.unchecked[i]
  BY <1>1, <1>3, <1>6, AppendProperties
<1>10. PICK b : b = [nodes |-> r, unchecked |-> us, minimized |-> a.minimized,
                     previousWord |-> a.previousWord, at |-> id]
  OBVIOUS
<1>11. grow(a, c) = b
  <2>1. grow(a, c) = [a EXCEPT !.nodes = r, !.unchecked = us, !.at = id]
    BY <1>2, <1>6, Zenon DEF grow
  <2> QED  BY <1>1, <1>10, <2>1
<1>12. b \in Autos
  BY <1>1, <1>3, <1>8, <1>9, <1>10 DEF Autos, Nodes
<1>13. b.nodes = r /\ b.unchecked = us /\ b.minimized = a.minimized /\ b.previousWord = a.previousWord /\ b.at = id
  BY <1>10
<1>14. r[a.at] = e
  BY <1>5, <1>8
<1>15. \A m \in 1 .. Len(a.nodes) : m # a.at => r[m] = a.nodes[m]
  BY <1>5, <1>8
<1> QED  BY <1>2, <1>4, <1>8, <1>9, <1>11, <1>12, <1>13, <1>14, <1>15 DEF Extended

Longer(b, a, x, p) ==
    /\ Shape(b, x) /\ Open(b, x) /\ b.at = OnPath(b, p + 1)
    /\ \A i \in 0 .. p : OnPath(b, i) = OnPath(a, i)

LEMMA ShapeGrows ==
    ASSUME NEW a, NEW b, NEW x, Shape(a, x), Open(a, x), NEW p, p = Len(a.unchecked), p < Len(x),
           a.at = OnPath(a, p), Extended(b, a, x[p + 1])
    PROVE  Longer(b, a, x, p)
<1>1. a \in Autos /\ x \in Word /\ Path(a, x) /\ Aims(a, x) /\ Fresh(a, x) /\ Least(a)
  BY DEF Shape
<1>2. PICK N, q, c : N = Len(a.nodes) /\ q = OnPath(a, p) /\ c = x[p + 1]
  OBVIOUS
<1>3. /\ p \in Nat /\ Len(x) \in Nat /\ N \in Nat /\ \A i \in 1 .. Len(x) : x[i] \in Int
      /\ \A i \in 0 .. p : OnPath(a, i) \in 1 .. N /\ OnPath(a, i) \notin a.minimized
  BY <1>2, PathFacts
<1>4. p \in 0 .. p /\ p + 1 \in 1 .. Len(x) /\ q \in 1 .. N /\ a.at = q /\ N + 1 \notin 1 .. N /\ c \in Int
  BY <1>2, <1>3
<1>5. /\ b \in Autos /\ Len(b.nodes) = N + 1 /\ b.nodes[N + 1] = Node
      /\ b.nodes[q].final = a.nodes[q].final /\ DOMAIN b.nodes[q].edges = DOMAIN a.nodes[q].edges \cup {c}
      /\ b.nodes[q].edges[c] = N + 1
      /\ \A d \in DOMAIN a.nodes[q].edges : d # c => b.nodes[q].edges[d] = a.nodes[q].edges[d]
      /\ \A m \in 1 .. N : m # q => b.nodes[m] = a.nodes[m]
      /\ b.minimized = a.minimized /\ b.at = N + 1
      /\ Len(b.unchecked) = p + 1
      /\ \A i \in 1 .. p : b.unchecked[i] = a.unchecked[i]
      /\ b.unchecked[p + 1] = [parent |-> q, char |-> c, child |-> N + 1]
  BY <1>2, <1>4 DEF Extended, Linked
<1>6. \A i \in 0 .. p : OnPath(b, i) = OnPath(a, i)
  BY <1>3, <1>5 DEF OnPath
<1>7. OnPath(b, p + 1) = N + 1
  BY <1>3, <1>5 DEF OnPath
<1>8. c \notin DOMAIN a.nodes[q].edges
  BY <1>2 DEF Open
<1>9. \A m \in 1 .. N : \A d \in DOMAIN a.nodes[m].edges : d \in DOMAIN b.nodes[m].edges /\ b.nodes[m].edges[d] = a.nodes[m].edges[d]
  BY <1>5, <1>8
<1>10. \A i \in 0 .. p + 1 : i # p + 1 => i \in 0 .. p
  BY <1>3
<1>11. Path(b, x)
  <2>1. Len(b.unchecked) <= Len(x)
    BY <1>3, <1>5
  <2>2. ASSUME NEW i \in 0 .. p + 1 PROVE OnPath(b, i) \in 1 .. N + 1 /\ OnPath(b, i) \notin b.minimized
    <3>1. CASE i = p + 1
      <4>1. N + 1 \in 1 .. N + 1 /\ N + 1 \notin a.minimized
        BY <1>1, <1>2, <1>3, <1>4 DEF Least
      <4> QED  BY <1>5, <1>7, <3>1, <4>1
    <3>2. CASE i # p + 1
      BY <1>3, <1>5, <1>6, <1>10, <3>2
    <3> QED  BY <3>1, <3>2
  <2>3. ASSUME NEW i \in 0 .. p + 1, NEW j \in 0 .. p + 1, OnPath(b, i) = OnPath(b, j)
        PROVE  i = j
    <3>1. \A k \in 0 .. p + 1 : k # p + 1 => OnPath(b, k) = OnPath(a, k) /\ OnPath(a, k) \in 1 .. N
      BY <1>3, <1>6, <1>10
    <3>2. CASE i = p + 1 \/ j = p + 1
      BY <1>4, <1>7, <2>3, <3>1, <3>2
    <3>3. CASE i # p + 1 /\ j # p + 1
      <4>1. i \in 0 .. p /\ j \in 0 .. p /\ OnPath(a, i) = OnPath(a, j)
        BY <1>10, <2>3, <3>1, <3>3
      <4> QED  BY <1>1, <4>1 DEF Path
    <3> QED  BY <3>2, <3>3
  <2>4. ASSUME NEW i \in 1 .. p + 1
        PROVE  /\ b.unchecked[i].parent = OnPath(b, i - 1) /\ b.unchecked[i].char = x[i]
               /\ x[i] \in DOMAIN b.nodes[OnPath(b, i - 1)].edges
               /\ b.nodes[OnPath(b, i - 1)].edges[x[i]] = OnPath(b, i)
    <3>1. CASE i = p + 1
      <4>1. i - 1 = p /\ OnPath(b, i - 1) = q
        BY <1>2, <1>3, <1>4, <1>6, <3>1
      <4> QED  BY <1>2, <1>5, <1>7, <3>1, <4>1
    <3>2. CASE i # p + 1
      <4>1. i \in 1 .. p /\ i \in 0 .. p /\ i - 1 \in 0 .. p
        BY <1>3, <3>2
      <4>2. /\ a.unchecked[i].parent = OnPath(a, i - 1) /\ a.unchecked[i].char = x[i]
            /\ x[i] \in DOMAIN a.nodes[OnPath(a, i - 1)].edges
            /\ a.nodes[OnPath(a, i - 1)].edges[x[i]] = OnPath(a, i)
        BY <1>1, <4>1 DEF Path
      <4>3. OnPath(b, i - 1) = OnPath(a, i - 1) /\ OnPath(b, i) = OnPath(a, i) /\ OnPath(a, i - 1) \in 1 .. N
        BY <1>3, <1>6, <4>1
      <4>4. PICK m \in 1 .. N : m = OnPath(a, i - 1)
        BY <4>3
      <4>5. x[i] \in DOMAIN a.nodes[m].edges /\ a.nodes[m].edges[x[i]] = OnPath(a, i)
        BY <4>2, <4>4
      <4>6. x[i] \in DOMAIN b.nodes[m].edges /\ b.nodes[m].edges[x[i]] = OnPath(a, i)
        BY <1>9, <4>5
      <4>7. b.unchecked[i] = a.unchecked[i]
        BY <1>5, <4>1
      <4> QED  BY <4>2, <4>3, <4>4, <4>6, <4>7
    <3> QED  BY <3>1, <3>2
  <2> QED  BY <1>5, <2>1, <2>2, <2>3, <2>4 DEF Path
<1>12. ASSUME NEW m \in 1 .. N + 1, NEW d \in DOMAIN b.nodes[m].edges,
              b.nodes[m].edges[d] \notin b.minimized
       PROVE  \E i \in 1 .. p + 1 :
                m = OnPath(b, i - 1) /\ d = x[i] /\ b.nodes[m].edges[d] = OnPath(b, i)
  <2>1. m \in 1 .. N
    <3>1. m # N + 1
      BY <1>5, NewNode
    <3> QED  BY <1>3, <3>1
  <2>2. CASE m = q /\ d = c
    <3>1. p + 1 \in 1 .. p + 1 /\ (p + 1) - 1 = p
      BY <1>3
    <3> QED  BY <1>2, <1>4, <1>5, <1>6, <1>7, <2>2, <3>1
  <2>3. CASE ~(m = q /\ d = c)
    <3>1. d \in DOMAIN a.nodes[m].edges
      BY <1>5, <2>1, <2>3
    <3>2. b.nodes[m].edges[d] = a.nodes[m].edges[d]
      BY <1>9, <2>1, <3>1
    <3>3. PICK i \in 1 .. p : m = OnPath(a, i - 1) /\ d = x[i] /\ a.nodes[m].edges[d] = OnPath(a, i)
      BY <1>1, <1>2, <1>5, <1>12, <2>1, <3>1, <3>2 DEF Aims
    <3>4. i \in 1 .. p + 1 /\ i \in 0 .. p /\ i - 1 \in 0 .. p
      BY <1>3
    <3> QED  BY <1>6, <3>2, <3>3, <3>4
  <2> QED  BY <2>2, <2>3
<1>13. ASSUME NEW i \in 0 .. p + 1, NEW d \in DOMAIN b.nodes[OnPath(b, i)].edges
       PROVE  i < Len(x) /\ d <= x[i + 1]
  <2>1. i # p + 1
    BY <1>5, <1>7, NewNode
  <2>2. i \in 0 .. p /\ OnPath(b, i) = OnPath(a, i) /\ OnPath(a, i) \in 1 .. N
    BY <1>3, <1>6, <1>10, <2>1
  <2>3. CASE d \in DOMAIN a.nodes[OnPath(a, i)].edges
    BY <1>1, <2>2, <2>3 DEF Fresh
  <2>4. CASE d \notin DOMAIN a.nodes[OnPath(a, i)].edges
    <3>1. OnPath(a, i) = q /\ d = c
      BY <1>5, <2>2, <2>4
    <3>2. i = p
      BY <1>1, <1>2, <1>4, <2>2, <3>1 DEF Path
    <3> QED  BY <1>2, <1>4, <3>1, <3>2
  <2> QED  BY <2>3, <2>4
<1>17. Aims(b, x)
  <2>1. Len(b.nodes) = N + 1 /\ Len(b.unchecked) = p + 1
    BY <1>5
  <2>2. \A m \in 1 .. N + 1 : \A d \in DOMAIN b.nodes[m].edges :
          \/ b.nodes[m].edges[d] \in b.minimized
          \/ \E i \in 1 .. p + 1 : m = OnPath(b, i - 1) /\ d = x[i] /\ b.nodes[m].edges[d] = OnPath(b, i)
    BY <1>12
  <2>3. ASSUME NEW m \in 1 .. Len(b.nodes), NEW d \in DOMAIN b.nodes[m].edges
        PROVE  \/ b.nodes[m].edges[d] \in b.minimized
               \/ \E i \in 1 .. Len(b.unchecked) :
                    m = OnPath(b, i - 1) /\ d = x[i] /\ b.nodes[m].edges[d] = OnPath(b, i)
    <3>1. m \in 1 .. N + 1
      BY <2>1
    <3>2. 1 .. Len(b.unchecked) = 1 .. p + 1
      BY <2>1
    <3> QED  BY <2>2, <3>1, <3>2
  <2> QED  BY <2>3 DEF Aims
<1>14. Fresh(b, x)
  BY <1>5, <1>13 DEF Fresh
<1>15. Least(b)
  <2>1. b.minimized \subseteq 1 .. N + 1
    BY <1>1, <1>2, <1>3, <1>5 DEF Least
  <2>2. \A m \in b.minimized : m # q /\ m \in 1 .. N
    BY <1>1, <1>2, <1>3, <1>4, <1>5 DEF Least
  <2>3. \A m, n \in b.minimized : b.nodes[m] = b.nodes[n] => m = n
    BY <1>1, <1>5, <2>2 DEF Least
  <2> QED  BY <1>5, <2>1, <2>3 DEF Least
<1>16. Open(b, x)
  BY <1>5, <1>7, NewNode DEF Open
<1> QED  BY <1>1, <1>5, <1>6, <1>7, <1>11, <1>14, <1>15, <1>16, <1>17 DEF Shape, Longer

(* New nodes stand for nothing yet.                                        *)
Wider(L, n) == [m \in 1 .. n |-> IF m \in DOMAIN L THEN L[m] ELSE {}]

LEMMA SpellsGrows ==
    ASSUME NEW a, NEW b, NEW x, Shape(a, x), Open(a, x), NEW p, p = Len(a.unchecked), p < Len(x),
           a.at = OnPath(a, p), Extended(b, a, x[p + 1]), NEW L, DOMAIN L \subseteq 1 .. Len(a.nodes),
           Spells(a.nodes, Wider(L, Len(a.nodes)))
    PROVE  Spells(b.nodes, Wider(L, Len(b.nodes)))
<1>1. a \in Autos /\ x \in Word
  BY DEF Shape
<1>2. PICK N, q, c, K, M : /\ N = Len(a.nodes) /\ q = OnPath(a, p) /\ c = x[p + 1]
                           /\ K = Wider(L, N) /\ M = Wider(L, N + 1)
  OBVIOUS
<1>3. p \in Nat /\ N \in Nat /\ q \in 1 .. N
  <2>1. Len(a.unchecked) \in Nat /\ Len(a.nodes) \in Nat
        /\ \A i \in 0 .. Len(a.unchecked) : OnPath(a, i) \in 1 .. Len(a.nodes)
    BY PathFacts
  <2> QED  BY <1>2, <2>1
<1>4. /\ Len(b.nodes) = N + 1 /\ b.nodes[N + 1] = Node
      /\ b.nodes[q].final = a.nodes[q].final /\ DOMAIN b.nodes[q].edges = DOMAIN a.nodes[q].edges \cup {c}
      /\ b.nodes[q].edges[c] = N + 1
      /\ \A d \in DOMAIN a.nodes[q].edges : d # c => b.nodes[q].edges[d] = a.nodes[q].edges[d]
      /\ \A m \in 1 .. N : m # q => b.nodes[m] = a.nodes[m]
  BY <1>2 DEF Extended, Linked
<1>5. c \notin DOMAIN a.nodes[q].edges
  BY <1>2 DEF Open
<1>6. Spells(a.nodes, K) /\ K \in [1 .. N -> SUBSET Word]
  BY <1>2 DEF Spells
<1>7. \A m \in 1 .. N : M[m] = K[m] /\ m \in 1 .. N + 1
  BY <1>2, <1>3 DEF Wider
<1>8. M[N + 1] = {}
  <2>1. N + 1 \in 1 .. N + 1 /\ N + 1 \notin 1 .. N
    BY <1>3
  <2> QED  BY <1>2, <2>1 DEF Wider
<1>9. M \in [1 .. N + 1 -> SUBSET Word]
  <2>1. \A m \in 1 .. N + 1 : M[m] \in SUBSET Word
    <3> TAKE m \in 1 .. N + 1
    <3>1. m = N + 1 \/ m \in 1 .. N
      BY <1>3
    <3> QED  BY <1>6, <1>7, <1>8, <3>1
  <2>2. M = [m \in 1 .. N + 1 |-> M[m]]
    BY <1>2 DEF Wider
  <2> QED  BY <2>1, <2>2
<1>10. ~Node.final /\ DOMAIN Node.edges = {}
  BY NewNode
<1>11. ASSUME NEW m \in 1 .. N, NEW d, d \in DOMAIN a.nodes[m].edges
       PROVE  d \in DOMAIN b.nodes[m].edges /\ b.nodes[m].edges[d] = a.nodes[m].edges[d] /\ a.nodes[m].edges[d] \in 1 .. N
  <2>1. d \in DOMAIN b.nodes[m].edges /\ b.nodes[m].edges[d] = a.nodes[m].edges[d]
    BY <1>4, <1>5, <1>11
  <2>2. a.nodes[m].edges[d] \in a.minimized \/ \E i \in 1 .. p : a.nodes[m].edges[d] = OnPath(a, i)
    BY <1>2, <1>11 DEF Shape, Aims
  <2>3. \A i \in 1 .. p : OnPath(a, i) \in 1 .. N
    <3>1. \A i \in 0 .. Len(a.unchecked) : OnPath(a, i) \in 1 .. Len(a.nodes)
      BY PathFacts
    <3>2. \A i \in 1 .. p : i \in 0 .. Len(a.unchecked)
      BY <1>3
    <3> QED  BY <1>2, <3>1, <3>2
  <2>4. a.minimized \subseteq 1 .. N
    BY <1>2 DEF Shape, Least
  <2> QED  BY <2>1, <2>2, <2>3, <2>4
<1>12. ASSUME NEW m \in 1 .. N + 1 PROVE <<>> \in M[m] <=> b.nodes[m].final
  <2>1. CASE m = N + 1
    BY <1>4, <1>8, <1>10, <2>1
  <2>2. CASE m # N + 1
    <3>1. m \in 1 .. N
      BY <1>3, <2>2
    <3>2. b.nodes[m].final = a.nodes[m].final
      BY <1>4, <3>1
    <3>3. <<>> \in K[m] <=> a.nodes[m].final
      BY <1>2, <1>6, <3>1 DEF Spells
    <3> QED  BY <1>7, <3>1, <3>2, <3>3
  <2> QED  BY <2>1, <2>2
<1>13. ASSUME NEW m \in 1 .. N + 1, NEW d \in Int, NEW w \in Word
       PROVE  Cons(d, w) \in M[m] <=> d \in DOMAIN b.nodes[m].edges /\ w \in M[b.nodes[m].edges[d]]
  <2>1. CASE m = N + 1
    BY <1>4, <1>8, <1>10, <2>1
  <2>2. CASE m # N + 1
    <3>1. m \in 1 .. N
      BY <1>3, <2>2
    <3>2. Cons(d, w) \in K[m] <=> d \in DOMAIN a.nodes[m].edges /\ w \in K[a.nodes[m].edges[d]]
      BY <1>2, <1>6, <3>1 DEF Spells
    <3>3. CASE d \in DOMAIN a.nodes[m].edges
      BY <1>7, <1>11, <3>1, <3>2, <3>3
    <3>4. CASE d \notin DOMAIN a.nodes[m].edges
      <4>1. d \in DOMAIN b.nodes[m].edges => m = q /\ d = c
        BY <1>4, <3>1, <3>4
      <4>2. d \in DOMAIN b.nodes[m].edges => M[b.nodes[m].edges[d]] = {}
        BY <1>4, <1>8, <4>1
      <4> QED  BY <1>7, <3>1, <3>2, <3>4, <4>2
    <3> QED  BY <3>3, <3>4
  <2> QED  BY <2>1, <2>2
<1>14. Spells(b.nodes, M)
  BY <1>4, <1>9, <1>12, <1>13 DEF Spells
<1> QED  BY <1>2, <1>4, <1>14

(* The path depends on the edges only.                                     *)
LEMMA PathCarried ==
    ASSUME NEW a, NEW x, Shape(a, x), NEW b, b.unchecked = a.unchecked, b.minimized = a.minimized,
           Len(b.nodes) = Len(a.nodes),
           \A m \in 1 .. Len(a.nodes) : b.nodes[m].edges = a.nodes[m].edges
    PROVE  Path(b, x) /\ Aims(b, x) /\ Fresh(b, x)
<1>1. Path(a, x) /\ Aims(a, x) /\ Fresh(a, x)
  BY DEF Shape
<1>2. \A i : OnPath(b, i) = OnPath(a, i)
  <2> TAKE i
  <2> QED  BY DEF OnPath
<1>3. Len(a.unchecked) \in Nat
  BY PathFacts
<1>4. \A i \in 0 .. Len(a.unchecked) : b.nodes[OnPath(b, i)].edges = a.nodes[OnPath(a, i)].edges
  BY <1>1, <1>2 DEF Path
<1>5. Path(b, x)
  <2>1. Len(b.unchecked) <= Len(x)
    BY <1>1 DEF Path
  <2>2. \A i \in 0 .. Len(b.unchecked) : OnPath(b, i) \in 1 .. Len(b.nodes) /\ OnPath(b, i) \notin b.minimized
    BY <1>1, <1>2 DEF Path
  <2>3. \A i, j \in 0 .. Len(b.unchecked) : OnPath(b, i) = OnPath(b, j) => i = j
    BY <1>1, <1>2 DEF Path
  <2>4. ASSUME NEW i \in 1 .. Len(b.unchecked)
        PROVE  /\ b.unchecked[i].parent = OnPath(b, i - 1) /\ b.unchecked[i].char = x[i]
               /\ x[i] \in DOMAIN b.nodes[OnPath(b, i - 1)].edges
               /\ b.nodes[OnPath(b, i - 1)].edges[x[i]] = OnPath(b, i)
    <3>1. i \in 1 .. Len(a.unchecked) /\ i - 1 \in 0 .. Len(a.unchecked)
      BY <1>3
    <3>2. b.nodes[OnPath(b, i - 1)].edges = a.nodes[OnPath(a, i - 1)].edges
      BY <1>4, <3>1
    <3>3. /\ a.unchecked[i].parent = OnPath(a, i - 1) /\ a.unchecked[i].char = x[i]
          /\ x[i] \in DOMAIN a.nodes[OnPath(a, i - 1)].edges
          /\ a.nodes[OnPath(a, i - 1)].edges[x[i]] = OnPath(a, i)
      BY <1>1, <3>1 DEF Path
    <3>4. OnPath(b, i - 1) = OnPath(a, i - 1) /\ OnPath(b, i) = OnPath(a, i)
      BY <1>2
    <3> QED  BY <3>2, <3>3, <3>4
  <2> QED  BY <2>1, <2>2, <2>3, <2>4 DEF Path
<1>6. Aims(b, x)
  <2> SUFFICES ASSUME NEW m \in 1 .. Len(b.nodes), NEW c \in DOMAIN b.nodes[m].edges
               PROVE  \/ b.nodes[m].edges[c] \in b.minimized
                      \/ \E i \in 1 .. Len(b.unchecked) :
                           m = OnPath(b, i - 1) /\ c = x[i] /\ b.nodes[m].edges[c] = OnPath(b, i)
    BY DEF Aims
  <2>1. m \in 1 .. Len(a.nodes) /\ b.nodes[m].edges = a.nodes[m].edges
    OBVIOUS
  <2>2. \/ a.nodes[m].edges[c] \in a.minimized
        \/ \E i \in 1 .. Len(a.unchecked) :
             m = OnPath(a, i - 1) /\ c = x[i] /\ a.nodes[m].edges[c] = OnPath(a, i)
    BY <1>1, <2>1 DEF Aims
  <2> QED  BY <1>2, <2>1, <2>2
<1>7. Fresh(b, x)
  <2> SUFFICES ASSUME NEW i \in 0 .. Len(b.unchecked), NEW c \in DOMAIN b.nodes[OnPath(b, i)].edges
               PROVE  i < Len(x) /\ c <= x[i + 1]
    BY DEF Fresh
  <2>1. i \in 0 .. Len(a.unchecked) /\ c \in DOMAIN a.nodes[OnPath(a, i)].edges
    BY <1>4
  <2> QED  BY <1>1, <2>1 DEF Fresh
<1> QED  BY <1>5, <1>6, <1>7

(* Where the builder stands is no part of the shape.                       *)
LEMMA Moved ==
    ASSUME NEW a, NEW x, Shape(a, x), NEW n \in Nat, NEW b, b = [a EXCEPT !.at = n]
    PROVE  /\ Shape(b, x) /\ b.nodes = a.nodes /\ b.unchecked = a.unchecked
           /\ b.previousWord = a.previousWord /\ b.at = n
<1>1. a \in Autos /\ x \in Word /\ Path(a, x) /\ Aims(a, x) /\ Fresh(a, x) /\ Least(a)
  BY DEF Shape
<1>2. b \in Autos
  BY <1>1 DEF Autos
<1>3. /\ b.nodes = a.nodes /\ b.unchecked = a.unchecked /\ b.minimized = a.minimized
      /\ b.previousWord = a.previousWord /\ b.at = n
  BY <1>1 DEF Autos
<1>4. Path(b, x) /\ Aims(b, x) /\ Fresh(b, x)
  BY <1>3, PathCarried
<1>5. Least(b)
  BY <1>1, <1>3 DEF Least
<1> QED  BY <1>1, <1>2, <1>3, <1>4, <1>5 DEF Shape

(* The nodes of what is left of a word.                                    *)
Grown(a, w, n) ==
    LET after[i \in 0 .. Len(w) - n] == IF i = 0 THEN a ELSE grow(after[i - 1], w[n + i])
    IN  after[Len(w) - n]
Growing(z, a, x, L, p) ==
    /\ Shape(z, x) /\ Open(z, x) /\ Len(z.unchecked) = p /\ z.at = OnPath(z, p)
    /\ z.previousWord = a.previousWord /\ Len(z.nodes) >= Len(a.nodes)
    /\ Spells(z.nodes, Wider(L, Len(z.nodes)))
    /\ \A m \in 1 .. Len(z.nodes) : m > Len(a.nodes) => \E i \in 1 .. p : m = OnPath(z, i)

LEMMA OneGrown ==
    ASSUME NEW a \in Autos, NEW x \in Word, NEW L, DOMAIN L = 1 .. Len(a.nodes), NEW p \in 0 .. Len(x) - 1,
           NEW z, Growing(z, a, x, L, p)
    PROVE  Growing(grow(z, x[p + 1]), a, x, L, p + 1)
<1>1. /\ Shape(z, x) /\ Open(z, x) /\ Len(z.unchecked) = p /\ z.at = OnPath(z, p)
      /\ z.previousWord = a.previousWord /\ Len(z.nodes) >= Len(a.nodes)
      /\ Spells(z.nodes, Wider(L, Len(z.nodes)))
      /\ \A m \in 1 .. Len(z.nodes) : m > Len(a.nodes) => \E i \in 1 .. p : m = OnPath(z, i)
  BY DEF Growing
<1>2. /\ Len(x) \in Nat /\ Len(z.nodes) \in Nat /\ Len(a.nodes) \in Nat /\ p < Len(x) /\ p \in Nat
      /\ p + 1 \in 1 .. Len(x) /\ p \in 0 .. p
  BY <1>1, PathFacts, AutoFacts
<1>3. z.at \in 1 .. Len(z.nodes)
  <2>1. \A i \in 0 .. Len(z.unchecked) : OnPath(z, i) \in 1 .. Len(z.nodes)
    BY <1>1, PathFacts
  <2> QED  BY <1>1, <1>2, <2>1
<1>4. x[p + 1] \in Int
  BY <1>2, ElementOfSeq DEF Word
<1>5. z \in Autos
  BY <1>1 DEF Shape
<1>6. PICK b : b = grow(z, x[p + 1])
  OBVIOUS
<1>7. Extended(b, z, x[p + 1])
  BY <1>3, <1>4, <1>5, <1>6, GrowExtends
<1>8. /\ Shape(b, x) /\ Open(b, x) /\ b.at = OnPath(b, p + 1)
      /\ \A i \in 0 .. p : OnPath(b, i) = OnPath(z, i)
  <2>1. Shape(z, x) /\ Open(z, x) /\ p = Len(z.unchecked) /\ p < Len(x) /\ z.at = OnPath(z, p)
    BY <1>1, <1>2
  <2>2. Longer(b, z, x, p)
    BY <1>7, <2>1, ShapeGrows
  <2> QED  BY <2>2 DEF Longer
<1>9. DOMAIN L \subseteq 1 .. Len(z.nodes)
  BY <1>1, <1>2
<1>10. Spells(b.nodes, Wider(L, Len(b.nodes)))
  BY <1>1, <1>2, <1>7, <1>9, SpellsGrows
<1>11. /\ Len(b.nodes) = Len(z.nodes) + 1 /\ Len(b.unchecked) = p + 1
       /\ b.previousWord = z.previousWord /\ b.at = Len(z.nodes) + 1
  BY <1>1, <1>7 DEF Extended
<1>12. ASSUME NEW m \in 1 .. Len(b.nodes), m > Len(a.nodes) PROVE \E i \in 1 .. p + 1 : m = OnPath(b, i)
  <2>1. CASE m = Len(z.nodes) + 1
    <3>1. p + 1 \in 1 .. p + 1
      BY <1>2
    <3> QED  BY <1>8, <1>11, <2>1, <3>1
  <2>2. CASE m # Len(z.nodes) + 1
    <3>1. m \in 1 .. Len(z.nodes)
      BY <1>2, <1>11, <2>2
    <3>2. PICK i \in 1 .. p : m = OnPath(z, i)
      BY <1>1, <1>12, <3>1
    <3>3. i \in 1 .. p + 1 /\ i \in 0 .. p
      BY <1>2
    <3> QED  BY <1>8, <3>2, <3>3
  <2> QED  BY <2>1, <2>2
<1>13. Len(b.nodes) >= Len(a.nodes)
  BY <1>1, <1>2, <1>11
<1> QED  BY <1>1, <1>6, <1>8, <1>10, <1>11, <1>12, <1>13 DEF Growing

LEMMA GrownTo ==
    ASSUME NEW a \in Autos, NEW x \in Word, NEW L, DOMAIN L = 1 .. Len(a.nodes), NEW p \in 0 .. Len(x),
           Growing(a, a, x, L, p)
    PROVE  Growing(Grown(a, x, p), a, x, L, Len(x))
<1> DEFINE n == Len(x) - p
           D == [i \in 0 .. n |-> {z \in Autos : Growing(z, a, x, L, p + i)}]
           turn == [i \in 1 .. n |-> [z \in Autos |-> grow(z, x[p + i])]]
           eq(h) == h = [i \in 0 .. n |-> IF i = 0 THEN a ELSE grow(h[i - 1], x[p + i])]
<1>1. n \in Nat /\ Len(x) \in Nat /\ p + n = Len(x) /\ p \in Nat
  BY LenProperties DEF Word
<1>2. \A z, k : Growing(z, a, x, L, k) => z \in Autos
  BY DEF Growing, Shape
<1>3. \A i \in 0 .. n : \A z : z \in D[i] <=> Growing(z, a, x, L, p + i)
  BY <1>2
<1>0. Grown(a, x, p) = (CHOOSE h : eq(h))[n]
  BY DEF Grown
<1> HIDE DEF D, n
<1>4. a \in D[0]
  <2>1. p + 0 = p /\ 0 \in 0 .. n
    BY <1>1
  <2> QED  BY <1>3, <2>1
<1>5. \A i \in 1 .. n : \A z \in D[i - 1] : turn[i][z] \in D[i] /\ turn[i][z] = grow(z, x[p + i])
  <2> TAKE i \in 1 .. n
  <2> TAKE z \in D[i - 1]
  <2>1. i - 1 \in 0 .. n /\ i \in 0 .. n
    BY <1>1
  <2>2. PICK k \in 0 .. Len(x) - 1 : k = p + (i - 1)
    BY <1>1, <2>1
  <2>3. k + 1 = p + i
    BY <1>1, <2>1, <2>2
  <2>4. Growing(z, a, x, L, k) /\ z \in Autos
    BY <1>2, <1>3, <2>1, <2>2
  <2>5. PICK y : y = grow(z, x[k + 1])
    OBVIOUS
  <2>6. Growing(y, a, x, L, k + 1)
    BY <2>4, <2>5, OneGrown
  <2>7. turn[i][z] = y
    BY <2>3, <2>4, <2>5
  <2> QED  BY <1>3, <2>1, <2>3, <2>5, <2>6, <2>7
<1> HIDE DEF turn
<1>6. \E h : eq(h)
  <2>0. Turns(n, D, turn)
    BY <1>5 DEF Turns
  <2>1. PICK h : Loop(h, n, a, turn) /\ \A i \in 0 .. n : h[i] \in D[i]
    BY <1>1, <1>4, <2>0, LoopRuns
  <2>2. \A i \in 0 .. n : i # 0 => i \in 1 .. n /\ i - 1 \in 0 .. n
    BY <1>1
  <2>3. \A i \in 0 .. n : i # 0 => turn[i][h[i - 1]] = grow(h[i - 1], x[p + i])
    BY <1>5, <2>1, <2>2
  <2> QED  BY <2>1, <2>3 DEF Loop
<1> DEFINE h == CHOOSE h : eq(h)
<1>7. eq(h)
  BY <1>6
<1>8. Grown(a, x, p) = h[n]
  BY <1>0
<1> HIDE DEF h
<1>9. h[0] = a /\ \A i \in 1 .. n : h[i] = grow(h[i - 1], x[p + i])
  <2>1. 0 \in 0 .. n /\ \A i \in 1 .. n : i \in 0 .. n /\ i # 0
    BY <1>1
  <2>2. \A i \in 0 .. n : h[i] = IF i = 0 THEN a ELSE grow(h[i - 1], x[p + i])
    BY <1>7
  <2> QED  BY <2>1, <2>2
<1>10. \A i \in 0 .. n : h[i] \in D[i]
  <2>1. h[0] \in D[0]
    BY <1>4, <1>9
  <2>2. \A i \in 1 .. n : h[i - 1] \in D[i - 1] => h[i] \in D[i]
    BY <1>5, <1>9
  <2> QED  BY <1>1, <2>1, <2>2, LoopStays
<1>11. n \in 0 .. n
  BY <1>1
<1> QED  BY <1>1, <1>3, <1>8, <1>10, <1>11

(* The word ends at the last node of its path, and what is left of it is   *)
(* what each node of the path stands for as well.                          *)
Ended(g, w) == [g EXCEPT !.nodes[g.at].final = TRUE, !.previousWord = w]
Gained(g, w, M) ==
    [m \in 1 .. Len(g.nodes) |->
       M[m] \cup {After(w, i) : i \in {j \in 0 .. Len(w) : OnPath(g, j) = m}}]

LEMMA EndedFacts ==
    ASSUME NEW g \in Autos, NEW w \in Word, g.at \in 1 .. Len(g.nodes), NEW b, b = Ended(g, w)
    PROVE  /\ b \in Autos /\ Len(b.nodes) = Len(g.nodes)
           /\ \A m \in 1 .. Len(g.nodes) :
                b.nodes[m].edges = g.nodes[m].edges /\ (m # g.at => b.nodes[m] = g.nodes[m])
           /\ b.nodes[g.at].final /\ b.minimized = g.minimized /\ b.unchecked = g.unchecked
           /\ b.previousWord = w
<1>1. /\ g.nodes \in Nodes /\ g.unchecked \in Seq(Links) /\ g.minimized \in SUBSET Nat /\ g.at \in Nat
      /\ \A m \in 1 .. Len(g.nodes) : g.nodes[m] \in NodeOver(Int)
      /\ g = [nodes |-> g.nodes, unchecked |-> g.unchecked, minimized |-> g.minimized,
              previousWord |-> g.previousWord, at |-> g.at]
  BY AutoFacts
<1>2. PICK e, r : e = [g.nodes[g.at] EXCEPT !.final = TRUE] /\ r = [g.nodes EXCEPT ![g.at] = e]
  OBVIOUS
<1>3. e \in NodeOver(Int) /\ e.final = TRUE /\ e.edges = g.nodes[g.at].edges
  <2>1. g.nodes[g.at] \in NodeOver(Int)
    BY <1>1
  <2> QED  BY <1>2, <2>1 DEF NodeOver
<1>4. r \in Seq(NodeOver(Int)) /\ Len(r) = Len(g.nodes) /\ \A m \in 1 .. Len(g.nodes) : r[m] = IF m = g.at THEN e ELSE g.nodes[m]
  BY <1>1, <1>2, <1>3, ExceptSeq DEF Nodes
<1>5. b = [g EXCEPT !.nodes = r, !.previousWord = w]
  BY <1>2, Zenon DEF Ended
<1>6. b = [nodes |-> r, unchecked |-> g.unchecked, minimized |-> g.minimized,
           previousWord |-> w, at |-> g.at]
  BY <1>1, <1>5
<1>7. b \in Autos
  BY <1>1, <1>4, <1>6 DEF Autos, Nodes
<1>8. b.nodes = r /\ b.unchecked = g.unchecked /\ b.minimized = g.minimized /\ b.previousWord = w
  BY <1>6
<1> QED  BY <1>3, <1>4, <1>7, <1>8

LEMMA ShapeEnded ==
    ASSUME NEW g, NEW w, Shape(g, w), Len(g.unchecked) = Len(w), g.at = OnPath(g, Len(w)),
           NEW b, b = Ended(g, w)
    PROVE  Shape(b, w) /\ b.unchecked = g.unchecked /\ b.previousWord = w /\ Len(b.nodes) = Len(g.nodes)
<1>1. g \in Autos /\ w \in Word /\ Path(g, w) /\ Aims(g, w) /\ Fresh(g, w) /\ Least(g)
  BY DEF Shape
<1>2. Len(w) \in Nat /\ Len(w) \in 0 .. Len(w)
  BY PathFacts
<1>3. g.at \in 1 .. Len(g.nodes) /\ g.at \notin g.minimized
  BY <1>1, <1>2 DEF Path
<1>4. /\ b \in Autos /\ Len(b.nodes) = Len(g.nodes)
      /\ \A m \in 1 .. Len(g.nodes) :
           b.nodes[m].edges = g.nodes[m].edges /\ (m # g.at => b.nodes[m] = g.nodes[m])
      /\ b.minimized = g.minimized /\ b.unchecked = g.unchecked
      /\ b.previousWord = w
  BY <1>1, <1>3, EndedFacts
<1>5. Path(b, w) /\ Aims(b, w) /\ Fresh(b, w)
  <2>1. \A m \in 1 .. Len(g.nodes) : b.nodes[m].edges = g.nodes[m].edges
    BY <1>4
  <2> QED  BY <1>4, <2>1, PathCarried
<1>10. Least(b)
  BY <1>1, <1>3, <1>4 DEF Least
<1> QED  BY <1>1, <1>4, <1>5, <1>10 DEF Shape

LEMMA SpellsEnded ==
    ASSUME NEW g, NEW w, Shape(g, w), Len(g.unchecked) = Len(w), g.at = OnPath(g, Len(w)),
           NEW M, Spells(g.nodes, M), NEW b, b = Ended(g, w)
    PROVE  Spells(b.nodes, Gained(g, w, M))
<1>1. g \in Autos /\ w \in Word /\ Path(g, w) /\ Aims(g, w) /\ Least(g)
  BY DEF Shape
<1>2. PICK N, n, G : N = Len(g.nodes) /\ n = Len(w) /\ G = Gained(g, w, M)
  OBVIOUS
<1>3. n \in Nat /\ N \in Nat /\ n \in 0 .. n
  BY <1>2, PathFacts
<1>4. /\ \A i \in 0 .. n : OnPath(g, i) \in 1 .. N /\ OnPath(g, i) \notin g.minimized
      /\ \A i, j \in 0 .. n : OnPath(g, i) = OnPath(g, j) => i = j
      /\ \A i \in 1 .. n : w[i] \in DOMAIN g.nodes[OnPath(g, i - 1)].edges
                           /\ g.nodes[OnPath(g, i - 1)].edges[w[i]] = OnPath(g, i)
  BY <1>1, <1>2 DEF Path
<1>5. /\ Len(b.nodes) = N
      /\ \A m \in 1 .. N : b.nodes[m].edges = g.nodes[m].edges /\ (m # g.at => b.nodes[m] = g.nodes[m])
      /\ b.nodes[g.at].final
  BY <1>1, <1>2, <1>3, <1>4, EndedFacts
<1>6. M \in [1 .. N -> SUBSET Word]
  BY <1>2 DEF Spells
<1>7. \A m \in 1 .. N : G[m] = M[m] \cup {After(w, i) : i \in {j \in 0 .. n : OnPath(g, j) = m}}
  BY <1>2 DEF Gained
<1>8. ASSUME NEW i \in 0 .. n PROVE G[OnPath(g, i)] = M[OnPath(g, i)] \cup {After(w, i)}
  <2>1. {j \in 0 .. n : OnPath(g, j) = OnPath(g, i)} = {i}
    BY <1>4
  <2> QED  BY <1>4, <1>7, <2>1
<1>9. ASSUME NEW m \in 1 .. N, \A i \in 0 .. n : OnPath(g, i) # m PROVE G[m] = M[m]
  <2>1. {j \in 0 .. n : OnPath(g, j) = m} = {}
    BY <1>9
  <2> QED  BY <1>7, <2>1
<1>10. /\ \A i \in 0 .. n : After(w, i) \in Word /\ Len(After(w, i)) = n - i
       /\ \A i \in 0 .. n - 1 : After(w, i) = Cons(w[i + 1], After(w, i + 1))
       /\ After(w, n) = <<>>
       /\ \A i \in 1 .. n : w[i] \in Int
  BY <1>1, <1>2, AfterFacts, ElementOfSeq DEF Word
<1>11. G \in [1 .. N -> SUBSET Word]
  <2>1. \A m \in 1 .. N : G[m] \subseteq Word
    BY <1>6, <1>7, <1>10
  <2>2. G = [m \in 1 .. N |-> G[m]]
    BY <1>2 DEF Gained
  <2> QED  BY <2>1, <2>2
<1>12. ASSUME NEW m \in 1 .. N PROVE <<>> \in G[m] <=> b.nodes[m].final
  <2>1. <<>> \in M[m] <=> g.nodes[m].final
    BY <1>2 DEF Spells
  <2>2. CASE m = g.at
    BY <1>2, <1>3, <1>5, <1>8, <1>10, <2>2
  <2>3. CASE m # g.at
    <3>1. b.nodes[m].final = g.nodes[m].final
      BY <1>5, <2>3
    <3>2. ASSUME NEW i \in 0 .. n, OnPath(g, i) = m PROVE <<>> \notin {After(w, i)}
      <4>1. i # n
        BY <1>2, <2>3, <3>2
      <4>2. Len(After(w, i)) # 0
        BY <1>3, <1>10, <4>1
      <4>3. After(w, i) # <<>>
        BY <4>2, EmptySeq
      <4> QED  BY <4>3
    <3>3. CASE \E i \in 0 .. n : OnPath(g, i) = m
      BY <1>8, <2>1, <3>1, <3>2, <3>3
    <3>4. CASE \A i \in 0 .. n : OnPath(g, i) # m
      BY <1>9, <2>1, <3>1, <3>4
    <3> QED  BY <3>3, <3>4
  <2> QED  BY <2>2, <2>3
<1>13. ASSUME NEW m \in 1 .. N, NEW d \in Int, NEW v \in Word
       PROVE  Cons(d, v) \in G[m] <=> d \in DOMAIN b.nodes[m].edges /\ v \in G[b.nodes[m].edges[d]]
  <2>1. Cons(d, v) \in M[m] <=> d \in DOMAIN g.nodes[m].edges /\ v \in M[g.nodes[m].edges[d]]
    BY <1>2 DEF Spells
  <2>2. b.nodes[m].edges = g.nodes[m].edges
    BY <1>5
  <2>3. ASSUME d \in DOMAIN g.nodes[m].edges
        PROVE  \/ /\ g.nodes[m].edges[d] \in 1 .. N
                  /\ G[g.nodes[m].edges[d]] = M[g.nodes[m].edges[d]]
                  /\ \A i \in 0 .. n : m = OnPath(g, i) => ~(i < n /\ d = w[i + 1])
               \/ \E i \in 0 .. n - 1 : m = OnPath(g, i) /\ d = w[i + 1] /\ g.nodes[m].edges[d] = OnPath(g, i + 1)
    <3>1. PICK t : t = g.nodes[m].edges[d]
      OBVIOUS
    <3>2. CASE t \in g.minimized
      <4>1. t \in 1 .. N
        BY <1>1, <1>2, <3>2 DEF Least
      <4>2. \A i \in 0 .. n : OnPath(g, i) # t
        BY <1>4, <3>2
      <4>3. ASSUME NEW i \in 0 .. n, m = OnPath(g, i), i < n PROVE d # w[i + 1]
        <5>1. i + 1 \in 1 .. n /\ (i + 1) - 1 = i /\ i + 1 \in 0 .. n
          BY <1>3, <4>3
        <5>2. g.nodes[OnPath(g, i)].edges[w[i + 1]] = OnPath(g, i + 1)
          BY <1>4, <5>1
        <5> QED  BY <3>1, <4>2, <4>3, <5>1, <5>2
      <4> QED  BY <1>9, <3>1, <4>1, <4>2, <4>3
    <3>3. CASE t \notin g.minimized
      <4>1. PICK i \in 1 .. n : m = OnPath(g, i - 1) /\ d = w[i] /\ t = OnPath(g, i)
        BY <1>1, <1>2, <2>3, <3>1, <3>3 DEF Aims
      <4>2. i - 1 \in 0 .. n - 1 /\ (i - 1) + 1 = i
        BY <1>3
      <4> QED  BY <3>1, <4>1, <4>2
    <3> QED  BY <3>2, <3>3
  <2>4. ASSUME NEW i \in 0 .. n, m = OnPath(g, i)
        PROVE  Cons(d, v) = After(w, i) <=> i < n /\ d = w[i + 1] /\ v = After(w, i + 1)
    <3>1. CASE i = n
      <4>1. IsCons(Cons(d, v), d, v)
        BY ConsFacts DEF Word
      <4> QED  BY <1>3, <1>10, <3>1, <4>1 DEF IsCons
    <3>2. CASE i # n
      <4>1. i \in 0 .. n - 1 /\ i + 1 \in 1 .. n /\ i + 1 \in 0 .. n /\ i < n
        BY <1>3, <3>2
      <4>2. PICK c, u : c = w[i + 1] /\ u = After(w, i + 1)
        OBVIOUS
      <4>3. After(w, i) = Cons(c, u) /\ c \in Int /\ u \in Word
        BY <1>10, <4>1, <4>2
      <4>4. Cons(d, v) = Cons(c, u) => d = c /\ v = u
        BY <4>3, ConsInjective DEF Word
      <4> QED  BY <4>1, <4>2, <4>3, <4>4
    <3> QED  BY <3>1, <3>2
  <2>5. ASSUME NEW i \in 0 .. n, m = OnPath(g, i)
        PROVE  Cons(d, v) \in G[m] <=> d \in DOMAIN g.nodes[m].edges /\ v \in G[g.nodes[m].edges[d]]
    <3>1. Cons(d, v) \in G[m] <=> Cons(d, v) \in M[m] \/ (i < n /\ d = w[i + 1] /\ v = After(w, i + 1))
      BY <1>8, <2>4, <2>5
    <3>2. CASE i < n /\ d = w[i + 1]
      <4>1. i + 1 \in 1 .. n /\ (i + 1) - 1 = i /\ i + 1 \in 0 .. n
        BY <1>3, <3>2
      <4>2. d \in DOMAIN g.nodes[m].edges /\ g.nodes[m].edges[d] = OnPath(g, i + 1)
        BY <1>4, <2>5, <3>2, <4>1
      <4>3. G[OnPath(g, i + 1)] = M[OnPath(g, i + 1)] \cup {After(w, i + 1)}
        BY <1>8, <4>1
      <4> QED  BY <2>1, <3>1, <3>2, <4>2, <4>3
    <3>3. CASE ~(i < n /\ d = w[i + 1])
      <4>1. d \in DOMAIN g.nodes[m].edges => G[g.nodes[m].edges[d]] = M[g.nodes[m].edges[d]]
        <5>1. ASSUME NEW j \in 0 .. n - 1, m = OnPath(g, j), d = w[j + 1] PROVE FALSE
          <6>1. j \in 0 .. n /\ j < n
            BY <1>3
          <6>2. i = j
            BY <1>4, <2>5, <5>1, <6>1
          <6> QED  BY <3>3, <5>1, <6>1, <6>2
        <5> QED  BY <2>3, <5>1
      <4> QED  BY <2>1, <3>1, <3>3, <4>1
    <3> QED  BY <3>2, <3>3
  <2>6. ASSUME \A i \in 0 .. n : OnPath(g, i) # m
        PROVE  Cons(d, v) \in G[m] <=> d \in DOMAIN g.nodes[m].edges /\ v \in G[g.nodes[m].edges[d]]
    <3>1. G[m] = M[m]
      BY <1>9, <2>6
    <3>2. d \in DOMAIN g.nodes[m].edges => G[g.nodes[m].edges[d]] = M[g.nodes[m].edges[d]]
      <4>1. \A i \in 0 .. n - 1 : i \in 0 .. n
        BY <1>3
      <4> QED  BY <2>3, <2>6, <4>1
    <3> QED  BY <2>1, <3>1, <3>2
  <2> QED  BY <2>2, <2>5, <2>6
<1>14. Spells(b.nodes, G)
  BY <1>5, <1>11, <1>12, <1>13 DEF Spells
<1> QED  BY <1>2, <1>14

-----------------------------------------------------------------------------
(* The order of strings                                                    *)

(* Two words agree on n characters, and then the first one ends or has the *)
(* smaller character.                                                      *)
Parting(v, w, n) ==
    /\ n <= Len(v) /\ n < Len(w) /\ \A i \in 1 .. n : v[i] = w[i]
    /\ n < Len(v) => v[n + 1] < w[n + 1]

LEMMA SamePrefix ==
    ASSUME NEW S, NEW T, NEW v \in Seq(S), NEW w \in Seq(T), NEW n \in Nat, n <= Len(v), n <= Len(w)
    PROVE  SubSeq(v, 1, n) = SubSeq(w, 1, n) <=> \A i \in 1 .. n : v[i] = w[i]
<1>1. /\ Len(v) \in Nat /\ \A i \in 1 .. Len(v) : v[i] \in S
      /\ Len(w) \in Nat /\ \A i \in 1 .. Len(w) : w[i] \in T
  BY LenProperties, ElementOfSeq
<1>2. \A i \in 1 .. n : v[i] \in S \cup T /\ w[i] \in S \cup T
  BY <1>1
<1>3. PICK a, b : a = SubSeq(v, 1, n) /\ b = SubSeq(w, 1, n)
  OBVIOUS
<1>4. n - 1 + 1 = n /\ (IF 1 <= n THEN n - 1 + 1 ELSE 0) = n /\ \A i \in Int : 1 + i - 1 = i
  OBVIOUS
<1>5. /\ a \in Seq(S \cup T) /\ Len(a) = IF 1 <= n THEN n - 1 + 1 ELSE 0
      /\ \A i \in 1 .. n - 1 + 1 : a[i] = v[1 + i - 1]
  BY <1>2, <1>3, SubSeqProperties
<1>6. /\ b \in Seq(S \cup T) /\ Len(b) = IF 1 <= n THEN n - 1 + 1 ELSE 0
      /\ \A i \in 1 .. n - 1 + 1 : b[i] = w[1 + i - 1]
  BY <1>2, <1>3, SubSeqProperties
<1>7. Len(a) = n /\ Len(b) = n /\ \A i \in 1 .. n : a[i] = v[i] /\ b[i] = w[i]
  BY <1>4, <1>5, <1>6
<1>8. (\A i \in 1 .. n : a[i] = b[i]) => a = b
  BY <1>5, <1>6, <1>7, SameWord
<1> QED  BY <1>3, <1>7, <1>8

LEMMA BeforeParts ==
    ASSUME NEW v \in Word, NEW w \in Word
    PROVE  Before(v, w) <=> \E n \in Nat : Parting(v, w, n)
<1>1. /\ Len(v) \in Nat /\ DOMAIN v = 1 .. Len(v) /\ \A i \in 1 .. Len(v) : v[i] \in Int
      /\ Len(w) \in Nat /\ DOMAIN w = 1 .. Len(w) /\ \A i \in 1 .. Len(w) : w[i] \in Int
  BY LenProperties, ElementOfSeq DEF Word
<1>2. ASSUME IsStrictPrefix(v, w) PROVE Parting(v, w, Len(v))
  <2>1. Len(v) <= Len(w) /\ SubSeq(v, 1, Len(v)) = SubSeq(w, 1, Len(v)) /\ v # w
    BY <1>2 DEF IsStrictPrefix, IsPrefix
  <2>2. PICK n \in Nat : n = Len(v)
    BY <1>1
  <2>3. \A i \in 1 .. n : v[i] = w[i]
    <3>1. SubSeq(v, 1, n) = SubSeq(w, 1, n) /\ n <= Len(v) /\ n <= Len(w)
      BY <1>1, <2>1, <2>2
    <3> QED  BY <3>1, SamePrefix DEF Word
  <2>4. Len(v) # Len(w)
    <3>1. ASSUME Len(v) = Len(w) PROVE FALSE
      <4>1. \A i \in 1 .. Len(v) : v[i] = w[i]
        BY <2>2, <2>3
      <4>2. v = w
        BY <1>1, <3>1, <4>1, SameWord DEF Word
      <4> QED  BY <2>1, <4>2
    <3> QED  BY <3>1
  <2>5. n <= n /\ n < Len(w)
    <3>1. PICK l : l = Len(w)
      OBVIOUS
    <3>2. l \in Nat
      BY <1>1, <3>1
    <3>3. n <= l /\ n # l
      BY <2>1, <2>2, <2>4, <3>1
    <3>4. n < l
      BY <3>2, <3>3
    <3> QED  BY <3>1, <3>4
  <2>6. Parting(v, w, n)
    BY <2>2, <2>3, <2>5 DEF Parting
  <2> QED  BY <2>2, <2>6
<1>3. ASSUME NEW i \in DOMAIN v \cap DOMAIN w, v[i] < w[i], \A j \in 1 .. i - 1 : v[j] = w[j]
      PROVE  i - 1 \in Nat /\ Parting(v, w, i - 1)
  <2>1. i \in Nat /\ i >= 1 /\ i <= Len(v) /\ i <= Len(w) /\ (i - 1) + 1 = i /\ i - 1 \in Nat
    BY <1>1
  <2> QED  BY <1>1, <1>3, <2>1 DEF Parting
<1>4. ASSUME NEW n \in Nat, Parting(v, w, n) PROVE Before(v, w)
  <2>1. CASE n < Len(v)
    <3>1. n + 1 \in DOMAIN v \cap DOMAIN w /\ (n + 1) - 1 = n
      BY <1>1, <1>4, <2>1 DEF Parting
    <3>2. v[n + 1] < w[n + 1] /\ \A j \in 1 .. (n + 1) - 1 : v[j] = w[j]
      BY <1>4, <2>1, <3>1 DEF Parting
    <3> QED  BY <3>1, <3>2 DEF Before
  <2>2. CASE ~(n < Len(v))
    <3>1. n = Len(v) /\ n < Len(w)
      <4>1. n <= Len(v) /\ n < Len(w)
        BY <1>4 DEF Parting
      <4>2. PICK l : l = Len(v)
        OBVIOUS
      <4>3. l \in Nat
        BY <1>1, <4>2
      <4>4. n <= l /\ ~(n < l)
        BY <2>2, <4>1, <4>2
      <4>5. n = l
        BY <4>3, <4>4
      <4> QED  BY <4>1, <4>2, <4>5
    <3>2. SubSeq(v, 1, n) = SubSeq(w, 1, n)
      <4>1. n <= Len(v) /\ n <= Len(w) /\ \A i \in 1 .. n : v[i] = w[i]
        BY <1>1, <1>4, <3>1 DEF Parting
      <4> QED  BY <4>1, SamePrefix DEF Word
    <3>3. v # w /\ Len(v) <= Len(w)
      BY <1>1, <3>1
    <3>4. IsStrictPrefix(v, w)
      BY <3>1, <3>2, <3>3 DEF IsStrictPrefix, IsPrefix
    <3> QED  BY <3>4 DEF Before
  <2> QED  BY <2>1, <2>2
<1>5. ASSUME Before(v, w) PROVE \E n \in Nat : Parting(v, w, n)
  BY <1>1, <1>2, <1>3, <1>5 DEF Before
<1> QED  BY <1>4, <1>5

(* It is a strict order, and total.                                        *)
LEMMA NotBeforeItself ==
    ASSUME NEW v \in Word
    PROVE  ~Before(v, v)
<1> SUFFICES ASSUME NEW n \in Nat, Parting(v, v, n) PROVE FALSE
  BY BeforeParts
<1>1. Len(v) \in Nat /\ \A i \in 1 .. Len(v) : v[i] \in Int
  BY LenProperties, ElementOfSeq DEF Word
<1>2. n < Len(v) /\ v[n + 1] < v[n + 1]
  BY DEF Parting
<1>3. n + 1 \in 1 .. Len(v)
  BY <1>1, <1>2
<1>4. v[n + 1] \in Int
  BY <1>1, <1>3
<1> QED  BY <1>2, <1>4

LEMMA BeforeTransitive ==
    ASSUME NEW u \in Word, NEW v \in Word, NEW w \in Word, Before(u, v), Before(v, w)
    PROVE  Before(u, w)
<1>1. PICK m \in Nat : Parting(u, v, m)
  BY BeforeParts
<1>2. PICK n \in Nat : Parting(v, w, n)
  BY BeforeParts
<1>3. /\ Len(u) \in Nat /\ \A i \in 1 .. Len(u) : u[i] \in Int
      /\ Len(v) \in Nat /\ \A i \in 1 .. Len(v) : v[i] \in Int
      /\ Len(w) \in Nat /\ \A i \in 1 .. Len(w) : w[i] \in Int
  BY LenProperties, ElementOfSeq DEF Word
<1>4. /\ m <= Len(u) /\ m < Len(v) /\ (\A i \in 1 .. m : u[i] = v[i])
      /\ m < Len(u) => u[m + 1] < v[m + 1]
  BY <1>1 DEF Parting
<1>5. /\ n <= Len(v) /\ n < Len(w) /\ (\A i \in 1 .. n : v[i] = w[i])
      /\ n < Len(v) => v[n + 1] < w[n + 1]
  BY <1>2 DEF Parting
<1>6. CASE m < n
  <2>1. m + 1 \in 1 .. n /\ \A i \in 1 .. m : i \in 1 .. n
    BY <1>6
  <2>2. v[m + 1] = w[m + 1] /\ \A i \in 1 .. m : u[i] = w[i]
    BY <1>4, <1>5, <2>1
  <2>3. Parting(u, w, m)
    BY <1>3, <1>4, <1>5, <1>6, <2>2 DEF Parting
  <2> QED  BY <2>3, BeforeParts
<1>7. CASE n <= m
  <2>1. (\A i \in 1 .. n : i \in 1 .. m) /\ n < Len(v) /\ n <= Len(u) /\ n + 1 \in 1 .. Len(v) /\ n + 1 \in 1 .. Len(w)
    BY <1>3, <1>4, <1>5, <1>7
  <2>2. \A i \in 1 .. n : u[i] = w[i]
    BY <1>4, <1>5, <2>1
  <2>3. ASSUME n < Len(u) PROVE u[n + 1] < w[n + 1]
    <3>1. v[n + 1] < w[n + 1] /\ v[n + 1] \in Int /\ w[n + 1] \in Int
      BY <1>3, <1>5, <2>1
    <3>2. CASE n = m
      <4>1. u[n + 1] < v[n + 1] /\ u[n + 1] \in Int
        <5>1. n + 1 \in 1 .. Len(u)
          BY <1>3, <2>3
        <5> QED  BY <1>3, <1>4, <2>3, <3>2, <5>1
      <4> QED  BY <3>1, <4>1
    <3>3. CASE n # m
      <4>1. n + 1 \in 1 .. m
        BY <1>7, <3>3
      <4>2. u[n + 1] = v[n + 1]
        BY <1>4, <4>1
      <4> QED  BY <3>1, <4>2
    <3> QED  BY <3>2, <3>3
  <2>4. Parting(u, w, n)
    BY <1>5, <2>1, <2>2, <2>3 DEF Parting
  <2> QED  BY <2>4, BeforeParts
<1> QED  BY <1>6, <1>7

LEMMA BeforeTotal ==
    ASSUME NEW v \in Word, NEW w \in Word, v # w
    PROVE  Before(v, w) \/ Before(w, v)
<1>1. /\ Len(v) \in Nat /\ \A i \in 1 .. Len(v) : v[i] \in Int
      /\ Len(w) \in Nat /\ \A i \in 1 .. Len(w) : w[i] \in Int
  BY LenProperties, ElementOfSeq DEF Word
<1>2. PICK l \in Nat : l <= Len(v) /\ l <= Len(w) /\ (l = Len(v) \/ l = Len(w))
  BY <1>1
<1> DEFINE D == {i \in 1 .. l : v[i] # w[i]}
<1>3. CASE D = {}
  <2>1. \A i \in 1 .. l : v[i] = w[i]
    BY <1>3
  <2>2. CASE Len(v) = Len(w)
    <3>1. v = w
      BY <1>1, <1>2, <2>1, <2>2, SameWord DEF Word
    <3> QED  BY <3>1
  <2>3. CASE Len(v) < Len(w)
    <3>1. Parting(v, w, l)
      BY <1>1, <1>2, <2>1, <2>3 DEF Parting
    <3> QED  BY <3>1, BeforeParts
  <2>4. CASE Len(w) < Len(v)
    <3>1. Parting(w, v, l)
      BY <1>1, <1>2, <2>1, <2>4 DEF Parting
    <3> QED  BY <3>1, BeforeParts
  <2> QED  BY <1>1, <2>2, <2>3, <2>4
<1>4. CASE D # {}
  <2>1. D \in SUBSET Nat
    OBVIOUS
  <2> HIDE DEF D
  <2>2. PICK i \in D : \A j \in D : i <= j
    BY <1>4, <2>1, LeastNumber
  <2> USE DEF D
  <2>3. PICK n \in Nat : n + 1 = i /\ n < l
    <3>1. i - 1 \in Nat /\ (i - 1) + 1 = i /\ i - 1 < l
      BY <2>2
    <3> QED  BY <3>1
  <2>4. \A j \in 1 .. n : v[j] = w[j]
    <3> SUFFICES ASSUME NEW j \in 1 .. n, v[j] # w[j] PROVE FALSE
      OBVIOUS
    <3>1. j \in 1 .. l
      BY <1>2, <2>3
    <3>2. j \in D
      BY <3>1
    <3> HIDE DEF D
    <3>3. i <= j
      BY <2>2, <3>2
    <3> QED  BY <2>3, <3>3
  <2>5. n < Len(v) /\ n < Len(w) /\ v[n + 1] # w[n + 1]
    BY <1>1, <1>2, <2>2, <2>3
  <2>6. n + 1 \in 1 .. Len(v) /\ n + 1 \in 1 .. Len(w)
    BY <1>1, <2>5
  <2>7. v[n + 1] \in Int /\ w[n + 1] \in Int
    BY <1>1, <2>6
  <2>8. CASE v[n + 1] < w[n + 1]
    <3>1. Parting(v, w, n)
      BY <1>1, <2>4, <2>5, <2>8 DEF Parting
    <3> QED  BY <3>1, BeforeParts
  <2>9. CASE w[n + 1] < v[n + 1]
    <3>1. Parting(w, v, n)
      BY <1>1, <2>4, <2>5, <2>9 DEF Parting
    <3> QED  BY <3>1, BeforeParts
  <2> QED  BY <2>5, <2>7, <2>8, <2>9
<1> QED  BY <1>3, <1>4

(* Where a word and a later one part.                                      *)
LEMMA CommonParts ==
    ASSUME NEW v \in Word, NEW w \in Word, v = <<>> \/ Before(v, w)
    PROVE  Common(w, v) \in Nat /\ Parts(v, w, Common(w, v))
<1>1. /\ Len(v) \in Nat /\ DOMAIN v = 1 .. Len(v) /\ \A i \in 1 .. Len(v) : v[i] \in Int
      /\ Len(w) \in Nat /\ DOMAIN w = 1 .. Len(w) /\ \A i \in 1 .. Len(w) : w[i] \in Int
  BY LenProperties, ElementOfSeq DEF Word
<1>2. PICK n \in Nat : Parts(v, w, n)
  <2>1. CASE v = <<>>
    <3>1. Len(v) = 0
      BY <2>1, EmptySeq
    <3>2. Parts(v, w, 0)
      BY <1>1, <3>1 DEF Parts
    <3> QED  BY <3>2
  <2>2. CASE Before(v, w)
    <3>1. PICK n \in Nat : Parting(v, w, n)
      BY <2>2, BeforeParts
    <3>2. Parts(v, w, n)
      BY <1>1, <3>1 DEF Parts, Parting
    <3> QED  BY <3>2
  <2> QED  BY <2>1, <2>2
<1>3. /\ n <= Len(v) /\ n <= Len(w) /\ (\A i \in 1 .. n : v[i] = w[i])
      /\ n < Len(v) => n < Len(w) /\ v[n + 1] < w[n + 1]
  BY <1>2 DEF Parts
<1>4. ASSUME NEW i \in DOMAIN w \cap DOMAIN v
      PROVE  SubSeq(w, 1, i) = SubSeq(v, 1, i) <=> i <= n
  <2>1. i \in Nat /\ i >= 1 /\ i <= Len(v) /\ i <= Len(w)
    BY <1>1
  <2>2. SubSeq(w, 1, i) = SubSeq(v, 1, i) <=> \A j \in 1 .. i : w[j] = v[j]
    BY <2>1, SamePrefix DEF Word
  <2>3. CASE i <= n
    <3>1. \A j \in 1 .. i : j \in 1 .. n
      BY <2>1, <2>3
    <3> QED  BY <1>3, <2>2, <2>3, <3>1
  <2>4. CASE ~(i <= n)
    <3>1. n + 1 \in 1 .. i /\ n < Len(v) /\ n + 1 \in 1 .. Len(v) /\ n + 1 \in 1 .. Len(w)
      BY <1>1, <2>1, <2>4
    <3>2. v[n + 1] < w[n + 1] /\ v[n + 1] \in Int /\ w[n + 1] \in Int
      BY <1>1, <1>3, <3>1
    <3>3. v[n + 1] # w[n + 1]
      BY <3>2
    <3> QED  BY <2>2, <2>4, <3>1, <3>3
  <2> QED  BY <2>3, <2>4
<1>5. {i \in DOMAIN w \cap DOMAIN v : SubSeq(w, 1, i) = SubSeq(v, 1, i)} = 1 .. n
  <2>1. \A i \in 1 .. n : i \in DOMAIN w \cap DOMAIN v /\ i <= n
    BY <1>1, <1>3
  <2>2. \A i \in DOMAIN w \cap DOMAIN v : i <= n => i \in 1 .. n
    BY <1>1
  <2> QED  BY <1>4, <2>1, <2>2
<1>6. Common(w, v) = n
  <2>1. Cardinality(1 .. n) = IF 1 > n THEN 0 ELSE n - 1 + 1
    BY FS_Interval
  <2>2. Cardinality(1 .. n) = n
    BY <2>1
  <2> QED  BY <1>5, <2>2 DEF Common
<1> QED  BY <1>2, <1>6

(* The builder has the words W: the root stands for them, no other node    *)
(* for none, and none for a word longer than K.                            *)
Begun(a, x, L, W, K) ==
    /\ State(a, x, L) /\ Len(a.unchecked) = Len(x) /\ L[1] = W
    /\ \A m \in 2 .. Len(a.nodes) : L[m] # {}
    /\ \A m \in 1 .. Len(a.nodes) : \A w \in L[m] : Len(w) <= K
Ready(a, W) == \E L : \E K \in Nat : Begun(a, a.previousWord, L, W, K)

LEMMA InsertUnfolds ==
    ASSUME NEW b, NEW w, NEW n, n = Common(w, b.previousWord), NEW m, m = minimize(b, n),
           NEW from, from = IF m.unchecked = <<>> THEN 1 ELSE Last(m.unchecked).child
    PROVE  insert(b, w) = Ended(Grown([m EXCEPT !.at = from], w, n), w)
BY DEF insert, Ended, Grown

LEMMA Inserted ==
    ASSUME NEW a, NEW W, Ready(a, W), NEW w \in Word,
           a.previousWord = <<>> \/ Before(a.previousWord, w)
    PROVE  Ready(insert(a, w), W \cup {w}) /\ insert(a, w).previousWord = w
<1>1. PICK x : x = a.previousWord
  OBVIOUS
<1>2. PICK L : \E K \in Nat : Begun(a, x, L, W, K)
  BY <1>1 DEF Ready
<1>3. PICK K \in Nat : Begun(a, x, L, W, K)
  BY <1>2
<1>4. /\ State(a, x, L) /\ Len(a.unchecked) = Len(x) /\ L[1] = W
      /\ \A m \in 2 .. Len(a.nodes) : L[m] # {}
      /\ \A m \in 1 .. Len(a.nodes) : \A v \in L[m] : Len(v) <= K
  BY <1>3 DEF Begun
<1>5. Shape(a, x) /\ Spells(a.nodes, L) /\ x \in Word /\ Len(a.unchecked) \in Nat
  BY <1>4, PathFacts DEF State, Shape
<1>6. PICK n : n = Common(w, x)
  OBVIOUS
<1>7. n \in Nat /\ Parts(x, w, n)
  <2>1. x = <<>> \/ Before(x, w)
    BY <1>1
  <2> QED  BY <1>5, <1>6, <2>1, CommonParts
<1>8. n \in 0 .. Len(a.unchecked) /\ n <= Len(w)
  <2>1. n <= Len(x) /\ n <= Len(w)
    BY <1>7 DEF Parts
  <2> QED  BY <1>4, <1>5, <1>7, <2>1
<1>9. PICK m : m = minimize(a, n)
  OBVIOUS
<1>10. Shorter(m, a, x, L, n)
  BY <1>4, <1>8, <1>9, MinimizedTo
<1>11. /\ Shape(m, x) /\ Spells(m.nodes, L) /\ Len(m.unchecked) = n /\ Len(m.nodes) = Len(a.nodes)
       /\ m.previousWord = x
  BY <1>1, <1>10 DEF Shorter, State
<1>12. PICK from : from = IF m.unchecked = <<>> THEN 1 ELSE Last(m.unchecked).child
  OBVIOUS
<1>13. from = OnPath(m, n) /\ from \in 1 .. Len(m.nodes) /\ Len(m.nodes) \in Nat
  <2>1. m \in Autos /\ m.unchecked \in Seq(Links)
    BY <1>11, AutoFacts DEF Shape
  <2>2. CASE n = 0
    <3>1. m.unchecked = <<>>
      BY <1>11, <2>1, <2>2, EmptySeq
    <3>2. from = OnPath(m, n)
      BY <1>12, <2>2, <3>1 DEF OnPath
    <3> QED  BY <1>7, <1>11, <3>2, PathFacts
  <2>3. CASE n # 0
    <3>1. m.unchecked # <<>>
      BY <1>11, <2>1, <2>3, EmptySeq
    <3>2. Last(m.unchecked) = m.unchecked[n]
      BY <1>11 DEF Last
    <3>3. from = OnPath(m, n)
      BY <1>12, <2>3, <3>1, <3>2 DEF OnPath
    <3> QED  BY <1>7, <1>11, <3>3, PathFacts
  <2> QED  BY <2>2, <2>3
<1>14. PICK p : p = [m EXCEPT !.at = from]
  OBVIOUS
<1>15. /\ Shape(p, x) /\ p.nodes = m.nodes /\ p.unchecked = m.unchecked
       /\ p.previousWord = m.previousWord /\ p.at = from
  BY <1>11, <1>13, <1>14, Moved
<1>16. Shape(p, w) /\ Open(p, w)
  <2>1. Parts(x, w, Len(p.unchecked))
    BY <1>7, <1>11, <1>15
  <2> QED  BY <1>15, <2>1, PathSwitches
<1>17. PICK N : N = Len(a.nodes)
  OBVIOUS
<1>18. N \in Nat /\ N >= 1 /\ Len(p.nodes) = N /\ DOMAIN L = 1 .. N /\ L = [i \in 1 .. N |-> L[i]]
  <2>1. L \in [1 .. Len(a.nodes) -> SUBSET Word]
    BY <1>5 DEF Spells
  <2>2. DOMAIN L = 1 .. N /\ L = [i \in 1 .. N |-> L[i]]
    BY <1>17, <2>1
  <2> QED  BY <1>11, <1>13, <1>15, <1>17, <2>2
<1>19. Wider(L, N) = L
  <2>1. \A i \in 1 .. N : i \in DOMAIN L
    BY <1>18
  <2>2. Wider(L, N) = [i \in 1 .. N |-> L[i]]
    BY <2>1 DEF Wider
  <2> QED  BY <1>18, <2>2
<1>20. p \in Autos /\ DOMAIN L = 1 .. Len(p.nodes)
  BY <1>15, <1>18 DEF Shape
<1>21. Len(w) \in Nat /\ n \in 0 .. Len(w)
  BY <1>7, <1>8, LenProperties DEF Word
<1>22. Growing(p, p, w, L, n)
  <2>1. Len(p.unchecked) = n /\ p.at = OnPath(p, n)
    BY <1>11, <1>13, <1>15 DEF OnPath
  <2>2. Spells(p.nodes, Wider(L, Len(p.nodes)))
    BY <1>11, <1>15, <1>18, <1>19
  <2>3. Len(p.nodes) >= Len(p.nodes) /\ \A i \in 1 .. Len(p.nodes) : ~(i > Len(p.nodes))
    <3>1. \A i \in 1 .. N : ~(i > N)
      BY <1>18
    <3>2. N >= N
      BY <1>18
    <3> QED  BY <1>18, <3>1, <3>2
  <2> QED  BY <1>16, <2>1, <2>2, <2>3 DEF Growing
<1>23. PICK g : g = Grown(p, w, n)
  OBVIOUS
<1>24. Growing(g, p, w, L, Len(w))
  BY <1>20, <1>21, <1>22, <1>23, GrownTo
<1>25. /\ Shape(g, w) /\ Len(g.unchecked) = Len(w) /\ g.at = OnPath(g, Len(w))
       /\ Len(g.nodes) >= N /\ Spells(g.nodes, Wider(L, Len(g.nodes)))
       /\ \A i \in 1 .. Len(g.nodes) : i > N => \E j \in 1 .. Len(w) : i = OnPath(g, j)
  BY <1>18, <1>24 DEF Growing
<1>26. PICK M : M = Wider(L, Len(g.nodes))
  OBVIOUS
<1>27. PICK b : b = Ended(g, w)
  OBVIOUS
<1>28. insert(a, w) = b
  BY <1>1, <1>6, <1>9, <1>12, <1>14, <1>23, <1>27, InsertUnfolds
<1>29. Shape(b, w) /\ b.unchecked = g.unchecked /\ b.previousWord = w /\ Len(b.nodes) = Len(g.nodes)
  BY <1>25, <1>27, ShapeEnded
<1>30. PICK G : G = Gained(g, w, M)
  OBVIOUS
<1>31. Spells(b.nodes, G)
  BY <1>25, <1>26, <1>27, <1>30, SpellsEnded
<1>32. /\ \A i \in 0 .. Len(w) : After(w, i) \in Word /\ Len(After(w, i)) = Len(w) - i
       /\ After(w, 0) = w
  BY AfterFacts DEF Word
<1>33. PICK Q : Q = Len(g.nodes)
  OBVIOUS
<1>34. Q \in Nat /\ Q >= N
  BY <1>25, <1>33, PathFacts
<1>35. \A i \in 1 .. Q : G[i] = M[i] \cup {After(w, j) : j \in {k \in 0 .. Len(w) : OnPath(g, k) = i}}
  BY <1>30, <1>33 DEF Gained
<1>36. \A i \in 1 .. Q : M[i] = IF i \in 1 .. N THEN L[i] ELSE {}
  BY <1>18, <1>26, <1>33 DEF Wider
<1>37. G[1] = W \cup {w}
  <2>1. 1 \in 1 .. Q /\ 1 \in 1 .. N /\ 0 \in 0 .. Len(w)
    BY <1>18, <1>21, <1>34
  <2>2. M[1] = W
    BY <1>4, <1>36, <2>1
  <2>3. OnPath(g, 0) = 1
    BY DEF OnPath
  <2>4. {k \in 0 .. Len(w) : OnPath(g, k) = 1} = {0}
    <3>1. \A i, j \in 0 .. Len(w) : OnPath(g, i) = OnPath(g, j) => i = j
      BY <1>25 DEF Shape, Path
    <3> QED  BY <2>1, <2>3, <3>1
  <2>5. {After(w, j) : j \in {k \in 0 .. Len(w) : OnPath(g, k) = 1}} = {w}
    BY <1>32, <2>4
  <2> QED  BY <1>35, <2>1, <2>2, <2>5
<1>38. ASSUME NEW i \in 2 .. Q PROVE G[i] # {}
  <2>1. i \in 1 .. Q /\ i \in Nat
    BY <1>34
  <2>2. CASE i \in 1 .. N
    <3>1. i \in 2 .. Len(a.nodes)
      BY <1>17, <1>18, <1>34, <2>2
    <3>2. M[i] # {}
      BY <1>4, <1>36, <2>1, <2>2, <3>1
    <3> QED  BY <1>35, <2>1, <3>2
  <2>3. CASE i \notin 1 .. N
    <3>1. i > N
      BY <1>18, <1>34, <2>1, <2>3
    <3>2. PICK j \in 1 .. Len(w) : i = OnPath(g, j)
      BY <1>25, <1>33, <2>1, <3>1
    <3>3. j \in 0 .. Len(w)
      BY <1>21
    <3>4. After(w, j) \in G[i]
      BY <1>35, <2>1, <3>2, <3>3
    <3> QED  BY <3>4
  <2> QED  BY <2>2, <2>3
<1>39. K + Len(w) \in Nat /\ K <= K + Len(w) /\ \A i \in 0 .. Len(w) : Len(w) - i <= K + Len(w)
  BY <1>21
<1>40. ASSUME NEW i \in 1 .. Q, NEW v \in G[i] PROVE Len(v) <= K + Len(w)
  <2>1. CASE v \in M[i]
    <3>1. i \in 1 .. N /\ v \in L[i]
      BY <1>36, <2>1
    <3>2. Len(v) <= K
      BY <1>4, <1>17, <3>1
    <3>3. v \in Word
      BY <1>5, <1>17, <3>1 DEF Spells
    <3>4. Len(v) \in Nat
      BY <3>3, LenProperties DEF Word
    <3> QED  BY <1>21, <3>2, <3>4
  <2>2. CASE v \notin M[i]
    <3>1. PICK j \in 0 .. Len(w) : v = After(w, j)
      BY <1>35, <2>2
    <3> QED  BY <1>32, <1>39, <3>1
  <2> QED  BY <2>1, <2>2
<1>41. Begun(b, w, G, W \cup {w}, K + Len(w))
  <2>1. State(b, w, G) /\ Len(b.unchecked) = Len(w)
    BY <1>25, <1>29, <1>31 DEF State
  <2>2. Len(b.nodes) = Q
    BY <1>29, <1>33
  <2> QED  BY <1>37, <1>38, <1>40, <2>1, <2>2 DEF Begun
<1>42. Ready(b, W \cup {w})
  BY <1>29, <1>39, <1>41 DEF Ready
<1> QED  BY <1>28, <1>29, <1>42

(* How many words of S come before w.                                      *)
Rank(S, w) == Cardinality({v \in S : Before(v, w)})

LEMMA RankRises ==
    ASSUME NEW S \in SUBSET Word, IsFiniteSet(S)
    PROVE  /\ \A w \in S : Rank(S, w) \in 0 .. Cardinality(S) - 1
           /\ \A v, w \in S : Before(v, w) <=> Rank(S, v) < Rank(S, w)
           /\ \A v, w \in S : Rank(S, v) = Rank(S, w) => v = w
<1> DEFINE B(w) == {v \in S : Before(v, w)}
<1>1. Cardinality(S) \in Nat
  BY FS_CardinalityType
<1>2. ASSUME NEW w \in S
      PROVE  IsFiniteSet(B(w)) /\ Rank(S, w) = Cardinality(B(w)) /\ Rank(S, w) \in Nat /\ w \notin B(w)
  <2>1. B(w) \in SUBSET S
    OBVIOUS
  <2>2. w \notin B(w)
    BY NotBeforeItself
  <2>3. Rank(S, w) = Cardinality(B(w))
    BY DEF Rank
  <2> HIDE DEF B
  <2>4. IsFiniteSet(B(w))
    BY <2>1, FS_Subset
  <2>5. Cardinality(B(w)) \in Nat
    BY <2>4, FS_CardinalityType
  <2> QED  BY <2>2, <2>3, <2>4, <2>5
<1>3. ASSUME NEW w \in S PROVE Rank(S, w) \in 0 .. Cardinality(S) - 1
  <2>1. B(w) \in SUBSET S
    OBVIOUS
  <2> HIDE DEF B
  <2>2. Cardinality(B(w)) <= Cardinality(S) /\ (Cardinality(S) = Cardinality(B(w)) => S = B(w))
    BY <2>1, FS_Subset
  <2>3. Cardinality(S) # Cardinality(B(w))
    BY <1>2, <2>2
  <2> QED  BY <1>1, <1>2, <2>2, <2>3
<1>4. ASSUME NEW v \in S, NEW w \in S, Before(v, w) PROVE Rank(S, v) < Rank(S, w)
  <2>1. B(v) \in SUBSET B(w)
    <3> SUFFICES ASSUME NEW u \in S, Before(u, v) PROVE Before(u, w)
      OBVIOUS
    <3> QED  BY <1>4, BeforeTransitive
  <2>2. v \in B(w)
    BY <1>4
  <2> HIDE DEF B
  <2>3. B(v) # B(w)
    BY <1>2, <2>2
  <2>4. Cardinality(B(v)) <= Cardinality(B(w)) /\ (Cardinality(B(w)) = Cardinality(B(v)) => B(w) = B(v))
    BY <1>2, <2>1, FS_Subset
  <2>5. Cardinality(B(v)) # Cardinality(B(w))
    BY <2>3, <2>4
  <2> QED  BY <1>2, <2>4, <2>5
<1>5. \A v, w \in S : v # w => Before(v, w) \/ Before(w, v)
  BY BeforeTotal
<1> HIDE DEF B
<1>6. \A v \in S : Rank(S, v) \in Nat
  BY <1>2
<1>7. ASSUME NEW v \in S, NEW w \in S, Rank(S, v) < Rank(S, w) PROVE Before(v, w)
  <2>1. ~(Rank(S, w) < Rank(S, v)) /\ v # w
    BY <1>6, <1>7
  <2> QED  BY <1>4, <1>5, <2>1
<1>8. ASSUME NEW v \in S, NEW w \in S, Rank(S, v) = Rank(S, w) PROVE v = w
  <2>1. ~(Rank(S, w) < Rank(S, v)) /\ ~(Rank(S, v) < Rank(S, w))
    BY <1>6, <1>8
  <2> QED  BY <1>4, <1>5, <2>1
<1> QED  BY <1>3, <1>4, <1>7, <1>8

(* createTokenSet gives each word once, in the order of strings.           *)
Ordered(s, S) ==
    /\ s \in Seq(Word) /\ \A i \in 1 .. Len(s) : s[i] \in S
    /\ \A w \in S : \E i \in 1 .. Len(s) : s[i] = w
    /\ \A i, j \in 1 .. Len(s) : i < j => Before(s[i], s[j])

LEMMA InOrderOrders ==
    ASSUME NEW S \in SUBSET Word, IsFiniteSet(S)
    PROVE  Ordered(InOrder(S), S)
<1>1. PICK n \in Nat : n = Cardinality(S)
  BY FS_CardinalityType
<1>2. PICK s : s = InOrder(S)
  OBVIOUS
<1>3. /\ \A w \in S : Rank(S, w) \in 0 .. n - 1
      /\ \A v, w \in S : Before(v, w) <=> Rank(S, v) < Rank(S, w)
      /\ \A v, w \in S : Rank(S, v) = Rank(S, w) => v = w
  BY <1>1, RankRises
<1>4. PICK f : f = [w \in S |-> Rank(S, w)]
  OBVIOUS
<1>5. f \in [S -> 0 .. n - 1] /\ \A w \in S : f[w] = Rank(S, w)
  BY <1>3, <1>4
<1>6. f \in Injection(S, 0 .. n - 1)
  BY <1>3, <1>5 DEF Injection, IsInjective
<1>7. IsFiniteSet(0 .. n - 1) /\ Cardinality(0 .. n - 1) = n
  <2>1. 0 \in Int /\ n - 1 \in Int
    OBVIOUS
  <2>2. IsFiniteSet(0 .. n - 1) /\ Cardinality(0 .. n - 1) = IF 0 > n - 1 THEN 0 ELSE (n - 1) - 0 + 1
    BY <2>1, FS_Interval
  <2> QED  BY <2>2
<1>8. f \in Surjection(S, 0 .. n - 1)
  BY <1>1, <1>6, <1>7, FS_Injection
<1>9. \A k \in 0 .. n - 1 : \E w \in S : f[w] = k
  BY <1>8 DEF Surjection
<1>10. ASSUME NEW i \in 1 .. n PROVE s[i] \in S /\ Rank(S, s[i]) = i - 1
  <2>1. s[i] = CHOOSE w \in S : Rank(S, w) = i - 1
    BY <1>1, <1>2 DEF InOrder, Rank
  <2>2. i - 1 \in 0 .. n - 1
    OBVIOUS
  <2>3. \E w \in S : Rank(S, w) = i - 1
    BY <1>5, <1>9, <2>2
  <2> QED  BY <2>1, <2>3
<1>11. s \in [1 .. n -> Word]
  <2>1. s = [i \in 1 .. n |-> CHOOSE w \in S : Rank(S, w) = i - 1]
    BY <1>1, <1>2, Zenon DEF InOrder, Rank
  <2>3. s = [i \in 1 .. n |-> s[i]]
    BY <2>1
  <2>2. \A i \in 1 .. n : s[i] \in Word
    BY <1>10
  <2> QED  BY <2>2, <2>3
<1>12. s \in Seq(Word) /\ Len(s) = n
  BY <1>11, SeqDef, LenProperties
<1>13. ASSUME NEW w \in S PROVE \E i \in 1 .. n : s[i] = w
  <2>1. PICK i \in 1 .. n : i = Rank(S, w) + 1
    BY <1>3
  <2>2. Rank(S, s[i]) = Rank(S, w) /\ s[i] \in S
    BY <1>3, <1>10, <2>1
  <2> QED  BY <1>3, <2>2
<1>14. ASSUME NEW i \in 1 .. n, NEW j \in 1 .. n, i < j PROVE Before(s[i], s[j])
  <2>1. Rank(S, s[i]) < Rank(S, s[j])
    BY <1>10, <1>14
  <2> QED  BY <1>3, <1>10, <2>1
<1> QED  BY <1>2, <1>10, <1>12, <1>13, <1>14 DEF Ordered

(* What fromArray starts from.                                             *)
NoWord == [nodes |-> <<Node>>, unchecked |-> <<>>, minimized |-> {}, previousWord |-> <<>>, at |-> 1]

LEMMA NoWordReady == Ready(NoWord, {}) /\ NoWord.previousWord = <<>> /\ NoWord \in Autos
<1>1. PICK a, x, L : a = NoWord /\ x = <<>> /\ L = [m \in 1 .. 1 |-> {}]
  OBVIOUS
<1>2. /\ a.nodes = <<Node>> /\ a.unchecked = <<>> /\ a.minimized = {} /\ a.previousWord = x /\ a.at = 1
  BY <1>1 DEF NoWord
<1>3. <<>> \in Seq(Links) /\ <<>> \in Seq(Int) /\ \A S : <<>> \in Seq(S)
  BY EmptySeq
<1>4. x \in Word /\ Len(x) = 0 /\ Len(a.unchecked) = 0
  BY <1>1, <1>2, <1>3, EmptySeq DEF Word
<1>5. /\ <<Node>> \in Seq(NodeOver(Int)) /\ Len(<<Node>>) = 1 /\ <<Node>>[1] = Node
  <2>1. Node \in NodeOver(Int)
    BY NewNode
  <2> QED  BY <2>1
<1>6. a \in Autos
  BY <1>1, <1>3, <1>5 DEF NoWord, Autos, Nodes, Word
<1>7. /\ Len(a.nodes) = 1 /\ a.nodes[1] = Node /\ ~Node.final /\ DOMAIN Node.edges = {}
      /\ 1 .. Len(a.nodes) = {1} /\ 0 .. Len(a.unchecked) = {0} /\ 1 .. Len(a.unchecked) = {}
      /\ 1 .. 1 = {1}
  BY <1>2, <1>4, <1>5, NewNode
<1>8. OnPath(a, 0) = 1
  BY DEF OnPath
<1>9. Path(a, x)
  <2>1. Len(a.unchecked) <= Len(x)
    BY <1>4
  <2> QED  BY <1>2, <1>7, <1>8, <2>1 DEF Path
<1>10. Aims(a, x)
  BY <1>7 DEF Aims
<1>11. Fresh(a, x)
  BY <1>7, <1>8 DEF Fresh
<1>12. Least(a)
  BY <1>2 DEF Least
<1>13. Spells(a.nodes, L)
  <2>1. L \in [1 .. 1 -> SUBSET Word] /\ L[1] = {}
    BY <1>1, <1>7
  <2> QED  BY <1>7, <2>1 DEF Spells
<1>14. 2 .. Len(a.nodes) = {} /\ 0 \in Nat /\ L[1] = {}
  BY <1>1, <1>7
<1>15. Begun(a, x, L, {}, 0)
  BY <1>4, <1>6, <1>7, <1>9, <1>10, <1>11, <1>12, <1>13, <1>14 DEF Begun, State, Shape
<1>16. Ready(a, {})
  BY <1>2, <1>14, <1>15 DEF Ready
<1> QED  BY <1>1, <1>2, <1>6, <1>16

(* The builder after the first i words.                                    *)
InsertedUpTo(z, s, i) ==
    /\ Ready(z, {s[j] : j \in 1 .. i})
    /\ z.previousWord = IF i = 0 THEN <<>> ELSE s[i]

LEMMA ReadyIsAuto ==
    ASSUME NEW z, NEW W, Ready(z, W)
    PROVE  z \in Autos
BY DEF Ready, Begun, State, Shape

LEMMA OneInserted ==
    ASSUME NEW s, NEW S, Ordered(s, S), NEW i \in 1 .. Len(s), NEW z, InsertedUpTo(z, s, i - 1)
    PROVE  InsertedUpTo(insert(z, s[i]), s, i)
<1>1. s \in Seq(Word) /\ \A k, j \in 1 .. Len(s) : k < j => Before(s[k], s[j])
  BY DEF Ordered
<1>2. Len(s) \in Nat /\ s[i] \in Word
  BY <1>1, LenProperties, ElementOfSeq
<1>3. Ready(z, {s[j] : j \in 1 .. i - 1}) /\ z.previousWord = IF i - 1 = 0 THEN <<>> ELSE s[i - 1]
  BY DEF InsertedUpTo
<1>4. z.previousWord = <<>> \/ Before(z.previousWord, s[i])
  <2>1. CASE i = 1
    BY <1>3, <2>1
  <2>2. CASE i # 1
    <3>1. i - 1 \in 1 .. Len(s) /\ i - 1 < i /\ i - 1 # 0
      BY <1>2, <2>2
    <3> QED  BY <1>1, <1>3, <3>1
  <2> QED  BY <2>1, <2>2
<1>5. PICK W : W = {s[j] : j \in 1 .. i - 1}
  OBVIOUS
<1>6. PICK w \in Word : w = s[i]
  BY <1>2
<1>7. Ready(insert(z, w), W \cup {w}) /\ insert(z, w).previousWord = w
  BY <1>3, <1>4, <1>5, <1>6, Inserted
<1>8. W \cup {w} = {s[j] : j \in 1 .. i}
  <2>1. \A j \in 1 .. i : j \in 1 .. i - 1 \/ j = i
    BY <1>2
  <2>2. i \in 1 .. i /\ \A j \in 1 .. i - 1 : j \in 1 .. i
    BY <1>2
  <2> QED  BY <1>5, <1>6, <2>1, <2>2
<1>9. i # 0
  BY <1>2
<1> QED  BY <1>6, <1>7, <1>8, <1>9 DEF InsertedUpTo

(* What is left when every node is checked: the root stands for W, every   *)
(* edge leads to one of the nodes R, and no two of these are equal.        *)
Finished(ns, W, L, R, K) ==
    /\ ns \in Nodes /\ Len(ns) >= 1 /\ Spells(ns, L) /\ L[1] = W /\ R \subseteq 2 .. Len(ns)
    /\ \A m \in 1 .. Len(ns) : \A c \in DOMAIN ns[m].edges : ns[m].edges[c] \in R
    /\ \A m, n \in R : ns[m] = ns[n] => m = n
    /\ \A m \in 2 .. Len(ns) : L[m] # {}
    /\ \A m \in 1 .. Len(ns) : \A w \in L[m] : Len(w) <= K
Automaton(ns, W) == \E L, R : \E K \in Nat : Finished(ns, W, L, R, K)

LEMMA ReadyFinishes ==
    ASSUME NEW a, NEW W, Ready(a, W)
    PROVE  Automaton(minimize(a, 0).nodes, W)
<1>1. PICK x : x = a.previousWord
  OBVIOUS
<1>2. PICK L : \E K \in Nat : Begun(a, x, L, W, K)
  BY <1>1 DEF Ready
<1>3. PICK K \in Nat : Begun(a, x, L, W, K)
  BY <1>2
<1>4. /\ State(a, x, L) /\ L[1] = W
      /\ \A m \in 2 .. Len(a.nodes) : L[m] # {}
      /\ \A m \in 1 .. Len(a.nodes) : \A v \in L[m] : Len(v) <= K
  BY <1>3 DEF Begun
<1>5. 0 \in 0 .. Len(a.unchecked)
  BY <1>4, PathFacts DEF State
<1>6. PICK b : b = minimize(a, 0)
  OBVIOUS
<1>7. Shorter(b, a, x, L, 0)
  BY <1>4, <1>5, <1>6, MinimizedTo
<1>8. Shape(b, x) /\ Spells(b.nodes, L) /\ Len(b.unchecked) = 0 /\ Len(b.nodes) = Len(a.nodes)
  BY <1>7 DEF Shorter, State
<1>9. b \in Autos /\ Path(b, x) /\ Aims(b, x) /\ Least(b)
  BY <1>8 DEF Shape
<1>10. PICK ns, R : ns = b.nodes /\ R = b.minimized
  OBVIOUS
<1>11. ns \in Nodes /\ Len(ns) \in Nat
  BY <1>9, <1>10, AutoFacts
<1>12. 0 \in 0 .. Len(b.unchecked) /\ 1 .. Len(b.unchecked) = {} /\ OnPath(b, 0) = 1
  BY <1>8 DEF OnPath
<1>13. 1 \in 1 .. Len(ns) /\ 1 \notin R
  BY <1>9, <1>10, <1>12 DEF Path
<1>14. R \subseteq 1 .. Len(ns) /\ \A m, n \in R : ns[m] = ns[n] => m = n
  BY <1>9, <1>10 DEF Least
<1>15. R \subseteq 2 .. Len(ns) /\ Len(ns) >= 1
  <2>1. \A m \in 1 .. Len(ns) : m # 1 => m \in 2 .. Len(ns)
    BY <1>11
  <2>2. Len(ns) >= 1
    BY <1>11, <1>13
  <2> QED  BY <1>13, <1>14, <2>1, <2>2
<1>16. \A m \in 1 .. Len(ns) : \A c \in DOMAIN ns[m].edges : ns[m].edges[c] \in R
  BY <1>9, <1>10, <1>12 DEF Aims
<1>17. Finished(ns, W, L, R, K)
  BY <1>4, <1>8, <1>10, <1>11, <1>14, <1>15, <1>16 DEF Finished
<1> QED  BY <1>6, <1>10, <1>17 DEF Automaton

LEMMA ArrayIsAutomaton ==
    ASSUME NEW s, NEW S, Ordered(s, S)
    PROVE  Automaton(fromArray(s), S)
<1> DEFINE n == Len(s)
           D == [i \in 0 .. n |-> {z \in Autos : InsertedUpTo(z, s, i)}]
           turn == [i \in 1 .. n |-> [z \in Autos |-> insert(z, s[i])]]
           eq(h) == h = [i \in 0 .. n |-> IF i = 0 THEN NoWord ELSE insert(h[i - 1], s[i])]
<1>0. fromArray(s) = minimize((CHOOSE h : eq(h))[n], 0).nodes
  BY DEF fromArray, NoWord
<1>1. n \in Nat
  BY LenProperties DEF Ordered
<1>2. \A z, i : InsertedUpTo(z, s, i) => z \in Autos
  BY ReadyIsAuto DEF InsertedUpTo
<1>3. \A i \in 0 .. n : \A z : z \in D[i] <=> InsertedUpTo(z, s, i)
  BY <1>2
<1> HIDE DEF D
<1>4. NoWord \in D[0]
  <2>1. 0 \in 0 .. n /\ {s[j] : j \in 1 .. 0} = {}
    BY <1>1
  <2>2. InsertedUpTo(NoWord, s, 0)
    BY <2>1, NoWordReady DEF InsertedUpTo
  <2> QED  BY <1>3, <2>1, <2>2
<1>5. \A i \in 1 .. n : \A z \in D[i - 1] : turn[i][z] \in D[i] /\ turn[i][z] = insert(z, s[i])
  <2> TAKE i \in 1 .. n
  <2> TAKE z \in D[i - 1]
  <2>1. i - 1 \in 0 .. n /\ i \in 0 .. n
    BY <1>1
  <2>2. InsertedUpTo(z, s, i - 1) /\ z \in Autos
    BY <1>2, <1>3, <2>1
  <2>3. PICK y : y = insert(z, s[i])
    OBVIOUS
  <2>4. InsertedUpTo(y, s, i)
    BY <2>2, <2>3, OneInserted
  <2>5. turn[i][z] = y
    BY <2>2, <2>3
  <2> QED  BY <1>3, <2>1, <2>3, <2>4, <2>5
<1> HIDE DEF turn
<1>6. \E h : eq(h)
  <2>0. Turns(n, D, turn)
    BY <1>5 DEF Turns
  <2>1. PICK h : Loop(h, n, NoWord, turn) /\ \A i \in 0 .. n : h[i] \in D[i]
    <3> HIDE DEF n
    <3> QED  BY <1>1, <1>4, <2>0, LoopRuns
  <2>2. \A i \in 0 .. n : i # 0 => i - 1 \in 0 .. n /\ i \in 1 .. n
    BY <1>1
  <2>3. \A i \in 0 .. n : i # 0 => turn[i][h[i - 1]] = insert(h[i - 1], s[i])
    BY <1>5, <2>1, <2>2
  <2> QED  BY <2>1, <2>3 DEF Loop
<1> DEFINE h == CHOOSE h : eq(h)
<1>7. eq(h)
  BY <1>6
<1>8. fromArray(s) = minimize(h[n], 0).nodes
  BY <1>0
<1> HIDE DEF h
<1>9. h[0] = NoWord /\ \A i \in 1 .. n : h[i] = insert(h[i - 1], s[i])
  <2>1. 0 \in 0 .. n /\ \A i \in 1 .. n : i \in 0 .. n /\ i # 0
    BY <1>1
  <2>2. \A i \in 0 .. n : h[i] = IF i = 0 THEN NoWord ELSE insert(h[i - 1], s[i])
    BY <1>7
  <2> QED  BY <2>1, <2>2
<1>10. \A i \in 0 .. n : h[i] \in D[i]
  <2>1. h[0] \in D[0]
    BY <1>4, <1>9
  <2>2. \A i \in 1 .. n : h[i - 1] \in D[i - 1] => h[i] \in D[i]
    BY <1>5, <1>9
  <2> HIDE DEF n
  <2> QED  BY <1>1, <2>1, <2>2, LoopStays
<1>11. n \in 0 .. n
  BY <1>1
<1>12. Ready(h[n], {s[j] : j \in 1 .. n})
  BY <1>3, <1>10, <1>11 DEF InsertedUpTo
<1>13. {s[j] : j \in 1 .. n} = S
  BY DEF Ordered
<1> QED  BY <1>8, <1>12, <1>13, ReadyFinishes

LEMMA FinishedFacts ==
    ASSUME NEW ns, NEW W, NEW L, NEW R, NEW K, Finished(ns, W, L, R, K)
    PROVE  /\ Len(ns) \in Nat /\ DOMAIN ns = 1 .. Len(ns) /\ 1 \in 1 .. Len(ns) /\ L[1] = W
           /\ L \in [1 .. Len(ns) -> SUBSET Word]
           /\ R \subseteq 1 .. Len(ns) /\ 1 \notin R
           /\ \A m \in 1 .. Len(ns) : ns[m] \in NodeOver(Int)
           /\ \A m \in 1 .. Len(ns) : \A c \in DOMAIN ns[m].edges : c \in Int /\ ns[m].edges[c] \in R
           /\ \A m \in R : L[m] # {}
           /\ \A m \in 1 .. Len(ns) : \A w \in L[m] : w \in Word /\ Len(w) \in Nat /\ Len(w) <= K
           /\ \A m \in 1 .. Len(ns) : <<>> \in L[m] <=> ns[m].final
           /\ \A m \in 1 .. Len(ns) : \A c \in Int : \A w \in Word :
                Cons(c, w) \in L[m] <=> c \in DOMAIN ns[m].edges /\ w \in L[ns[m].edges[c]]
<1>1. /\ ns \in Nodes /\ Len(ns) >= 1 /\ Spells(ns, L) /\ L[1] = W /\ R \subseteq 2 .. Len(ns)
      /\ \A m \in 1 .. Len(ns) : \A c \in DOMAIN ns[m].edges : ns[m].edges[c] \in R
      /\ \A m \in 2 .. Len(ns) : L[m] # {}
      /\ \A m \in 1 .. Len(ns) : \A w \in L[m] : Len(w) <= K
  BY DEF Finished
<1>2. Len(ns) \in Nat /\ DOMAIN ns = 1 .. Len(ns) /\ \A m \in 1 .. Len(ns) : ns[m] \in NodeOver(Int)
  BY <1>1, LenProperties, ElementOfSeq DEF Nodes
<1>3. 1 \in 1 .. Len(ns) /\ R \subseteq 1 .. Len(ns) /\ 1 \notin R
  <2>1. 1 \in 1 .. Len(ns) /\ \A m \in 2 .. Len(ns) : m \in 1 .. Len(ns) /\ m # 1
    BY <1>1, <1>2
  <2> QED  BY <1>1, <2>1
<1>4. \A m \in 1 .. Len(ns) : \A c \in DOMAIN ns[m].edges : c \in Int
  BY <1>2, NodeFacts
<1>5. L \in [1 .. Len(ns) -> SUBSET Word]
  BY <1>1 DEF Spells
<1>6. \A w \in Word : Len(w) \in Nat
  BY LenProperties DEF Word
<1>7. \A m \in 1 .. Len(ns) : \A w \in L[m] : w \in Word
  BY <1>5
<1> QED  BY <1>1, <1>2, <1>3, <1>4, <1>5, <1>6, <1>7 DEF Spells

(* What a node has if all nodes have it that its edges lead to, every node *)
(* has.                                                                    *)
LEMMA FromBelow ==
    ASSUME NEW ns, NEW W, NEW L, NEW R, NEW K \in Nat, Finished(ns, W, L, R, K), NEW T,
           \A m \in 1 .. Len(ns) : (\A c \in DOMAIN ns[m].edges : ns[m].edges[c] \in T) => m \in T
    PROVE  \A m \in 1 .. Len(ns) : m \in T
<1>1. /\ R \subseteq 1 .. Len(ns)
      /\ \A m \in 1 .. Len(ns) : \A c \in DOMAIN ns[m].edges : c \in Int /\ ns[m].edges[c] \in R
      /\ \A m \in R : L[m] # {}
      /\ \A m \in 1 .. Len(ns) : \A w \in L[m] : w \in Word /\ Len(w) \in Nat /\ Len(w) <= K
      /\ \A m \in 1 .. Len(ns) : \A c \in Int : \A w \in Word :
           Cons(c, w) \in L[m] <=> c \in DOMAIN ns[m].edges /\ w \in L[ns[m].edges[c]]
  BY FinishedFacts
<1> DEFINE S == {k \in 0 .. K + 1 : \A m \in 1 .. Len(ns) : (\A w \in L[m] : Len(w) < k) => m \in T}
<1>2. ASSUME NEW m \in 1 .. Len(ns), NEW c \in DOMAIN ns[m].edges, NEW w \in L[ns[m].edges[c]]
      PROVE  Cons(c, w) \in L[m] /\ Len(Cons(c, w)) = Len(w) + 1
  <2>1. c \in Int /\ ns[m].edges[c] \in 1 .. Len(ns)
    BY <1>1
  <2>2. w \in Word
    BY <1>1, <2>1
  <2>3. Cons(c, w) \in L[m]
    BY <1>1, <2>1, <2>2
  <2>4. Len(Cons(c, w)) = Len(w) + 1
    BY <2>1, <2>2, ConsFacts DEF Word, IsCons
  <2> QED  BY <2>3, <2>4
<1>3. ASSUME NEW m \in 1 .. Len(ns), NEW k \in Nat, \A w \in L[m] : Len(w) < k,
             NEW c \in DOMAIN ns[m].edges
      PROVE  k >= 1 /\ \A w \in L[ns[m].edges[c]] : Len(w) < k - 1
  <2>1. ns[m].edges[c] \in R /\ ns[m].edges[c] \in 1 .. Len(ns)
    BY <1>1
  <2>2. \A w \in L[ns[m].edges[c]] : Len(w) \in Nat /\ Len(w) + 1 < k
    BY <1>1, <1>2, <1>3, <2>1
  <2>3. PICK w : w \in L[ns[m].edges[c]]
    BY <1>1, <2>1
  <2> QED  BY <2>2, <2>3
<1>4. 0 \in S
  <2>1. 0 \in 0 .. K + 1
    OBVIOUS
  <2>2. ASSUME NEW m \in 1 .. Len(ns), \A w \in L[m] : Len(w) < 0 PROVE m \in T
    <3>1. \A c \in DOMAIN ns[m].edges : 0 >= 1
      BY <1>3, <2>2
    <3> QED  BY <3>1
  <2> QED  BY <2>1, <2>2
<1>5. ASSUME NEW k \in 1 .. K + 1, k - 1 \in S PROVE k \in S
  <2>1. ASSUME NEW m \in 1 .. Len(ns), \A w \in L[m] : Len(w) < k PROVE m \in T
    <3>1. \A c \in DOMAIN ns[m].edges : ns[m].edges[c] \in 1 .. Len(ns) /\ \A w \in L[ns[m].edges[c]] : Len(w) < k - 1
      <4>1. k \in Nat
        OBVIOUS
      <4> HIDE DEF S
      <4> QED  BY <1>1, <1>3, <2>1, <4>1
    <3>2. \A c \in DOMAIN ns[m].edges : ns[m].edges[c] \in T
      BY <1>5, <3>1
    <3> QED  BY <3>2
  <2> QED  BY <2>1
<1> HIDE DEF S
<1>6. \A k \in 0 .. K + 1 : k \in S
  <2>1. K + 1 \in Nat
    OBVIOUS
  <2> QED  BY <1>4, <1>5, <2>1, CountUp
<1>7. K + 1 \in S
  BY <1>6
<1>8. \A m \in 1 .. Len(ns) : \A w \in L[m] : Len(w) < K + 1
  BY <1>1
<1> QED  BY <1>7, <1>8 DEF S

(* What toArray computes.                                                  *)
Words(ns, f, m) ==
    (IF ns[m].final THEN {<<>>} ELSE {}) \cup
    UNION {{<<c>> \o w : w \in f[ns[m].edges[c]]} : c \in DOMAIN ns[m].edges}

LEMMA WordsAre ==
    ASSUME NEW ns, NEW W, NEW L, NEW R, NEW K, Finished(ns, W, L, R, K), NEW m \in 1 .. Len(ns),
           NEW f, \A c \in DOMAIN ns[m].edges : f[ns[m].edges[c]] = L[ns[m].edges[c]]
    PROVE  Words(ns, f, m) = L[m]
<1>1. /\ R \subseteq 1 .. Len(ns)
      /\ \A c \in DOMAIN ns[m].edges : c \in Int /\ ns[m].edges[c] \in R
      /\ \A n \in 1 .. Len(ns) : \A w \in L[n] : w \in Word
      /\ <<>> \in L[m] <=> ns[m].final
      /\ \A c \in Int : \A w \in Word :
           Cons(c, w) \in L[m] <=> c \in DOMAIN ns[m].edges /\ w \in L[ns[m].edges[c]]
  BY FinishedFacts
<1>2. ASSUME NEW v \in Words(ns, f, m) PROVE v \in L[m]
  <2>1. CASE ns[m].final /\ v = <<>>
    BY <1>1, <2>1
  <2>2. CASE ~(ns[m].final /\ v = <<>>)
    <3>1. PICK c \in DOMAIN ns[m].edges : \E w \in f[ns[m].edges[c]] : v = <<c>> \o w
      BY <1>2, <2>2 DEF Words
    <3>2. PICK w \in f[ns[m].edges[c]] : v = <<c>> \o w
      BY <3>1
    <3>3. c \in Int /\ w \in L[ns[m].edges[c]] /\ w \in Word /\ v = Cons(c, w)
      BY <1>1, <3>1, <3>2 DEF Cons
    <3> QED  BY <1>1, <3>3
  <2> QED  BY <2>1, <2>2
<1>3. ASSUME NEW v \in L[m] PROVE v \in Words(ns, f, m)
  <2>1. CASE v = <<>>
    BY <1>1, <1>3, <2>1 DEF Words
  <2>2. CASE v # <<>>
    <3>1. v \in Seq(Int)
      BY <1>1, <1>3 DEF Word
    <3>2. PICK c, w : c \in Int /\ w \in Word /\ v = Cons(c, w)
      BY <2>2, <3>1, WordCases DEF Word
    <3>3. c \in DOMAIN ns[m].edges /\ w \in f[ns[m].edges[c]]
      BY <1>1, <1>3, <3>2
    <3> QED  BY <3>2, <3>3 DEF Words, Cons
  <2> QED  BY <2>1, <2>2
<1> QED  BY <1>2, <1>3

LEMMA ToArrayIs ==
    ASSUME NEW ns, NEW W, NEW L, NEW R, NEW K \in Nat, Finished(ns, W, L, R, K)
    PROVE  \A n \in 1 .. Len(ns) : toArray(ns, n) = L[n]
<1> DEFINE eq(f) == f = [m \in DOMAIN ns |-> Words(ns, f, m)]
<1>1. /\ DOMAIN ns = 1 .. Len(ns) /\ L \in [1 .. Len(ns) -> SUBSET Word]
      /\ \A m \in 1 .. Len(ns) : \A c \in DOMAIN ns[m].edges : ns[m].edges[c] \in R
      /\ R \subseteq 1 .. Len(ns)
  BY FinishedFacts
<1>2. \A n : toArray(ns, n) = (CHOOSE f : eq(f))[n]
  BY DEF toArray, Words
<1>3. \E f : eq(f)
  <2>1. \A m \in 1 .. Len(ns) : Words(ns, L, m) = L[m]
    BY WordsAre
  <2>2. L = [m \in DOMAIN ns |-> L[m]]
    BY <1>1
  <2>3. eq(L)
    BY <1>1, <2>1, <2>2
  <2> QED  BY <2>3
<1> DEFINE f == CHOOSE f : eq(f)
<1>4. eq(f)
  BY <1>3
<1>5. \A n : toArray(ns, n) = f[n]
  BY <1>2
<1> HIDE DEF f
<1>6. \A m \in 1 .. Len(ns) : f[m] = Words(ns, f, m)
  BY <1>1, <1>4
<1> DEFINE T == {m \in 1 .. Len(ns) : f[m] = L[m]}
<1>7. ASSUME NEW m \in 1 .. Len(ns), \A c \in DOMAIN ns[m].edges : ns[m].edges[c] \in T
      PROVE  m \in T
  <2>1. \A c \in DOMAIN ns[m].edges : f[ns[m].edges[c]] = L[ns[m].edges[c]]
    BY <1>7
  <2>2. Words(ns, f, m) = L[m]
    BY <2>1, WordsAre
  <2> QED  BY <1>6, <2>2
<1> HIDE DEF T
<1>8. \A m \in 1 .. Len(ns) : m \in T
  BY <1>7, FromBelow
<1> USE DEF T
<1> QED  BY <1>5, <1>8

(* A set of nodes no edge leads out of; what is in each of them that has m.*)
ClosedIn(ns, X) == \A m \in X : \A c \in DOMAIN ns[m].edges : ns[m].edges[c] \in X
Closure(ns, m) ==
    {n \in 1 .. Len(ns) : \A X \in SUBSET (1 .. Len(ns)) : m \in X /\ ClosedIn(ns, X) => n \in X}
Below(ns, f, m) == {m} \cup UNION {f[ns[m].edges[c]] : c \in DOMAIN ns[m].edges}

LEMMA ClosureIs ==
    ASSUME NEW ns, \A m \in 1 .. Len(ns) : \A c \in DOMAIN ns[m].edges : ns[m].edges[c] \in 1 .. Len(ns),
           NEW f, f = [m \in 1 .. Len(ns) |-> Closure(ns, m)]
    PROVE  \A m \in 1 .. Len(ns) : f[m] = Below(ns, f, m)
<1>1. PICK A : A = 1 .. Len(ns)
  OBVIOUS
<1>2. \A m \in A : f[m] = Closure(ns, m)
  BY <1>1
<1>3. \A m \in A : \A c \in DOMAIN ns[m].edges : ns[m].edges[c] \in A
  BY <1>1
<1>4. \A m, n : n \in Closure(ns, m) <=> n \in A /\ \A X \in SUBSET A : m \in X /\ ClosedIn(ns, X) => n \in X
  BY <1>1 DEF Closure
<1>5. \A m \in A : m \in Closure(ns, m)
  BY <1>4
<1>6. ASSUME NEW m, NEW n \in Closure(ns, m), NEW c \in DOMAIN ns[n].edges
      PROVE  ns[n].edges[c] \in Closure(ns, m)
  <2>1. n \in A
    BY <1>4
  <2>2. ASSUME NEW X \in SUBSET A, m \in X, ClosedIn(ns, X) PROVE ns[n].edges[c] \in X
    <3>1. n \in X
      BY <1>4, <2>2
    <3> QED  BY <2>2, <3>1 DEF ClosedIn
  <2> QED  BY <1>3, <1>4, <2>1, <2>2
<1>7. ASSUME NEW m \in A PROVE Closure(ns, m) \subseteq Below(ns, f, m)
  <2> DEFINE X == Below(ns, f, m)
  <2>1. X = {m} \cup UNION {Closure(ns, ns[m].edges[c]) : c \in DOMAIN ns[m].edges}
    BY <1>2, <1>3 DEF Below
  <2>2. X \in SUBSET A
    BY <1>4, <2>1
  <2>3. ASSUME NEW n \in X, NEW c \in DOMAIN ns[n].edges PROVE ns[n].edges[c] \in X
    <3>1. CASE n = m
      <4>1. ns[m].edges[c] \in Closure(ns, ns[m].edges[c])
        BY <1>3, <1>5, <2>3, <3>1
      <4> QED  BY <2>1, <2>3, <3>1, <4>1
    <3>2. CASE n # m
      <4>1. PICK d \in DOMAIN ns[m].edges : n \in Closure(ns, ns[m].edges[d])
        BY <2>1, <2>3, <3>2
      <4>2. ns[n].edges[c] \in Closure(ns, ns[m].edges[d])
        BY <1>6, <2>3, <4>1
      <4> QED  BY <2>1, <4>2
    <3> QED  BY <3>1, <3>2
  <2>4. m \in X
    BY <2>1
  <2> HIDE DEF X
  <2>5. ClosedIn(ns, X)
    BY <2>3 DEF ClosedIn
  <2>6. Closure(ns, m) \subseteq X
    BY <1>4, <2>2, <2>4, <2>5
  <2> QED  BY <2>6 DEF X
<1>8. ASSUME NEW m \in A PROVE Below(ns, f, m) \subseteq Closure(ns, m)
  <2>1. ASSUME NEW c \in DOMAIN ns[m].edges, NEW n \in f[ns[m].edges[c]] PROVE n \in Closure(ns, m)
    <3>1. n \in Closure(ns, ns[m].edges[c]) /\ n \in A
      BY <1>2, <1>3, <1>4, <2>1
    <3>2. ASSUME NEW X \in SUBSET A, m \in X, ClosedIn(ns, X) PROVE n \in X
      <4>1. ns[m].edges[c] \in X
        BY <2>1, <3>2 DEF ClosedIn
      <4> QED  BY <1>4, <3>1, <3>2, <4>1
    <3> QED  BY <1>4, <3>1, <3>2
  <2>2. m \in Closure(ns, m)
    BY <1>5
  <2> QED  BY <2>1, <2>2 DEF Below
<1> QED  BY <1>1, <1>2, <1>7, <1>8

(* Reach goes down: to nodes that stand for shorter words.                 *)
Beyond(L, m, n) == \A v \in L[n] : \E w \in L[m] : Len(w) > Len(v)

LEMMA ReachIs ==
    ASSUME NEW ns, NEW W, NEW L, NEW R, NEW K \in Nat, Finished(ns, W, L, R, K)
    PROVE  \A n \in Reach(ns, 1) : n = 1 \/ (n \in R /\ Beyond(L, 1, n))
<1> DEFINE eq(f) == f = [m \in DOMAIN ns |-> Below(ns, f, m)]
<1>1. /\ DOMAIN ns = 1 .. Len(ns) /\ 1 \in 1 .. Len(ns)
      /\ \A m \in 1 .. Len(ns) : \A c \in DOMAIN ns[m].edges : c \in Int /\ ns[m].edges[c] \in R
      /\ R \subseteq 1 .. Len(ns)
      /\ \A m \in 1 .. Len(ns) : \A w \in L[m] : w \in Word /\ Len(w) \in Nat /\ Len(w) <= K
      /\ \A m \in 1 .. Len(ns) : \A c \in Int : \A w \in Word :
           Cons(c, w) \in L[m] <=> c \in DOMAIN ns[m].edges /\ w \in L[ns[m].edges[c]]
  BY FinishedFacts
<1>2. Reach(ns, 1) = (CHOOSE f : eq(f))[1]
  BY DEF Reach, Below
<1>3. \E f : eq(f)
  <2> DEFINE f == [m \in 1 .. Len(ns) |-> Closure(ns, m)]
  <2>0. \A m \in 1 .. Len(ns) : \A c \in DOMAIN ns[m].edges : ns[m].edges[c] \in 1 .. Len(ns)
    BY <1>1
  <2>1. f = [m \in 1 .. Len(ns) |-> f[m]]
    OBVIOUS
  <2>2. \A m \in 1 .. Len(ns) : f[m] = Below(ns, f, m)
    BY <2>0, ClosureIs
  <2> HIDE DEF f
  <2>3. eq(f)
    BY <1>1, <2>1, <2>2
  <2> QED  BY <2>3
<1> DEFINE f == CHOOSE f : eq(f)
<1>4. eq(f)
  BY <1>3
<1>5. Reach(ns, 1) = f[1]
  BY <1>2
<1> HIDE DEF f
<1>6. \A m \in 1 .. Len(ns) : f[m] = Below(ns, f, m)
  BY <1>1, <1>4
<1> DEFINE T == {m \in 1 .. Len(ns) : \A n \in f[m] : n = m \/ (n \in R /\ Beyond(L, m, n))}
<1>7. ASSUME NEW m \in 1 .. Len(ns), \A c \in DOMAIN ns[m].edges : ns[m].edges[c] \in T
      PROVE  m \in T
  <2>1. ASSUME NEW n \in f[m], n # m PROVE n \in R /\ Beyond(L, m, n)
    <3>1. PICK c \in DOMAIN ns[m].edges : n \in f[ns[m].edges[c]]
      BY <1>6, <2>1 DEF Below
    <3>2. PICK e \in R : e = ns[m].edges[c]
      BY <1>1
    <3>3. n = e \/ (n \in R /\ Beyond(L, e, n))
      BY <1>7, <3>1, <3>2
    <3>4. n \in R /\ n \in 1 .. Len(ns) /\ e \in 1 .. Len(ns)
      BY <1>1, <3>2, <3>3
    <3>5. ASSUME NEW u \in L[e] PROVE \E w \in L[m] : Len(w) = Len(u) + 1 /\ Len(u) \in Nat
      <4>1. u \in Word /\ Len(u) \in Nat /\ c \in Int
        BY <1>1, <3>4
      <4>2. Cons(c, u) \in L[m]
        BY <1>1, <3>2, <4>1
      <4>3. Len(Cons(c, u)) = Len(u) + 1
        BY <4>1, ConsFacts DEF Word, IsCons
      <4> QED  BY <4>1, <4>2, <4>3
    <3>6. ASSUME NEW v \in L[n] PROVE \E w \in L[m] : Len(w) > Len(v)
      <4>1. Len(v) \in Nat
        BY <1>1, <3>4
      <4>2. PICK u \in L[e] : Len(u) >= Len(v)
        <5>1. CASE n = e
          BY <4>1, <5>1
        <5>2. CASE Beyond(L, e, n)
          <6>1. PICK u \in L[e] : Len(u) > Len(v)
            BY <5>2 DEF Beyond
          <6>2. Len(u) \in Nat
            BY <1>1, <3>4
          <6> QED  BY <4>1, <6>1, <6>2
        <5> QED  BY <3>3, <5>1, <5>2
      <4>3. PICK w \in L[m] : Len(w) = Len(u) + 1 /\ Len(u) \in Nat
        BY <3>5
      <4> QED  BY <4>1, <4>2, <4>3
    <3> QED  BY <3>4, <3>6 DEF Beyond
  <2> QED  BY <2>1
<1> HIDE DEF T
<1>8. \A m \in 1 .. Len(ns) : m \in T
  BY <1>7, FromBelow
<1> QED  BY <1>1, <1>5, <1>8 DEF T

(* No two nodes of the automaton stand for the same words.                 *)
LEMMA LeastAutomaton ==
    ASSUME NEW ns, NEW W, NEW L, NEW R, NEW K \in Nat, Finished(ns, W, L, R, K)
    PROVE  \A m, n \in Reach(ns, 1) : L[m] = L[n] => m = n
<1>1. /\ R \subseteq 1 .. Len(ns) /\ 1 \in 1 .. Len(ns)
      /\ \A m \in 1 .. Len(ns) : ns[m] \in NodeOver(Int)
      /\ \A m \in 1 .. Len(ns) : \A c \in DOMAIN ns[m].edges : c \in Int /\ ns[m].edges[c] \in R
      /\ \A m \in R : L[m] # {}
      /\ \A m \in 1 .. Len(ns) : \A w \in L[m] : w \in Word /\ Len(w) \in Nat /\ Len(w) <= K
      /\ \A m \in 1 .. Len(ns) : <<>> \in L[m] <=> ns[m].final
      /\ \A m \in 1 .. Len(ns) : \A c \in Int : \A w \in Word :
           Cons(c, w) \in L[m] <=> c \in DOMAIN ns[m].edges /\ w \in L[ns[m].edges[c]]
  BY FinishedFacts
<1>2. \A m, n \in R : ns[m] = ns[n] => m = n
  BY DEF Finished
<1> DEFINE T == {m \in 1 .. Len(ns) : m \in R => \A n \in R : L[m] = L[n] => m = n}
<1>3. ASSUME NEW m \in R, NEW n \in R, L[m] = L[n], NEW c \in DOMAIN ns[m].edges
      PROVE  c \in DOMAIN ns[n].edges /\ L[ns[m].edges[c]] \subseteq L[ns[n].edges[c]]
  <2>1. m \in 1 .. Len(ns) /\ n \in 1 .. Len(ns) /\ c \in Int /\ ns[m].edges[c] \in R
    BY <1>1
  <2>2. \A w \in L[ns[m].edges[c]] : w \in Word
    BY <1>1, <2>1
  <2>3. \A w \in L[ns[m].edges[c]] : Cons(c, w) \in L[n]
    BY <1>1, <1>3, <2>1, <2>2
  <2>4. \A w \in L[ns[m].edges[c]] : c \in DOMAIN ns[n].edges /\ w \in L[ns[n].edges[c]]
    BY <1>1, <2>1, <2>2, <2>3
  <2> QED  BY <1>1, <2>1, <2>4
<1>4. ASSUME NEW m \in 1 .. Len(ns), \A c \in DOMAIN ns[m].edges : ns[m].edges[c] \in T
      PROVE  m \in T
  <2>1. ASSUME m \in R, NEW n \in R, L[m] = L[n] PROVE m = n
    <3>1. DOMAIN ns[m].edges = DOMAIN ns[n].edges
      BY <1>3, <2>1
    <3>2. ASSUME NEW c \in DOMAIN ns[m].edges PROVE ns[m].edges[c] = ns[n].edges[c]
      <4>1. L[ns[m].edges[c]] = L[ns[n].edges[c]]
        BY <1>3, <2>1, <3>1
      <4>2. ns[m].edges[c] \in R /\ ns[n].edges[c] \in R
        BY <1>1, <2>1, <3>1
      <4> QED  BY <1>4, <4>1, <4>2
    <3>3. ns[m] \in NodeOver(Int) /\ ns[n] \in NodeOver(Int) /\ ns[m].final = ns[n].final
      <4>1. m \in 1 .. Len(ns) /\ n \in 1 .. Len(ns)
        BY <1>1
      <4>2. ns[m] \in NodeOver(Int) /\ ns[n] \in NodeOver(Int)
        BY <1>1, <4>1
      <4>3. ns[m].final <=> ns[n].final
        BY <1>1, <2>1, <4>1
      <4> QED  BY <4>2, <4>3, NodeFacts
    <3>4. ns[m].edges = ns[n].edges
      <4>1. /\ ns[m].edges = [c \in DOMAIN ns[m].edges |-> ns[m].edges[c]]
            /\ ns[n].edges = [c \in DOMAIN ns[n].edges |-> ns[n].edges[c]]
        BY <3>3, NodeFacts
      <4> QED  BY <3>1, <3>2, <4>1
    <3>5. /\ ns[m] = [final |-> ns[m].final, edges |-> ns[m].edges]
          /\ ns[n] = [final |-> ns[n].final, edges |-> ns[n].edges]
      BY <3>3, NodeFacts
    <3>6. ns[m] = ns[n]
      BY <3>3, <3>4, <3>5
    <3> QED  BY <1>2, <2>1, <3>6
  <2> QED  BY <2>1
<1> HIDE DEF T
<1>5. \A m \in 1 .. Len(ns) : m \in T
  BY <1>4, FromBelow
<1>6. \A m, n \in R : L[m] = L[n] => m = n
  BY <1>1, <1>5 DEF T
<1>7. ASSUME NEW n \in R, L[n] = L[1], Beyond(L, 1, n) PROVE FALSE
  <2> DEFINE S == {K - Len(w) : w \in L[n]}
  <2>1. S \in SUBSET Nat /\ S # {}
    BY <1>1
  <2> HIDE DEF S
  <2>2. PICK k \in S : \A l \in S : k <= l
    BY <2>1, LeastNumber
  <2> USE DEF S
  <2>3. PICK v \in L[n] : k = K - Len(v)
    BY <2>2
  <2>4. PICK w \in L[1] : Len(w) > Len(v)
    BY <1>7 DEF Beyond
  <2>5. K - Len(w) \in S /\ Len(w) \in Nat /\ Len(v) \in Nat
    BY <1>1, <1>7, <2>4
  <2> HIDE DEF S
  <2>6. k <= K - Len(w)
    BY <2>2, <2>5
  <2> QED  BY <2>3, <2>4, <2>5, <2>6
<1>8. \A n \in Reach(ns, 1) : n = 1 \/ (n \in R /\ Beyond(L, 1, n))
  BY ReachIs
<1> QED  BY <1>6, <1>7, <1>8

(* The terms are the words of the documents.                               *)
LEMMA TermsAreAdded ==
    ASSUME IndexInv, index # <<>>
    PROVE  /\ IsFiniteSet(Terms) /\ Terms \subseteq Word
           /\ Terms = UNION {Added(d) : d \in Docs}
           /\ index = [vectors |-> createFieldVectors, tokenSet |-> createTokenSet(Terms)]
           /\ \A k \in Docs \X Fields : FieldTexts[k] = text[k[1]][k[2]] /\ FieldTexts[k] \in Seq(Word)
           /\ Built([freq |-> frequencies, inv |-> invertedIndex], FieldTexts)
<1>1. PICK b, ws : b = [freq |-> frequencies, inv |-> invertedIndex] /\ ws = FieldTexts
  OBVIOUS
<1>2. b.freq = frequencies /\ b.inv = invertedIndex
  BY <1>1
<1>3. /\ text \in [Docs -> [Fields -> Texts] \cup {<<>>}] /\ Built(b, ws)
      /\ \A d \in Docs : text[d] # <<>>
      /\ index = [vectors |-> createFieldVectors, tokenSet |-> createTokenSet(Terms)]
  BY <1>1 DEF IndexInv
<1>4. b \in Builders /\ Numbered(b.inv) /\ Posted(b.inv, ws)
  BY <1>3 DEF Built
<1>5. IsFiniteSet(Terms) /\ Terms \subseteq Word
  <2>1. invertedIndex \in Inverted
    BY <1>2, <1>4 DEF Builders
  <2>2. Terms \subseteq Word
    BY <2>1 DEF Inverted, Terms
  <2>3. IsFiniteSet(Terms)
    BY <1>2, <1>4 DEF Numbered, Terms
  <2> QED  BY <2>2, <2>3
<1>6. ASSUME NEW k \in Docs \X Fields PROVE ws[k] = text[k[1]][k[2]] /\ ws[k] \in Seq(Word)
  <2>1. k[1] \in Docs
    OBVIOUS
  <2>2. ws[k] = text[k[1]][k[2]]
    BY <1>1, <1>3, <2>1 DEF FieldTexts
  <2>3. ws[k] \in Seq(Word)
    BY <1>1, <1>3, FieldTextsAreTexts
  <2> QED  BY <2>2, <2>3
<1>7. ASSUME NEW k \in Docs \X Fields, NEW w
      PROVE  Has(ws[k], w) <=> w \in ToSet(ws[k])
  <2>1. ws[k] \in Seq(Word)
    BY <1>6
  <2>2. DOMAIN ws[k] = 1 .. Len(ws[k])
    BY <2>1, LenProperties
  <2> QED  BY <2>2 DEF Has, ToSet
<1>8. ASSUME NEW w \in Terms PROVE w \in UNION {Added(d) : d \in Docs}
  <2>1. w \in Word /\ w \in DOMAIN b.inv
    BY <1>2, <1>5 DEF Terms
  <2>2. PICK k \in Docs \X Fields : Has(ws[k], w)
    BY <1>4, <2>1 DEF Posted
  <2>3. k[1] \in Docs /\ k[2] \in Fields
    OBVIOUS
  <2>4. w \in ToSet(text[k[1]][k[2]])
    BY <1>6, <1>7, <2>2
  <2>5. w \in Added(k[1])
    BY <2>3, <2>4 DEF Added
  <2> QED  BY <2>3, <2>5
<1>9. ASSUME NEW d \in Docs, NEW w \in Added(d) PROVE w \in Terms
  <2>1. PICK f \in Fields : w \in ToSet(text[d][f])
    BY <1>9 DEF Added
  <2>2. PICK k \in Docs \X Fields : k = <<d, f>>
    OBVIOUS
  <2>3. k[1] = d /\ k[2] = f
    BY <2>2
  <2>4. Has(ws[k], w)
    BY <1>6, <1>7, <2>1, <2>3
  <2>5. w \in Word
    <3>1. PICK i \in 1 .. Len(ws[k]) : ws[k][i] = w
      BY <2>4 DEF Has
    <3> QED  BY <1>6, <3>1, ElementOfSeq
  <2>6. w \in DOMAIN b.inv
    BY <1>4, <2>4, <2>5 DEF Posted
  <2> QED  BY <1>2, <2>6 DEF Terms
<1> QED  BY <1>1, <1>3, <1>5, <1>6, <1>8, <1>9

LEMMA AutomatonOfTerms == IndexInv => AutomatonIsTheTerms
<1> SUFFICES ASSUME IndexInv, index # <<>>
             PROVE  /\ toArray(index.tokenSet, 1) = UNION {Added(d) : d \in Docs}
                    /\ \A m, n \in Reach(index.tokenSet, 1) :
                         toArray(index.tokenSet, m) = toArray(index.tokenSet, n) => m = n
  BY DEF AutomatonIsTheTerms
<1>1. /\ IsFiniteSet(Terms) /\ Terms \subseteq Word /\ Terms = UNION {Added(d) : d \in Docs}
      /\ index = [vectors |-> createFieldVectors, tokenSet |-> createTokenSet(Terms)]
  BY TermsAreAdded
<1>2. PICK ns, S : ns = index.tokenSet /\ S = Terms
  OBVIOUS
<1>3. ns = fromArray(InOrder(S))
  BY <1>1, <1>2 DEF createTokenSet
<1>4. S \in SUBSET Word /\ IsFiniteSet(S)
  BY <1>1, <1>2
<1>5. PICK s : s = InOrder(S) /\ Ordered(s, S)
  BY <1>4, InOrderOrders
<1>6. Automaton(ns, S)
  BY <1>3, <1>5, ArrayIsAutomaton
<1>7. PICK L, R : \E K \in Nat : Finished(ns, S, L, R, K)
  BY <1>6 DEF Automaton
<1>8. PICK K \in Nat : Finished(ns, S, L, R, K)
  BY <1>7
<1>9. \A n \in 1 .. Len(ns) : toArray(ns, n) = L[n]
  BY <1>8, ToArrayIs
<1>10. 1 \in 1 .. Len(ns) /\ L[1] = S /\ R \subseteq 1 .. Len(ns)
  BY <1>8, FinishedFacts
<1>11. \A n \in Reach(ns, 1) : n \in 1 .. Len(ns)
  BY <1>8, <1>10, ReachIs
<1>12. \A m, n \in Reach(ns, 1) : L[m] = L[n] => m = n
  BY <1>8, LeastAutomaton
<1>13. toArray(ns, 1) = UNION {Added(d) : d \in Docs}
  BY <1>1, <1>2, <1>9, <1>10
<1>14. \A m, n \in Reach(ns, 1) : toArray(ns, m) = toArray(ns, n) => m = n
  BY <1>9, <1>11, <1>12
<1> QED  BY <1>2, <1>13, <1>14, Zenon

(* AutomatonIsTheTerms: once build has run, the automaton of TokenSet.     *)
(* Builder holds the terms of the documents and no other word, and no two  *)
(* of the nodes it reaches stand for the same words, whatever the words    *)
(* without digits are and however many.                                    *)
THEOREM AutomatonHolds == IndexSpec => []AutomatonIsTheTerms
<1>1. IndexInv => AutomatonIsTheTerms
  BY AutomatonOfTerms
<1> QED  BY <1>1, IndexInvHolds, PTL

-----------------------------------------------------------------------------
(* What a clause stands for                                                *)

LEMMA AfterCons ==
    ASSUME NEW S, NEW c \in S, NEW v \in Seq(S)
    PROVE  /\ \A i \in 0 .. Len(v) : After(Cons(c, v), i + 1) = After(v, i)
           /\ Len(Cons(c, v)) = Len(v) + 1 /\ Cons(c, v) # <<>> /\ Cons(c, v) \in Seq(S)
<1>1. PICK u : u = Cons(c, v)
  OBVIOUS
<1>2. /\ Len(u) = Len(v) + 1 /\ u # <<>> /\ u \in Seq(S) /\ \A i \in 1 .. Len(v) : u[i + 1] = v[i]
      /\ Len(v) \in Nat
  <2>1. u \in Seq(S) /\ IsCons(u, c, v)
    BY <1>1, ConsFacts
  <2> QED  BY <2>1, LenProperties DEF IsCons
<1>3. ASSUME NEW i \in 0 .. Len(v) PROVE After(u, i + 1) = After(v, i)
  <2>1. Len(u) - (i + 1) = Len(v) - i
    BY <1>2
  <2>2. \A j \in 1 .. Len(v) - i : u[(i + 1) + j] = v[i + j]
    <3> SUFFICES ASSUME NEW j \in 1 .. Len(v) - i PROVE u[(i + 1) + j] = v[i + j]
      OBVIOUS
    <3>1. i + j \in 1 .. Len(v) /\ (i + j) + 1 = (i + 1) + j
      BY <1>2
    <3> QED  BY <1>2, <3>1
  <2> QED  BY <2>1, <2>2 DEF After
<1> QED  BY <1>1, <1>2, <1>3

(* G[j] are the words that what is left of e after j stands for.           *)
Clause == Seq(Int \cup {Star})
SuffixSets(G, e) ==
    /\ G \in [0 .. Len(e) -> SUBSET Word] /\ G[Len(e)] = {<<>>}
    /\ \A j \in 1 .. Len(e) :
         G[j - 1] = IF e[j] = Star THEN {v \in Word : \E i \in 0 .. Len(v) : After(v, i) \in G[j]}
                                   ELSE {Cons(e[j], v) : v \in G[j]}

LEMMA SuffixesExist ==
    ASSUME NEW e \in Clause
    PROVE  \E G : SuffixSets(G, e)
<1> DEFINE n == Len(e)
           step(c, X) == IF c = Star THEN {v \in Word : \E i \in 0 .. Len(v) : After(v, i) \in X}
                                     ELSE {Cons(c, v) : v \in X}
           D == [i \in 0 .. n |-> SUBSET Word]
           turn == [i \in 1 .. n |-> [X \in SUBSET Word |-> step(e[n - i + 1], X)]]
<1>1. n \in Nat /\ \A i \in 1 .. n : e[i] \in Int \cup {Star}
  BY LenProperties, ElementOfSeq DEF Clause
<1>2. {<<>>} \in D[0]
  <2>1. <<>> \in Word /\ 0 \in 0 .. n
    BY <1>1, EmptySeq DEF Word
  <2> QED  BY <2>1
<1>3. ASSUME NEW c \in Int \cup {Star}, NEW X \in SUBSET Word PROVE step(c, X) \in SUBSET Word
  <2>1. CASE c = Star
    BY <2>1
  <2>2. CASE c # Star
    <3>1. c \in Int
      BY <2>2
    <3>2. \A v \in X : Cons(c, v) \in Word
      BY <3>1, ConsFacts DEF Word
    <3> QED  BY <2>2, <3>2
  <2> QED  BY <2>1, <2>2
<1> HIDE DEF step
<1>4. ASSUME NEW i \in 1 .. n, NEW X \in D[i - 1] PROVE turn[i][X] \in D[i] /\ turn[i][X] = step(e[n - i + 1], X)
  <2>1. i - 1 \in 0 .. n /\ i \in 0 .. n /\ n - i + 1 \in 1 .. n
    BY <1>1
  <2>2. X \in SUBSET Word /\ e[n - i + 1] \in Int \cup {Star}
    BY <1>1, <2>1
  <2>3. step(e[n - i + 1], X) \in SUBSET Word
    BY <1>3, <2>2
  <2> QED  BY <2>1, <2>2, <2>3
<1> HIDE DEF D, turn
<1>5. Turns(n, D, turn)
  BY <1>4 DEF Turns
<1>6. PICK h : Loop(h, n, {<<>>}, turn) /\ \A i \in 0 .. n : h[i] \in D[i]
  <2> HIDE DEF n
  <2> QED  BY <1>1, <1>2, <1>5, LoopRuns
<1>7. h[0] = {<<>>} /\ \A i \in 1 .. n : h[i] = step(e[n - i + 1], h[i - 1])
  <2>1. 0 \in 0 .. n /\ \A i \in 1 .. n : i \in 0 .. n /\ i # 0 /\ i - 1 \in 0 .. n
    BY <1>1
  <2>2. h[0] = {<<>>} /\ \A i \in 1 .. n : h[i] = turn[i][h[i - 1]]
    BY <1>6, <2>1 DEF Loop
  <2> QED  BY <1>4, <1>6, <2>1, <2>2
<1>8. \A i \in 0 .. n : h[i] \in SUBSET Word
  BY <1>6 DEF D
<1> DEFINE G == [j \in 0 .. n |-> h[n - j]]
<1>9. G \in [0 .. n -> SUBSET Word]
  <2>1. \A j \in 0 .. n : n - j \in 0 .. n
    BY <1>1
  <2> QED  BY <1>8, <2>1
<1>10. G[n] = {<<>>}
  <2>1. n \in 0 .. n /\ n - n = 0
    BY <1>1
  <2> QED  BY <1>7, <2>1
<1>11. ASSUME NEW j \in 1 .. n PROVE G[j - 1] = step(e[j], G[j])
  <2>1. j - 1 \in 0 .. n /\ j \in 0 .. n /\ n - (j - 1) \in 1 .. n /\ (n - (j - 1)) - 1 = n - j /\ n - (n - (j - 1)) + 1 = j
    BY <1>1
  <2>2. G[j - 1] = h[n - (j - 1)] /\ G[j] = h[n - j]
    BY <2>1
  <2>3. PICK k \in 1 .. n : k = n - (j - 1)
    BY <2>1
  <2>4. h[k] = step(e[n - k + 1], h[k - 1])
    BY <1>7
  <2> QED  BY <2>1, <2>2, <2>3, <2>4
<1> HIDE DEF G
<1>12. SuffixSets(G, e)
  BY <1>9, <1>10, <1>11 DEF SuffixSets, step
<1> QED  BY <1>12

(* The wildcard stands for nothing, or for a character and once more for   *)
(* what it stands for; another character for itself.                       *)
LEMMA SuffixFacts ==
    ASSUME NEW e \in Clause, NEW G, SuffixSets(G, e), NEW j \in 1 .. Len(e)
    PROVE  /\ e[j] = Star =>
                /\ G[j] \subseteq G[j - 1]
                /\ \A c \in Int : \A v \in Word :
                     Cons(c, v) \in G[j - 1] <=> Cons(c, v) \in G[j] \/ v \in G[j - 1]
                /\ <<>> \in G[j - 1] => <<>> \in G[j]
           /\ e[j] # Star =>
                /\ e[j] \in Int /\ <<>> \notin G[j - 1]
                /\ \A c \in Int : \A v \in Word : Cons(c, v) \in G[j - 1] <=> c = e[j] /\ v \in G[j]
           /\ G[j] \subseteq Word /\ G[j - 1] \subseteq Word
<1>1. Len(e) \in Nat /\ e[j] \in Int \cup {Star}
  BY LenProperties, ElementOfSeq DEF Clause
<1>2. G[j] \subseteq Word /\ G[j - 1] \subseteq Word
  <2>1. j - 1 \in 0 .. Len(e) /\ j \in 0 .. Len(e)
    BY <1>1
  <2> QED  BY <2>1 DEF SuffixSets
<1>3. CASE e[j] = Star
  <2>1. G[j - 1] = {v \in Word : \E i \in 0 .. Len(v) : After(v, i) \in G[j]}
    BY <1>3 DEF SuffixSets
  <2>2. \A v \in Word : Len(v) \in Nat /\ 0 \in 0 .. Len(v) /\ After(v, 0) = v /\ After(v, Len(v)) = <<>>
    BY LenProperties, AfterFacts DEF Word
  <2>3. G[j] \subseteq G[j - 1]
    BY <1>2, <2>1, <2>2
  <2>4. ASSUME NEW c \in Int, NEW v \in Word
        PROVE  Cons(c, v) \in G[j - 1] <=> Cons(c, v) \in G[j] \/ v \in G[j - 1]
    <3>1. PICK u : u = Cons(c, v)
      OBVIOUS
    <3>2. /\ Len(u) = Len(v) + 1 /\ u \in Word
          /\ \A i \in 0 .. Len(v) : After(u, i + 1) = After(v, i)
      BY <3>1, AfterCons DEF Word
    <3>3. ASSUME v \in G[j - 1] PROVE u \in G[j - 1]
      <4>1. PICK i \in 0 .. Len(v) : After(v, i) \in G[j]
        BY <2>1, <3>3
      <4>2. i + 1 \in 0 .. Len(u)
        BY <2>2, <3>2
      <4> QED  BY <2>1, <3>2, <4>1, <4>2
    <3>4. ASSUME u \in G[j - 1], u \notin G[j] PROVE v \in G[j - 1]
      <4>1. PICK i \in 0 .. Len(u) : After(u, i) \in G[j]
        BY <2>1, <3>4
      <4>2. i # 0
        BY <2>2, <3>2, <3>4, <4>1
      <4>3. PICK k \in 0 .. Len(v) : k + 1 = i
        <5>1. i - 1 \in 0 .. Len(v) /\ (i - 1) + 1 = i
          BY <2>2, <3>2, <4>2
        <5> QED  BY <5>1
      <4>4. After(v, k) \in G[j]
        BY <3>2, <4>1, <4>3
      <4> QED  BY <2>1, <4>4
    <3> QED  BY <2>3, <3>1, <3>3, <3>4
  <2>5. ASSUME <<>> \in G[j - 1] PROVE <<>> \in G[j]
    <3>1. PICK v \in Word : v = <<>> /\ Len(v) = 0
      BY EmptySeq DEF Word
    <3>2. PICK i \in 0 .. Len(v) : After(v, i) \in G[j]
      BY <2>1, <2>5, <3>1
    <3>3. i = 0
      BY <3>1
    <3>4. After(v, 0) = v
      BY <2>2
    <3> QED  BY <3>1, <3>2, <3>3, <3>4
  <2> QED  BY <1>2, <1>3, <2>3, <2>4, <2>5
<1>4. CASE e[j] # Star
  <2>1. e[j] \in Int
    BY <1>1, <1>4
  <2>2. G[j - 1] = {Cons(e[j], v) : v \in G[j]}
    BY <1>4 DEF SuffixSets
  <2>3. \A c \in Int : \A v \in Word : Cons(c, v) # <<>>
    BY AfterCons DEF Word
  <2>4. <<>> \notin G[j - 1]
    BY <1>2, <2>1, <2>2, <2>3
  <2>5. ASSUME NEW c \in Int, NEW v \in Word
        PROVE  Cons(c, v) \in G[j - 1] <=> c = e[j] /\ v \in G[j]
    <3>1. ASSUME Cons(c, v) \in G[j - 1] PROVE c = e[j] /\ v \in G[j]
      <4>1. PICK w \in G[j] : Cons(c, v) = Cons(e[j], w)
        BY <2>2, <3>1
      <4>2. w \in Word
        BY <1>2, <4>1
      <4> QED  BY <2>1, <4>1, <4>2, ConsInjective DEF Word
    <3> QED  BY <2>2, <3>1
  <2> QED  BY <1>2, <1>4, <2>1, <2>4, <2>5
<1> QED  BY <1>3, <1>4

(* The last suffix is empty; fits says the same of what is left of a word. *)
LEMMA GlobIs ==
    ASSUME NEW e \in Clause, NEW G, SuffixSets(G, e), NEW w \in Word
    PROVE  Glob(w, e) <=> w # <<>> /\ w \in G[0]
<1> DEFINE Z == (0 .. Len(w)) \X (0 .. Len(e))
           rhs(f, z) == CASE z[2] = Len(e) -> z[1] = Len(w)
                          [] z[2] < Len(e) /\ e[z[2] + 1] = Star ->
                               f[<<z[1], z[2] + 1>>] \/ (z[1] < Len(w) /\ f[<<z[1] + 1, z[2]>>])
                          [] OTHER -> z[1] < Len(w) /\ w[z[1] + 1] = e[z[2] + 1] /\ f[<<z[1] + 1, z[2] + 1>>]
           eq(f) == f = [z \in Z |-> rhs(f, z)]
           mu == [z \in Z |-> (Len(w) - z[1]) + (Len(e) - z[2])]
           good(z) == After(w, z[1]) \in G[z[2]]
<1>1. Glob(w, e) <=> w # <<>> /\ (CHOOSE f : eq(f))[<<0, 0>>]
  BY DEF Glob
<1>2. /\ Len(w) \in Nat /\ Len(e) \in Nat /\ \A i \in 1 .. Len(w) : w[i] \in Int
  BY LenProperties, ElementOfSeq DEF Word, Clause
<1>3. /\ \A i \in 0 .. Len(w) : After(w, i) \in Word /\ Len(After(w, i)) = Len(w) - i
      /\ \A i \in 0 .. Len(w) - 1 : After(w, i) = Cons(w[i + 1], After(w, i + 1))
      /\ After(w, 0) = w /\ After(w, Len(w)) = <<>>
  BY AfterFacts DEF Word
<1>4. G[Len(e)] = {<<>>}
  BY DEF SuffixSets
<1>5. ASSUME NEW f, NEW z \in Z,
             z[2] < Len(e) => (f[<<z[1], z[2] + 1>>] <=> good(<<z[1], z[2] + 1>>)),
             z[1] < Len(w) => (f[<<z[1] + 1, z[2]>>] <=> good(<<z[1] + 1, z[2]>>)),
             z[1] < Len(w) /\ z[2] < Len(e) => (f[<<z[1] + 1, z[2] + 1>>] <=> good(<<z[1] + 1, z[2] + 1>>))
      PROVE  rhs(f, z) <=> good(z)
  <2>1. PICK i, j : i = z[1] /\ j = z[2] /\ z = <<i, j>>
    OBVIOUS
  <2>2. i \in 0 .. Len(w) /\ j \in 0 .. Len(e)
    BY <2>1
  <2>3. CASE j = Len(e)
    <3>1. rhs(f, z) <=> i = Len(w)
      BY <2>1, <2>3
    <3>2. good(z) <=> After(w, i) = <<>>
      BY <1>4, <2>1, <2>3
    <3>3. After(w, i) = <<>> => Len(w) - i = 0
      BY <1>3, <2>2, EmptySeq
    <3> QED  BY <1>2, <1>3, <2>2, <3>1, <3>2, <3>3
  <2>4. CASE j < Len(e) /\ e[j + 1] = Star
    <3>1. j # Len(e) /\ j + 1 \in 1 .. Len(e) /\ (j + 1) - 1 = j
      BY <1>2, <2>2, <2>4
    <3>2. rhs(f, z) <=> f[<<i, j + 1>>] \/ (i < Len(w) /\ f[<<i + 1, j>>])
      BY <2>1, <2>4, <3>1
    <3>3. (f[<<i, j + 1>>] <=> After(w, i) \in G[j + 1]) /\ (i < Len(w) => (f[<<i + 1, j>>] <=> After(w, i + 1) \in G[j]))
      BY <1>5, <2>1, <2>4
    <3>4. /\ G[j + 1] \subseteq G[j]
          /\ \A c \in Int : \A v \in Word : Cons(c, v) \in G[j] <=> Cons(c, v) \in G[j + 1] \/ v \in G[j]
          /\ <<>> \in G[j] => <<>> \in G[j + 1]
      BY <2>4, <3>1, SuffixFacts
    <3>5. good(z) <=> After(w, i) \in G[j]
      BY <2>1
    <3>6. CASE i < Len(w)
      <4>1. i \in 0 .. Len(w) - 1 /\ i + 1 \in 1 .. Len(w) /\ i + 1 \in 0 .. Len(w)
        BY <1>2, <2>2, <3>6
      <4>2. After(w, i) = Cons(w[i + 1], After(w, i + 1)) /\ w[i + 1] \in Int /\ After(w, i + 1) \in Word
        BY <1>2, <1>3, <4>1
      <4>3. After(w, i) \in G[j] <=> After(w, i) \in G[j + 1] \/ After(w, i + 1) \in G[j]
        BY <3>4, <4>2
      <4> QED  BY <3>2, <3>3, <3>5, <3>6, <4>3
    <3>7. CASE ~(i < Len(w))
      <4>1. i = Len(w)
        BY <1>2, <2>2, <3>7
      <4>2. After(w, i) = <<>>
        BY <1>3, <4>1
      <4> QED  BY <3>2, <3>3, <3>4, <3>5, <3>7, <4>2
    <3> QED  BY <3>6, <3>7
  <2>5. CASE j < Len(e) /\ e[j + 1] # Star
    <3>1. j # Len(e) /\ j + 1 \in 1 .. Len(e) /\ (j + 1) - 1 = j
      BY <1>2, <2>2, <2>5
    <3>2. rhs(f, z) <=> i < Len(w) /\ w[i + 1] = e[j + 1] /\ f[<<i + 1, j + 1>>]
      BY <2>1, <2>5, <3>1
    <3>3. i < Len(w) => (f[<<i + 1, j + 1>>] <=> After(w, i + 1) \in G[j + 1])
      BY <1>5, <2>1, <2>5
    <3>4. /\ e[j + 1] \in Int /\ <<>> \notin G[j]
          /\ \A c \in Int : \A v \in Word : Cons(c, v) \in G[j] <=> c = e[j + 1] /\ v \in G[j + 1]
      BY <2>5, <3>1, SuffixFacts
    <3>5. good(z) <=> After(w, i) \in G[j]
      BY <2>1
    <3>6. CASE i < Len(w)
      <4>1. i \in 0 .. Len(w) - 1 /\ i + 1 \in 1 .. Len(w) /\ i + 1 \in 0 .. Len(w)
        BY <1>2, <2>2, <3>6
      <4>2. After(w, i) = Cons(w[i + 1], After(w, i + 1)) /\ w[i + 1] \in Int /\ After(w, i + 1) \in Word
        BY <1>2, <1>3, <4>1
      <4>3. After(w, i) \in G[j] <=> w[i + 1] = e[j + 1] /\ After(w, i + 1) \in G[j + 1]
        BY <3>4, <4>2
      <4> QED  BY <3>2, <3>3, <3>5, <3>6, <4>3
    <3>7. CASE ~(i < Len(w))
      <4>1. i = Len(w)
        BY <1>2, <2>2, <3>7
      <4>2. After(w, i) = <<>>
        BY <1>3, <4>1
      <4> QED  BY <3>2, <3>4, <3>5, <3>7, <4>2
    <3> QED  BY <3>6, <3>7
  <2>6. j = Len(e) \/ j < Len(e)
    BY <1>2, <2>2
  <2> QED  BY <2>3, <2>4, <2>5, <2>6
<1>6. \A f, z : rhs(f, z) \in BOOLEAN
  <2> SUFFICES ASSUME NEW f, NEW z PROVE rhs(f, z) \in BOOLEAN
    OBVIOUS
  <2>1. CASE z[2] = Len(e)
    BY <2>1
  <2>2. CASE z[2] # Len(e) /\ z[2] < Len(e) /\ e[z[2] + 1] = Star
    BY <2>2
  <2>3. CASE z[2] # Len(e) /\ ~(z[2] < Len(e) /\ e[z[2] + 1] = Star)
    BY <2>3
  <2> QED  BY <2>1, <2>2, <2>3
<1>7. ASSUME NEW z \in Z
      PROVE  /\ z[1] \in 0 .. Len(w) /\ z[2] \in 0 .. Len(e) /\ z = <<z[1], z[2]>>
             /\ z[2] < Len(e) => <<z[1], z[2] + 1>> \in Z
             /\ z[1] < Len(w) => <<z[1] + 1, z[2]>> \in Z
             /\ z[1] < Len(w) /\ z[2] < Len(e) => <<z[1] + 1, z[2] + 1>> \in Z
  <2>1. z[1] \in 0 .. Len(w) /\ z[2] \in 0 .. Len(e) /\ z = <<z[1], z[2]>>
    OBVIOUS
  <2>2. z[2] < Len(e) => z[2] + 1 \in 0 .. Len(e)
    BY <1>2, <2>1
  <2>3. z[1] < Len(w) => z[1] + 1 \in 0 .. Len(w)
    BY <1>2, <2>1
  <2> QED  BY <2>1, <2>2, <2>3
<1>8. \A z : good(z) \in BOOLEAN
  OBVIOUS
<1> HIDE DEF rhs, good, Z
<1>9. \E f : eq(f)
  <2> DEFINE f == [z \in Z |-> good(z)]
  <2>1. \A z \in Z : f[z] = good(z)
    OBVIOUS
  <2>2. f = [z \in Z |-> f[z]]
    OBVIOUS
  <2> HIDE DEF f
  <2>3. ASSUME NEW z \in Z PROVE f[z] = rhs(f, z)
    <3>1. rhs(f, z) <=> good(z)
      BY <1>5, <1>7, <2>1
    <3> QED  BY <1>6, <1>8, <2>1, <3>1
  <2>4. eq(f)
    BY <2>2, <2>3
  <2> QED  BY <2>4
<1> DEFINE f == CHOOSE f : eq(f)
<1>10. eq(f)
  BY <1>9
<1>11. Glob(w, e) <=> w # <<>> /\ f[<<0, 0>>]
  BY <1>1
<1> HIDE DEF f
<1>12. \A z \in Z : f[z] = rhs(f, z)
  BY <1>10
<1>13. mu \in [Z -> Nat] /\ \A z \in Z : mu[z] = (Len(w) - z[1]) + (Len(e) - z[2])
  <2>1. \A z \in Z : (Len(w) - z[1]) + (Len(e) - z[2]) \in Nat
    <3> SUFFICES ASSUME NEW z \in Z PROVE (Len(w) - z[1]) + (Len(e) - z[2]) \in Nat
      OBVIOUS
    <3>1. PICK i, j : i = z[1] /\ j = z[2]
      OBVIOUS
    <3>2. i \in 0 .. Len(w) /\ j \in 0 .. Len(e)
      BY <1>7, <3>1
    <3>3. (Len(w) - i) + (Len(e) - j) \in Nat
      BY <1>2, <3>2
    <3> QED  BY <3>1, <3>3
  <2> QED  BY <2>1
<1> HIDE DEF mu
<1> DEFINE T == {z \in Z : f[z] <=> good(z)}
<1>14. ASSUME NEW z \in Z, \A y \in Z : mu[y] < mu[z] => y \in T PROVE z \in T
  <2>1. PICK i, j : i = z[1] /\ j = z[2]
    OBVIOUS
  <2>2. i \in 0 .. Len(w) /\ j \in 0 .. Len(e) /\ mu[z] = (Len(w) - i) + (Len(e) - j)
    BY <1>7, <1>13, <2>1
  <2>3. ASSUME NEW a \in Nat, NEW b \in Nat, <<a, b>> \in Z, a >= i, b >= j, a + b > i + j
        PROVE  f[<<a, b>>] <=> good(<<a, b>>)
    <3>1. PICK y : y = <<a, b>>
      OBVIOUS
    <3>2. y \in Z /\ y[1] = a /\ y[2] = b
      BY <2>3, <3>1
    <3>3. mu[y] = (Len(w) - a) + (Len(e) - b)
      BY <1>13, <3>2
    <3>4. mu[y] < mu[z]
      BY <1>2, <2>2, <2>3, <3>3
    <3>5. y \in T
      BY <1>14, <3>2, <3>4
    <3> QED  BY <3>1, <3>5
  <2>4. i \in Nat /\ j \in Nat /\ i + 1 \in Nat /\ j + 1 \in Nat
    BY <1>2, <2>2
  <2>5. j < Len(e) => (f[<<i, j + 1>>] <=> good(<<i, j + 1>>))
    <3> SUFFICES ASSUME j < Len(e) PROVE f[<<i, j + 1>>] <=> good(<<i, j + 1>>)
      OBVIOUS
    <3>1. <<i, j + 1>> \in Z
      BY <1>7, <2>1
    <3>2. i >= i /\ j + 1 >= j /\ (i) + (j + 1) > i + j
      BY <2>4
    <3> QED  BY <2>3, <2>4, <3>1, <3>2
  <2>6. i < Len(w) => (f[<<i + 1, j>>] <=> good(<<i + 1, j>>))
    <3> SUFFICES ASSUME i < Len(w) PROVE f[<<i + 1, j>>] <=> good(<<i + 1, j>>)
      OBVIOUS
    <3>1. <<i + 1, j>> \in Z
      BY <1>7, <2>1
    <3>2. i + 1 >= i /\ j >= j /\ (i + 1) + (j) > i + j
      BY <2>4
    <3> QED  BY <2>3, <2>4, <3>1, <3>2
  <2>7. i < Len(w) /\ j < Len(e) => (f[<<i + 1, j + 1>>] <=> good(<<i + 1, j + 1>>))
    <3> SUFFICES ASSUME i < Len(w) /\ j < Len(e) PROVE f[<<i + 1, j + 1>>] <=> good(<<i + 1, j + 1>>)
      OBVIOUS
    <3>1. <<i + 1, j + 1>> \in Z
      BY <1>7, <2>1
    <3>2. i + 1 >= i /\ j + 1 >= j /\ (i + 1) + (j + 1) > i + j
      BY <2>4
    <3> QED  BY <2>3, <2>4, <3>1, <3>2
  <2>8. rhs(f, z) <=> good(z)
    BY <1>5, <2>1, <2>5, <2>6, <2>7
  <2> QED  BY <1>12, <2>8
<1> HIDE DEF T
<1>15. Z \subseteq T
  BY <1>13, <1>14, MeasureDown
<1>16. <<0, 0>> \in Z
  BY <1>2 DEF Z
<1>17. f[<<0, 0>>] <=> good(<<0, 0>>)
  BY <1>15, <1>16 DEF T
<1>18. good(<<0, 0>>) <=> w \in G[0]
  BY <1>3 DEF good
<1> QED  BY <1>11, <1>17, <1>18

-----------------------------------------------------------------------------
(* fromString                                                              *)

(* The node fromString stands on after j characters.                       *)
Numbering(g, e) ==
    /\ g \in [0 .. Len(e) -> Nat] /\ g[0] = 1
    /\ \A j \in 1 .. Len(e) : g[j] = IF e[j] = Star THEN g[j - 1] ELSE g[j - 1] + 1

LEMMA NumberingExists ==
    ASSUME NEW e \in Clause
    PROVE  \E g : Numbering(g, e)
<1> DEFINE n == Len(e)
           D == [i \in 0 .. n |-> Nat]
           turn == [i \in 1 .. n |-> [x \in Nat |-> IF e[i] = Star THEN x ELSE x + 1]]
<1>1. n \in Nat
  BY LenProperties DEF Clause
<1>2. 1 \in D[0]
  <2>1. 0 \in 0 .. n
    BY <1>1
  <2> QED  BY <2>1
<1>3. Turns(n, D, turn)
  <2>1. ASSUME NEW i \in 1 .. n, NEW x \in D[i - 1] PROVE turn[i][x] \in D[i]
    <3>1. i - 1 \in 0 .. n /\ i \in 0 .. n
      BY <1>1
    <3> QED  BY <3>1
  <2> QED  BY <2>1 DEF Turns
<1>4. \A i \in 0 .. n : D[i] = Nat
  OBVIOUS
<1>5. \A i \in 1 .. n : \A x \in Nat : turn[i][x] = IF e[i] = Star THEN x ELSE x + 1
  OBVIOUS
<1> HIDE DEF n, D, turn
<1>6. PICK h : Loop(h, n, 1, turn) /\ \A i \in 0 .. n : h[i] \in D[i]
  BY <1>1, <1>2, <1>3, LoopRuns
<1>7. \A i \in 0 .. n : h[i] \in Nat
  BY <1>4, <1>6
<1>8. 0 \in 0 .. n /\ \A i \in 1 .. n : i \in 0 .. n /\ i # 0 /\ i - 1 \in 0 .. n
  BY <1>1
<1>9. h[0] = 1 /\ (\A i \in 1 .. n : h[i] = turn[i][h[i - 1]]) /\ h = [i \in 0 .. n |-> h[i]]
  BY <1>6, <1>8 DEF Loop
<1>10. \A j \in 1 .. n : h[j] = IF e[j] = Star THEN h[j - 1] ELSE h[j - 1] + 1
  BY <1>5, <1>7, <1>8, <1>9
<1>11. h \in [0 .. n -> Nat]
  BY <1>7, <1>9
<1> QED  BY <1>9, <1>10, <1>11 DEF Numbering, n

LEMMA NumberingRises ==
    ASSUME NEW e \in Clause, NEW g, Numbering(g, e)
    PROVE  /\ Len(e) \in Nat /\ \A j \in 0 .. Len(e) : g[j] \in Nat /\ g[j] >= 1
           /\ \A i, j \in 0 .. Len(e) : i <= j => g[i] <= g[j]
           /\ \A i \in 0 .. Len(e) : \A j \in 1 .. Len(e) : i < j /\ e[j] # Star => g[i] < g[j]
<1>1. Len(e) \in Nat /\ (\A j \in 0 .. Len(e) : g[j] \in Nat) /\ g[0] = 1
  BY LenProperties DEF Clause, Numbering
<1>2. \A j \in 1 .. Len(e) : g[j] = IF e[j] = Star THEN g[j - 1] ELSE g[j - 1] + 1
  BY DEF Numbering
<1> DEFINE T == {j \in 0 .. Len(e) : \A i \in 0 .. j : g[i] <= g[j]}
<1>3. 0 \in T
  BY <1>1
<1>4. ASSUME NEW j \in 1 .. Len(e), j - 1 \in T PROVE j \in T
  <2>1. j \in 0 .. Len(e) /\ j - 1 \in 0 .. Len(e)
    BY <1>1
  <2>2. \A i \in 0 .. j - 1 : g[i] <= g[j - 1] /\ i \in 0 .. Len(e)
    BY <1>1, <1>4
  <2>3. g[j - 1] <= g[j]
    BY <1>1, <1>2, <2>1
  <2>4. ASSUME NEW i \in 0 .. j PROVE g[i] <= g[j]
    <3>1. CASE i = j
      BY <1>1, <2>1, <3>1
    <3>2. CASE i # j
      <4>1. i \in 0 .. j - 1
        BY <1>1, <3>2
      <4>2. g[i] \in Nat /\ g[j - 1] \in Nat /\ g[j] \in Nat
        BY <1>1, <2>1, <2>2, <4>1
      <4> QED  BY <2>2, <2>3, <4>1, <4>2
    <3> QED  BY <3>1, <3>2
  <2> QED  BY <2>1, <2>4
<1> HIDE DEF T
<1>5. \A j \in 0 .. Len(e) : j \in T
  BY <1>1, <1>3, <1>4, CountUp
<1>6. ASSUME NEW i \in 0 .. Len(e), NEW j \in 0 .. Len(e), i <= j PROVE g[i] <= g[j]
  <2>1. i \in 0 .. j
    BY <1>1, <1>6
  <2> QED  BY <1>5, <2>1 DEF T
<1>7. ASSUME NEW i \in 0 .. Len(e), NEW j \in 1 .. Len(e), i < j, e[j] # Star PROVE g[i] < g[j]
  <2>1. j - 1 \in 0 .. Len(e) /\ i <= j - 1
    BY <1>1, <1>7
  <2>2. g[i] <= g[j - 1] /\ g[i] \in Nat /\ g[j - 1] \in Nat
    BY <1>1, <1>6, <2>1
  <2> QED  BY <1>2, <1>7, <2>2
<1>8. \A j \in 0 .. Len(e) : g[j] >= 1
  <2> TAKE j \in 0 .. Len(e)
  <2>1. 0 \in 0 .. Len(e) /\ 0 <= j
    BY <1>1
  <2> QED  BY <1>1, <1>6, <2>1
<1> QED  BY <1>1, <1>6, <1>7, <1>8

(* The text of one turn of fromString's loop.                              *)
Turned(a, i, e) ==
    LET here == a.nodes[a.at]
        id == Len(a.nodes) + 1
        new == [Node EXCEPT !.final = (i = Len(e))]
        linked == [a.nodes EXCEPT ![a.at] = WithEdge(here, e[i], id)]
    IN  IF e[i] = Star
          THEN [a EXCEPT !.nodes[a.at] =
                  [WithEdge(here, Star, a.at) EXCEPT !.final = (i = Len(e))],
                !.wild = TRUE]
          ELSE [a EXCEPT
                  !.nodes = Append(linked, IF a.wild THEN WithEdge(new, Star, 1) ELSE new),
                  !.at = id]
QueryNodes == Seq(NodeOver(Int \cup {Star}))
Drawings == [nodes : QueryNodes, at : Nat, wild : BOOLEAN]
Rewired(y, x, c, n) ==
    /\ DOMAIN y.edges = DOMAIN x.edges \cup {c} /\ y.edges[c] = n
    /\ \A d \in DOMAIN x.edges : d # c => y.edges[d] = x.edges[d]
StarDrawn(b, a, i, e) ==
    /\ b \in Drawings /\ Len(b.nodes) = Len(a.nodes) /\ b.at = a.at /\ b.wild
    /\ \A m \in 1 .. Len(a.nodes) : m # a.at => b.nodes[m] = a.nodes[m]
    /\ b.nodes[a.at].final <=> i = Len(e)
    /\ Rewired(b.nodes[a.at], a.nodes[a.at], Star, a.at)
CharDrawn(b, a, i, e) ==
    /\ b \in Drawings /\ Len(b.nodes) = Len(a.nodes) + 1 /\ b.at = Len(a.nodes) + 1 /\ b.wild = a.wild
    /\ \A m \in 1 .. Len(a.nodes) : m # a.at => b.nodes[m] = a.nodes[m]
    /\ b.nodes[a.at].final = a.nodes[a.at].final
    /\ Rewired(b.nodes[a.at], a.nodes[a.at], e[i], Len(a.nodes) + 1)
    /\ b.nodes[Len(a.nodes) + 1].final <=> i = Len(e)
    /\ \A d \in DOMAIN b.nodes[Len(a.nodes) + 1].edges :
         d = Star /\ a.wild /\ b.nodes[Len(a.nodes) + 1].edges[d] = 1

LEMMA DrawingFacts ==
    ASSUME NEW a \in Drawings
    PROVE  /\ a.nodes \in QueryNodes /\ a.at \in Nat /\ a.wild \in BOOLEAN /\ Len(a.nodes) \in Nat
           /\ \A m \in 1 .. Len(a.nodes) : a.nodes[m] \in NodeOver(Int \cup {Star})
           /\ a = [nodes |-> a.nodes, at |-> a.at, wild |-> a.wild]
<1>1. a.nodes \in QueryNodes /\ a.at \in Nat /\ a.wild \in BOOLEAN
  BY DEF Drawings
<1>2. a = [nodes |-> a.nodes, at |-> a.at, wild |-> a.wild]
  BY DEF Drawings
<1>3. Len(a.nodes) \in Nat /\ \A m \in 1 .. Len(a.nodes) : a.nodes[m] \in NodeOver(Int \cup {Star})
  BY <1>1, LenProperties, ElementOfSeq DEF QueryNodes
<1> QED  BY <1>1, <1>2, <1>3

LEMMA Finalized ==
    ASSUME NEW C, NEW x \in NodeOver(C), NEW t \in BOOLEAN
    PROVE  /\ [x EXCEPT !.final = t] \in NodeOver(C) /\ [x EXCEPT !.final = t].final = t
           /\ [x EXCEPT !.final = t].edges = x.edges
<1>1. x = [final |-> x.final, edges |-> x.edges] /\ x.edges \in UNION {[S -> Nat] : S \in SUBSET C}
  BY DEF NodeOver
<1>2. [x EXCEPT !.final = t] = [final |-> t, edges |-> x.edges]
  BY <1>1
<1> QED  BY <1>1, <1>2 DEF NodeOver

LEMMA StarTurn ==
    ASSUME NEW a \in Drawings, a.at \in 1 .. Len(a.nodes), NEW e, NEW i, e[i] = Star
    PROVE  StarDrawn(Turned(a, i, e), a, i, e)
<1>1. /\ a.nodes \in QueryNodes /\ a.at \in Nat /\ a.wild \in BOOLEAN /\ Len(a.nodes) \in Nat
      /\ a.nodes[a.at] \in NodeOver(Int \cup {Star})
      /\ a = [nodes |-> a.nodes, at |-> a.at, wild |-> a.wild]
  BY DrawingFacts
<1>2. PICK y, z, t, r : /\ t = (i = Len(e)) /\ y = WithEdge(a.nodes[a.at], Star, a.at)
                        /\ z = [y EXCEPT !.final = t] /\ r = [a.nodes EXCEPT ![a.at] = z]
  OBVIOUS
<1>3. y \in NodeOver(Int \cup {Star}) /\ Linked(y, a.nodes[a.at], Star, a.at)
  <2>1. Star \in Int \cup {Star}
    OBVIOUS
  <2> QED  BY <1>1, <1>2, <2>1, EdgeAdded
<1>4. t \in BOOLEAN
  BY <1>2
<1>5. z \in NodeOver(Int \cup {Star}) /\ z.final = t /\ z.edges = y.edges
  BY <1>2, <1>3, <1>4, Finalized
<1>6. r \in QueryNodes /\ Len(r) = Len(a.nodes) /\ \A m \in 1 .. Len(a.nodes) : r[m] = IF m = a.at THEN z ELSE a.nodes[m]
  BY <1>1, <1>2, <1>5, ExceptSeq DEF QueryNodes
<1>7. PICK b : b = [nodes |-> r, at |-> a.at, wild |-> TRUE]
  OBVIOUS
<1>8. Turned(a, i, e) = b
  <2>1. Turned(a, i, e) = [a EXCEPT !.nodes[a.at] = z, !.wild = TRUE]
    BY <1>2, Zenon DEF Turned
  <2>2. [a EXCEPT !.nodes[a.at] = z, !.wild = TRUE] = [a EXCEPT !.nodes = r, !.wild = TRUE]
    BY <1>2
  <2> QED  BY <1>1, <1>7, <2>1, <2>2
<1>9. b \in Drawings /\ b.nodes = r /\ b.at = a.at /\ b.wild
  BY <1>1, <1>6, <1>7 DEF Drawings
<1>10. Rewired(z, a.nodes[a.at], Star, a.at)
  BY <1>3, <1>5 DEF Rewired, Linked
<1>11. r[a.at] = z
  BY <1>6
<1>12. z.final <=> i = Len(e)
  BY <1>2, <1>5
<1> QED  BY <1>6, <1>8, <1>9, <1>10, <1>11, <1>12 DEF StarDrawn

LEMMA CharTurn ==
    ASSUME NEW a \in Drawings, a.at \in 1 .. Len(a.nodes), NEW e, NEW i, e[i] \in Int
    PROVE  CharDrawn(Turned(a, i, e), a, i, e)
<1>1. /\ a.nodes \in QueryNodes /\ a.at \in Nat /\ a.wild \in BOOLEAN /\ Len(a.nodes) \in Nat
      /\ a.nodes[a.at] \in NodeOver(Int \cup {Star})
      /\ a = [nodes |-> a.nodes, at |-> a.at, wild |-> a.wild]
  BY DrawingFacts
<1>2. PICK c, id, y, t, l, x, u, r :
        /\ c = e[i] /\ id = Len(a.nodes) + 1 /\ t = (i = Len(e))
        /\ y = WithEdge(a.nodes[a.at], c, id) /\ l = [a.nodes EXCEPT ![a.at] = y]
        /\ x = [Node EXCEPT !.final = t] /\ u = (IF a.wild THEN WithEdge(x, Star, 1) ELSE x)
        /\ r = Append(l, u)
  OBVIOUS
<1>3. c \in Int \cup {Star} /\ id \in Nat /\ c \in Int /\ c # Star /\ Star \in Int \cup {Star}
  BY <1>1, <1>2, IndexAssumption
<1>4. y \in NodeOver(Int \cup {Star}) /\ Linked(y, a.nodes[a.at], c, id)
  BY <1>1, <1>2, <1>3, EdgeAdded
<1>5. l \in Seq(NodeOver(Int \cup {Star})) /\ Len(l) = Len(a.nodes) /\ \A m \in 1 .. Len(a.nodes) : l[m] = IF m = a.at THEN y ELSE a.nodes[m]
  BY <1>1, <1>2, <1>4, ExceptSeq DEF QueryNodes
<1>6. x \in NodeOver(Int \cup {Star}) /\ x.final = t /\ DOMAIN x.edges = {}
  <2>1. Node \in NodeOver(Int \cup {Star}) /\ DOMAIN Node.edges = {} /\ t \in BOOLEAN
    BY <1>2, NewNode
  <2>2. x \in NodeOver(Int \cup {Star}) /\ x.final = t /\ x.edges = Node.edges
    BY <1>2, <2>1, Finalized
  <2> QED  BY <2>1, <2>2
<1>7. u \in NodeOver(Int \cup {Star}) /\ u.final = t /\ \A d \in DOMAIN u.edges : d = Star /\ a.wild /\ u.edges[d] = 1
  <2>1. CASE a.wild
    <3>1. PICK v : v = WithEdge(x, Star, 1)
      OBVIOUS
    <3>2. v \in NodeOver(Int \cup {Star}) /\ Linked(v, x, Star, 1)
      BY <1>3, <1>6, <3>1, EdgeAdded
    <3>3. u = v
      BY <1>2, <2>1, <3>1
    <3> QED  BY <1>6, <2>1, <3>2, <3>3 DEF Linked
  <2>2. CASE ~a.wild
    BY <1>2, <1>6, <2>2
  <2> QED  BY <2>1, <2>2
<1>8. r \in QueryNodes /\ Len(r) = id /\ r[id] = u /\ \A m \in 1 .. Len(a.nodes) : r[m] = l[m]
  <2>1. r \in Seq(NodeOver(Int \cup {Star})) /\ Len(r) = Len(l) + 1 /\ (\A m \in 1 .. Len(l) : r[m] = l[m]) /\ r[Len(l) + 1] = u
    BY <1>2, <1>5, <1>7, AppendProperties
  <2> QED  BY <1>2, <1>5, <2>1 DEF QueryNodes
<1>9. PICK b : b = [nodes |-> r, at |-> id, wild |-> a.wild]
  OBVIOUS
<1>10. Turned(a, i, e) = b
  <2>1. Turned(a, i, e) = [a EXCEPT !.nodes = r, !.at = id]
    BY <1>2, <1>3, Zenon DEF Turned
  <2> QED  BY <1>1, <1>9, <2>1
<1>11. b \in Drawings /\ b.nodes = r /\ b.at = id /\ b.wild = a.wild
  BY <1>1, <1>3, <1>8, <1>9 DEF Drawings
<1>12. r[a.at] = y /\ \A m \in 1 .. Len(a.nodes) : m # a.at => r[m] = a.nodes[m]
  BY <1>5, <1>8
<1>13. Rewired(y, a.nodes[a.at], c, id) /\ y.final = a.nodes[a.at].final
  BY <1>4 DEF Rewired, Linked
<1>14. u.final <=> i = Len(e)
  BY <1>2, <1>7
<1>15. Len(a.nodes) + 1 = id /\ e[i] = c
  BY <1>2
<1>16. b.nodes[id] = u /\ b.nodes[a.at] = y
  BY <1>8, <1>11, <1>12
<1>17. CharDrawn(b, a, i, e)
  <2>1. Len(b.nodes) = id /\ \A m \in 1 .. Len(a.nodes) : m # a.at => b.nodes[m] = a.nodes[m]
    BY <1>8, <1>11, <1>12
  <2>2. b.nodes[a.at].final = a.nodes[a.at].final /\ Rewired(b.nodes[a.at], a.nodes[a.at], c, id)
    BY <1>13, <1>16
  <2>3. b.nodes[id].final <=> i = Len(e)
    BY <1>14, <1>16
  <2>4. \A d \in DOMAIN b.nodes[id].edges : d = Star /\ a.wild /\ b.nodes[id].edges[d] = 1
    BY <1>7, <1>16
  <2> QED  BY <1>11, <1>15, <2>1, <2>2, <2>3, <2>4, Zenon DEF CharDrawn
<1> QED  BY <1>10, <1>17, Zenon

(* The edges drawn for the first i characters, and no others.              *)
EdgesDrawn(ns, e, g, i) ==
    /\ \A m \in 1 .. g[i] : \A d \in DOMAIN ns[m].edges :
         \/ d # Star /\ \E j \in 1 .. i : e[j] = d /\ g[j - 1] = m /\ ns[m].edges[d] = g[j]
         \/ d = Star /\ ns[m].edges[d] = m /\ \E j \in 1 .. i : e[j] = Star /\ g[j] = m
         \/ d = Star /\ ns[m].edges[d] = 1 /\ \E j \in 1 .. i : e[j] = Star /\ g[j] < m
    /\ \A j \in 1 .. i : e[j] \in DOMAIN ns[g[j - 1]].edges /\ ns[g[j - 1]].edges[e[j]] = g[j]
Drawn(a, e, g, i) ==
    /\ a \in Drawings /\ Len(a.nodes) = g[i] /\ a.at = g[i]
    /\ a.wild <=> \E j \in 1 .. i : e[j] = Star
    /\ EdgesDrawn(a.nodes, e, g, i)
    /\ \A m \in 1 .. g[i] : a.nodes[m].final <=> i > 0 /\ i = Len(e) /\ m = g[i]

LEMMA StarDraws ==
    ASSUME NEW e \in Clause, NEW g, Numbering(g, e), NEW i \in 1 .. Len(e), NEW a, NEW b,
           Drawn(a, e, g, i - 1), e[i] = Star, StarDrawn(b, a, i, e)
    PROVE  Drawn(b, e, g, i)
<1>1. /\ Len(e) \in Nat /\ (\A j \in 0 .. Len(e) : g[j] \in Nat /\ g[j] >= 1)
      /\ \A k, j \in 0 .. Len(e) : k <= j => g[k] <= g[j]
      /\ \A k \in 0 .. Len(e) : \A j \in 1 .. Len(e) : k < j /\ e[j] # Star => g[k] < g[j]
  BY NumberingRises
<1>2. PICK q : q = g[i]
  OBVIOUS
<1>3. /\ i \in 0 .. Len(e) /\ i - 1 \in 0 .. Len(e) /\ g[i - 1] = q /\ q \in 1 .. q /\ q \in Nat
      /\ \A j \in 1 .. i - 1 : j \in 1 .. i /\ j \in 1 .. Len(e) /\ j - 1 \in 0 .. Len(e) /\ j # i
      /\ \A j \in 1 .. i : j \in 1 .. i - 1 \/ j = i
      /\ i \in 1 .. i /\ i > 0 /\ i - 1 # Len(e)
  <2>1. i \in 0 .. Len(e) /\ i - 1 \in 0 .. Len(e)
    BY <1>1
  <2>2. g[i - 1] = q
    BY <1>2 DEF Numbering
  <2>3. q \in Nat /\ q \in 1 .. q
    BY <1>1, <1>2, <2>1
  <2>4. /\ \A j \in 1 .. i - 1 : j \in 1 .. i /\ j \in 1 .. Len(e) /\ j - 1 \in 0 .. Len(e) /\ j # i
        /\ \A j \in 1 .. i : j \in 1 .. i - 1 \/ j = i
        /\ i \in 1 .. i /\ i > 0 /\ i - 1 # Len(e)
    BY <1>1
  <2> QED  BY <2>1, <2>2, <2>3, <2>4
<1>4. /\ Len(a.nodes) = q /\ a.at = q /\ EdgesDrawn(a.nodes, e, g, i - 1)
      /\ \A m \in 1 .. q : ~a.nodes[m].final
  BY <1>3 DEF Drawn
<1>5. /\ b \in Drawings /\ Len(b.nodes) = q /\ b.at = q /\ b.wild
      /\ \A m \in 1 .. q : m # q => b.nodes[m] = a.nodes[m]
      /\ b.nodes[q].final <=> i = Len(e)
      /\ DOMAIN b.nodes[q].edges = DOMAIN a.nodes[q].edges \cup {Star} /\ b.nodes[q].edges[Star] = q
      /\ \A d \in DOMAIN a.nodes[q].edges : d # Star => b.nodes[q].edges[d] = a.nodes[q].edges[d]
  BY <1>4, Zenon DEF StarDrawn, Rewired
<1>6. b.wild <=> \E j \in 1 .. i : e[j] = Star
  BY <1>3, <1>5
<1>7. \A m \in 1 .. q : b.nodes[m].final <=> i > 0 /\ i = Len(e) /\ m = q
  BY <1>3, <1>4, <1>5
<1>8. ASSUME NEW m \in 1 .. q, NEW d \in DOMAIN b.nodes[m].edges
      PROVE  \/ d # Star /\ \E j \in 1 .. i : e[j] = d /\ g[j - 1] = m /\ b.nodes[m].edges[d] = g[j]
             \/ d = Star /\ b.nodes[m].edges[d] = m /\ \E j \in 1 .. i : e[j] = Star /\ g[j] = m
             \/ d = Star /\ b.nodes[m].edges[d] = 1 /\ \E j \in 1 .. i : e[j] = Star /\ g[j] < m
  <2>1. CASE m = q /\ d = Star
    BY <1>2, <1>3, <1>5, <2>1
  <2>2. CASE ~(m = q /\ d = Star)
    <3>1. d \in DOMAIN a.nodes[m].edges /\ b.nodes[m].edges[d] = a.nodes[m].edges[d]
      BY <1>5, <2>2
    <3>2. \/ d # Star /\ \E j \in 1 .. i - 1 : e[j] = d /\ g[j - 1] = m /\ a.nodes[m].edges[d] = g[j]
          \/ d = Star /\ a.nodes[m].edges[d] = m /\ \E j \in 1 .. i - 1 : e[j] = Star /\ g[j] = m
          \/ d = Star /\ a.nodes[m].edges[d] = 1 /\ \E j \in 1 .. i - 1 : e[j] = Star /\ g[j] < m
      BY <1>3, <1>4, <3>1 DEF EdgesDrawn
    <3> QED  BY <1>3, <3>1, <3>2
  <2> QED  BY <2>1, <2>2
<1>9. ASSUME NEW j \in 1 .. i
      PROVE  e[j] \in DOMAIN b.nodes[g[j - 1]].edges /\ b.nodes[g[j - 1]].edges[e[j]] = g[j]
  <2>1. CASE j = i
    BY <1>2, <1>3, <1>5, <2>1
  <2>2. CASE j # i
    <3>1. j \in 1 .. i - 1 /\ j - 1 \in 0 .. Len(e) /\ j \in 1 .. Len(e) /\ j - 1 <= i /\ j \in 0 .. Len(e) /\ j <= i
      BY <1>1, <1>3, <2>2
    <3>2. PICK m : m = g[j - 1]
      OBVIOUS
    <3>3. m \in 1 .. q
      <4>1. g[j - 1] \in Nat /\ g[j - 1] >= 1 /\ g[j - 1] <= g[i]
        BY <1>1, <1>3, <3>1
      <4> QED  BY <1>2, <1>3, <3>2, <4>1
    <3>4. e[j] \in DOMAIN a.nodes[m].edges /\ a.nodes[m].edges[e[j]] = g[j]
      BY <1>4, <3>1, <3>2 DEF EdgesDrawn
    <3>5. CASE m = q /\ e[j] = Star
      <4>1. g[j] = g[j - 1]
        BY <3>1, <3>5 DEF Numbering
      <4> QED  BY <1>5, <3>2, <3>5, <4>1
    <3>6. CASE ~(m = q /\ e[j] = Star)
      BY <1>5, <3>2, <3>3, <3>4, <3>6
    <3> QED  BY <3>5, <3>6
  <2> QED  BY <2>1, <2>2
<1>10. EdgesDrawn(b.nodes, e, g, i)
  BY <1>2, <1>8, <1>9 DEF EdgesDrawn
<1> QED  BY <1>2, <1>5, <1>6, <1>7, <1>10 DEF Drawn

LEMMA CharDraws ==
    ASSUME NEW e \in Clause, NEW g, Numbering(g, e), NEW i \in 1 .. Len(e), NEW a, NEW b,
           Drawn(a, e, g, i - 1), e[i] # Star, CharDrawn(b, a, i, e)
    PROVE  Drawn(b, e, g, i)
<1>1. /\ Len(e) \in Nat /\ (\A j \in 0 .. Len(e) : g[j] \in Nat /\ g[j] >= 1)
      /\ \A k, j \in 0 .. Len(e) : k <= j => g[k] <= g[j]
      /\ \A k \in 0 .. Len(e) : \A j \in 1 .. Len(e) : k < j /\ e[j] # Star => g[k] < g[j]
  BY NumberingRises
<1>2. PICK q, c : q = g[i - 1] /\ c = e[i]
  OBVIOUS
<1>3. /\ i \in 0 .. Len(e) /\ i - 1 \in 0 .. Len(e) /\ g[i] = q + 1 /\ q \in 1 .. q /\ q \in Nat
      /\ q + 1 \in Nat /\ q + 1 \notin 1 .. q /\ q + 1 \in 1 .. q + 1 /\ q \in 1 .. q + 1 /\ q < q + 1
      /\ \A m \in 1 .. q : m \in 1 .. q + 1 /\ m # q + 1
      /\ \A m \in 1 .. q + 1 : m \in 1 .. q \/ m = q + 1
  <2>1. i \in 0 .. Len(e) /\ i - 1 \in 0 .. Len(e)
    BY <1>1
  <2>2. g[i] = q + 1
    BY <1>2 DEF Numbering
  <2>3. q \in Nat /\ q >= 1
    BY <1>1, <1>2, <2>1
  <2> QED  BY <2>1, <2>2, <2>3
<1>4. /\ \A j \in 1 .. i - 1 : j \in 1 .. i /\ j \in 1 .. Len(e) /\ j \in 0 .. Len(e) /\ j - 1 \in 0 .. Len(e)
                                /\ j # i /\ j <= i - 1 /\ j - 1 <= i - 1
      /\ \A j \in 1 .. i : j \in 1 .. i - 1 \/ j = i
      /\ i \in 1 .. i /\ i > 0 /\ i - 1 # Len(e)
  BY <1>1
<1>5. /\ a \in Drawings /\ Len(a.nodes) = q /\ a.at = q /\ EdgesDrawn(a.nodes, e, g, i - 1)
      /\ a.wild <=> \E j \in 1 .. i - 1 : e[j] = Star
      /\ \A m \in 1 .. q : ~a.nodes[m].final
  BY <1>2, <1>4 DEF Drawn
<1>6. /\ b \in Drawings /\ Len(b.nodes) = q + 1 /\ b.at = q + 1 /\ b.wild = a.wild
      /\ \A m \in 1 .. q : m # q => b.nodes[m] = a.nodes[m]
      /\ b.nodes[q].final = a.nodes[q].final
      /\ DOMAIN b.nodes[q].edges = DOMAIN a.nodes[q].edges \cup {c} /\ b.nodes[q].edges[c] = q + 1
      /\ \A d \in DOMAIN a.nodes[q].edges : d # c => b.nodes[q].edges[d] = a.nodes[q].edges[d]
      /\ b.nodes[q + 1].final <=> i = Len(e)
      /\ \A d \in DOMAIN b.nodes[q + 1].edges : d = Star /\ a.wild /\ b.nodes[q + 1].edges[d] = 1
  BY <1>2, <1>5, Zenon DEF CharDrawn, Rewired
<1>7. b.wild <=> \E j \in 1 .. i : e[j] = Star
  BY <1>4, <1>5, <1>6
<1>8. \A m \in 1 .. q + 1 : b.nodes[m].final <=> i > 0 /\ i = Len(e) /\ m = q + 1
  <2> TAKE m \in 1 .. q + 1
  <2>1. CASE m = q + 1
    BY <1>4, <1>6, <2>1
  <2>2. CASE m \in 1 .. q
    <3>1. ~b.nodes[m].final
      BY <1>5, <1>6, <2>2
    <3> QED  BY <1>3, <2>2, <3>1
  <2> QED  BY <1>3, <2>1, <2>2
<1>9. \A j \in 1 .. i - 1 : g[j] \in Nat /\ g[j] <= q /\ g[j] < q + 1 /\ g[j - 1] \in 1 .. q
  <2> TAKE j \in 1 .. i - 1
  <2>1. g[j] \in Nat /\ g[j] <= q
    BY <1>1, <1>2, <1>3, <1>4
  <2>2. g[j - 1] \in Nat /\ g[j - 1] >= 1 /\ g[j - 1] <= q
    BY <1>1, <1>2, <1>3, <1>4
  <2> QED  BY <1>3, <2>1, <2>2
<1>10. ASSUME NEW m \in 1 .. q + 1, NEW d \in DOMAIN b.nodes[m].edges
       PROVE  \/ d # Star /\ \E j \in 1 .. i : e[j] = d /\ g[j - 1] = m /\ b.nodes[m].edges[d] = g[j]
              \/ d = Star /\ b.nodes[m].edges[d] = m /\ \E j \in 1 .. i : e[j] = Star /\ g[j] = m
              \/ d = Star /\ b.nodes[m].edges[d] = 1 /\ \E j \in 1 .. i : e[j] = Star /\ g[j] < m
  <2>1. CASE m = q /\ d = c
    <3>1. d # Star /\ e[i] = d /\ g[i - 1] = m /\ b.nodes[m].edges[d] = g[i]
      BY <1>2, <1>3, <1>6, <2>1
    <3> QED  BY <1>4, <3>1
  <2>2. CASE m = q + 1
    <3>1. d = Star /\ a.wild /\ b.nodes[m].edges[d] = 1
      BY <1>6, <2>2
    <3>2. PICK j \in 1 .. i - 1 : e[j] = Star
      BY <1>5, <3>1
    <3>3. j \in 1 .. i /\ g[j] < m
      BY <1>4, <1>9, <2>2, <3>2
    <3> QED  BY <3>1, <3>2, <3>3
  <2>3. CASE m \in 1 .. q /\ ~(m = q /\ d = c)
    <3>1. d \in DOMAIN a.nodes[m].edges /\ b.nodes[m].edges[d] = a.nodes[m].edges[d]
      BY <1>6, <2>3
    <3>2. \/ d # Star /\ \E j \in 1 .. i - 1 : e[j] = d /\ g[j - 1] = m /\ a.nodes[m].edges[d] = g[j]
          \/ d = Star /\ a.nodes[m].edges[d] = m /\ \E j \in 1 .. i - 1 : e[j] = Star /\ g[j] = m
          \/ d = Star /\ a.nodes[m].edges[d] = 1 /\ \E j \in 1 .. i - 1 : e[j] = Star /\ g[j] < m
      BY <1>2, <1>5, <2>3, <3>1 DEF EdgesDrawn
    <3> QED  BY <1>4, <3>1, <3>2
  <2> QED  BY <1>3, <2>1, <2>2, <2>3
<1>11. ASSUME NEW j \in 1 .. i
       PROVE  e[j] \in DOMAIN b.nodes[g[j - 1]].edges /\ b.nodes[g[j - 1]].edges[e[j]] = g[j]
  <2>1. CASE j = i
    BY <1>2, <1>3, <1>6, <2>1
  <2>2. CASE j # i
    <3>1. j \in 1 .. i - 1
      BY <1>4, <2>2
    <3>2. PICK m \in 1 .. q : m = g[j - 1]
      BY <1>9, <3>1
    <3>3. e[j] \in DOMAIN a.nodes[m].edges /\ a.nodes[m].edges[e[j]] = g[j]
      BY <1>5, <3>1, <3>2 DEF EdgesDrawn
    <3>4. ~(m = q /\ e[j] = c)
      <4> SUFFICES ASSUME m = q, e[j] = c PROVE FALSE
        OBVIOUS
      <4>1. j \in 1 .. Len(e) /\ e[j] # Star
        BY <1>2, <1>4, <3>1
      <4>2. g[j] = q + 1
        BY <3>2, <4>1 DEF Numbering
      <4>3. g[j] <= q
        BY <1>9, <3>1
      <4> QED  BY <1>3, <4>2, <4>3
    <3>5. e[j] \in DOMAIN b.nodes[m].edges /\ b.nodes[m].edges[e[j]] = a.nodes[m].edges[e[j]]
      BY <1>6, <3>3, <3>4
    <3> QED  BY <3>2, <3>3, <3>5
  <2> QED  BY <2>1, <2>2
<1>12. EdgesDrawn(b.nodes, e, g, i)
  BY <1>3, <1>10, <1>11 DEF EdgesDrawn
<1> QED  BY <1>3, <1>6, <1>7, <1>8, <1>12 DEF Drawn

(* What fromString makes of a clause.                                      *)
QueryOf(q, e, g) ==
    /\ q \in QueryNodes /\ Len(q) = g[Len(e)] /\ EdgesDrawn(q, e, g, Len(e))
    /\ \A m \in 1 .. Len(q) : q[m].final <=> Len(e) > 0 /\ m = Len(q)

LEMMA FromStringDraws ==
    ASSUME NEW e \in Clause, NEW g, Numbering(g, e)
    PROVE  QueryOf(fromString(e), e, g)
<1> DEFINE n == Len(e)
           start == [nodes |-> <<Node>>, at |-> 1, wild |-> FALSE]
           D == [i \in 0 .. n |-> {a \in Drawings : Drawn(a, e, g, i)}]
           eq(h) == h = [i \in 0 .. n |-> IF i = 0 THEN start ELSE Turned(h[i - 1], i, e)]
           turn == [i \in 1 .. n |-> [a \in Drawings |-> Turned(a, i, e)]]
<1>1. /\ n \in Nat /\ (\A j \in 0 .. n : g[j] \in Nat /\ g[j] >= 1) /\ g[0] = 1
      /\ \A i \in 1 .. n : e[i] \in Int \cup {Star}
  BY NumberingRises, ElementOfSeq DEF Numbering, Clause
<1>2. \A i \in 0 .. n : D[i] = {a \in Drawings : Drawn(a, e, g, i)}
  OBVIOUS
<1>3. \A i \in 1 .. n : \A a \in Drawings : turn[i][a] = Turned(a, i, e)
  OBVIOUS
<1>4. \A i \in 1 .. n : i \in 0 .. n /\ i # 0 /\ i - 1 \in 0 .. n
  BY <1>1
<1>5. start \in D[0]
  <2>1. PICK ns : ns = <<Node>>
    OBVIOUS
  <2>2. Node \in NodeOver(Int \cup {Star}) /\ ~Node.final /\ DOMAIN Node.edges = {}
    BY NewNode
  <2>3. ns \in QueryNodes /\ Len(ns) = 1 /\ ns[1] = Node
    BY <2>1, <2>2 DEF QueryNodes
  <2>4. PICK s : s = [nodes |-> ns, at |-> 1, wild |-> FALSE]
    OBVIOUS
  <2>5. s \in Drawings /\ s.nodes = ns /\ s.at = 1 /\ ~s.wild
    BY <2>3, <2>4 DEF Drawings
  <2>6. \A m \in 1 .. g[0] : ns[m] = Node
    BY <1>1, <2>3
  <2>7. EdgesDrawn(ns, e, g, 0)
    BY <2>2, <2>6 DEF EdgesDrawn
  <2>8. \A m \in 1 .. g[0] : ~s.nodes[m].final
    BY <2>2, <2>5, <2>6
  <2>9. Drawn(s, e, g, 0)
    BY <1>1, <2>3, <2>5, <2>7, <2>8 DEF Drawn
  <2>10. start = s /\ 0 \in 0 .. n
    BY <1>1, <2>1, <2>4
  <2> QED  BY <1>2, <2>5, <2>9, <2>10
<1>6. ASSUME NEW i \in 1 .. n, NEW a \in D[i - 1] PROVE turn[i][a] \in D[i] /\ turn[i][a] = Turned(a, i, e)
  <2>1. a \in Drawings /\ Drawn(a, e, g, i - 1)
    BY <1>2, <1>4
  <2>2. a.at = Len(a.nodes) /\ a.at \in 1 .. Len(a.nodes)
    <3>1. a.at = g[i - 1] /\ Len(a.nodes) = g[i - 1]
      BY <2>1 DEF Drawn
    <3>2. g[i - 1] \in Nat /\ g[i - 1] >= 1
      BY <1>1, <1>4
    <3> QED  BY <3>1, <3>2
  <2>3. PICK b : b = Turned(a, i, e)
    OBVIOUS
  <2>4. Drawn(b, e, g, i)
    <3>1. CASE e[i] = Star
      <4>1. StarDrawn(b, a, i, e)
        BY <2>1, <2>2, <2>3, <3>1, StarTurn
      <4> QED  BY <2>1, <3>1, <4>1, StarDraws
    <3>2. CASE e[i] # Star
      <4>1. e[i] \in Int
        BY <1>1, <3>2
      <4>2. CharDrawn(b, a, i, e)
        BY <2>1, <2>2, <2>3, <4>1, CharTurn
      <4> QED  BY <2>1, <3>2, <4>2, CharDraws
    <3> QED  BY <3>1, <3>2
  <2>5. b \in Drawings
    BY <2>4 DEF Drawn
  <2> QED  BY <1>2, <1>3, <1>4, <2>1, <2>3, <2>4, <2>5
<1>7. fromString(e) = (CHOOSE h : eq(h))[n].nodes
  BY DEF fromString, Turned
<1> HIDE DEF D, turn, start
<1>8. Turns(n, D, turn)
  BY <1>6 DEF Turns
<1>9. PICK h0 : Loop(h0, n, start, turn) /\ \A i \in 0 .. n : h0[i] \in D[i]
  <2> HIDE DEF n
  <2> QED  BY <1>1, <1>5, <1>8, LoopRuns
<1>10. eq(h0)
  <2>1. h0 = [i \in 0 .. n |-> IF i = 0 THEN start ELSE turn[i][h0[i - 1]]]
    BY <1>9 DEF Loop
  <2>2. \A i \in 0 .. n : i # 0 => i \in 1 .. n
    BY <1>1
  <2>3. \A i \in 0 .. n : i # 0 => turn[i][h0[i - 1]] = Turned(h0[i - 1], i, e)
    BY <1>4, <1>6, <1>9, <2>2
  <2> HIDE DEF n
  <2>4. [i \in 0 .. n |-> IF i = 0 THEN start ELSE turn[i][h0[i - 1]]]
          = [i \in 0 .. n |-> IF i = 0 THEN start ELSE Turned(h0[i - 1], i, e)]
    BY <2>3
  <2> QED  BY <2>1, <2>4
<1> DEFINE h == CHOOSE h : eq(h)
<1>11. eq(h)
  BY <1>10
<1>12. fromString(e) = h[n].nodes
  BY <1>7
<1> HIDE DEF h
<1>13. h[0] \in D[0]
  <2>1. 0 \in 0 .. n
    BY <1>1
  <2>2. h[0] = start
    BY <1>11, <2>1
  <2> QED  BY <1>5, <2>2
<1>14. \A i \in 1 .. n : h[i - 1] \in D[i - 1] => h[i] \in D[i]
  <2> SUFFICES ASSUME NEW i \in 1 .. n, h[i - 1] \in D[i - 1] PROVE h[i] \in D[i]
    OBVIOUS
  <2>1. h[i] = Turned(h[i - 1], i, e)
    BY <1>4, <1>11
  <2> QED  BY <1>6, <2>1
<1>15. \A i \in 0 .. n : h[i] \in D[i]
  <2> HIDE DEF n
  <2> QED  BY <1>1, <1>13, <1>14, LoopStays
<1>16. n \in 0 .. n
  BY <1>1
<1>17. Drawn(h[n], e, g, n)
  BY <1>2, <1>15, <1>16
<1>18. PICK q : q = h[n].nodes
  OBVIOUS
<1>19. q \in QueryNodes /\ Len(q) = g[n] /\ EdgesDrawn(q, e, g, n)
  BY <1>17, <1>18 DEF Drawn, Drawings
<1>20. \A m \in 1 .. Len(q) : q[m].final <=> n > 0 /\ m = Len(q)
  BY <1>17, <1>18, <1>19 DEF Drawn
<1>21. QueryOf(q, e, g)
  BY <1>19, <1>20 DEF QueryOf
<1> QED  BY <1>12, <1>18, <1>21, Zenon

(* What holds of no characters and of one more holds of every word.        *)
LEMMA WordByWord ==
    ASSUME NEW T, <<>> \in T, \A c \in Int : \A v \in Word : v \in T => Cons(c, v) \in T
    PROVE  Word \subseteq T
<1> DEFINE mu == [w \in Word |-> Len(w)]
<1>1. mu \in [Word -> Nat] /\ \A w \in Word : mu[w] = Len(w)
  <2>1. \A w \in Word : Len(w) \in Nat
    BY LenProperties DEF Word
  <2> QED  BY <2>1
<1> HIDE DEF mu
<1>2. ASSUME NEW w \in Word, \A y \in Word : mu[y] < mu[w] => y \in T PROVE w \in T
  <2>1. CASE w = <<>>
    BY <2>1
  <2>2. CASE w # <<>>
    <3>1. PICK c, v : c = w[1] /\ v = After(w, 1)
      OBVIOUS
    <3>2. c \in Int /\ v \in Word /\ w = Cons(c, v) /\ Len(v) = Len(w) - 1 /\ Len(w) \in Nat
      BY <2>2, <3>1, WordCases DEF Word
    <3>3. mu[v] < mu[w]
      BY <1>1, <3>2
    <3> QED  BY <1>2, <3>2, <3>3
  <2> QED  BY <2>1, <2>2
<1> QED  BY <1>1, <1>2, MeasureDown

(* The words that lead from a node of a query to its final one.            *)
Accepts(q, A) ==
    /\ A \in [1 .. Len(q) -> SUBSET Word]
    /\ \A k \in 1 .. Len(q) : <<>> \in A[k] <=> q[k].final
    /\ \A k \in 1 .. Len(q) : \A c \in Int : \A w \in Word :
         Cons(c, w) \in A[k] <=>
           \E d \in DOMAIN q[k].edges : d \in {c, Star} /\ w \in A[q[k].edges[d]]

(* A run of a query on a word: the nodes it passes.                        *)
Passes(q, k, c, m) == \E d \in DOMAIN q[k].edges : d \in {c, Star} /\ m = q[k].edges[d]
Run(q, w, r) ==
    /\ r \in [0 .. Len(w) -> 1 .. Len(q)] /\ q[r[Len(w)]].final
    /\ \A i \in 1 .. Len(w) : Passes(q, r[i - 1], w[i], r[i])

LEMMA ConsIs ==
    ASSUME NEW c \in Int, NEW w \in Word, NEW u, u = Cons(c, w)
    PROVE  /\ u \in Word /\ Len(u) = Len(w) + 1 /\ u[1] = c /\ (\A i \in 1 .. Len(w) : u[i + 1] = w[i])
           /\ Len(w) \in Nat
<1>1. u \in Seq(Int) /\ IsCons(u, c, w)
  BY ConsFacts DEF Word
<1>2. Len(w) \in Nat
  BY LenProperties DEF Word
<1> QED  BY <1>1, <1>2 DEF IsCons, Word

LEMMA RunShifts ==
    ASSUME NEW q, NEW c \in Int, NEW w \in Word, NEW u, u = Cons(c, w), NEW r, Run(q, u, r)
    PROVE  Passes(q, r[0], c, r[1]) /\ \E s : Run(q, w, s) /\ s[0] = r[1]
<1>1. /\ u \in Word /\ Len(u) = Len(w) + 1 /\ u[1] = c /\ (\A i \in 1 .. Len(w) : u[i + 1] = w[i])
      /\ Len(w) \in Nat
  BY ConsIs
<1>2. PICK l \in Nat : l = Len(w) /\ Len(u) = l + 1
  BY <1>1
<1>3. /\ r \in [0 .. l + 1 -> 1 .. Len(q)] /\ q[r[l + 1]].final
      /\ \A i \in 1 .. l + 1 : Passes(q, r[i - 1], u[i], r[i])
  BY <1>2 DEF Run
<1>4. Passes(q, r[0], c, r[1])
  <2>1. 1 \in 1 .. l + 1 /\ 1 - 1 = 0
    BY <1>2
  <2>2. Passes(q, r[1 - 1], u[1], r[1])
    BY <1>3, <2>1
  <2> QED  BY <1>1, <2>1, <2>2
<1>5. PICK s : s = [i \in 0 .. l |-> r[i + 1]]
  OBVIOUS
<1>6. s \in [0 .. l -> 1 .. Len(q)] /\ s[0] = r[1] /\ s[l] = r[l + 1]
  <2>1. \A i \in 0 .. l : i + 1 \in 0 .. l + 1
    BY <1>2
  <2>2. 0 \in 0 .. l /\ l \in 0 .. l /\ 0 + 1 = 1
    BY <1>2
  <2>3. \A i \in 0 .. l : s[i] = r[i + 1]
    BY <1>5
  <2> QED  BY <1>3, <1>5, <2>1, <2>2, <2>3
<1>7. ASSUME NEW i \in 1 .. l PROVE Passes(q, s[i - 1], w[i], s[i])
  <2>1. i + 1 \in 1 .. l + 1 /\ (i + 1) - 1 = i /\ i - 1 \in 0 .. l /\ i \in 0 .. l /\ (i - 1) + 1 = i
    BY <1>2
  <2>2. Passes(q, r[(i + 1) - 1], u[i + 1], r[i + 1])
    BY <1>3, <2>1
  <2>3. s[i - 1] = r[i] /\ s[i] = r[i + 1] /\ u[i + 1] = w[i]
    BY <1>1, <1>2, <1>5, <2>1
  <2> QED  BY <2>1, <2>2, <2>3
<1>8. Run(q, w, s)
  BY <1>2, <1>3, <1>6, <1>7 DEF Run
<1> QED  BY <1>4, <1>6, <1>8

LEMMA RunStarts ==
    ASSUME NEW q, NEW c \in Int, NEW w \in Word, NEW s, Run(q, w, s), NEW k \in 1 .. Len(q),
           Passes(q, k, c, s[0])
    PROVE  \E r : Run(q, Cons(c, w), r) /\ r[0] = k
<1>0. PICK u : u = Cons(c, w)
  OBVIOUS
<1>1. /\ u \in Word /\ Len(u) = Len(w) + 1 /\ u[1] = c /\ (\A i \in 1 .. Len(w) : u[i + 1] = w[i])
      /\ Len(w) \in Nat
  BY <1>0, ConsIs
<1>2. PICK l \in Nat : l = Len(w) /\ Len(u) = l + 1
  BY <1>1
<1>3. /\ s \in [0 .. l -> 1 .. Len(q)] /\ q[s[l]].final
      /\ \A i \in 1 .. l : Passes(q, s[i - 1], w[i], s[i])
  BY <1>2 DEF Run
<1>4. PICK r : r = [i \in 0 .. l + 1 |-> IF i = 0 THEN k ELSE s[i - 1]]
  OBVIOUS
<1>5. \A i \in 0 .. l + 1 : i # 0 => i - 1 \in 0 .. l
  BY <1>2
<1>6. r \in [0 .. l + 1 -> 1 .. Len(q)]
  BY <1>3, <1>4, <1>5
<1>7. r[0] = k /\ \A i \in 0 .. l : r[i + 1] = s[i]
  <2>1. 0 \in 0 .. l + 1 /\ \A i \in 0 .. l : i + 1 \in 0 .. l + 1 /\ i + 1 # 0 /\ (i + 1) - 1 = i
    BY <1>2
  <2> QED  BY <1>4, <2>1
<1>8. l \in 0 .. l /\ q[r[l + 1]].final
  BY <1>2, <1>3, <1>7
<1>9. ASSUME NEW i \in 1 .. l + 1 PROVE Passes(q, r[i - 1], u[i], r[i])
  <2>1. CASE i = 1
    <3>1. i - 1 = 0 /\ 0 \in 0 .. l /\ 0 + 1 = i
      BY <1>2, <2>1
    <3>2. r[i] = s[0]
      BY <1>7, <3>1
    <3> QED  BY <1>1, <1>7, <2>1, <3>1, <3>2
  <2>2. CASE i # 1
    <3>1. PICK j \in 1 .. l : j + 1 = i
      <4>1. i - 1 \in 1 .. l /\ (i - 1) + 1 = i
        BY <1>2, <2>2
      <4> QED  BY <4>1
    <3>2. i - 1 = j /\ j - 1 \in 0 .. l /\ j \in 0 .. l /\ (j - 1) + 1 = j
      BY <1>2, <3>1
    <3>3. r[i] = s[j] /\ r[i - 1] = s[j - 1] /\ u[i] = w[j]
      <4>1. r[j + 1] = s[j] /\ r[(j - 1) + 1] = s[j - 1]
        BY <1>7, <3>2
      <4>2. u[j + 1] = w[j]
        BY <1>1, <1>2
      <4> QED  BY <3>1, <3>2, <4>1, <4>2
    <3> QED  BY <1>3, <3>3
  <2> QED  BY <2>1, <2>2
<1>10. Run(q, u, r)
  BY <1>2, <1>6, <1>8, <1>9 DEF Run
<1> QED  BY <1>0, <1>7, <1>10

LEMMA AcceptsExists ==
    ASSUME NEW q, \A k \in 1 .. Len(q) : \A d \in DOMAIN q[k].edges : q[k].edges[d] \in 1 .. Len(q)
    PROVE  \E A : Accepts(q, A)
<1>1. PICK A : A = [k \in 1 .. Len(q) |-> {w \in Word : \E r : Run(q, w, r) /\ r[0] = k}]
  OBVIOUS
<1>2. A \in [1 .. Len(q) -> SUBSET Word] /\ \A k \in 1 .. Len(q) : A[k] = {w \in Word : \E r : Run(q, w, r) /\ r[0] = k}
  BY <1>1
<1>3. ASSUME NEW k \in 1 .. Len(q) PROVE <<>> \in A[k] <=> q[k].final
  <2>1. PICK w \in Word : w = <<>> /\ Len(w) = 0
    BY EmptySeq DEF Word
  <2>2. ASSUME NEW r, Run(q, w, r), r[0] = k PROVE q[k].final
    BY <2>1, <2>2 DEF Run
  <2>3. ASSUME q[k].final PROVE \E r : Run(q, w, r) /\ r[0] = k
    <3>1. PICK r : r = [i \in 0 .. 0 |-> k]
      OBVIOUS
    <3>2. 0 \in 0 .. 0 /\ r[0] = k /\ r \in [0 .. 0 -> 1 .. Len(q)]
      BY <3>1
    <3>3. \A i \in 1 .. Len(w) : FALSE
      BY <2>1
    <3>4. Run(q, w, r)
      BY <2>1, <2>3, <3>2, <3>3 DEF Run
    <3> QED  BY <3>2, <3>4
  <2> QED  BY <1>2, <2>1, <2>2, <2>3
<1>4. ASSUME NEW k \in 1 .. Len(q), NEW c \in Int, NEW w \in Word
      PROVE  Cons(c, w) \in A[k] <=> \E d \in DOMAIN q[k].edges : d \in {c, Star} /\ w \in A[q[k].edges[d]]
  <2>1. Cons(c, w) \in Word
    BY ConsFacts DEF Word
  <2>2. ASSUME NEW r, Run(q, Cons(c, w), r), r[0] = k
        PROVE  \E d \in DOMAIN q[k].edges : d \in {c, Star} /\ w \in A[q[k].edges[d]]
    <3>1. PICK u : u = Cons(c, w)
      OBVIOUS
    <3>2. Passes(q, r[0], c, r[1]) /\ \E s : Run(q, w, s) /\ s[0] = r[1]
      BY <2>2, <3>1, RunShifts
    <3>3. PICK d \in DOMAIN q[k].edges : d \in {c, Star} /\ r[1] = q[k].edges[d]
      BY <2>2, <3>2 DEF Passes
    <3>4. q[k].edges[d] \in 1 .. Len(q)
      OBVIOUS
    <3>5. w \in A[q[k].edges[d]]
      BY <1>2, <3>2, <3>3, <3>4
    <3> QED  BY <3>3, <3>5
  <2>3. ASSUME NEW d \in DOMAIN q[k].edges, d \in {c, Star}, w \in A[q[k].edges[d]]
        PROVE  \E r : Run(q, Cons(c, w), r) /\ r[0] = k
    <3>1. PICK m \in 1 .. Len(q) : m = q[k].edges[d]
      OBVIOUS
    <3>2. PICK s : Run(q, w, s) /\ s[0] = m
      BY <1>2, <2>3, <3>1
    <3>3. Passes(q, k, c, s[0])
      BY <2>3, <3>1, <3>2 DEF Passes
    <3> QED  BY <3>2, <3>3, RunStarts
  <2>4. Cons(c, w) \in A[k] <=> \E r : Run(q, Cons(c, w), r) /\ r[0] = k
    BY <1>2, <2>1
  <2> QED  BY <2>2, <2>3, <2>4
<1> QED  BY <1>2, <1>3, <1>4 DEF Accepts

(* A clause, what is left of it, and the query made of it.                 *)
Reads(e, G, g, q, A) ==
    e \in Clause /\ SuffixSets(G, e) /\ Numbering(g, e) /\ QueryOf(q, e, g) /\ Accepts(q, A)

LEMMA QueryInRange ==
    ASSUME NEW e \in Clause, NEW g, Numbering(g, e), NEW q, QueryOf(q, e, g)
    PROVE  /\ Len(q) \in Nat /\ DOMAIN q = 1 .. Len(q) /\ 1 \in 1 .. Len(q)
           /\ \A j \in 0 .. Len(e) : g[j] \in 1 .. Len(q)
           /\ \A k \in 1 .. Len(q) : \A d \in DOMAIN q[k].edges :
                d \in Int \cup {Star} /\ q[k].edges[d] \in 1 .. Len(q)
<1>1. /\ Len(e) \in Nat /\ (\A j \in 0 .. Len(e) : g[j] \in Nat /\ g[j] >= 1)
      /\ \A k, j \in 0 .. Len(e) : k <= j => g[k] <= g[j]
  BY NumberingRises
<1>2. q \in QueryNodes /\ Len(q) = g[Len(e)] /\ EdgesDrawn(q, e, g, Len(e))
  BY DEF QueryOf
<1>3. Len(e) \in 0 .. Len(e) /\ (\A j \in 0 .. Len(e) : j <= Len(e)) /\ \A j \in 1 .. Len(e) : j \in 0 .. Len(e)
  BY <1>1
<1>4. /\ Len(q) \in Nat /\ Len(q) >= 1 /\ DOMAIN q = 1 .. Len(q)
      /\ \A k \in 1 .. Len(q) : q[k] \in NodeOver(Int \cup {Star})
  BY <1>1, <1>2, <1>3, LenProperties, ElementOfSeq DEF QueryNodes
<1>5. \A j \in 0 .. Len(e) : g[j] \in 1 .. Len(q)
  <2> TAKE j \in 0 .. Len(e)
  <2>1. g[j] \in Nat /\ g[j] >= 1 /\ g[j] <= Len(q)
    BY <1>1, <1>2, <1>3
  <2> QED  BY <1>4, <2>1
<1>6. 1 \in 1 .. Len(q)
  BY <1>4
<1>7. ASSUME NEW k \in 1 .. Len(q), NEW d \in DOMAIN q[k].edges
      PROVE  d \in Int \cup {Star} /\ q[k].edges[d] \in 1 .. Len(q)
  <2>1. d \in Int \cup {Star}
    <3>1. q[k] \in NodeOver(Int \cup {Star})
      BY <1>4
    <3>2. DOMAIN q[k].edges \subseteq Int \cup {Star}
      BY <3>1, NodeFacts
    <3> QED  BY <3>2
  <2>2. q[k].edges[d] = k \/ q[k].edges[d] = 1 \/ \E j \in 1 .. Len(e) : q[k].edges[d] = g[j]
    BY <1>2 DEF EdgesDrawn
  <2> QED  BY <1>3, <1>5, <1>6, <2>1, <2>2
<1> QED  BY <1>4, <1>5, <1>6, <1>7

(* A wildcard takes in whatever comes before it.                           *)
LEMMA StarTakesIn ==
    ASSUME NEW e \in Clause, NEW G, SuffixSets(G, e), NEW j \in 1 .. Len(e), e[j] = Star
    PROVE  \A i \in 0 .. j - 1 : G[i] \subseteq G[j - 1]
<1>1. Len(e) \in Nat
  BY LenProperties DEF Clause
<1>2. PICK X : X = G[j - 1]
  OBVIOUS
<1>3. \A c \in Int : \A v \in Word : v \in X => Cons(c, v) \in X
  BY <1>2, SuffixFacts
<1> DEFINE T == {t \in 0 .. j - 1 : G[(j - 1) - t] \subseteq X}
<1>4. 0 \in T
  <2>1. 0 \in 0 .. j - 1 /\ (j - 1) - 0 = j - 1
    BY <1>1
  <2> QED  BY <1>2, <2>1
<1>5. ASSUME NEW t \in 1 .. j - 1, t - 1 \in T PROVE t \in T
  <2>1. PICK p : p = (j - 1) - (t - 1)
    OBVIOUS
  <2>2. p \in 1 .. Len(e) /\ p - 1 = (j - 1) - t /\ t \in 0 .. j - 1
    BY <1>1, <2>1
  <2>3. G[p] \subseteq X
    BY <1>5, <2>1
  <2>4. G[p - 1] \subseteq Word
    BY <2>2, SuffixFacts
  <2> DEFINE U == {u \in Word : u \in G[p - 1] => u \in X}
  <2>5. <<>> \in U
    <3>1. <<>> \in G[p - 1] => <<>> \in G[p]
      BY <2>2, SuffixFacts
    <3>2. <<>> \in Word
      BY EmptySeq DEF Word
    <3> QED  BY <2>3, <3>1, <3>2
  <2>6. ASSUME NEW c \in Int, NEW v \in Word, v \in U PROVE Cons(c, v) \in U
    <3>1. Cons(c, v) \in Word
      BY ConsFacts DEF Word
    <3>2. Cons(c, v) \in G[p - 1] => Cons(c, v) \in G[p] \/ v \in G[p - 1] \/ v \in G[p]
      BY <2>2, SuffixFacts
    <3> QED  BY <1>3, <2>3, <2>6, <3>1, <3>2
  <2> HIDE DEF U
  <2>7. Word \subseteq U
    BY <2>5, <2>6, WordByWord
  <2>8. G[p - 1] \subseteq X
    BY <2>4, <2>7 DEF U
  <2> QED  BY <2>2, <2>8
<1> HIDE DEF T
<1>6. j - 1 \in Nat
  BY <1>1
<1>7. \A t \in 0 .. j - 1 : t \in T
  <2>1. PICK k \in Nat : k = j - 1
    BY <1>6
  <2>2. \A t \in 1 .. k : t - 1 \in T => t \in T
    BY <1>5, <2>1
  <2>3. \A t \in 0 .. k : t \in T
    BY <1>4, <2>2, CountUp
  <2> QED  BY <2>1, <2>3
<1>8. ASSUME NEW i \in 0 .. j - 1 PROVE G[i] \subseteq X
  <2>1. (j - 1) - i \in 0 .. j - 1 /\ (j - 1) - ((j - 1) - i) = i
    BY <1>6
  <2> QED  BY <1>7, <2>1 DEF T
<1> QED  BY <1>2, <1>8

(* Only wildcards leave the node where it is.                              *)
LEMMA OnlyStars ==
    ASSUME NEW e \in Clause, NEW G, SuffixSets(G, e), NEW g, Numbering(g, e), NEW p \in 0 .. Len(e)
    PROVE  \A j \in 0 .. Len(e) :
             p <= j /\ g[j] = g[p] => /\ G[j] \subseteq G[p]
                                      /\ p < j => p + 1 \in 1 .. Len(e) /\ e[p + 1] = Star
<1>1. /\ Len(e) \in Nat /\ (\A j \in 0 .. Len(e) : g[j] \in Nat /\ g[j] >= 1)
      /\ \A k, j \in 0 .. Len(e) : k <= j => g[k] <= g[j]
      /\ \A k \in 0 .. Len(e) : \A j \in 1 .. Len(e) : k < j /\ e[j] # Star => g[k] < g[j]
  BY NumberingRises
<1> DEFINE T == {j \in 0 .. Len(e) : p <= j /\ g[j] = g[p] => G[j] \subseteq G[p]}
<1>2. 0 \in T
  <2>1. p <= 0 => p = 0
    BY <1>1
  <2> QED  BY <1>1, <2>1
<1>3. ASSUME NEW j \in 1 .. Len(e), j - 1 \in T PROVE j \in T
  <2> SUFFICES ASSUME p <= j, g[j] = g[p] PROVE G[j] \subseteq G[p]
    BY <1>1
  <2>1. CASE p = j
    BY <2>1
  <2>2. CASE p # j
    <3>1. p <= j - 1 /\ j - 1 \in 0 .. Len(e) /\ j \in 0 .. Len(e) /\ j - 1 <= j /\ j - 1 < j
      BY <1>1, <2>2
    <3>2. g[p] <= g[j - 1] /\ g[j - 1] <= g[j] /\ g[p] \in Nat /\ g[j - 1] \in Nat
      BY <1>1, <3>1
    <3>3. g[j - 1] = g[p]
      BY <3>2
    <3>4. e[j] = Star
      <4> SUFFICES ASSUME e[j] # Star PROVE FALSE
        OBVIOUS
      <4>1. g[j - 1] < g[j]
        BY <1>1, <3>1
      <4> QED  BY <3>2, <3>3, <4>1
    <3>5. G[j] \subseteq G[j - 1]
      BY <3>4, SuffixFacts
    <3> QED  BY <1>3, <3>1, <3>3, <3>5
  <2> QED  BY <2>1, <2>2
<1> HIDE DEF T
<1>4. \A j \in 0 .. Len(e) : j \in T
  BY <1>1, <1>2, <1>3, CountUp
<1>5. ASSUME NEW j \in 0 .. Len(e), p < j, g[j] = g[p] PROVE p + 1 \in 1 .. Len(e) /\ e[p + 1] = Star
  <2>1. p + 1 \in 1 .. Len(e) /\ p + 1 \in 0 .. Len(e) /\ p < p + 1 /\ p + 1 <= j
    BY <1>1, <1>5
  <2>2. g[p + 1] <= g[j] /\ g[p + 1] \in Nat /\ g[p] \in Nat
    BY <1>1, <2>1
  <2>3. e[p + 1] # Star => g[p] < g[p + 1]
    BY <1>1, <2>1
  <2> QED  BY <1>5, <2>1, <2>2, <2>3
<1> QED  BY <1>4, <1>5 DEF T

(* Nothing too much: a node reached by a character accepts what is left of *)
(* the clause, or what is left from a wildcard before it.                  *)
Left(w, p, e, G) == w \in G[p] \/ \E j \in 1 .. p : e[j] = Star /\ w \in G[j - 1]

LEMMA LeftGrows ==
    ASSUME NEW e \in Clause, NEW G, SuffixSets(G, e), NEW p \in 0 .. Len(e), NEW j \in 1 .. p, e[j] = Star,
           NEW c \in Int, NEW v \in Word, v \in G[j - 1]
    PROVE  Left(Cons(c, v), p, e, G)
<1>1. j \in 1 .. Len(e)
  <2>1. Len(e) \in Nat
    BY LenProperties DEF Clause
  <2> QED  BY <2>1
<1>2. Cons(c, v) \in G[j - 1]
  BY <1>1, SuffixFacts
<1> QED  BY <1>2 DEF Left

LEMMA Sound ==
    ASSUME NEW e, NEW G, NEW g, NEW q, NEW A, Reads(e, G, g, q, A)
    PROVE  \A w \in Word : \A p \in 0 .. Len(e) :
             (p = 0 \/ e[p] # Star) /\ w \in A[g[p]] => Left(w, p, e, G)
<1>1. e \in Clause /\ SuffixSets(G, e) /\ Numbering(g, e) /\ QueryOf(q, e, g) /\ Accepts(q, A)
  BY DEF Reads
<1>2. /\ Len(e) \in Nat /\ (\A j \in 0 .. Len(e) : g[j] \in Nat /\ g[j] >= 1) /\ g[0] = 1
      /\ \A k, j \in 0 .. Len(e) : k <= j => g[k] <= g[j]
      /\ \A k \in 0 .. Len(e) : \A j \in 1 .. Len(e) : k < j /\ e[j] # Star => g[k] < g[j]
  BY <1>1, NumberingRises DEF Numbering
<1>3. /\ Len(q) \in Nat /\ DOMAIN q = 1 .. Len(q) /\ 1 \in 1 .. Len(q)
      /\ \A j \in 0 .. Len(e) : g[j] \in 1 .. Len(q)
      /\ \A k \in 1 .. Len(q) : \A d \in DOMAIN q[k].edges :
           d \in Int \cup {Star} /\ q[k].edges[d] \in 1 .. Len(q)
  BY <1>1, QueryInRange
<1>4. Len(q) = g[Len(e)] /\ EdgesDrawn(q, e, g, Len(e)) /\ \A m \in 1 .. Len(q) : q[m].final <=> Len(e) > 0 /\ m = Len(q)
  BY <1>1 DEF QueryOf
<1> DEFINE T == {w \in Word : \A p \in 0 .. Len(e) :
                   (p = 0 \/ e[p] # Star) /\ w \in A[g[p]] => Left(w, p, e, G)}
<1>5. <<>> \in T
  <2>1. <<>> \in Word
    BY EmptySeq DEF Word
  <2>2. ASSUME NEW p \in 0 .. Len(e), <<>> \in A[g[p]] PROVE Left(<<>>, p, e, G)
    <3>1. q[g[p]].final
      BY <1>1, <1>3, <2>2 DEF Accepts
    <3>2. g[p] = g[Len(e)]
      BY <1>3, <1>4, <3>1
    <3>3. Len(e) \in 0 .. Len(e) /\ p <= Len(e)
      BY <1>2
    <3>4. G[Len(e)] \subseteq G[p]
      BY <1>1, <3>2, <3>3, OnlyStars
    <3>5. <<>> \in G[Len(e)]
      BY <1>1 DEF SuffixSets
    <3> QED  BY <3>4, <3>5 DEF Left
  <2> QED  BY <2>1, <2>2
<1>6. ASSUME NEW c \in Int, NEW v \in Word, v \in T PROVE Cons(c, v) \in T
  <2>1. Cons(c, v) \in Word
    BY ConsFacts DEF Word
  <2>2. ASSUME NEW p \in 0 .. Len(e), p = 0 \/ e[p] # Star, Cons(c, v) \in A[g[p]]
        PROVE  Left(Cons(c, v), p, e, G)
    <3>1. PICK m \in 1 .. Len(q) : m = g[p]
      BY <1>3
    <3>2. PICK d \in DOMAIN q[m].edges : d \in {c, Star} /\ v \in A[q[m].edges[d]]
      BY <1>1, <2>2, <3>1 DEF Accepts
    <3>3. \A x \in 0 .. Len(e) : (x = 0 \/ e[x] # Star) /\ v \in A[g[x]] => Left(v, x, e, G)
      BY <1>6
    <3>4. m \in 1 .. g[Len(e)]
      BY <1>4
    <3>5. \/ d # Star /\ \E j \in 1 .. Len(e) : e[j] = d /\ g[j - 1] = m /\ q[m].edges[d] = g[j]
          \/ d = Star /\ q[m].edges[d] = m /\ \E j \in 1 .. Len(e) : e[j] = Star /\ g[j] = m
          \/ d = Star /\ q[m].edges[d] = 1 /\ \E j \in 1 .. Len(e) : e[j] = Star /\ g[j] < m
      BY <1>4, <3>4 DEF EdgesDrawn
    <3>6. CASE d # Star /\ \E j \in 1 .. Len(e) : e[j] = d /\ g[j - 1] = m /\ q[m].edges[d] = g[j]
      <4>1. PICK j \in 1 .. Len(e) : e[j] = d /\ g[j - 1] = m /\ q[m].edges[d] = g[j]
        BY <3>6
      <4>2. e[j] = c /\ e[j] # Star /\ v \in A[g[j]] /\ j \in 0 .. Len(e) /\ j - 1 \in 0 .. Len(e)
        BY <1>2, <3>2, <3>6, <4>1
      <4>3. Left(v, j, e, G)
        BY <3>3, <4>2
      <4>4. p <= j - 1
        <5> SUFFICES ASSUME ~(p <= j - 1) PROVE FALSE
          OBVIOUS
        <5>1. p # 0 /\ p \in 1 .. Len(e) /\ j - 1 < p
          BY <1>2, <4>2
        <5>2. g[j - 1] < g[p]
          BY <1>2, <2>2, <4>2, <5>1
        <5> QED  BY <1>2, <3>1, <4>1, <5>2
      <4>5. G[j - 1] \subseteq G[p]
        BY <1>1, <3>1, <4>1, <4>2, <4>4, OnlyStars
      <4>6. CASE v \in G[j]
        <5>1. Cons(c, v) \in G[j - 1]
          BY <1>1, <4>2, <4>6, SuffixFacts
        <5> QED  BY <4>5, <5>1 DEF Left
      <4>7. CASE \E k \in 1 .. j : e[k] = Star /\ v \in G[k - 1]
        <5>1. PICK k \in 1 .. j : e[k] = Star /\ v \in G[k - 1]
          BY <4>7
        <5>2. k \in 1 .. Len(e) /\ k <= j - 1 /\ k - 1 \in 0 .. Len(e) /\ k - 1 <= j - 1
          <6>1. k # j
            BY <4>2, <5>1
          <6>2. Len(e) \in Nat
            BY <1>2
          <6> QED  BY <6>1, <6>2
        <5>3. CASE k <= p
          <6>1. k \in 1 .. p
            BY <1>2, <5>2, <5>3
          <6> QED  BY <1>1, <5>1, <6>1, LeftGrows
        <5>4. CASE ~(k <= p)
          <6>1. p <= k - 1
            BY <1>2, <5>2, <5>4
          <6>2. g[p] <= g[k - 1] /\ g[k - 1] <= g[j - 1] /\ g[k - 1] \in Nat
            BY <1>2, <4>2, <5>2, <6>1
          <6>3. g[k - 1] = g[p]
            BY <1>2, <3>1, <4>1, <6>2
          <6>4. G[k - 1] \subseteq G[p]
            BY <1>1, <5>2, <6>1, <6>3, OnlyStars
          <6>5. Cons(c, v) \in G[k - 1]
            BY <1>1, <5>1, <5>2, SuffixFacts
          <6> QED  BY <6>4, <6>5 DEF Left
        <5> QED  BY <5>3, <5>4
      <4> QED  BY <4>3, <4>6, <4>7 DEF Left
    <3>7. CASE d = Star /\ q[m].edges[d] = m /\ \E j \in 1 .. Len(e) : e[j] = Star /\ g[j] = m
      <4>1. Left(v, p, e, G)
        BY <2>2, <3>1, <3>2, <3>3, <3>7
      <4>2. CASE \E k \in 1 .. p : e[k] = Star /\ v \in G[k - 1]
        BY <1>1, <4>2, LeftGrows
      <4>3. CASE v \in G[p]
        <5>1. PICK j \in 1 .. Len(e) : e[j] = Star /\ g[j] = m
          BY <3>7
        <5>2. j \in 0 .. Len(e)
          BY <1>2
        <5>3. p < j
          <6> SUFFICES ASSUME ~(p < j) PROVE FALSE
            OBVIOUS
          <6>1. CASE p = j
            BY <1>2, <2>2, <5>1, <6>1
          <6>2. CASE p # j
            <7>1. j < p /\ p \in 1 .. Len(e) /\ p # 0
              BY <1>2, <6>2
            <7>2. g[j] < g[p]
              BY <1>2, <2>2, <5>2, <7>1
            <7> QED  BY <1>2, <3>1, <5>1, <7>2
          <6> QED  BY <6>1, <6>2
        <5>4. p <= j
          BY <1>2, <5>3
        <5>5. p + 1 \in 1 .. Len(e) /\ e[p + 1] = Star
          BY <1>1, <3>1, <5>1, <5>2, <5>3, <5>4, OnlyStars
        <5>6. PICK i \in 1 .. Len(e) : i = p + 1 /\ i - 1 = p
          BY <1>2, <5>5
        <5>7. Cons(c, v) \in G[i - 1]
          BY <1>1, <4>3, <5>5, <5>6, SuffixFacts
        <5> QED  BY <5>6, <5>7 DEF Left
      <4> QED  BY <4>1, <4>2, <4>3 DEF Left
    <3>8. CASE d = Star /\ q[m].edges[d] = 1 /\ \E j \in 1 .. Len(e) : e[j] = Star /\ g[j] < m
      <4>1. PICK j \in 1 .. Len(e) : e[j] = Star /\ g[j] < m
        BY <3>8
      <4>2. j \in 1 .. p
        <5> SUFFICES ASSUME ~(j \in 1 .. p) PROVE FALSE
          OBVIOUS
        <5>1. j \in 0 .. Len(e) /\ p <= j
          BY <1>2
        <5>2. g[p] <= g[j] /\ g[p] \in Nat /\ g[j] \in Nat
          BY <1>2, <5>1
        <5> QED  BY <3>1, <4>1, <5>2
      <4>3. 0 \in 0 .. Len(e) /\ v \in A[g[0]]
        BY <1>2, <3>2, <3>8
      <4>4. Left(v, 0, e, G)
        BY <3>3, <4>3
      <4>5. v \in G[0]
        <5>1. \A k \in 1 .. 0 : FALSE
          OBVIOUS
        <5> QED  BY <4>4, <5>1 DEF Left
      <4>6. G[0] \subseteq G[j - 1]
        <5>1. 0 \in 0 .. j - 1
          BY <1>2
        <5> QED  BY <1>1, <4>1, <5>1, StarTakesIn
      <4> QED  BY <1>1, <4>1, <4>2, <4>5, <4>6, LeftGrows
    <3> QED  BY <3>5, <3>6, <3>7, <3>8
  <2> QED  BY <2>1, <2>2
<1> HIDE DEF T
<1>7. Word \subseteq T
  BY <1>5, <1>6, WordByWord
<1> QED  BY <1>7 DEF T

(* Nothing too little.                                                     *)
LEMMA Complete ==
    ASSUME NEW e, NEW G, NEW g, NEW q, NEW A, Reads(e, G, g, q, A), Len(e) > 0
    PROVE  G[0] \subseteq A[1]
<1>1. e \in Clause /\ SuffixSets(G, e) /\ Numbering(g, e) /\ QueryOf(q, e, g) /\ Accepts(q, A)
  BY DEF Reads
<1>2. Len(e) \in Nat /\ g[0] = 1 /\ \A i \in 1 .. Len(e) : e[i] \in Int \cup {Star}
  BY <1>1, NumberingRises, ElementOfSeq DEF Numbering, Clause
<1>3. /\ Len(q) \in Nat /\ 1 \in 1 .. Len(q)
      /\ \A j \in 0 .. Len(e) : g[j] \in 1 .. Len(q)
  BY <1>1, QueryInRange
<1>4. Len(q) = g[Len(e)] /\ EdgesDrawn(q, e, g, Len(e)) /\ \A m \in 1 .. Len(q) : q[m].final <=> Len(e) > 0 /\ m = Len(q)
  BY <1>1 DEF QueryOf
<1> DEFINE n == Len(e)
           T == {t \in 0 .. n : G[n - t] \subseteq A[g[n - t]]}
<1>5. 0 \in T
  <2>1. 0 \in 0 .. n /\ n - 0 = n /\ n \in 0 .. n
    BY <1>2
  <2>2. g[n] \in 1 .. Len(q) /\ q[g[n]].final
    BY <1>3, <1>4, <2>1
  <2>3. <<>> \in A[g[n]] /\ G[n] = {<<>>}
    BY <1>1, <2>2 DEF Accepts, SuffixSets
  <2> QED  BY <2>1, <2>3
<1>6. ASSUME NEW t \in 1 .. n, t - 1 \in T PROVE t \in T
  <2>1. PICK j : j = n - (t - 1)
    OBVIOUS
  <2>2. j \in 1 .. Len(e) /\ j - 1 = n - t /\ t \in 0 .. n /\ j - 1 \in 0 .. Len(e) /\ j \in 0 .. Len(e)
    BY <1>2, <2>1
  <2>3. G[j] \subseteq A[g[j]]
    BY <1>6, <2>1
  <2>4. G[j - 1] \subseteq Word
    BY <1>1, <2>2, SuffixFacts
  <2>5. PICK m \in 1 .. Len(q) : m = g[j - 1]
    BY <1>3, <2>2
  <2>6. e[j] \in DOMAIN q[m].edges /\ q[m].edges[e[j]] = g[j]
    BY <1>4, <2>2, <2>5 DEF EdgesDrawn
  <2> DEFINE U == {u \in Word : u \in G[j - 1] => u \in A[m]}
  <2>7. <<>> \in U
    <3>1. <<>> \in Word
      BY EmptySeq DEF Word
    <3>2. CASE e[j] = Star
      <4>1. <<>> \in G[j - 1] => <<>> \in G[j]
        BY <1>1, <2>2, <3>2, SuffixFacts
      <4>2. g[j] = m
        BY <1>1, <2>2, <2>5, <3>2 DEF Numbering
      <4> QED  BY <2>3, <3>1, <4>1, <4>2
    <3>3. CASE e[j] # Star
      BY <1>1, <2>2, <3>1, <3>3, SuffixFacts
    <3> QED  BY <3>2, <3>3
  <2>8. ASSUME NEW c \in Int, NEW v \in Word, v \in U PROVE Cons(c, v) \in U
    <3>1. Cons(c, v) \in Word
      BY ConsFacts DEF Word
    <3>2. Cons(c, v) \in A[m] <=> \E d \in DOMAIN q[m].edges : d \in {c, Star} /\ v \in A[q[m].edges[d]]
      BY <1>1 DEF Accepts
    <3>3. CASE e[j] = Star
      <4>1. Cons(c, v) \in G[j - 1] <=> Cons(c, v) \in G[j] \/ v \in G[j - 1]
        BY <1>1, <2>2, <3>3, SuffixFacts
      <4>2. g[j] = m
        BY <1>1, <2>2, <2>5, <3>3 DEF Numbering
      <4>3. v \in A[m] => Cons(c, v) \in A[m]
        BY <2>6, <3>2, <3>3, <4>2
      <4> QED  BY <2>3, <2>8, <3>1, <4>1, <4>2, <4>3
    <3>4. CASE e[j] # Star
      <4>1. Cons(c, v) \in G[j - 1] <=> c = e[j] /\ v \in G[j]
        BY <1>1, <2>2, <3>4, SuffixFacts
      <4> QED  BY <2>3, <2>6, <3>1, <3>2, <4>1
    <3> QED  BY <3>3, <3>4
  <2> HIDE DEF U
  <2>9. Word \subseteq U
    BY <2>7, <2>8, WordByWord
  <2>10. G[j - 1] \subseteq A[g[j - 1]]
    BY <2>4, <2>5, <2>9 DEF U
  <2> QED  BY <2>2, <2>10
<1>7. n \in Nat
  BY <1>2
<1> HIDE DEF T, n
<1>8. \A t \in 0 .. n : t \in T
  BY <1>5, <1>6, <1>7, CountUp
<1>9. n \in 0 .. n /\ n - n = 0
  BY <1>7
<1> QED  BY <1>2, <1>8, <1>9 DEF T

(* fromString's query accepts the words the clause stands for.             *)
LEMMA QueryAccepts ==
    ASSUME NEW e \in Clause
    PROVE  \E A : /\ Accepts(fromString(e), A) /\ Len(fromString(e)) \in Nat /\ DOMAIN fromString(e) = 1 .. Len(fromString(e))
                  /\ 1 \in 1 .. Len(fromString(e))
                  /\ \A k \in 1 .. Len(fromString(e)) : \A d \in DOMAIN fromString(e)[k].edges :
                       d \in Int \cup {Star} /\ fromString(e)[k].edges[d] \in 1 .. Len(fromString(e))
                  /\ \A w \in Word : w # <<>> => (w \in A[1] <=> Glob(w, e))
<1>1. PICK G, g, q : SuffixSets(G, e) /\ Numbering(g, e) /\ q = fromString(e)
  BY SuffixesExist, NumberingExists
<1>2. QueryOf(q, e, g)
  BY <1>1, FromStringDraws
<1>3. /\ Len(q) \in Nat /\ DOMAIN q = 1 .. Len(q) /\ 1 \in 1 .. Len(q)
      /\ \A k \in 1 .. Len(q) : \A d \in DOMAIN q[k].edges :
           d \in Int \cup {Star} /\ q[k].edges[d] \in 1 .. Len(q)
  BY <1>1, <1>2, QueryInRange
<1>4. PICK A : Accepts(q, A)
  BY <1>3, AcceptsExists
<1>5. Reads(e, G, g, q, A)
  BY <1>1, <1>2, <1>4 DEF Reads
<1>6. Len(e) \in Nat /\ g[0] = 1
  BY <1>1, NumberingRises DEF Numbering
<1>7. ASSUME NEW w \in Word, w # <<>> PROVE w \in A[1] <=> w \in G[0]
  <2>1. ASSUME w \in A[1] PROVE w \in G[0]
    <3>1. 0 \in 0 .. Len(e) /\ w \in A[g[0]]
      BY <1>6, <2>1
    <3>2. Left(w, 0, e, G)
      BY <1>5, <3>1, Sound
    <3>3. \A k \in 1 .. 0 : FALSE
      OBVIOUS
    <3> QED  BY <3>2, <3>3 DEF Left
  <2>2. ASSUME w \in G[0] PROVE w \in A[1]
    <3>1. CASE Len(e) > 0
      BY <1>5, <2>2, <3>1, Complete
    <3>2. CASE ~(Len(e) > 0)
      <4>1. Len(e) = 0
        BY <1>6, <3>2
      <4>2. G[0] = {<<>>}
        BY <1>1, <4>1 DEF SuffixSets
      <4> QED  BY <1>7, <2>2, <4>2
    <3> QED  BY <3>1, <3>2
  <2> QED  BY <2>1, <2>2
<1>8. \A w \in Word : w # <<>> => (w \in A[1] <=> Glob(w, e))
  BY <1>1, <1>7, GlobIs
<1> QED  BY <1>1, <1>3, <1>4, <1>8

(* What intersect adds for a pair of edges, and for a pair of nodes.       *)
Edged(s, q, f, c, d, h, k) ==
    (IF s[h].final /\ q[k].final THEN {<<c>>} ELSE {}) \cup {<<c>> \o w : w \in f[<<h, k>>]}
Shared(s, q, f, z) ==
    UNION {LET h == s[z[1]].edges[x[1]]
               k == q[z[2]].edges[x[2]]
           IN  (IF s[h].final /\ q[k].final THEN {<<x[1]>>} ELSE {})
                 \cup {<<x[1]>> \o w : w \in f[<<h, k>>]} :
             x \in {y \in (DOMAIN s[z[1]].edges) \X (DOMAIN q[z[2]].edges) :
                      y[2] \in {y[1], Star}}}
Agreed(L, A, m, k) == {w \in L[m] \cap A[k] : w # <<>>}

LEMMA OneCharacter ==
    ASSUME NEW c \in Int
    PROVE  <<c>> = Cons(c, <<>>) /\ <<c>> \in Word /\ <<c>> # <<>> /\ <<>> \in Word
<1>1. PICK v \in Word : v = <<>> /\ Len(v) = 0
  BY EmptySeq DEF Word
<1>2. PICK u : u = Cons(c, v)
  OBVIOUS
<1>3. u \in Word /\ Len(u) = Len(v) + 1 /\ u[1] = c
  BY <1>2, ConsIs
<1>4. PICK x : x = <<c>>
  OBVIOUS
<1>5. x \in Seq(Int) /\ Len(x) = 1 /\ x[1] = c
  BY <1>4
<1>6. x = u
  <2>1. \A i \in 1 .. Len(x) : i = 1
    BY <1>5
  <2>2. u \in Seq(Int) /\ Len(u) = 1
    BY <1>1, <1>3 DEF Word
  <2> QED  BY <1>3, <1>5, <2>1, <2>2, SameWord
<1>7. u # v
  BY <1>1, <1>3
<1> QED  BY <1>1, <1>2, <1>3, <1>4, <1>6, <1>7

LEMMA SharedUnfolds ==
    ASSUME NEW s, NEW q, NEW f, NEW m, NEW k
    PROVE  \A u : u \in Shared(s, q, f, <<m, k>>) <=>
             \E c \in DOMAIN s[m].edges, d \in DOMAIN q[k].edges :
               d \in {c, Star} /\ u \in Edged(s, q, f, c, d, s[m].edges[c], q[k].edges[d])
<1>1. PICK X : X = {y \in (DOMAIN s[m].edges) \X (DOMAIN q[k].edges) : y[2] \in {y[1], Star}}
  OBVIOUS
<1>2. Shared(s, q, f, <<m, k>>) = UNION {Edged(s, q, f, x[1], x[2], s[m].edges[x[1]], q[k].edges[x[2]]) : x \in X}
  BY <1>1 DEF Shared, Edged
<1>3. \A x \in X : x[1] \in DOMAIN s[m].edges /\ x[2] \in DOMAIN q[k].edges /\ x[2] \in {x[1], Star}
  BY <1>1
<1>4. \A c \in DOMAIN s[m].edges, d \in DOMAIN q[k].edges : d \in {c, Star} => <<c, d>> \in X /\ <<c, d>>[1] = c /\ <<c, d>>[2] = d
  BY <1>1
<1>5. ASSUME NEW u, u \in Shared(s, q, f, <<m, k>>)
      PROVE  \E c \in DOMAIN s[m].edges, d \in DOMAIN q[k].edges :
               d \in {c, Star} /\ u \in Edged(s, q, f, c, d, s[m].edges[c], q[k].edges[d])
  <2>1. PICK x \in X : u \in Edged(s, q, f, x[1], x[2], s[m].edges[x[1]], q[k].edges[x[2]])
    BY <1>2, <1>5
  <2> QED  BY <1>3, <2>1
<1>6. ASSUME NEW u, NEW c \in DOMAIN s[m].edges, NEW d \in DOMAIN q[k].edges, d \in {c, Star},
             u \in Edged(s, q, f, c, d, s[m].edges[c], q[k].edges[d])
      PROVE  u \in Shared(s, q, f, <<m, k>>)
  <2>1. PICK x \in X : x = <<c, d>> /\ x[1] = c /\ x[2] = d
    BY <1>4, <1>6
  <2>2. u \in Edged(s, q, f, x[1], x[2], s[m].edges[x[1]], q[k].edges[x[2]])
    BY <1>6, <2>1, Zenon
  <2> QED  BY <1>2, <2>2
<1> QED  BY <1>5, <1>6

(* The words both a node of the automaton and one of the query lead on to. *)
LEMMA SharedAre ==
    ASSUME NEW ns, NEW W, NEW L, NEW R, NEW K, Finished(ns, W, L, R, K), NEW q, NEW A, Accepts(q, A),
           \A k \in 1 .. Len(q) : \A d \in DOMAIN q[k].edges : q[k].edges[d] \in 1 .. Len(q),
           NEW m \in 1 .. Len(ns), NEW k \in 1 .. Len(q),
           NEW f, \A c \in DOMAIN ns[m].edges : \A j \in 1 .. Len(q) :
                    f[<<ns[m].edges[c], j>>] = Agreed(L, A, ns[m].edges[c], j)
    PROVE  Shared(ns, q, f, <<m, k>>) = Agreed(L, A, m, k)
<1>1. /\ R \subseteq 1 .. Len(ns)
      /\ \A c \in DOMAIN ns[m].edges : c \in Int /\ ns[m].edges[c] \in R
      /\ \A i \in 1 .. Len(ns) : L[i] \subseteq Word
      /\ \A i \in 1 .. Len(ns) : <<>> \in L[i] <=> ns[i].final
      /\ \A c \in Int : \A w \in Word :
           Cons(c, w) \in L[m] <=> c \in DOMAIN ns[m].edges /\ w \in L[ns[m].edges[c]]
  BY FinishedFacts
<1>2. /\ \A j \in 1 .. Len(q) : A[j] \subseteq Word /\ (<<>> \in A[j] <=> q[j].final)
      /\ \A c \in Int : \A w \in Word : Cons(c, w) \in A[k] <=>
           \E d \in DOMAIN q[k].edges : d \in {c, Star} /\ w \in A[q[k].edges[d]]
  BY DEF Accepts
<1>3. ASSUME NEW u, u \in Shared(ns, q, f, <<m, k>>) PROVE u \in Agreed(L, A, m, k)
  <2>1. PICK c \in DOMAIN ns[m].edges, d \in DOMAIN q[k].edges :
          d \in {c, Star} /\ u \in Edged(ns, q, f, c, d, ns[m].edges[c], q[k].edges[d])
    BY <1>3, SharedUnfolds
  <2>2. PICK h, j : h = ns[m].edges[c] /\ j = q[k].edges[d]
    OBVIOUS
  <2>3. c \in Int /\ h \in 1 .. Len(ns) /\ j \in 1 .. Len(q) /\ f[<<h, j>>] = Agreed(L, A, h, j)
    BY <1>1, <2>2
  <2>4. PICK w \in Word : u = Cons(c, w) /\ w \in L[h] /\ w \in A[j]
    <3>1. u \in Edged(ns, q, f, c, d, h, j)
      BY <2>1, <2>2
    <3>2. CASE ns[h].final /\ q[j].final /\ u = <<c>>
      BY <1>1, <1>2, <2>3, <3>2, OneCharacter
    <3>3. CASE \E w \in f[<<h, j>>] : u = <<c>> \o w
      <4>1. PICK w \in Agreed(L, A, h, j) : u = Cons(c, w)
        BY <2>3, <3>3 DEF Cons
      <4>2. w \in L[h] /\ w \in A[j] /\ w \in Word
        BY <1>1, <2>3, <4>1 DEF Agreed
      <4> QED  BY <4>1, <4>2
    <3> QED  BY <3>1, <3>2, <3>3 DEF Edged
  <2>5. u \in L[m] /\ u \in A[k] /\ u # <<>>
    <3>1. u # <<>>
      BY <2>3, <2>4, AfterCons DEF Word
    <3> QED  BY <1>1, <1>2, <2>1, <2>2, <2>3, <2>4, <3>1
  <2> QED  BY <2>5 DEF Agreed
<1>4. ASSUME NEW u, u \in Agreed(L, A, m, k) PROVE u \in Shared(ns, q, f, <<m, k>>)
  <2>1. u \in L[m] /\ u \in A[k] /\ u # <<>> /\ u \in Word
    BY <1>1, <1>4 DEF Agreed
  <2>2. PICK c, v : c = u[1] /\ v = After(u, 1)
    OBVIOUS
  <2>3. c \in Int /\ v \in Word /\ u = Cons(c, v)
    BY <2>1, <2>2, WordCases DEF Word
  <2>4. c \in DOMAIN ns[m].edges /\ v \in L[ns[m].edges[c]]
    BY <1>1, <2>1, <2>3
  <2>5. PICK d \in DOMAIN q[k].edges : d \in {c, Star} /\ v \in A[q[k].edges[d]]
    BY <1>2, <2>1, <2>3
  <2>6. PICK h, j : h = ns[m].edges[c] /\ j = q[k].edges[d]
    OBVIOUS
  <2>7. h \in 1 .. Len(ns) /\ j \in 1 .. Len(q) /\ f[<<h, j>>] = Agreed(L, A, h, j)
    BY <1>1, <2>4, <2>6
  <2>8. u \in Edged(ns, q, f, c, d, h, j)
    <3>1. CASE v = <<>>
      <4>1. u = <<c>>
        BY <2>3, <3>1, OneCharacter
      <4>2. ns[h].final /\ q[j].final
        BY <1>1, <1>2, <2>4, <2>5, <2>6, <2>7, <3>1
      <4> QED  BY <4>1, <4>2 DEF Edged
    <3>2. CASE v # <<>>
      <4>1. v \in f[<<h, j>>]
        BY <2>4, <2>5, <2>6, <2>7, <3>2 DEF Agreed
      <4>2. u = <<c>> \o v
        BY <2>3 DEF Cons
      <4> QED  BY <4>1, <4>2 DEF Edged
    <3> QED  BY <3>1, <3>2
  <2> QED  BY <2>4, <2>5, <2>6, <2>8, SharedUnfolds
<1> QED  BY <1>3, <1>4

LEMMA IntersectIs ==
    ASSUME NEW ns, NEW W, NEW L, NEW R, NEW K \in Nat, Finished(ns, W, L, R, K), NEW q, NEW A, Accepts(q, A),
           DOMAIN q = 1 .. Len(q), 1 \in 1 .. Len(q),
           \A k \in 1 .. Len(q) : \A d \in DOMAIN q[k].edges : q[k].edges[d] \in 1 .. Len(q)
    PROVE  intersect(ns, q) = Agreed(L, A, 1, 1)
<1> DEFINE Z == (DOMAIN ns) \X (DOMAIN q)
           eq(f) == f = [z \in Z |-> Shared(ns, q, f, z)]
<1>1. intersect(ns, q) = (CHOOSE f : eq(f))[<<1, 1>>]
  BY DEF intersect, Shared
<1>2. /\ DOMAIN ns = 1 .. Len(ns) /\ 1 \in 1 .. Len(ns) /\ R \subseteq 1 .. Len(ns)
      /\ \A m \in 1 .. Len(ns) : \A c \in DOMAIN ns[m].edges : ns[m].edges[c] \in R
  BY FinishedFacts
<1>3. /\ \A m \in 1 .. Len(ns), k \in 1 .. Len(q) : <<m, k>> \in Z /\ <<m, k>>[1] = m /\ <<m, k>>[2] = k
      /\ \A z \in Z : \E m \in 1 .. Len(ns), k \in 1 .. Len(q) : z = <<m, k>>
  BY <1>2
<1> HIDE DEF Z
<1>4. \E f : eq(f)
  <2>1. PICK f : f = [z \in Z |-> Agreed(L, A, z[1], z[2])]
    OBVIOUS
  <2>2. \A m \in 1 .. Len(ns), k \in 1 .. Len(q) : f[<<m, k>>] = Agreed(L, A, m, k)
    BY <1>3, <2>1
  <2>3. ASSUME NEW z \in Z PROVE f[z] = Shared(ns, q, f, z)
    <3>1. PICK m \in 1 .. Len(ns), k \in 1 .. Len(q) : z = <<m, k>>
      BY <1>3
    <3>2. \A c \in DOMAIN ns[m].edges : \A j \in 1 .. Len(q) :
            f[<<ns[m].edges[c], j>>] = Agreed(L, A, ns[m].edges[c], j)
      BY <1>2, <2>2
    <3>3. Shared(ns, q, f, <<m, k>>) = Agreed(L, A, m, k)
      BY <3>2, SharedAre
    <3> QED  BY <2>2, <3>1, <3>3
  <2>4. eq(f)
    <3>1. f = [z \in Z |-> f[z]]
      BY <2>1
    <3> QED  BY <2>3, <3>1
  <2> QED  BY <2>4
<1> DEFINE f == CHOOSE f : eq(f)
<1>5. eq(f)
  BY <1>4
<1>6. intersect(ns, q) = f[<<1, 1>>]
  BY <1>1
<1> HIDE DEF f
<1> DEFINE T == {m \in 1 .. Len(ns) : \A k \in 1 .. Len(q) : f[<<m, k>>] = Agreed(L, A, m, k)}
<1>7. ASSUME NEW m \in 1 .. Len(ns), \A c \in DOMAIN ns[m].edges : ns[m].edges[c] \in T
      PROVE  m \in T
  <2>1. ASSUME NEW k \in 1 .. Len(q) PROVE f[<<m, k>>] = Agreed(L, A, m, k)
    <3>1. \A c \in DOMAIN ns[m].edges : \A j \in 1 .. Len(q) :
            f[<<ns[m].edges[c], j>>] = Agreed(L, A, ns[m].edges[c], j)
      BY <1>7
    <3>2. Shared(ns, q, f, <<m, k>>) = Agreed(L, A, m, k)
      BY <3>1, SharedAre
    <3>3. <<m, k>> \in Z
      BY <1>3
    <3>4. f[<<m, k>>] = Shared(ns, q, f, <<m, k>>)
      BY <1>5, <3>3
    <3> QED  BY <3>2, <3>4
  <2> QED  BY <2>1
<1> HIDE DEF T
<1>8. \A m \in 1 .. Len(ns) : m \in T
  BY <1>7, FromBelow
<1> QED  BY <1>2, <1>6, <1>8 DEF T

(* A clause finds the terms it stands for.                                 *)
LEMMA TermsMatched ==
    ASSUME IndexInv, index # <<>>, NEW e \in Clause
    PROVE  Matched(e) = {w \in Terms : Glob(w, e)}
<1>1. IsFiniteSet(Terms) /\ Terms \subseteq Word /\ index.tokenSet = createTokenSet(Terms)
  BY TermsAreAdded
<1>2. PICK ns : ns = index.tokenSet
  OBVIOUS
<1>3. Automaton(ns, Terms)
  <2>1. PICK S : S = Terms
    OBVIOUS
  <2>2. S \in SUBSET Word /\ IsFiniteSet(S) /\ ns = createTokenSet(S)
    BY <1>1, <1>2, <2>1
  <2>3. PICK s : s = InOrder(S) /\ Ordered(s, S)
    BY <2>2, InOrderOrders
  <2>4. ns = fromArray(s)
    BY <2>2, <2>3 DEF createTokenSet
  <2>5. Automaton(ns, S)
    BY <2>3, <2>4, ArrayIsAutomaton
  <2> QED  BY <2>1, <2>5
<1>4. PICK L, R, K : K \in Nat /\ Finished(ns, Terms, L, R, K)
  BY <1>3 DEF Automaton
<1>5. PICK q : q = fromString(e)
  OBVIOUS
<1>6. PICK A : /\ Accepts(q, A) /\ DOMAIN q = 1 .. Len(q) /\ 1 \in 1 .. Len(q)
               /\ \A k \in 1 .. Len(q) : \A d \in DOMAIN q[k].edges :
                    d \in Int \cup {Star} /\ q[k].edges[d] \in 1 .. Len(q)
               /\ \A w \in Word : w # <<>> => (w \in A[1] <=> Glob(w, e))
  BY <1>5, QueryAccepts
<1>7. intersect(ns, q) = Agreed(L, A, 1, 1)
  BY <1>4, <1>6, IntersectIs
<1>8. L[1] = Terms
  BY <1>4, FinishedFacts
<1>9. \A w : Glob(w, e) => w # <<>>
  BY DEF Glob
<1>10. Agreed(L, A, 1, 1) = {w \in Terms : Glob(w, e)}
  BY <1>1, <1>6, <1>8, <1>9 DEF Agreed
<1> QED  BY <1>2, <1>5, <1>7, <1>10 DEF Matched

-----------------------------------------------------------------------------
(* The vectors of a query and of a field                                   *)

Id(w) == invertedIndex[w].index

LEMMA IdsOfTerms ==
    ASSUME IndexInv, index # <<>>
    PROVE  /\ \A w \in Terms : Id(w) \in Nat
           /\ \A v, w \in Terms : Id(v) = Id(w) => v = w
           /\ \A k \in Docs \X Fields :
                /\ frequencies[k] \in Seq(Entry) /\ Tallies(frequencies[k], FieldTexts[k])
                /\ FieldTexts[k] \in Seq(Word)
                /\ \A i \in 1 .. Len(FieldTexts[k]) : FieldTexts[k][i] \in Terms
                /\ \A i \in 1 .. Len(frequencies[k]) : frequencies[k][i].term \in Terms
           /\ \A w \in Terms, d \in Docs, f \in Fields :
                d \in invertedIndex[w].postings[f] <=> Has(FieldTexts[<<d, f>>], w)
           /\ \A w \in Terms, f \in Fields : invertedIndex[w].postings[f] \subseteq Docs
<1>1. PICK b, ws : b = [freq |-> frequencies, inv |-> invertedIndex] /\ ws = FieldTexts
  OBVIOUS
<1>2. b.freq = frequencies /\ b.inv = invertedIndex
  BY <1>1
<1>3. Built(b, ws) /\ Terms \subseteq Word /\ \A k \in Docs \X Fields : ws[k] \in Seq(Word)
  BY <1>1, TermsAreAdded
<1>4. /\ b \in Builders /\ Numbered(b.inv) /\ Posted(b.inv, ws)
      /\ \A k \in Docs \X Fields : Tallies(b.freq[k], ws[k])
  BY <1>3 DEF Built
<1>5. invertedIndex \in Inverted /\ frequencies \in [Docs \X Fields -> Seq(Entry)]
  BY <1>2, <1>4 DEF Builders
<1>6. \A w \in Terms : invertedIndex[w] \in Posting
  BY <1>5, InvertedFacts DEF Terms
<1>7. \A w \in Terms : Id(w) \in Nat /\ invertedIndex[w].postings \in [Fields -> SUBSET Docs]
  BY <1>6 DEF Posting, Id
<1>8. \A v, w \in Terms : Id(v) = Id(w) => v = w
  BY <1>2, <1>4 DEF Numbered, Id, Terms
<1>9. ASSUME NEW k \in Docs \X Fields
      PROVE  /\ frequencies[k] \in Seq(Entry) /\ Tallies(frequencies[k], ws[k]) /\ ws[k] \in Seq(Word)
             /\ \A i \in 1 .. Len(ws[k]) : ws[k][i] \in Terms
             /\ \A i \in 1 .. Len(frequencies[k]) : frequencies[k][i].term \in Terms
  <2>1. frequencies[k] \in Seq(Entry) /\ Tallies(frequencies[k], ws[k]) /\ ws[k] \in Seq(Word)
    BY <1>2, <1>3, <1>4, <1>5
  <2>2. \A w \in Word : Has(ws[k], w) => w \in Terms
    BY <1>2, <1>4 DEF Posted, Terms
  <2>3. ASSUME NEW i \in 1 .. Len(ws[k]) PROVE ws[k][i] \in Terms
    <3>1. ws[k][i] \in Word
      BY <2>1, ElementOfSeq
    <3> QED  BY <2>2, <3>1 DEF Has
  <2>4. ASSUME NEW i \in 1 .. Len(frequencies[k]) PROVE frequencies[k][i].term \in Terms
    <3>1. frequencies[k][i] \in Entry
      BY <2>1, ElementOfSeq
    <3>2. PICK w : w = frequencies[k][i].term
      OBVIOUS
    <3>3. w \in Word
      BY <3>1, <3>2 DEF Entry
    <3>4. Has(ws[k], w)
      BY <2>1, <3>2, <3>3 DEF Tallies, Has
    <3> QED  BY <2>2, <3>2, <3>3, <3>4
  <2> QED  BY <2>1, <2>3, <2>4
<1>10. ASSUME NEW w \in Terms, NEW d \in Docs, NEW f \in Fields
       PROVE  d \in invertedIndex[w].postings[f] <=> Has(ws[<<d, f>>], w)
  <2>1. PICK k : k = <<d, f>>
    OBVIOUS
  <2>2. k \in Docs \X Fields /\ k[1] = d /\ k[2] = f
    BY <2>1
  <2>3. k[1] \in invertedIndex[w].postings[k[2]] <=> Has(ws[k], w)
    BY <1>2, <1>4, <2>2 DEF Posted, Terms
  <2> QED  BY <2>1, <2>2, <2>3
<1> QED  BY <1>1, <1>7, <1>8, <1>9, <1>10

(* v2 is v with one more for the terms of P.                               *)
Counts(v2, v, P) ==
    /\ v2 \in Vectors
    /\ \A w \in Terms : ValueAt(v2, Id(w)) = ValueAt(v, Id(w)) + IF w \in P THEN 1 ELSE 0

LEMMA UpsertAllCounts ==
    ASSUME IndexInv, index # <<>>, NEW v \in Vectors, NEW P, P \subseteq Terms, IsFiniteSet(P)
    PROVE  Counts(UpsertAll(v, SetToSeq(P)), v, P)
<1>1. PICK s : s = SetToSeq(P)
  OBVIOUS
<1>2. /\ s \in Seq(P) /\ Len(s) \in Nat
      /\ \A i, j \in 1 .. Len(s) : s[i] = s[j] => i = j
      /\ \A x \in P : \E i \in 1 .. Len(s) : s[i] = x
  BY <1>1, Listed
<1>3. \A i \in 1 .. Len(s) : s[i] \in P
  BY <1>2, ElementOfSeq
<1>4. (\A w \in Terms : Id(w) \in Nat) /\ \A x, w \in Terms : Id(x) = Id(w) => x = w
  BY IdsOfTerms
<1> DEFINE n == Len(s)
           eq(h) == h = [i \in 0 .. n |-> IF i = 0 THEN v ELSE upsert(h[i - 1], invertedIndex[s[i]].index, 1)]
           upto(i) == {s[j] : j \in 1 .. i}
           D == [i \in 0 .. n |-> {u \in Vectors : Counts(u, v, upto(i))}]
           turn == [i \in 1 .. n |-> [u \in Vectors |-> upsert(u, Id(s[i]), 1)]]
<1>5. UpsertAll(v, s) = (CHOOSE h : eq(h))[n]
  BY DEF UpsertAll
<1>6. \A i \in 0 .. n : D[i] = {u \in Vectors : Counts(u, v, upto(i))}
  OBVIOUS
<1>7. \A i \in 1 .. n : \A u \in Vectors : turn[i][u] = upsert(u, Id(s[i]), 1)
  OBVIOUS
<1>8. n \in Nat /\ 0 \in 0 .. n /\ n \in 0 .. n /\ \A i \in 1 .. n : i \in 0 .. n /\ i # 0 /\ i - 1 \in 0 .. n
  BY <1>2
<1> HIDE DEF D, turn
<1>9. v \in D[0]
  <2>1. \A x : x \notin upto(0)
    OBVIOUS
  <2>2. \A w \in Terms : ValueAt(v, Id(w)) \in Nat
    BY AtFacts
  <2>3. Counts(v, v, upto(0))
    BY <2>1, <2>2 DEF Counts
  <2> QED  BY <1>6, <1>8, <2>3
<1>10. ASSUME NEW i \in 1 .. n, NEW u \in D[i - 1] PROVE turn[i][u] \in D[i] /\ turn[i][u] = upsert(u, Id(s[i]), 1)
  <2>1. u \in Vectors /\ Counts(u, v, upto(i - 1))
    BY <1>6, <1>8
  <2>2. PICK t : t = s[i]
    OBVIOUS
  <2>3. t \in Terms /\ Id(t) \in Nat
    BY <1>3, <1>4, <2>2
  <2>4. PICK y : y = upsert(u, Id(t), 1)
    OBVIOUS
  <2>5. y \in Vectors /\ \A g \in Nat : ValueAt(y, g) = IF g = Id(t) THEN ValueAt(u, Id(t)) + 1 ELSE ValueAt(u, g)
    <3>1. PICK x \in Nat : x = Id(t)
      BY <2>3
    <3>2. PICK o \in Nat : o = 1
      OBVIOUS
    <3>3. y = upsert(u, x, o)
      BY <2>4, <3>1, <3>2
    <3>4. /\ upsert(u, x, o) \in Vectors
          /\ \A g \in Nat : ValueAt(upsert(u, x, o), g) = IF g = x THEN ValueAt(u, x) + o ELSE ValueAt(u, g)
      BY <2>1, UpsertAdds
    <3> QED  BY <3>1, <3>2, <3>3, <3>4
  <2>6. t \notin upto(i - 1)
    <3> SUFFICES ASSUME NEW j \in 1 .. i - 1, s[j] = t PROVE FALSE
      OBVIOUS
    <3>1. j \in 1 .. Len(s) /\ i \in 1 .. Len(s) /\ j # i
      BY <1>8
    <3> QED  BY <1>2, <2>2, <3>1
  <2>7. \A w : w \in upto(i) <=> w \in upto(i - 1) \/ w = t
    <3>1. \A j \in 1 .. i : j \in 1 .. i - 1 \/ j = i
      BY <1>8
    <3>2. i \in 1 .. i /\ \A j \in 1 .. i - 1 : j \in 1 .. i
      BY <1>8
    <3> QED  BY <2>2, <3>1, <3>2
  <2> HIDE DEF upto
  <2>8. ASSUME NEW w \in Terms
        PROVE  ValueAt(y, Id(w)) = ValueAt(v, Id(w)) + IF w \in upto(i) THEN 1 ELSE 0
    <3>1. Id(w) \in Nat /\ ValueAt(v, Id(w)) \in Nat
      BY <1>4, AtFacts
    <3>2. ValueAt(u, Id(w)) = ValueAt(v, Id(w)) + IF w \in upto(i - 1) THEN 1 ELSE 0
      BY <2>1 DEF Counts
    <3>3. CASE w = t
      <4>1. ValueAt(y, Id(w)) = ValueAt(u, Id(w)) + 1
        BY <2>5, <3>1, <3>3
      <4>2. ValueAt(u, Id(w)) = ValueAt(v, Id(w)) + 0
        BY <2>6, <3>2, <3>3
      <4> QED  BY <2>7, <3>1, <3>3, <4>1, <4>2
    <3>4. CASE w # t
      <4>1. Id(w) # Id(t)
        BY <1>4, <2>3, <3>4
      <4>2. ValueAt(y, Id(w)) = ValueAt(u, Id(w))
        BY <2>5, <3>1, <4>1
      <4> QED  BY <2>7, <3>2, <3>4, <4>2
    <3> QED  BY <3>3, <3>4
  <2>9. Counts(y, v, upto(i))
    BY <2>5, <2>8 DEF Counts
  <2>10. turn[i][u] = y
    BY <1>7, <2>1, <2>2, <2>4
  <2>11. y \in D[i]
    BY <1>6, <1>8, <2>5, <2>9
  <2> QED  BY <2>2, <2>4, <2>10, <2>11
<1>11. Turns(n, D, turn)
  BY <1>10 DEF Turns
<1>12. PICK h : Loop(h, n, v, turn) /\ \A i \in 0 .. n : h[i] \in D[i]
  <2> HIDE DEF n
  <2> QED  BY <1>8, <1>9, <1>11, LoopRuns
<1>13. eq(h)
  <2>1. h = [i \in 0 .. n |-> IF i = 0 THEN v ELSE turn[i][h[i - 1]]]
    BY <1>12 DEF Loop
  <2>2. \A i \in 0 .. n : i # 0 => i \in 1 .. n
    BY <1>8
  <2>3. \A i \in 0 .. n : i # 0 => turn[i][h[i - 1]] = upsert(h[i - 1], invertedIndex[s[i]].index, 1)
    BY <1>8, <1>10, <1>12, <2>2 DEF Id
  <2> HIDE DEF n
  <2>4. [i \in 0 .. n |-> IF i = 0 THEN v ELSE turn[i][h[i - 1]]]
          = [i \in 0 .. n |-> IF i = 0 THEN v ELSE upsert(h[i - 1], invertedIndex[s[i]].index, 1)]
    BY <2>3
  <2> QED  BY <2>1, <2>4
<1> DEFINE k == CHOOSE k : eq(k)
<1>14. eq(k)
  BY <1>13
<1>15. UpsertAll(v, s) = k[n]
  BY <1>5
<1> HIDE DEF k
<1>16. k[0] \in D[0]
  BY <1>8, <1>9, <1>14
<1>17. \A i \in 1 .. n : k[i - 1] \in D[i - 1] => k[i] \in D[i]
  <2> SUFFICES ASSUME NEW i \in 1 .. n, k[i - 1] \in D[i - 1] PROVE k[i] \in D[i]
    OBVIOUS
  <2>1. k[i] = upsert(k[i - 1], Id(s[i]), 1)
    BY <1>8, <1>14 DEF Id
  <2> QED  BY <1>10, <2>1
<1>18. \A i \in 0 .. n : k[i] \in D[i]
  <2> HIDE DEF n
  <2> QED  BY <1>8, <1>16, <1>17, LoopStays
<1>19. Counts(k[n], v, upto(n))
  BY <1>6, <1>8, <1>18
<1>20. upto(n) = P
  BY <1>2, <1>3
<1> QED  BY <1>1, <1>15, <1>19, <1>20, Zenon

(* How many of the first i clauses stand for w.                            *)
Hits(q, w, i) == Cardinality({j \in 1 .. i : Glob(w, q[j])})

LEMMA HitsCount ==
    ASSUME NEW q, NEW w
    PROVE  /\ Hits(q, w, 0) = 0 /\ \A i \in Nat : Hits(q, w, i) \in Nat
           /\ \A i \in Nat : Hits(q, w, i + 1) = Hits(q, w, i) + IF Glob(w, q[i + 1]) THEN 1 ELSE 0
           /\ \A i \in Nat : Hits(q, w, i) > 0 <=> \E j \in 1 .. i : Glob(w, q[j])
<1> DEFINE X(i) == {j \in 1 .. i : Glob(w, q[j])}
<1>1. \A i \in Nat : IsFiniteSet(X(i)) /\ Cardinality(X(i)) \in Nat
  <2> TAKE i \in Nat
  <2>1. IsFiniteSet(1 .. i) /\ X(i) \subseteq 1 .. i
    BY FS_Interval
  <2>2. IsFiniteSet(X(i))
    BY <2>1, FS_Subset
  <2> QED  BY <2>2, FS_CardinalityType
<1>2. X(0) = {} /\ Cardinality({}) = 0
  <2>1. X(0) = {}
    OBVIOUS
  <2> QED  BY <2>1, FS_EmptySet
<1>3. ASSUME NEW i \in Nat
      PROVE  Cardinality(X(i + 1)) = Cardinality(X(i)) + IF Glob(w, q[i + 1]) THEN 1 ELSE 0
  <2>1. \A j : j \in 1 .. i + 1 <=> j \in 1 .. i \/ j = i + 1
    OBVIOUS
  <2>2. i + 1 \notin X(i)
    OBVIOUS
  <2>3. CASE Glob(w, q[i + 1])
    <3>1. X(i + 1) = X(i) \cup {i + 1}
      BY <2>1, <2>3
    <3> HIDE DEF X
    <3>2. Cardinality(X(i) \cup {i + 1}) = Cardinality(X(i)) + 1
      BY <1>1, <2>2, FS_AddElement
    <3> QED  BY <2>3, <3>1, <3>2
  <2>4. CASE ~Glob(w, q[i + 1])
    <3>1. X(i + 1) = X(i)
      BY <2>1, <2>4
    <3> HIDE DEF X
    <3> QED  BY <1>1, <2>4, <3>1
  <2> QED  BY <2>3, <2>4
<1>4. ASSUME NEW i \in Nat PROVE Cardinality(X(i)) > 0 <=> \E j \in 1 .. i : Glob(w, q[j])
  <2>1. Cardinality(X(i)) = 0 <=> X(i) = {}
    <3> HIDE DEF X
    <3> QED  BY <1>1, FS_EmptySet
  <2>2. X(i) # {} <=> \E j \in 1 .. i : Glob(w, q[j])
    OBVIOUS
  <2> HIDE DEF X
  <2> QED  BY <1>1, <2>1, <2>2
<1> QED  BY <1>1, <1>2, <1>3, <1>4 DEF Hits

(* The vector of a query counts, at a term, the clauses that stand for it. *)
Counted(v, q, i) ==
    v \in Vectors /\ \A w \in Terms : ValueAt(v, Id(w)) = Hits(q, w, i)

LEMMA QueryVectorCounts ==
    ASSUME IndexInv, index # <<>>, NEW q \in Seq(Clause)
    PROVE  Counted(QueryVector(q), q, Len(q))
<1> DEFINE n == Len(q)
           eq(h) == h = [i \in 0 .. n |-> IF i = 0 THEN <<>>
                                          ELSE UpsertAll(h[i - 1], SetToSeq(Matched(q[i])))]
           D == [i \in 0 .. n |-> {u \in Vectors : Counted(u, q, i)}]
           turn == [i \in 1 .. n |-> [u \in Vectors |-> UpsertAll(u, SetToSeq(Matched(q[i])))]]
<1>1. n \in Nat /\ 0 \in 0 .. n /\ n \in 0 .. n /\ \A i \in 1 .. n : i \in 0 .. n /\ i # 0 /\ i - 1 \in 0 .. n
  BY LenProperties
<1>2. \A i \in 1 .. n : q[i] \in Clause
  BY ElementOfSeq
<1>3. QueryVector(q) = (CHOOSE h : eq(h))[n]
  BY DEF QueryVector
<1>4. \A i \in 0 .. n : D[i] = {u \in Vectors : Counted(u, q, i)}
  OBVIOUS
<1>5. \A i \in 1 .. n : \A u \in Vectors : turn[i][u] = UpsertAll(u, SetToSeq(Matched(q[i])))
  OBVIOUS
<1> HIDE DEF D, turn
<1>6. <<>> \in D[0]
  <2>1. <<>> \in Vectors /\ \A e : ValueAt(<<>>, e) = 0
    BY NoPairs
  <2>2. \A w : Hits(q, w, 0) = 0
    BY HitsCount
  <2>3. Counted(<<>>, q, 0)
    BY <2>1, <2>2 DEF Counted
  <2> QED  BY <1>1, <1>4, <2>1, <2>3
<1>7. ASSUME NEW i \in 1 .. n, NEW u \in D[i - 1]
      PROVE  turn[i][u] \in D[i] /\ turn[i][u] = UpsertAll(u, SetToSeq(Matched(q[i])))
  <2>1. u \in Vectors /\ Counted(u, q, i - 1)
    BY <1>1, <1>4
  <2>2. PICK P : P = Matched(q[i])
    OBVIOUS
  <2>3. P = {w \in Terms : Glob(w, q[i])} /\ IsFiniteSet(Terms)
    BY <1>2, <2>2, TermsMatched, TermsAreAdded
  <2>4. P \subseteq Terms /\ IsFiniteSet(P)
    BY <2>3, FS_Subset
  <2>5. PICK y : y = UpsertAll(u, SetToSeq(P))
    OBVIOUS
  <2>6. Counts(y, u, P)
    BY <2>1, <2>4, <2>5, UpsertAllCounts
  <2>7. ASSUME NEW w \in Terms PROVE ValueAt(y, Id(w)) = Hits(q, w, i)
    <3>1. ValueAt(y, Id(w)) = ValueAt(u, Id(w)) + IF w \in P THEN 1 ELSE 0
      BY <2>6 DEF Counts
    <3>2. ValueAt(u, Id(w)) = Hits(q, w, i - 1)
      BY <2>1 DEF Counted
    <3>3. PICK j \in Nat : j + 1 = i /\ j = i - 1
      <4>1. i - 1 \in Nat /\ (i - 1) + 1 = i
        BY <1>1
      <4> QED  BY <4>1
    <3>4. Hits(q, w, j + 1) = Hits(q, w, j) + IF Glob(w, q[j + 1]) THEN 1 ELSE 0
      BY HitsCount
    <3>5. w \in P <=> Glob(w, q[j + 1])
      BY <2>3, <3>3
    <3> QED  BY <3>1, <3>2, <3>3, <3>4, <3>5
  <2>8. Counted(y, q, i)
    BY <2>6, <2>7 DEF Counted, Counts
  <2>9. y \in Vectors
    BY <2>6 DEF Counts
  <2>10. turn[i][u] = y
    BY <1>5, <2>1, <2>2, <2>5
  <2>11. y \in D[i]
    BY <1>1, <1>4, <2>8, <2>9
  <2> QED  BY <2>2, <2>5, <2>10, <2>11
<1>8. Turns(n, D, turn)
  BY <1>7 DEF Turns
<1>9. PICK h : Loop(h, n, <<>>, turn) /\ \A i \in 0 .. n : h[i] \in D[i]
  <2> HIDE DEF n
  <2> QED  BY <1>1, <1>6, <1>8, LoopRuns
<1>10. eq(h)
  <2>1. h = [i \in 0 .. n |-> IF i = 0 THEN <<>> ELSE turn[i][h[i - 1]]]
    BY <1>9 DEF Loop
  <2>2. \A i \in 0 .. n : i # 0 => i \in 1 .. n
    BY <1>1
  <2>3. \A i \in 0 .. n : i # 0 => turn[i][h[i - 1]] = UpsertAll(h[i - 1], SetToSeq(Matched(q[i])))
    BY <1>1, <1>7, <1>9, <2>2
  <2> HIDE DEF n
  <2>4. [i \in 0 .. n |-> IF i = 0 THEN <<>> ELSE turn[i][h[i - 1]]]
          = [i \in 0 .. n |-> IF i = 0 THEN <<>> ELSE UpsertAll(h[i - 1], SetToSeq(Matched(q[i])))]
    BY <2>3
  <2> QED  BY <2>1, <2>4
<1> DEFINE k == CHOOSE k : eq(k)
<1>11. eq(k)
  BY <1>10
<1>12. QueryVector(q) = k[n]
  BY <1>3
<1> HIDE DEF k
<1>13. k[0] \in D[0]
  BY <1>1, <1>6, <1>11
<1>14. \A i \in 1 .. n : k[i - 1] \in D[i - 1] => k[i] \in D[i]
  <2> SUFFICES ASSUME NEW i \in 1 .. n, k[i - 1] \in D[i - 1] PROVE k[i] \in D[i]
    OBVIOUS
  <2>1. k[i] = UpsertAll(k[i - 1], SetToSeq(Matched(q[i])))
    BY <1>1, <1>11
  <2> QED  BY <1>7, <2>1
<1>15. \A i \in 0 .. n : k[i] \in D[i]
  <2> HIDE DEF n
  <2> QED  BY <1>1, <1>13, <1>14, LoopStays
<1>16. Counted(k[n], q, n)
  BY <1>1, <1>4, <1>15
<1> QED  BY <1>12, <1>16, Zenon

(* A field's vector gives the sum over the terms it lists, whatever vector *)
(* it is multiplied with.                                                  *)
LEMMA FieldVectorSums ==
    ASSUME IndexInv, index # <<>>, NEW v \in Vectors, NEW fr \in Seq(Entry),
           \A i \in 1 .. Len(fr) : fr[i].term \in Terms,
           NEW g \in [Word -> Nat], \A w \in Terms : g[w] = ValueAt(v, Id(w))
    PROVE  dot(v, FieldVector(fr)) = Total(Weighted(g, fr))
<1> DEFINE n == Len(fr)
           eq(h) == h = [i \in 0 .. n |-> IF i = 0 THEN <<>>
                           ELSE upsert(h[i - 1], invertedIndex[fr[i].term].index, fr[i].count)]
           D == [i \in 0 .. n |-> Vectors]
           turn == [i \in 1 .. n |-> [u \in Vectors |-> upsert(u, Id(fr[i].term), fr[i].count)]]
<1>1. n \in Nat /\ 0 \in 0 .. n /\ n \in 0 .. n /\ \A i \in 1 .. n : i \in 0 .. n /\ i # 0 /\ i - 1 \in 0 .. n
  BY LenProperties
<1>2. \A i \in 1 .. n : fr[i].count \in Nat /\ Id(fr[i].term) \in Nat /\ fr[i].term \in Word /\ fr[i].term \in Terms
  <2> TAKE i \in 1 .. n
  <2>1. fr[i] \in Entry
    BY ElementOfSeq
  <2>2. fr[i].count \in Nat /\ fr[i].term \in Word
    BY <2>1 DEF Entry
  <2>3. \A w \in Terms : Id(w) \in Nat
    BY IdsOfTerms
  <2> QED  BY <2>2, <2>3
<1>3. FieldVector(fr) = (CHOOSE h : eq(h))[n]
  BY DEF FieldVector
<1>4. \A i \in 0 .. n : D[i] = Vectors
  OBVIOUS
<1>5. \A i \in 1 .. n : \A u \in Vectors : turn[i][u] = upsert(u, Id(fr[i].term), fr[i].count)
  OBVIOUS
<1> HIDE DEF D, turn
<1>6. <<>> \in D[0]
  BY <1>1, <1>4, NoPairs
<1>7. ASSUME NEW i \in 1 .. n, NEW u \in Vectors
      PROVE  /\ upsert(u, Id(fr[i].term), fr[i].count) \in Vectors
             /\ dot(v, upsert(u, Id(fr[i].term), fr[i].count)) = dot(v, u) + g[fr[i].term] * fr[i].count
  <2>1. PICK e \in Nat : e = Id(fr[i].term)
    BY <1>2
  <2>2. PICK x \in Nat : x = fr[i].count
    BY <1>2
  <2>3. upsert(u, e, x) \in Vectors
    BY UpsertAdds
  <2>4. dot(v, upsert(u, e, x)) = dot(v, u) + ValueAt(v, e) * x
    BY DotGrows
  <2>5. g[fr[i].term] = ValueAt(v, e)
    BY <1>2, <2>1
  <2> QED  BY <2>1, <2>2, <2>3, <2>4, <2>5
<1>8. Turns(n, D, turn)
  <2>1. ASSUME NEW i \in 1 .. n, NEW u \in D[i - 1] PROVE turn[i][u] \in D[i]
    <3>1. u \in Vectors
      BY <1>1, <1>4
    <3>2. turn[i][u] = upsert(u, Id(fr[i].term), fr[i].count)
      BY <1>5, <3>1
    <3> QED  BY <1>1, <1>4, <1>7, <3>1, <3>2
  <2> QED  BY <2>1 DEF Turns
<1>9. PICK h : Loop(h, n, <<>>, turn) /\ \A i \in 0 .. n : h[i] \in D[i]
  <2> HIDE DEF n
  <2> QED  BY <1>1, <1>6, <1>8, LoopRuns
<1>10. eq(h)
  <2>1. h = [i \in 0 .. n |-> IF i = 0 THEN <<>> ELSE turn[i][h[i - 1]]]
    BY <1>9 DEF Loop
  <2>2. \A i \in 0 .. n : i # 0 => i \in 1 .. n
    BY <1>1
  <2>3. \A i \in 0 .. n : i # 0 => turn[i][h[i - 1]] = upsert(h[i - 1], invertedIndex[fr[i].term].index, fr[i].count)
    BY <1>1, <1>4, <1>5, <1>9, <2>2 DEF Id
  <2> HIDE DEF n
  <2>4. [i \in 0 .. n |-> IF i = 0 THEN <<>> ELSE turn[i][h[i - 1]]]
          = [i \in 0 .. n |-> IF i = 0 THEN <<>>
               ELSE upsert(h[i - 1], invertedIndex[fr[i].term].index, fr[i].count)]
    BY <2>3
  <2> QED  BY <2>1, <2>4
<1> DEFINE k == CHOOSE k : eq(k)
<1>11. eq(k)
  BY <1>10
<1>12. FieldVector(fr) = k[n]
  BY <1>3
<1> HIDE DEF k
<1>13. k[0] = <<>> /\ \A i \in 1 .. n : k[i] = upsert(k[i - 1], Id(fr[i].term), fr[i].count)
  BY <1>1, <1>11 DEF Id
<1>14. \A i \in 0 .. n : k[i] \in Vectors
  <2>1. ASSUME NEW i \in 1 .. n, k[i - 1] \in D[i - 1] PROVE k[i] \in D[i]
    <3>1. k[i - 1] \in Vectors
      BY <1>1, <1>4, <2>1
    <3>2. k[i] \in Vectors
      BY <1>7, <1>13, <3>1
    <3> QED  BY <1>1, <1>4, <3>2
  <2>2. k[0] \in D[0]
    BY <1>6, <1>13
  <2>3. \A i \in 0 .. n : k[i] \in D[i]
    <3> HIDE DEF n
    <3> QED  BY <1>1, <2>1, <2>2, LoopStays
  <2> QED  BY <1>4, <2>3
<1>15. PICK s, U : s = Weighted(g, fr) /\ U = [i \in 0 .. n |-> dot(v, k[i])]
  OBVIOUS
<1>16. s \in Seq(Int) /\ Len(s) = n /\ \A i \in 1 .. n : s[i] = g[fr[i].term] * fr[i].count
  BY <1>15, SumsAreInts
<1>17. U[0] = 0 /\ \A i \in 1 .. n : U[i] = U[i - 1] + s[i]
  <2>1. \A i \in 0 .. n : U[i] = dot(v, k[i])
    BY <1>15
  <2>2. dot(v, <<>>) = 0
    BY DotOfNone
  <2>3. ASSUME NEW i \in 1 .. n PROVE U[i] = U[i - 1] + s[i]
    <3>1. k[i - 1] \in Vectors
      BY <1>1, <1>14
    <3>2. dot(v, k[i]) = dot(v, k[i - 1]) + s[i]
      BY <1>7, <1>13, <1>16, <3>1
    <3> QED  BY <1>1, <2>1, <3>2
  <2> QED  BY <1>1, <1>13, <2>1, <2>2, <2>3
<1>18. U \in [0 .. n -> Int]
  <2>1. ASSUME NEW i \in 0 .. n PROVE dot(v, k[i]) \in Int
    <3>1. PICK u \in Vectors : u = k[i]
      BY <1>14
    <3>2. dot(v, u) = Total(Products(v, u)) /\ Products(v, u) \in Seq(Int)
      BY DotIsTheSum, ProductsAreNumbers
    <3>3. PICK t \in Seq(Int) : t = Products(v, u)
      BY <3>2
    <3>4. PICK T : Sums(T, t)
      BY TotalIsReached
    <3>5. Total(t) \in Int
      BY <3>4, SumsAreTotal
    <3> QED  BY <3>1, <3>2, <3>3, <3>5
  <2> QED  BY <1>15, <2>1
<1>19. Sums(U, s)
  BY <1>16, <1>17, <1>18 DEF Sums
<1>20. Total(s) = U[n]
  BY <1>16, <1>19, SumsAreTotal
<1>21. U[n] = dot(v, k[n])
  BY <1>1, <1>15
<1> QED  BY <1>12, <1>15, <1>20, <1>21

-----------------------------------------------------------------------------
(* Index.query                                                             *)

LEMMA ClausesAre ==
    ASSUME NEW q \in Queries
    PROVE  q \in Seq(Clause) /\ Len(q) \in Nat /\ DOMAIN q = 1 .. Len(q) /\ \A i \in 1 .. Len(q) : q[i] \in Clause
<1>1. q \in Seq(Clause)
  BY IndexAssumption DEF Clause
<1> QED  BY <1>1, LenProperties, ElementOfSeq

LEMMA QueryFinds ==
    ASSUME IndexInv, index # <<>>, NEW q \in Queries
    PROVE  Found(q) = {d \in Docs : \E w \in Added(d) : Cardinality({i \in DOMAIN q : Glob(w, q[i])}) > 0}
<1>1. Len(q) \in Nat /\ DOMAIN q = 1 .. Len(q) /\ \A i \in 1 .. Len(q) : q[i] \in Clause
  BY ClausesAre
<1>2. \A i \in 1 .. Len(q) : Matched(q[i]) = {w \in Terms : Glob(w, q[i])}
  BY <1>1, TermsMatched
<1>3. /\ Terms = UNION {Added(d) : d \in Docs}
      /\ \A k \in Docs \X Fields : FieldTexts[k] = text[k[1]][k[2]] /\ FieldTexts[k] \in Seq(Word)
  BY TermsAreAdded
<1>4. /\ \A w \in Terms, d \in Docs, f \in Fields :
           d \in invertedIndex[w].postings[f] <=> Has(FieldTexts[<<d, f>>], w)
      /\ \A w \in Terms, f \in Fields : invertedIndex[w].postings[f] \subseteq Docs
  BY IdsOfTerms
<1>5. \A w : Cardinality({i \in DOMAIN q : Glob(w, q[i])}) > 0 <=> \E i \in 1 .. Len(q) : Glob(w, q[i])
  BY <1>1, HitsCount DEF Hits
<1>6. ASSUME NEW d \in Docs, NEW w PROVE w \in Added(d) <=> \E f \in Fields : Has(FieldTexts[<<d, f>>], w)
  <2>1. ASSUME NEW f \in Fields PROVE w \in ToSet(text[d][f]) <=> Has(FieldTexts[<<d, f>>], w)
    <3>1. PICK k : k = <<d, f>>
      OBVIOUS
    <3>2. k \in Docs \X Fields /\ k[1] = d /\ k[2] = f
      BY <3>1
    <3>3. FieldTexts[k] = text[d][f] /\ FieldTexts[k] \in Seq(Word)
      BY <1>3, <3>2
    <3>4. DOMAIN FieldTexts[k] = 1 .. Len(FieldTexts[k])
      BY <3>3, LenProperties
    <3> QED  BY <3>1, <3>3, <3>4 DEF ToSet, Has
  <2> QED  BY <2>1 DEF Added
<1>7. ASSUME NEW d, d \in Found(q) PROVE d \in Docs /\ \E w \in Added(d) : \E i \in 1 .. Len(q) : Glob(w, q[i])
  <2>1. PICK i \in 1 .. Len(q) : d \in UNION {UNION {invertedIndex[w].postings[f] : f \in Fields} : w \in Matched(q[i])}
    BY <1>1, <1>7 DEF Found
  <2>2. PICK w \in Matched(q[i]) : d \in UNION {invertedIndex[w].postings[f] : f \in Fields}
    BY <2>1
  <2>3. PICK f \in Fields : d \in invertedIndex[w].postings[f]
    BY <2>2
  <2>4. w \in Terms /\ Glob(w, q[i])
    BY <1>2, <2>2
  <2>5. d \in Docs
    BY <1>4, <2>3, <2>4
  <2> QED  BY <1>4, <1>6, <2>3, <2>4, <2>5
<1>8. ASSUME NEW d \in Docs, NEW w \in Added(d), NEW i \in 1 .. Len(q), Glob(w, q[i]) PROVE d \in Found(q)
  <2>1. w \in Terms
    BY <1>3
  <2>2. w \in Matched(q[i])
    BY <1>2, <1>8, <2>1
  <2>3. PICK f \in Fields : d \in invertedIndex[w].postings[f]
    BY <1>4, <1>6, <2>1
  <2>4. d \in UNION {invertedIndex[w].postings[h] : h \in Fields}
    BY <2>3
  <2>5. d \in UNION {UNION {invertedIndex[x].postings[h] : h \in Fields} : x \in Matched(q[i])}
    BY <2>2, <2>4
  <2> QED  BY <1>1, <2>5 DEF Found
<1> QED  BY <1>5, <1>7, <1>8

LEMMA QueryScores ==
    ASSUME IndexInv, index # <<>>, NEW q \in Queries, NEW d \in Docs, NEW f \in Fields
    PROVE  dot(QueryVector(q), index.vectors[<<d, f>>]) =
             Total([i \in DOMAIN text[d][f] |-> Cardinality({j \in DOMAIN q : Glob(text[d][f][i], q[j])})])
<1>1. q \in Seq(Clause) /\ DOMAIN q = 1 .. Len(q) /\ Len(q) \in Nat
  BY ClausesAre
<1>2. PICK k : k = <<d, f>>
  OBVIOUS
<1>3. k \in Docs \X Fields /\ k[1] = d /\ k[2] = f
  BY <1>2
<1>4. PICK fr, s, v : fr = frequencies[k] /\ s = text[d][f] /\ v = QueryVector(q)
  OBVIOUS
<1>5. FieldTexts[k] = s /\ index.vectors = createFieldVectors
  BY <1>3, <1>4, TermsAreAdded
<1>6. /\ fr \in Seq(Entry) /\ Tallies(fr, s) /\ s \in Seq(Word)
      /\ \A i \in 1 .. Len(s) : s[i] \in Terms
      /\ \A i \in 1 .. Len(fr) : fr[i].term \in Terms
  BY <1>3, <1>4, <1>5, IdsOfTerms
<1>7. v \in Vectors /\ \A w \in Terms : ValueAt(v, Id(w)) = Hits(q, w, Len(q))
  BY <1>1, <1>4, QueryVectorCounts DEF Counted
<1>8. PICK g : g = [w \in Word |-> IF w \in Terms THEN ValueAt(v, Id(w)) ELSE 0]
  OBVIOUS
<1>9. Terms \subseteq Word
  BY TermsAreAdded
<1>10. g \in [Word -> Nat] /\ \A w \in Terms : g[w] = ValueAt(v, Id(w))
  <2>1. \A w : ValueAt(v, Id(w)) \in Nat
    BY <1>7, AtFacts
  <2> QED  BY <1>8, <1>9, <2>1
<1>11. dot(v, FieldVector(fr)) = Total(Weighted(g, fr))
  BY <1>6, <1>7, <1>10, FieldVectorSums
<1>12. Total(Weighted(g, fr)) = Total(Along(g, s))
  BY <1>6, <1>10 DEF Tallies
<1>13. index.vectors[k] = FieldVector(fr)
  BY <1>3, <1>4, <1>5 DEF createFieldVectors
<1>14. DOMAIN s = 1 .. Len(s)
  BY <1>6, LenProperties
<1>15. \A i \in 1 .. Len(s) : g[s[i]] = Cardinality({j \in DOMAIN q : Glob(s[i], q[j])})
  BY <1>1, <1>6, <1>7, <1>10 DEF Hits
<1>16. Along(g, s) = [i \in DOMAIN s |-> Cardinality({j \in DOMAIN q : Glob(s[i], q[j])})]
  BY <1>14, <1>15 DEF Along
<1> QED  BY <1>2, <1>4, <1>11, <1>12, <1>13, <1>16

LEMMA QueriesAnswer == IndexInv => QueriesFindAndScore
<1> SUFFICES ASSUME IndexInv, index # <<>> PROVE QueriesFindAndScore
  BY DEF QueriesFindAndScore
<1> QED  BY QueryFinds, QueryScores DEF QueriesFindAndScore

(* QueriesFindAndScore: once build has run, Index.query finds the          *)
(* documents that hold a word one of its clauses stands for and no other,  *)
(* and scores each field by the words of its text that match, as often as  *)
(* the text has them and clauses match them, whatever the texts and the    *)
(* clauses without digits are.                                             *)
THEOREM QueriesHold == IndexSpec => []QueriesFindAndScore
<1>1. IndexInv => QueriesFindAndScore
  BY QueriesAnswer
<1> QED  BY <1>1, IndexInvHolds, PTL

=============================================================================
