----------------------------- MODULE SearchIndex -----------------------------
(***************************************************************************)
(* The index behind the documentation site's search                        *)
(* (docs/assets/js/application.js, which bundles lunr 2.1.5): documents are*)
(* added, build turns what they hold into vectors and a minimal automaton  *)
(* of all terms, and a query is an automaton with wildcards intersected    *)
(* with it.                                                                *)
(*                                                                         *)
(* A character is a number and a word a sequence of them.  A node's        *)
(* toString, which joins characters and node ids, is taken to tell any two *)
(* nodes apart: so it does as long as no character is a digit.  Weights    *)
(* are counts here: idf and the lengths of fields scale a score and decide *)
(* the ranking only.                                                       *)
(***************************************************************************)
EXTENDS Integers, Sequences, FiniteSets, SequencesExt

CONSTANTS
    Docs,            \* numbers: the documents, in the order they are added
    Fields,
    Texts,           \* what a field may hold: sequences of words
    Star,            \* the wildcard character, no number
    Queries          \* sequences of words with wildcards

ASSUME IndexAssumption ==
    /\ IsFiniteSet(Fields) /\ Texts \subseteq Seq(Seq(Int))
    /\ Star \notin Int /\ Queries \subseteq Seq(Seq(Int \cup {Star}))

VARIABLES
    text,            \* [Docs -> [Fields -> Texts] or <<>>]: the added documents
    invertedIndex,   \* words -> [index, postings : [Fields -> SUBSET Docs]]
    frequencies,     \* [Docs \X Fields -> Seq of [term, count]]
    index            \* what build returns: <<>> or [vectors, tokenSet]

indexVars == <<text, invertedIndex, frequencies, index>>

IndexInit ==
    /\ text = [d \in Docs |-> <<>>]
    /\ invertedIndex = <<>>
    /\ frequencies = [k \in Docs \X Fields |-> <<>>]
    /\ index = <<>>

Terms == DOMAIN invertedIndex

(* JavaScript's order of strings: the prefix first.                        *)
Before(v, w) ==
    \/ IsStrictPrefix(v, w)
    \/ \E i \in DOMAIN v \cap DOMAIN w :
         v[i] < w[i] /\ \A j \in 1 .. i - 1 : v[j] = w[j]

-----------------------------------------------------------------------------
(* Vector: pairs <<index, value>>, sorted by index                         *)

(* A faulty form: the search stops one pair early.                         *)
positionForIndexShort(v, e) ==
    LET P[z \in (0 .. Len(v)) \X (0 .. Len(v))] ==
          LET t == z[1]
              n == z[2]
              i == t + (n - t) \div 2
              o == v[i + 1][1]
          IN  IF n - t > 2 /\ o # e
                THEN P[<<IF o < e THEN i ELSE t, IF o > e THEN i ELSE n>>]
                ELSE IF o < e THEN i + 1 ELSE i
    IN  IF v = <<>> THEN 0 ELSE P[<<0, Len(v)>>]
(* The binary search between t and n; counted in pairs, from 0.            *)
positionForIndex(v, e) ==
    LET P[z \in (0 .. Len(v)) \X (0 .. Len(v))] ==
          LET t == z[1]
              n == z[2]
              i == t + (n - t) \div 2
              o == v[i + 1][1]
          IN  IF n - t > 1 /\ o # e
                THEN P[<<IF o < e THEN i ELSE t, IF o > e THEN i ELSE n>>]
                ELSE IF o < e THEN i + 1 ELSE i
    IN  IF v = <<>> THEN 0 ELSE P[<<0, Len(v)>>]

upsert(v, e, x) ==
    LET r == positionForIndex(v, e) + 1 IN
    IF r <= Len(v) /\ v[r][1] = e THEN [v EXCEPT ![r] = <<e, v[r][2] + x>>]
                                  ELSE InsertAt(v, r, <<e, x>>)

(* One pass over both vectors, which counts on their order.                *)
dot(v, w) ==
    LET D[z \in (1 .. Len(v) + 1) \X (1 .. Len(w) + 1)] ==
          LET c == z[1]
              u == z[2]
          IN  IF c > Len(v) \/ u > Len(w) THEN 0
              ELSE CASE v[c][1] < w[u][1] -> D[<<c + 1, u>>]
                     [] v[c][1] > w[u][1] -> D[<<c, u + 1>>]
                     [] OTHER -> v[c][2] * w[u][2] + D[<<c + 1, u + 1>>]
    IN  D[<<1, 1>>]

-----------------------------------------------------------------------------
(* TokenSet: a sequence of nodes, the first one the root                   *)

Node == [final |-> FALSE, edges |-> <<>>]
WithEdge(node, c, n) ==
    [node EXCEPT !.edges = [x \in DOMAIN @ \cup {c} |-> IF x = c THEN n ELSE @[x]]]

(* toArray: the words on the paths from node n to the final nodes.         *)
toArray(nodes, n) ==
    LET below[m \in DOMAIN nodes] ==
          (IF nodes[m].final THEN {<<>>} ELSE {}) \cup
          UNION {{<<c>> \o w : w \in below[nodes[m].edges[c]]} :
                   c \in DOMAIN nodes[m].edges}
    IN  below[n]

(* A faulty form: nodes with the same edges are one.                       *)
minimizeLastLoosely(a) ==
    LET u == Last(a.unchecked)
        same == {m \in a.minimized : a.nodes[m].edges = a.nodes[u.child].edges}
    IN  [a EXCEPT !.nodes[u.parent] = IF same = {} THEN @
                    ELSE WithEdge(@, u.char, CHOOSE m \in same : TRUE),
                  !.minimized = IF same = {} THEN @ \cup {u.child} ELSE @,
                  !.unchecked = Front(@)]
(* The last node of the current word is replaced by an equal one seen      *)
(* before, or kept as such.                                                *)
minimizeLast(a) ==
    LET u == Last(a.unchecked)
        same == {m \in a.minimized : a.nodes[m] = a.nodes[u.child]}
    IN  [a EXCEPT !.nodes[u.parent] = IF same = {} THEN @
                    ELSE WithEdge(@, u.char, CHOOSE m \in same : TRUE),
                  !.minimized = IF same = {} THEN @ \cup {u.child} ELSE @,
                  !.unchecked = Front(@)]
(* TokenSet.Builder: all of them beyond the first e, from the end.         *)
minimize(b, e) ==
    LET after[i \in 0 .. Len(b.unchecked) - e] ==
          IF i = 0 THEN b ELSE minimizeLast(after[i - 1])
    IN  after[Len(b.unchecked) - e]

Common(v, w) == Cardinality({i \in DOMAIN v \cap DOMAIN w : SubSeq(v, 1, i) = SubSeq(w, 1, i)})

(* A new node behind the last one.                                         *)
grow(a, c) ==
    LET id == Len(a.nodes) + 1
        linked == [a.nodes EXCEPT ![a.at] = WithEdge(a.nodes[a.at], c, id)]
    IN  [a EXCEPT !.nodes = Append(linked, Node),
                  !.unchecked = Append(@, [parent |-> a.at, char |-> c, child |-> id]),
                  !.at = id]

insert(b, w) ==
    LET n == Common(w, b.previousWord)
        m == minimize(b, n)
        from == IF m.unchecked = <<>> THEN 1 ELSE Last(m.unchecked).child
        after[i \in 0 .. Len(w) - n] ==
          IF i = 0 THEN [m EXCEPT !.at = from] ELSE grow(after[i - 1], w[n + i])
        g == after[Len(w) - n]
    IN  [g EXCEPT !.nodes[g.at].final = TRUE, !.previousWord = w]

(* fromArray: every word, in order, then finish.                           *)
fromArray(ws) ==
    LET empty == [nodes |-> <<Node>>, unchecked |-> <<>>, minimized |-> {},
                  previousWord |-> <<>>, at |-> 1]
        after[i \in 0 .. Len(ws)] == IF i = 0 THEN empty ELSE insert(after[i - 1], ws[i])
    IN  minimize(after[Len(ws)], 0).nodes

(* createTokenSet: the words in the order of strings, each behind as many  *)
(* as come before it.                                                      *)
InOrder(words) ==
    [i \in 1 .. Cardinality(words) |->
       CHOOSE w \in words : Cardinality({v \in words : Before(v, w)}) = i - 1]
createTokenSet(words) == fromArray(InOrder(words))

(* fromString: a wildcard stays where it is, and after one any character   *)
(* that does not fit leads back to the start.                              *)
fromString(e) ==
    LET turn(a, i) ==
          LET here == a.nodes[a.at]
              id == Len(a.nodes) + 1
              new == [Node EXCEPT !.final = (i = Len(e))]
              linked == [a.nodes EXCEPT ![a.at] = WithEdge(here, e[i], id)]
          IN  IF e[i] = Star
                THEN [a EXCEPT !.nodes[a.at] =
                        [WithEdge(here, Star, a.at) EXCEPT !.final = (i = Len(e))],
                      !.wild = TRUE]
                ELSE [a EXCEPT
                        !.nodes = Append(linked, IF a.wild THEN WithEdge(new, Star, 1) ELSE new),
                        !.at = id]
        after[i \in 0 .. Len(e)] ==
          IF i = 0 THEN [nodes |-> <<Node>>, at |-> 1, wild |-> FALSE]
          ELSE turn(after[i - 1], i)
    IN  after[Len(e)].nodes

(* intersect: the words below the first automaton's root that the query    *)
(* automaton accepts.                                                      *)
intersect(s, q) ==
    LET both[z \in (DOMAIN s) \X (DOMAIN q)] ==
          UNION {LET h == s[z[1]].edges[x[1]]
                     k == q[z[2]].edges[x[2]]
                 IN  (IF s[h].final /\ q[k].final THEN {<<x[1]>>} ELSE {})
                       \cup {<<x[1]>> \o w : w \in both[<<h, k>>]} :
                   x \in {y \in (DOMAIN s[z[1]].edges) \X (DOMAIN q[z[2]].edges) :
                            y[2] \in {y[1], Star}}}
    IN  both[<<1, 1>>]

-----------------------------------------------------------------------------
(* Builder                                                                 *)

(* One token of field f of document d.                                     *)
AddToken(b, d, f, w) ==
    LET k == <<d, f>>
        fr == b.freq[k]
        known == {i \in DOMAIN fr : fr[i].term = w}
        counted == IF known = {} THEN Append(fr, [term |-> w, count |-> 1])
                   ELSE [fr EXCEPT ![CHOOSE i \in known : TRUE].count = @ + 1]
        posting == IF w \in DOMAIN b.inv THEN b.inv[w]
                   ELSE [index |-> Cardinality(DOMAIN b.inv),
                         postings |-> [g \in Fields |-> {}]]
    IN  [freq |-> [b.freq EXCEPT ![k] = counted],
         inv |-> [x \in DOMAIN b.inv \cup {w} |->
           IF x = w THEN [posting EXCEPT !.postings[f] = @ \cup {d}] ELSE b.inv[x]]]

AddField(b, d, f, words) ==
    LET after[i \in 0 .. Len(words)] ==
          IF i = 0 THEN b ELSE AddToken(after[i - 1], d, f, words[i])
    IN  after[Len(words)]

AddFields(b, d, doc) ==
    LET order == SetToSeq(Fields)
        after[i \in 0 .. Len(order)] ==
          IF i = 0 THEN b ELSE AddField(after[i - 1], d, order[i], doc[order[i]])
    IN  after[Len(order)]

(* Builder.add; what a field holds is what the pipeline leaves of it.      *)
AddDoc(d, doc) ==
    LET b == AddFields([freq |-> frequencies, inv |-> invertedIndex], d, doc)
    IN  /\ index = <<>> /\ text[d] = <<>>
        /\ \A c \in Docs : c < d => text[c] # <<>>
        /\ text' = [text EXCEPT ![d] = doc]
        /\ frequencies' = b.freq /\ invertedIndex' = b.inv
        /\ UNCHANGED index

FieldVector(fr) ==
    LET after[i \in 0 .. Len(fr)] ==
          IF i = 0 THEN <<>>
          ELSE upsert(after[i - 1], invertedIndex[fr[i].term].index, fr[i].count)
    IN  after[Len(fr)]
createFieldVectors == [k \in Docs \X Fields |-> FieldVector(frequencies[k])]

build ==
    /\ index = <<>> /\ \A d \in Docs : text[d] # <<>>
    /\ index' = [vectors |-> createFieldVectors, tokenSet |-> createTokenSet(Terms)]
    /\ UNCHANGED <<text, invertedIndex, frequencies>>

-----------------------------------------------------------------------------
(* Index.query, for clauses given as words with wildcards                  *)

Matched(clause) == intersect(index.tokenSet, fromString(clause))

(* The documents found, and the vector of a field's query.                 *)
Found(clauses) ==
    UNION {UNION {UNION {invertedIndex[w].postings[f] : f \in Fields} :
                    w \in Matched(clauses[i])} : i \in DOMAIN clauses}
UpsertAll(v, words) ==
    LET after[i \in 0 .. Len(words)] ==
          IF i = 0 THEN v ELSE upsert(after[i - 1], invertedIndex[words[i]].index, 1)
    IN  after[Len(words)]
QueryVector(clauses) ==
    LET after[i \in 0 .. Len(clauses)] ==
          IF i = 0 THEN <<>>
          ELSE UpsertAll(after[i - 1], SetToSeq(Matched(clauses[i])))
    IN  after[Len(clauses)]

-----------------------------------------------------------------------------
IndexNext ==
    \/ \E d \in Docs, doc \in [Fields -> Texts] : AddDoc(d, doc)
    \/ build
IndexSpec == IndexInit /\ [][IndexNext]_indexVars

-----------------------------------------------------------------------------
(* Properties                                                              *)

Added(d) == UNION {ToSet(text[d][f]) : f \in Fields}

(* The values the variables take.                                          *)
IndexTypeOK ==
    /\ text \in [Docs -> [Fields -> Texts] \cup {<<>>}]
    /\ \A w \in Terms : /\ invertedIndex[w].index \in 0 .. Cardinality(Terms) - 1
                        /\ invertedIndex[w].postings \in [Fields -> SUBSET Docs]
    /\ DOMAIN frequencies = Docs \X Fields
    /\ index = <<>> \/ DOMAIN index = {"vectors", "tokenSet"}

(* TokenSet.Builder: the automaton holds the terms of the documents and    *)
(* nothing else, and it is the least one that does: no two nodes it        *)
(* reaches stand for the same words.                                       *)
Reach(nodes, n) ==
    LET below[m \in DOMAIN nodes] ==
          {m} \cup UNION {below[nodes[m].edges[c]] : c \in DOMAIN nodes[m].edges}
    IN  below[n]
AutomatonIsTheTerms ==
    index # <<>> =>
      /\ toArray(index.tokenSet, 1) = UNION {Added(d) : d \in Docs}
      /\ \A m, n \in Reach(index.tokenSet, 1) :
           toArray(index.tokenSet, m) = toArray(index.tokenSet, n) => m = n

(* What a word with wildcards stands for: fits says so of what is left of  *)
(* both after z characters.  No clause stands for the empty word, which the*)
(* pipeline may leave of a text: intersect has no words but longer ones.   *)
Glob(w, q) ==
    LET fits[z \in (0 .. Len(w)) \X (0 .. Len(q))] ==
          LET i == z[1]
              j == z[2]
          IN  CASE j = Len(q) -> i = Len(w)
                [] j < Len(q) /\ q[j + 1] = Star ->
                     fits[<<i, j + 1>>] \/ (i < Len(w) /\ fits[<<i + 1, j>>])
                [] OTHER -> i < Len(w) /\ w[i + 1] = q[j + 1] /\ fits[<<i + 1, j + 1>>]
    IN  w # <<>> /\ fits[<<0, 0>>]

Total(s) ==
    LET upto[i \in 0 .. Len(s)] == IF i = 0 THEN 0 ELSE upto[i - 1] + s[i]
    IN  upto[Len(s)]

(* A query finds the documents that hold a word one of its clauses stands  *)
(* for, each of them, and its score in a field is the sum over the terms   *)
(* of that field that match, each as often as the field holds it and       *)
(* clauses match it: vectors stay sorted whatever the order of their       *)
(* terms, or the pass of dot misses some.                                  *)
QueriesFindAndScore ==
    index # <<>> => \A q \in Queries :
      LET clauses(w) == Cardinality({i \in DOMAIN q : Glob(w, q[i])})
          ws(d, f) == text[d][f]
      IN  /\ Found(q) = {d \in Docs : \E w \in Added(d) : clauses(w) > 0}
          /\ \A d \in Docs, f \in Fields :
               dot(QueryVector(q), index.vectors[<<d, f>>]) =
                 Total([i \in DOMAIN ws(d, f) |-> clauses(ws(d, f)[i])])
=============================================================================
