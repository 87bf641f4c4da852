----------------------------- MODULE MusicProofs -----------------------------
(***************************************************************************)
(* Theorems about the list, at any place of it and for any heap, and about *)
(* the music, for any number of connections and titles.  The latter in     *)
(* three layers: the lock and the players (MusicInv), the types of what    *)
(* deletions may mutilate (TypeInv), and, while no deletion overlaps       *)
(* another use of list and files, the list (ListInv) and what a listing    *)
(* has sent of it (SentInv).  With them the list implements Library.       *)
(***************************************************************************)
EXTENDS Music, FiniteSetTheorems, SequenceTheorems, TLAPS

-----------------------------------------------------------------------------
(***************************************************************************)
(* What list_ins_next() and list_rem_next() do to a list, at any place and *)
(* for any heap: the elements are still one chain, with a new element or   *)
(* without the removed one, and all other data is as it was.               *)
(***************************************************************************)

Link == Node \cup {NULL}

\* Lists whose data are of D; those that are disturbed included.
ListOf(D) ==
  [head : Link, tail : Link, size : Nat, next : [Node -> Link],
   data : [Node -> D \cup {Garbage}], live : SUBSET Node]

\* s is the chain of l, and nothing else is in use.
Chain(l, s) ==
  s \in [1..l.size -> Node] /\ IsChain(l, s) /\ l.live = {s[i] : i \in 1..l.size}

\* The i-th element of the chain s, or NULL before and after it.
At(l, s, i) == IF i \in 1..l.size THEN s[i] ELSE NULL

LEMMA HeapFacts == HeapNodes \in Nat /\ NULL \notin Node /\ Node \subseteq Nat
  BY HeapAssumption DEF Node, NULL

LEMMA NodesFinite ==
  ASSUME NEW S \in SUBSET Node
  PROVE  IsFiniteSet(S) /\ Cardinality(S) \in Nat /\ Cardinality(S) <= HeapNodes
<1>1. IsFiniteSet(Node) /\ Cardinality(Node) = HeapNodes
  BY HeapAssumption, FS_Interval DEF Node
<1> QED
  BY <1>1, FS_Subset, FS_CardinalityType, HeapAssumption

\* Head and next lead along the chain.
LEMMA ChainWalk ==
  ASSUME NEW l, l.size \in Nat, NEW s, Chain(l, s)
  PROVE  /\ l.head = At(l, s, 1) /\ l.tail = At(l, s, l.size)
         /\ \A i \in 1..l.size : l.next[s[i]] = At(l, s, i + 1)
         /\ \A i \in 1..l.size : s[i] \in l.live /\ s[i] \in Node
<1>1. \A i \in 1..l.size : s[i] \in l.live /\ s[i] \in Node
  BY DEF Chain
<1>2. \A i \in 1..l.size : l.next[s[i]] = At(l, s, i + 1)
  <2> SUFFICES ASSUME NEW i \in 1..l.size PROVE l.next[s[i]] = At(l, s, i + 1)
    OBVIOUS
  <2>1. CASE i < l.size
    BY <2>1 DEF Chain, IsChain, At
  <2>2. CASE i = l.size
    <3>1. l.tail = s[i] /\ l.next[l.tail] = NULL
      BY <2>2 DEF Chain, IsChain
    <3> QED
      BY <2>2, <3>1 DEF At
  <2> QED
    BY <2>1, <2>2
<1>3. l.head = At(l, s, 1) /\ l.tail = At(l, s, l.size)
  BY DEF Chain, IsChain, At
<1> QED
  BY <1>1, <1>2, <1>3

-----------------------------------------------------------------------------
\* The fields after list_ins_next(), wherever the pointers lead.
LEMMA InsFields ==
  ASSUME NEW D, NEW l \in ListOf(D), NEW e \in Link, NEW n \in Node, NEW d \in D
  PROVE  LET m == InsNext(l, e, n, d)
         IN  /\ m \in ListOf(D)
             /\ m.size = l.size + 1 /\ m.live = l.live \cup {n}
             /\ \A x \in Node :
                  /\ m.data[x] = IF x = n THEN d ELSE l.data[x]
                  /\ m.next[x] = IF x = e THEN n
                                 ELSE IF x # n THEN l.next[x]
                                 ELSE IF e = NULL THEN l.head ELSE l.next[e]
             /\ m.head = IF e = NULL THEN n ELSE l.head
             /\ m.tail = IF (IF e = NULL THEN l.size = 0 ELSE l.next[e] = NULL) THEN n ELSE l.tail
<1> DEFINE m == InsNext(l, e, n, d)
           dt == [l.data EXCEPT ![n] = d]
           nx == IF e = NULL THEN [l.next EXCEPT ![n] = l.head]
                             ELSE [l.next EXCEPT ![n] = l.next[e], ![e] = n]
           hd == IF e = NULL THEN n ELSE l.head
           tl == IF (IF e = NULL THEN l.size = 0 ELSE l.next[e] = NULL) THEN n ELSE l.tail
<1>1. m = [l EXCEPT !.data = dt, !.live = @ \cup {n}, !.size = @ + 1,
                    !.next = nx, !.head = hd, !.tail = tl]
  BY DEF InsNext, ListOf
<1>2. dt \in [Node -> D \cup {Garbage}] /\ nx \in [Node -> Link] /\ hd \in Link /\ tl \in Link
      /\ l.live \cup {n} \in SUBSET Node /\ l.size + 1 \in Nat
  BY DEF ListOf, Link
<1> HIDE DEF dt, nx, hd, tl, m
<1>3. /\ m \in ListOf(D) /\ m.size = l.size + 1 /\ m.live = l.live \cup {n}
      /\ m.data = dt /\ m.next = nx /\ m.head = hd /\ m.tail = tl
  <2>1. m = [head |-> hd, tail |-> tl, size |-> l.size + 1, next |-> nx, data |-> dt,
             live |-> l.live \cup {n}]
    BY <1>1 DEF ListOf
  <2> QED
    BY <2>1, <1>2 DEF ListOf
<1>4. \A x \in Node :
        /\ dt[x] = IF x = n THEN d ELSE l.data[x]
        /\ nx[x] = IF x = e THEN n
                   ELSE IF x # n THEN l.next[x]
                   ELSE IF e = NULL THEN l.head ELSE l.next[e]
  BY HeapFacts DEF dt, nx, ListOf, Link
<1> QED
  BY <1>3, <1>4 DEF hd, tl, m

\* The fields after list_rem_next().
LEMMA RemFields ==
  ASSUME NEW D, NEW l \in ListOf(D), NEW e \in Link, Removes(l, e), Victim(l, e) # NULL
  PROVE  LET m == RemNext(l, e)
             v == Victim(l, e)
         IN  /\ m \in ListOf(D) /\ v \in Node
             /\ m.size = l.size - 1 /\ m.live = l.live \ {v}
             /\ \A x \in Node :
                  /\ m.data[x] = IF x = v THEN Garbage ELSE l.data[x]
                  /\ m.next[x] = IF x = e THEN l.next[v] ELSE l.next[x]
             /\ m.head = IF e = NULL THEN l.next[v] ELSE l.head
             /\ m.tail = IF e = NULL THEN (IF l.size = 1 THEN NULL ELSE l.tail)
                         ELSE (IF l.next[v] = NULL THEN e ELSE l.tail)
<1>1. Victim(l, e) \in Node
  BY DEF Victim, ListOf, Link
<1> DEFINE m == RemNext(l, e)
           v == Victim(l, e)
           nx == IF e = NULL THEN l.next ELSE [l.next EXCEPT ![e] = l.next[v]]
           hd == IF e = NULL THEN l.next[v] ELSE l.head
           tl == IF e = NULL THEN (IF l.size = 1 THEN NULL ELSE l.tail)
                 ELSE (IF l.next[v] = NULL THEN e ELSE l.tail)
<1>2. m = [l EXCEPT !.head = hd, !.tail = tl, !.next = nx, !.data[v] = Garbage,
                    !.live = @ \ {v}, !.size = @ - 1]
  BY DEF RemNext, Victim, ListOf
<1>3. nx \in [Node -> Link] /\ hd \in Link /\ tl \in Link /\ l.size - 1 \in Nat
  BY <1>1 DEF ListOf, Link, Removes
<1> HIDE DEF nx, hd, tl, m, v
<1>4. /\ m \in ListOf(D) /\ m.size = l.size - 1 /\ m.live = l.live \ {v}
      /\ m.data = [l.data EXCEPT ![v] = Garbage] /\ m.next = nx /\ m.head = hd /\ m.tail = tl
  BY <1>1, <1>2, <1>3 DEF ListOf, v
<1>5. \A x \in Node : /\ [l.data EXCEPT ![v] = Garbage][x] = IF x = v THEN Garbage ELSE l.data[x]
                      /\ nx[x] = IF x = e THEN l.next[v] ELSE l.next[x]
  BY HeapFacts DEF nx, ListOf, Link
<1> QED
  BY <1>1, <1>4, <1>5 DEF hd, tl, m, v

-----------------------------------------------------------------------------
\* A chain with n behind its first k elements, and one without element k + 1.
WithNode(l, s, k, n) ==
  [i \in 1..(l.size + 1) |-> IF i <= k THEN s[i] ELSE IF i = k + 1 THEN n ELSE s[i - 1]]

WithoutNode(l, s, k) ==
  [i \in 1..(l.size - 1) |-> IF i <= k THEN s[i] ELSE s[i + 1]]

(* Insertion behind any element, or in front, puts the new element there and *)
(* leaves the others in their order.                                         *)
THEOREM InsertionIsRight ==
  ASSUME NEW D, NEW l \in ListOf(D), NEW s, Chain(l, s), NEW k \in 0..l.size,
         NEW n \in Node \ l.live, NEW d \in D
  PROVE  Chain(InsNext(l, At(l, s, k), n, d), WithNode(l, s, k, n))
<1> DEFINE e == At(l, s, k)
           m == InsNext(l, e, n, d)
           t == WithNode(l, s, k, n)
<1>1. l.size \in Nat /\ e \in Link /\ (e = NULL <=> k = 0) /\ (k > 0 => e = s[k] /\ e \in l.live)
  BY ChainWalk, HeapFacts DEF ListOf, At, Link
<1>2. /\ l.head = At(l, s, 1) /\ l.tail = At(l, s, l.size)
      /\ \A i \in 1..l.size : l.next[s[i]] = At(l, s, i + 1)
      /\ \A i \in 1..l.size : s[i] \in l.live /\ s[i] \in Node /\ s[i] # n
      /\ \A i, j \in 1..l.size : s[i] = s[j] => i = j
      /\ l.live = {s[i] : i \in 1..l.size}
  <2>1. /\ l.head = At(l, s, 1) /\ l.tail = At(l, s, l.size)
        /\ \A i \in 1..l.size : l.next[s[i]] = At(l, s, i + 1)
        /\ \A i \in 1..l.size : s[i] \in l.live /\ s[i] \in Node
    BY <1>1, ChainWalk
  <2>2. \A i \in 1..l.size : s[i] # n
    BY <2>1
  <2>3. \A i, j \in 1..l.size : s[i] = s[j] => i = j
    BY DEF Chain, IsChain
  <2>4. l.live = {s[i] : i \in 1..l.size}
    BY DEF Chain
  <2> QED
    BY <2>1, <2>2, <2>3, <2>4
<1>3. /\ m.size = l.size + 1 /\ m.live = l.live \cup {n}
      /\ \A x \in Node : m.next[x] = IF x = e THEN n
                                     ELSE IF x # n THEN l.next[x]
                                     ELSE IF e = NULL THEN l.head ELSE l.next[e]
      /\ m.head = IF e = NULL THEN n ELSE l.head
      /\ m.tail = IF (IF e = NULL THEN l.size = 0 ELSE l.next[e] = NULL) THEN n ELSE l.tail
  <2>1. n \in Node
    OBVIOUS
  <2> HIDE DEF e
  <2> QED
    BY <1>1, <2>1, InsFields
<1> HIDE DEF m, e
<1>4. /\ \A i \in 1..k : t[i] = s[i]
      /\ t[k + 1] = n
      /\ \A i \in (k + 1)..l.size : t[i + 1] = s[i]
      /\ t \in [1..(l.size + 1) -> Node]
  <2>1. \A i \in 1..k : i \in 1..(l.size + 1) /\ t[i] = s[i]
    BY <1>1 DEF WithNode
  <2>2. k + 1 \in 1..(l.size + 1) /\ t[k + 1] = n
    BY <1>1 DEF WithNode
  <2>3. \A i \in (k + 1)..l.size : t[i + 1] = s[i]
    <3> SUFFICES ASSUME NEW i \in (k + 1)..l.size PROVE t[i + 1] = s[i]
      OBVIOUS
    <3>1. i + 1 \in 1..(l.size + 1) /\ ~(i + 1 <= k) /\ i + 1 # k + 1 /\ (i + 1) - 1 = i
      BY <1>1
    <3> QED
      BY <3>1 DEF WithNode
  <2>4. t \in [1..(l.size + 1) -> Node]
    <3>1. \A i \in 1..(l.size + 1) : i <= k \/ i = k + 1 \/ i - 1 \in 1..l.size
      BY <1>1
    <3>2. \A i \in 1..k : i \in 1..l.size
      BY <1>1
    <3> QED
      BY <1>1, <1>2, <3>1, <3>2 DEF WithNode
  <2> QED
    BY <2>1, <2>2, <2>3, <2>4
<1> HIDE DEF t
<1>5. \A i \in 1..(l.size + 1) :
        i \in 1..k \/ i = k + 1 \/ (i - 1 \in (k + 1)..l.size /\ t[i] = s[i - 1])
  <2> SUFFICES ASSUME NEW i \in 1..(l.size + 1), i > k + 1
               PROVE  i - 1 \in (k + 1)..l.size /\ t[i] = s[i - 1]
    BY <1>1
  <2>1. i - 1 \in (k + 1)..l.size /\ (i - 1) + 1 = i
    BY <1>1
  <2> QED
    BY <2>1, <1>4
<1>6. \A i, j \in 1..(l.size + 1) : t[i] = t[j] => i = j
  <2> SUFFICES ASSUME NEW i \in 1..(l.size + 1), NEW j \in 1..(l.size + 1), t[i] = t[j]
               PROVE  i = j
    OBVIOUS
  <2>1. \A h \in 1..(l.size + 1) :
          \/ h = k + 1 /\ t[h] = n
          \/ h < k + 1 /\ h \in 1..l.size /\ t[h] = s[h]
          \/ h > k + 1 /\ h - 1 \in 1..l.size /\ t[h] = s[h - 1]
    BY <1>1, <1>4, <1>5
  <2> QED
    BY <2>1, <1>1, <1>2
<1>7. l.live \cup {n} = {t[i] : i \in 1..(l.size + 1)}
  <2>1. \A x \in l.live : \E i \in 1..(l.size + 1) : x = t[i]
    <3> SUFFICES ASSUME NEW h \in 1..l.size PROVE \E i \in 1..(l.size + 1) : s[h] = t[i]
      BY <1>2
    <3>1. CASE h <= k
      BY <3>1, <1>1, <1>4
    <3>2. CASE h > k
      BY <3>2, <1>1, <1>4
    <3> QED
      BY <3>1, <3>2, <1>1
  <2>2. n = t[k + 1] /\ k + 1 \in 1..(l.size + 1)
    BY <1>1, <1>4
  <2>3. \A i \in 1..(l.size + 1) : t[i] \in l.live \cup {n}
    <3> SUFFICES ASSUME NEW i \in 1..(l.size + 1) PROVE t[i] \in l.live \cup {n}
      OBVIOUS
    <3>1. CASE i \in 1..k
      BY <3>1, <1>1, <1>2, <1>4
    <3>2. CASE i = k + 1
      BY <3>2, <1>4
    <3>3. CASE i - 1 \in (k + 1)..l.size /\ t[i] = s[i - 1]
      BY <3>3, <1>1, <1>2
    <3> QED
      BY <3>1, <3>2, <3>3, <1>5
  <2> QED
    BY <2>1, <2>2, <2>3
<1>8. \A i \in 1..l.size : m.next[t[i]] = t[i + 1]
  <2> SUFFICES ASSUME NEW i \in 1..l.size PROVE m.next[t[i]] = t[i + 1]
    OBVIOUS
  <2>1. CASE i < k
    <3>1. t[i] = s[i] /\ t[i + 1] = s[i + 1] /\ i + 1 \in 1..l.size
      BY <2>1, <1>1, <1>4
    <3>2. s[i] # e /\ s[i] # n /\ s[i] \in Node
      BY <2>1, <1>1, <1>2
    <3>3. m.next[s[i]] = l.next[s[i]]
      BY <3>2, <1>3
    <3> QED
      BY <3>1, <3>3, <1>2 DEF At
  <2>2. CASE i = k
    <3>1. t[i] = e /\ t[i + 1] = n /\ e \in Node
      BY <2>2, <1>1, <1>2, <1>4
    <3> QED
      BY <3>1, <1>3
  <2>3. CASE i = k + 1
    <3>1. t[i] = n /\ t[i + 1] = s[i]
      BY <2>3, <1>1, <1>4
    <3>2. n # e
      BY <1>1, HeapFacts
    <3>3. (IF e = NULL THEN l.head ELSE l.next[e]) = s[i]
      BY <2>3, <1>1, <1>2 DEF At
    <3> QED
      BY <3>1, <3>2, <3>3, <1>3
  <2>4. CASE i > k + 1
    <3>1. t[i] = s[i - 1] /\ t[i + 1] = s[i] /\ i - 1 \in 1..l.size /\ i - 1 # k
      BY <2>4, <1>1, <1>4, <1>5
    <3>2. s[i - 1] # e
      BY <3>1, <1>1, <1>2, HeapFacts
    <3>3. m.next[s[i - 1]] = l.next[s[i - 1]]
      BY <3>1, <3>2, <1>2, <1>3
    <3>4. l.next[s[i - 1]] = s[i]
      BY <3>1, <1>1, <1>2 DEF At
    <3> QED
      BY <3>1, <3>3, <3>4
  <2> QED
    BY <2>1, <2>2, <2>3, <2>4, <1>1
<1>9. m.head = t[1] /\ m.tail = t[l.size + 1] /\ m.next[m.tail] = NULL
  <2>1. m.head = t[1]
    BY <1>1, <1>2, <1>3, <1>4 DEF At
  <2>2. CASE k = l.size
    BY <2>2, <1>1, <1>2, <1>3, <1>4 DEF At
  <2>3. CASE k < l.size
    <3>1. m.tail = s[l.size]
      BY <2>3, <1>1, <1>2, <1>3, HeapFacts DEF At
    <3>2. t[l.size + 1] = s[l.size]
      BY <2>3, <1>1, <1>4
    <3>3. s[l.size] # e /\ s[l.size] # n /\ s[l.size] \in Node
      BY <2>3, <1>1, <1>2, HeapFacts
    <3>4. m.next[s[l.size]] = l.next[s[l.size]]
      BY <3>3, <1>3
    <3>5. l.next[s[l.size]] = NULL
      BY <2>3, <1>1, <1>2 DEF At
    <3> QED
      BY <3>1, <3>2, <3>4, <3>5, <2>1
  <2> QED
    BY <2>1, <2>2, <2>3, <1>1, <1>3
<1>10. IsChain(m, t)
  BY <1>1, <1>3, <1>4, <1>6, <1>7, <1>8, <1>9 DEF IsChain
<1> QED
  BY <1>3, <1>4, <1>7, <1>10 DEF Chain, m, t, e

(* Removal behind any element, or in front, takes the next element out and   *)
(* leaves the others in their order.                                         *)
THEOREM RemovalIsRight ==
  ASSUME NEW D, NEW l \in ListOf(D), NEW s, Chain(l, s), NEW k \in 0..(l.size - 1)
  PROVE  /\ Removes(l, At(l, s, k)) /\ Victim(l, At(l, s, k)) = s[k + 1]
         /\ Chain(RemNext(l, At(l, s, k)), WithoutNode(l, s, k))
<1> DEFINE e == At(l, s, k)
           v == s[k + 1]
           m == RemNext(l, e)
           t == WithoutNode(l, s, k)
<1>1. /\ l.size \in Nat /\ l.size > 0 /\ k + 1 \in 1..l.size
      /\ e \in Link /\ (e = NULL <=> k = 0) /\ (k > 0 => e = s[k])
  BY ChainWalk, HeapFacts DEF ListOf, At, Link
<1>2. /\ l.head = At(l, s, 1) /\ l.tail = At(l, s, l.size)
      /\ \A i \in 1..l.size : l.next[s[i]] = At(l, s, i + 1)
      /\ \A i \in 1..l.size : s[i] \in l.live /\ s[i] \in Node
      /\ \A i, j \in 1..l.size : s[i] = s[j] => i = j
      /\ l.live = {s[i] : i \in 1..l.size}
  <2>1. /\ l.head = At(l, s, 1) /\ l.tail = At(l, s, l.size)
        /\ \A i \in 1..l.size : l.next[s[i]] = At(l, s, i + 1)
        /\ \A i \in 1..l.size : s[i] \in l.live /\ s[i] \in Node
    BY <1>1, ChainWalk
  <2>2. \A i, j \in 1..l.size : s[i] = s[j] => i = j
    BY DEF Chain, IsChain
  <2>3. l.live = {s[i] : i \in 1..l.size}
    BY DEF Chain
  <2> QED
    BY <2>1, <2>2, <2>3
<1>3. Victim(l, e) = v /\ v # NULL /\ v \in Node
  BY <1>1, <1>2, HeapFacts DEF Victim, At
<1>4. Removes(l, e)
  BY <1>1, <1>3 DEF Removes, Victim
<1>5. /\ m.size = l.size - 1 /\ m.live = l.live \ {v}
      /\ \A x \in Node : m.next[x] = IF x = e THEN l.next[v] ELSE l.next[x]
      /\ m.head = IF e = NULL THEN l.next[v] ELSE l.head
      /\ m.tail = IF e = NULL THEN (IF l.size = 1 THEN NULL ELSE l.tail)
                  ELSE (IF l.next[v] = NULL THEN e ELSE l.tail)
  <2> HIDE DEF e, v
  <2> QED
    BY <1>1, <1>3, <1>4, RemFields
<1> HIDE DEF m, e
<1>6. /\ \A i \in 1..(l.size - 1) : i <= k => t[i] = s[i]
      /\ \A i \in 1..(l.size - 1) : i > k => t[i] = s[i + 1]
      /\ t \in [1..(l.size - 1) -> Node]
  BY <1>1, <1>2 DEF WithoutNode
<1> HIDE DEF t
<1>7. \A i, j \in 1..(l.size - 1) : t[i] = t[j] => i = j
  <2> SUFFICES ASSUME NEW i \in 1..(l.size - 1), NEW j \in 1..(l.size - 1), t[i] = t[j]
               PROVE  i = j
    OBVIOUS
  <2>1. \A h \in 1..(l.size - 1) :
          \/ h <= k /\ h \in 1..l.size /\ t[h] = s[h]
          \/ h > k /\ h + 1 \in 1..l.size /\ t[h] = s[h + 1]
    BY <1>1, <1>6
  <2> QED
    BY <2>1, <1>1, <1>2
<1>8. l.live \ {v} = {t[i] : i \in 1..(l.size - 1)}
  <2>1. \A h \in 1..l.size : h # k + 1 => \E i \in 1..(l.size - 1) : s[h] = t[i]
    <3> SUFFICES ASSUME NEW h \in 1..l.size, h # k + 1
                 PROVE  \E i \in 1..(l.size - 1) : s[h] = t[i]
      OBVIOUS
    <3>1. CASE h <= k
      BY <3>1, <1>1, <1>6
    <3>2. CASE h > k + 1
      <4>1. h - 1 \in 1..(l.size - 1) /\ h - 1 > k /\ (h - 1) + 1 = h
        BY <3>2, <1>1
      <4> QED
        BY <4>1, <1>6
    <3> QED
      BY <3>1, <3>2, <1>1
  <2>2. \A i \in 1..(l.size - 1) : t[i] \in l.live /\ t[i] # v
    <3> SUFFICES ASSUME NEW i \in 1..(l.size - 1) PROVE t[i] \in l.live /\ t[i] # v
      OBVIOUS
    <3>1. CASE i <= k
      <4>1. i \in 1..l.size /\ i # k + 1 /\ t[i] = s[i]
        BY <3>1, <1>1, <1>6
      <4> QED
        BY <4>1, <1>1, <1>2
    <3>2. CASE i > k
      <4>1. i + 1 \in 1..l.size /\ i + 1 # k + 1 /\ t[i] = s[i + 1]
        BY <3>2, <1>1, <1>6
      <4> QED
        BY <4>1, <1>1, <1>2
    <3> QED
      BY <3>1, <3>2, <1>1
  <2>3. \A x \in l.live \ {v} : \E i \in 1..(l.size - 1) : x = t[i]
    BY <2>1, <1>2
  <2> QED
    BY <2>2, <2>3
<1>9. \A i \in 1..(l.size - 2) : m.next[t[i]] = t[i + 1]
  <2> SUFFICES ASSUME NEW i \in 1..(l.size - 2) PROVE m.next[t[i]] = t[i + 1]
    OBVIOUS
  <2>0. i \in 1..(l.size - 1) /\ i + 1 \in 1..(l.size - 1) /\ i \in 1..l.size
        /\ i + 1 \in 1..l.size /\ i + 2 \in 1..l.size /\ (i + 1) + 1 = i + 2
    BY <1>1
  <2>1. CASE i < k
    <3>1. t[i] = s[i] /\ t[i + 1] = s[i + 1] /\ s[i] # e
      BY <2>0, <2>1, <1>1, <1>2, <1>6
    <3> QED
      BY <3>1, <2>0, <1>2, <1>5 DEF At
  <2>2. CASE i = k
    <3>1. t[i] = e /\ t[i + 1] = s[i + 2] /\ e \in Node
      BY <2>0, <2>2, <1>1, <1>2, <1>6
    <3>2. l.next[v] = s[i + 2]
      BY <2>0, <2>2, <1>2 DEF At
    <3> QED
      BY <3>1, <3>2, <1>5
  <2>3. CASE i > k
    <3>1. t[i] = s[i + 1] /\ t[i + 1] = s[i + 2]
      BY <2>0, <2>3, <1>1, <1>6
    <3>2. s[i + 1] # e /\ s[i + 1] \in Node
      BY <2>0, <2>3, <1>1, <1>2, HeapFacts
    <3>3. l.next[s[i + 1]] = s[i + 2]
      BY <2>0, <1>2 DEF At
    <3> QED
      BY <3>1, <3>2, <3>3, <1>5
  <2> QED
    BY <2>1, <2>2, <2>3, <1>1
<1>10. l.size = 1 => m.head = NULL /\ m.tail = NULL
  BY <1>1, <1>2, <1>5 DEF At
<1>11. l.size > 1 => m.head = t[1]
  <2>1. CASE k = 0
    BY <2>1, <1>1, <1>2, <1>5, <1>6 DEF At
  <2>2. CASE k > 0
    BY <2>2, <1>1, <1>2, <1>5, <1>6 DEF At
  <2> QED
    BY <2>1, <2>2, <1>1
<1>12. l.size > 1 => m.tail = t[l.size - 1] /\ m.next[m.tail] = NULL
  <2> SUFFICES ASSUME l.size > 1 PROVE m.tail = t[l.size - 1] /\ m.next[m.tail] = NULL
    OBVIOUS
  <2>0. l.size - 1 \in 1..(l.size - 1) /\ l.size - 1 \in 1..l.size /\ l.size \in 1..l.size
        /\ (l.size - 1) + 1 = l.size
    BY <1>1
  <2>1. CASE k = l.size - 1
    <3>1. l.next[v] = NULL /\ e # NULL
      BY <2>1, <2>0, <1>1, <1>2 DEF At
    <3>2. t[l.size - 1] = e /\ e \in Node
      BY <2>1, <2>0, <1>1, <1>2, <1>6
    <3> QED
      BY <3>1, <3>2, <1>5
  <2>2. CASE k < l.size - 1
    <3>1. l.next[v] # NULL
      BY <2>2, <1>1, <1>2, HeapFacts DEF At
    <3>2. t[l.size - 1] = s[l.size] /\ l.tail = s[l.size]
      BY <2>2, <2>0, <1>1, <1>2, <1>6 DEF At
    <3>3. m.tail = s[l.size]
      BY <3>1, <3>2, <1>5
    <3>4. s[l.size] # e /\ s[l.size] \in Node
      BY <2>2, <2>0, <1>1, <1>2, HeapFacts
    <3>5. l.next[s[l.size]] = NULL
      BY <2>0, <1>1, <1>2 DEF At
    <3> QED
      BY <3>2, <3>3, <3>4, <3>5, <1>5
  <2> QED
    BY <2>1, <2>2, <1>1
<1>13. IsChain(m, t)
  BY <1>1, <1>5, <1>7, <1>8, <1>9, <1>10, <1>11, <1>12 DEF IsChain
<1> QED
  BY <1>3, <1>4, <1>5, <1>6, <1>8, <1>13 DEF Chain, m, t, e

-----------------------------------------------------------------------------
\* The list that start-up builds is one chain, element 1, 2, ...
LEMMA FromTitlesIsRight ==
  ASSUME NEW D, NEW k \in 0..HeapNodes, NEW ts \in [1..k -> D]
  PROVE  LET l == FromTitles(ts)
         IN  /\ l \in ListOf(D) /\ l.size = k /\ l.live = 1..k
             /\ \A n \in 1..k : n \in Node /\ l.data[n] = ts[n]
             /\ Chain(l, [i \in 1..k |-> i])
<1> DEFINE l == FromTitles(ts)
           s == [i \in 1..k |-> i]
<1>1. k \in Nat /\ 1..k \subseteq Node
  BY HeapAssumption DEF Node
<1>2. ts \in Seq(D)
  BY <1>1, SeqDef
<1>3. Len(ts) = k
  BY <1>1, <1>2, LenProperties
<1>4. ts = <<>> <=> k = 0
  BY <1>1, <1>2, <1>3, EmptySeq
<1>5. l = [head |-> IF k = 0 THEN NULL ELSE 1, tail |-> k, size |-> k,
           next |-> [n \in Node |-> IF n < k THEN n + 1 ELSE NULL],
           data |-> [n \in Node |-> IF n <= k THEN ts[n] ELSE Garbage],
           live |-> 1..k]
  BY <1>3, <1>4 DEF FromTitles
<1>6. /\ (IF k = 0 THEN NULL ELSE 1) \in Link /\ k \in Link
      /\ [n \in Node |-> IF n < k THEN n + 1 ELSE NULL] \in [Node -> Link]
      /\ [n \in Node |-> IF n <= k THEN ts[n] ELSE Garbage] \in [Node -> D \cup {Garbage}]
  BY <1>1, HeapFacts DEF Link, Node, NULL
<1>7. l \in ListOf(D)
  BY <1>1, <1>5, <1>6 DEF ListOf
<1>8. \A n \in 1..k : n \in Node /\ l.data[n] = ts[n]
  BY <1>1, <1>5
<1>9. s \in [1..l.size -> Node] /\ l.live = {s[i] : i \in 1..l.size}
  BY <1>1, <1>5
<1>10. IsChain(l, s)
  BY <1>1, <1>5, HeapFacts DEF IsChain, NULL
<1> QED
  BY <1>5, <1>7, <1>8, <1>9, <1>10 DEF Chain

\* However an order is found that strings the elements together, it has them all.
LEMMA ChainsCover ==
  ASSUME NEW D, NEW l \in ListOf(D), NEW s, Chain(l, s),
         NEW t \in [1..l.size -> Node], IsChain(l, t)
  PROVE  l.live = {t[i] : i \in 1..l.size} /\ Cardinality(l.live) = l.size
<1>1. l.size \in Nat /\ IsFiniteSet(l.live) /\ IsFiniteSet(1..l.size) /\ Cardinality(1..l.size) = l.size
  BY NodesFinite, FS_Interval DEF ListOf
<1>2. s \in Injection(1..l.size, l.live) /\ s \in Surjection(1..l.size, l.live)
  BY DEF Chain, IsChain, Injection, IsInjective, Surjection
<1>3. t \in Injection(1..l.size, l.live)
  BY DEF IsChain, Injection, IsInjective
<1>4. Cardinality(l.live) = l.size
  BY <1>1, <1>2, FS_Injection
<1>5. t \in Surjection(1..l.size, l.live)
  BY <1>1, <1>3, <1>4, FS_Injection
<1> QED
  BY <1>4, <1>5 DEF Surjection

-----------------------------------------------------------------------------
\* A bounded set of positions has a first one.
LEMMA FirstExists ==
  ASSUME NEW n \in Nat, NEW T \in SUBSET (1..n), T # {}
  PROVE  \E x \in T : \A y \in T : x <= y
<1> DEFINE S == 1..n
           R == StrictSubsetOrdering(S)
           I == {1..m : m \in T}
<1>1. IsFiniteSet(S)
  BY FS_Interval
<1>2. IsWellFoundedOn(R, SUBSET S)
  BY <1>1, FS_StrictSubsetOrderingWellFounded, FS_FiniteSubsetsOfFinite
<1>3. I \subseteq SUBSET S /\ I # {}
  <2>1. \A m \in T : 1..m \subseteq S
    OBVIOUS
  <2>2. PICK m \in T : TRUE
    OBVIOUS
  <2> HIDE DEF S
  <2> QED
    BY <2>1, <2>2
<1>4. PICK m \in I : \A j \in I : ~(<<j, m>> \in R)
  <2> HIDE DEF R, I, S
  <2> QED
    BY <1>2, <1>3, WFMin
<1>5. PICK x \in T : m = 1..x
  BY <1>4
<1>6. ASSUME NEW y \in T, y < x PROVE FALSE
  <2>1. 1..y \in I /\ 1..y \subseteq m /\ 1..y # m
    BY <1>5, <1>6
  <2>2. <<1..y, m>> \in R
    BY <1>3, <1>4, <2>1 DEF StrictSubsetOrdering
  <2> QED
    BY <1>4, <2>1, <2>2
<1> QED
  BY <1>6

\* Head and next determine the chain.
LEMMA ChainUnique ==
  ASSUME NEW l, l.size \in Nat,
         NEW s \in [1..l.size -> Node], IsChain(l, s),
         NEW t \in [1..l.size -> Node], IsChain(l, t)
  PROVE  s = t
<1> DEFINE T == {i \in 1..l.size : s[i] # t[i]}
<1>1. ASSUME T # {} PROVE FALSE
  <2>1. PICK x \in T : \A y \in T : x <= y
    BY <1>1, FirstExists
  <2>2. x # 1
    BY <2>1 DEF IsChain
  <2>3. x - 1 \in 1..l.size /\ x - 1 < l.size /\ x - 1 \notin T /\ (x - 1) + 1 = x
    BY <2>1, <2>2
  <2>4. s[x - 1] = t[x - 1]
    BY <2>3
  <2> QED
    BY <2>1, <2>3, <2>4 DEF IsChain
<1> QED
  BY <1>1

-----------------------------------------------------------------------------
(* The lock and the players.                                                *)

\* The steps of receive_file() and transfer_list() between lock and unlock.
LockedStep == {"name", "data", "scan", "insert", "walk", "current", "release"}

StepsOK == pc \in [Clients -> Step] /\ name \in [Clients -> Title \cup {NoTitle}]

\* The lock is held by the one thread that is between its lock and unlock.
LockInv == /\ lock = {c \in Clients : pc[c] \in LockedStep}
           /\ \A c, d \in lock : c = d

\* One call of play_music() at a time has killed all players, or is to do so.
PlayInv ==
  ~clash =>
    /\ \A c, d \in Clients : pc[c] \in Playing /\ pc[d] \in Playing => c = d
    /\ (\A c \in Clients : pc[c] \notin Playing) => tunes \subseteq {current}
    /\ \A c \in Clients : /\ pc[c] \in Playing \ {"kill"} => tunes = {}
                          /\ pc[c] = "launch" => current = name[c]

MusicInv == StepsOK /\ LockInv /\ PlayInv

LEMMA MusicInvInit == MusicInit => MusicInv
  BY DEF MusicInit, MusicInv, StepsOK, LockInv, PlayInv, All, Step, LockedStep, Playing

\* Uploads and listings.
LockedKeeps(c) ==
  \/ AskUpload(c) \/ AskListing(c) \/ AcquireUpload(c) \/ AcquireListing(c)
  \/ OpenFile(c) \/ OpenFails(c) \/ CloseFile(c) \/ Scan(c) \/ Insert(c)
  \/ SendTitle(c) \/ SendCurrent(c) \/ Release(c)

\* Deletions.
DeleteKeeps(c) ==
  \/ \E f \in Title : AskDelete(c, f)
  \/ TestCurrent(c) \/ Unlink(c) \/ Search(c) \/ FreeTitle(c)

\* None of them takes part in playing.
LEMMA Aside ==
  ASSUME StepsOK, NEW c \in Clients, LockedKeeps(c) \/ DeleteKeeps(c)
  PROVE  /\ pc[c] \notin Playing /\ pc'[c] \notin Playing
         /\ pc' \in [Clients -> Step] /\ name' \in [Clients -> Title \cup {NoTitle}]
         /\ \A d \in Clients \ {c} : pc'[d] = pc[d] /\ name'[d] = name[d]
         /\ UNCHANGED <<current, tunes, clash>>
<1>1. CASE LockedKeeps(c)
  BY <1>1 DEF LockedKeeps, StepsOK, AskUpload, AskListing, AcquireUpload, AcquireListing,
     OpenFile, OpenFails, CloseFile, Scan, Insert, SendTitle, SendCurrent, Release, Goto, Finish,
     Playing, Step
<1>2. CASE DeleteKeeps(c)
  BY <1>2 DEF DeleteKeeps, StepsOK, AskDelete, TestCurrent, Unlink, Search, FreeTitle, Goto,
     Finish, Playing, Step
<1> QED
  BY <1>1, <1>2

LEMMA AsideKeeps ==
  ASSUME MusicInv, NEW c \in Clients, LockedKeeps(c) \/ DeleteKeeps(c)
  PROVE  MusicInv'
<1> USE DEF MusicInv
<1>1. StepsOK' /\ PlayInv'
  BY Aside DEF StepsOK, PlayInv, Playing
<1>2. LockInv'
  <2>1. CASE LockedKeeps(c)
    <3>1. \/ /\ pc[c] \in LockedStep <=> pc'[c] \in LockedStep
             /\ lock' = lock
          \/ pc[c] \notin LockedStep /\ pc'[c] \in LockedStep /\ lock = {} /\ lock' = {c}
          \/ pc[c] \in LockedStep /\ pc'[c] \notin LockedStep /\ lock' = {}
      BY <2>1 DEF LockedKeeps, StepsOK, AskUpload, AskListing, AcquireUpload, AcquireListing,
         OpenFile, OpenFails, CloseFile, Scan, Insert, SendTitle, SendCurrent, Release, Goto,
         Finish, LockedStep
    <3> QED
      BY <3>1, Aside, <2>1 DEF LockInv
  <2>2. CASE DeleteKeeps(c)
    <3>1. pc[c] \notin LockedStep /\ pc'[c] \notin LockedStep /\ lock' = lock
      BY <2>2 DEF DeleteKeeps, StepsOK, AskDelete, TestCurrent, Unlink, Search, FreeTitle, Goto,
         Finish, LockedStep
    <3> QED
      BY <3>1, Aside, <2>2 DEF LockInv
  <2> QED
    BY <2>1, <2>2
<1> QED
  BY <1>1, <1>2

\* Playing.
PlayStep(c) ==
  \/ \E f \in Title : AskPlay(c, f)
  \/ KillAll(c) \/ Compare(c) \/ StartCopy(c) \/ EndCopy(c) \/ Launch(c) \/ Clear(c)

LEMMA PlayKeeps ==
  ASSUME MusicInv, NEW c \in Clients, PlayStep(c)
  PROVE  MusicInv'
<1> USE DEF MusicInv
<1>1. StepsOK'
  BY DEF PlayStep, StepsOK, AskPlay, KillAll, Compare, StartCopy, EndCopy, Launch, Clear, Goto,
     Finish, Step
<1>2. LockInv'
  BY DEF PlayStep, StepsOK, LockInv, AskPlay, KillAll, Compare, StartCopy, EndCopy, Launch, Clear,
     Goto, Finish, LockedStep
<1>3. PlayInv'
  <2>1. ASSUME NEW f \in Title, AskPlay(c, f) PROVE PlayInv'
    <3>1. /\ \A d \in Clients \ {c} : pc'[d] = pc[d]
          /\ pc'[c] = "kill" /\ clash' = (\E d \in Clients \ {c} : pc[d] \in Playing)
      BY <2>1 DEF AskPlay, Goto, StepsOK, Others
    <3> QED
      BY <3>1 DEF PlayInv, Playing
  <2>2. CASE KillAll(c)
    <3>1. /\ tunes' = {} /\ UNCHANGED <<current, name, clash>> /\ pc[c] = "kill"
          /\ \A d \in Clients : pc'[d] = IF d = c THEN "compare"
                                         ELSE IF pc[d] = "playing" THEN "idle" ELSE pc[d]
      BY <2>2 DEF KillAll
    <3> QED
      BY <3>1 DEF PlayInv, Playing
  <2>3. CASE Compare(c) \/ StartCopy(c) \/ EndCopy(c)
    <3>1. /\ UNCHANGED <<tunes, name, clash>>
          /\ \A d \in Clients \ {c} : pc'[d] = pc[d]
          /\ pc[c] \in Playing \ {"kill"} /\ pc'[c] \in Playing \ {"kill"}
          /\ pc'[c] = "launch" => current' = name[c]
      BY <2>3 DEF Compare, StartCopy, EndCopy, Goto, StepsOK, Playing
    <3> QED
      BY <3>1 DEF PlayInv, Playing
  <2>4. CASE Launch(c) \/ Clear(c)
    <3>1. /\ clash' = clash /\ tunes' \subseteq tunes \cup {current'}
          /\ \A d \in Clients \ {c} : pc'[d] = pc[d]
          /\ pc[c] \in Playing \ {"kill"} /\ pc'[c] \notin Playing
      BY <2>4 DEF Launch, Clear, Finish, Goto, StepsOK, Playing
    <3> QED
      BY <3>1 DEF PlayInv, Playing
  <2> QED
    BY <2>1, <2>2, <2>3, <2>4 DEF PlayStep
<1> QED
  BY <1>1, <1>2, <1>3

LEMMA MusicInvStep == MusicInv /\ [MusicNext]_musicVars => MusicInv'
<1> SUFFICES ASSUME MusicInv, [MusicNext]_musicVars PROVE MusicInv'
  OBVIOUS
<1>1. CASE UNCHANGED musicVars
  BY <1>1 DEF musicVars, MusicInv, StepsOK, LockInv, PlayInv
<1>2. CASE Restart
  BY <1>2 DEF Restart, MusicInv, StepsOK, LockInv, PlayInv, All, Step, LockedStep, Playing
<1>3. ASSUME NEW c \in Clients, Ask(c) \/ Serve(c) PROVE MusicInv'
  <2>1. LockedKeeps(c) \/ DeleteKeeps(c) \/ PlayStep(c)
    BY <1>3 DEF Ask, Serve, LockedKeeps, DeleteKeeps, PlayStep
  <2> QED
    BY <2>1, AsideKeeps, PlayKeeps
<1> QED
  BY <1>1, <1>2, <1>3 DEF MusicNext

(* At most one upload or listing is under way, in every life of the process: *)
(* no path through receive_file() or transfer_list() gives the lock back     *)
(* early, twice or not at all.                                               *)
TransfersExclude ==
  \A c, d \in Clients : pc[c] \in LockedStep /\ pc[d] \in LockedStep => c = d

(* Uploads and listings exclude each other, for any number of connections.   *)
THEOREM TransfersExcludeEachOther == MusicSpec => []TransfersExclude
<1>1. MusicInv => TransfersExclude
  BY DEF MusicInv, LockInv, TransfersExclude
<1> QED
  BY <1>1, MusicInvInit, MusicInvStep, PTL DEF MusicSpec

(* Calls of play_music() that do not overlap leave nothing playing but the   *)
(* title in current_music, and repair what overlapped calls and players of   *)
(* an earlier life have left, for any number of connections.                 *)
THEOREM PlayingIsCurrent == MusicSpec => []CurrentIsPlaying
<1>1. MusicInv => CurrentIsPlaying
  BY DEF MusicInv, PlayInv, CurrentIsPlaying
<1> QED
  BY <1>1, MusicInvInit, MusicInvStep, PTL DEF MusicSpec

-----------------------------------------------------------------------------
(* The types of everything else, whatever deletions have done to the list.   *)

TypeInv ==
  /\ list \in ListOf(Title) /\ list.size <= Cardinality(list.live)
  /\ disk \subseteq Title /\ tunes \subseteq Title /\ unopened \subseteq Mp3
  /\ current \in Title \cup {NoTitle, Half}
  /\ pre \in [Clients -> Link] /\ node \in [Clients -> Link]
  /\ disturbed \in BOOLEAN /\ clash \in BOOLEAN
  /\ \A c \in Clients : /\ pc[c] \in {"data", "scan", "insert"} => name[c] \in Title
                        /\ pc[c] # "search" => pre[c] = NULL

\* The titles of elements in use.
Listed(l) == {l.data[n] : n \in l.live}

Distinct(l) ==
  /\ \A n \in l.live : l.data[n] \in Title
  /\ \A m, n \in l.live : l.data[m] = l.data[n] => m = n

\* Start-up lists each ".mp3" file once.
LEMMA StartList ==
  ASSUME NEW d \in SUBSET Title, NEW ts \in Directory(d)
  PROVE  LET l == FromTitles(ts)
         IN  /\ l \in ListOf(Title) /\ l.size = Cardinality(l.live)
             /\ Distinct(l) /\ Listed(l) = d \cap Mp3
             /\ \E s : Chain(l, s)
<1> DEFINE k == Cardinality(d \cap Mp3)
           l == FromTitles(ts)
<1>1. IsFiniteSet(d \cap Mp3) /\ k \in Nat /\ k <= Cardinality(Title) /\ Cardinality(Title) \in Nat
  BY MemoryAssumption, FS_Subset, FS_CardinalityType
<1>2. k \in 0..HeapNodes
  BY <1>1, MemoryAssumption, HeapAssumption
<1>3. ts \in [1..k -> d \cap Mp3] /\ (\A i, j \in 1..k : ts[i] = ts[j] => i = j)
  BY DEF Directory
<1>4. ts \in Injection(1..k, d \cap Mp3)
  BY <1>3 DEF Injection, IsInjective
<1>5. IsFiniteSet(1..k) /\ Cardinality(1..k) = k
  BY <1>1, FS_Interval
<1>6. ts \in Surjection(1..k, d \cap Mp3)
  BY <1>1, <1>4, <1>5, FS_Injection
<1>7. ts \in [1..k -> Title]
  BY <1>3
<1>8. /\ l \in ListOf(Title) /\ l.size = k /\ l.live = 1..k
      /\ \A n \in 1..k : n \in Node /\ l.data[n] = ts[n]
      /\ \E s : Chain(l, s)
  <2> HIDE DEF k
  <2>1. /\ l \in ListOf(Title) /\ l.size = k /\ l.live = 1..k
        /\ \A n \in 1..k : n \in Node /\ l.data[n] = ts[n]
        /\ Chain(l, [i \in 1..k |-> i])
    BY <1>2, <1>7, FromTitlesIsRight
  <2> HIDE DEF l
  <2> QED
    BY <2>1
<1> HIDE DEF l, k
<1>9. Distinct(l)
  BY <1>3, <1>8 DEF Distinct
<1>10. Listed(l) = d \cap Mp3
  BY <1>3, <1>6, <1>8 DEF Listed, Surjection
<1> QED
  BY <1>5, <1>8, <1>9, <1>10 DEF l

\* Insertion and removal with any pointers keep the types.
LEMMA InsTyped ==
  ASSUME NEW l \in ListOf(Title), l.size <= Cardinality(l.live), NEW e \in Link,
         NEW n \in Node \ l.live, NEW d \in Title
  PROVE  LET m == InsNext(l, e, n, d)
         IN  m \in ListOf(Title) /\ m.size <= Cardinality(m.live)
<1> DEFINE m == InsNext(l, e, n, d)
<1>1. m \in ListOf(Title) /\ m.size = l.size + 1 /\ m.live = l.live \cup {n}
  BY InsFields
<1> HIDE DEF m
<1>2. IsFiniteSet(l.live) /\ Cardinality(l.live) \in Nat /\ l.size \in Nat
  BY NodesFinite DEF ListOf
<1>3. Cardinality(m.live) = Cardinality(l.live) + 1
  BY <1>1, <1>2, FS_AddElement
<1> QED
  BY <1>1, <1>2, <1>3 DEF m

LEMMA RemTyped ==
  ASSUME NEW l \in ListOf(Title), l.size <= Cardinality(l.live), NEW e \in Link,
         Removes(l, e) => Victim(l, e) # NULL
  PROVE  LET m == RemNext(l, e)
         IN  m \in ListOf(Title) /\ m.size <= Cardinality(m.live)
<1> DEFINE m == RemNext(l, e)
<1>1. CASE ~Removes(l, e)
  BY <1>1 DEF RemNext
<1>2. CASE Removes(l, e)
  <2>1. m \in ListOf(Title) /\ m.size = l.size - 1 /\ m.live = l.live \ {Victim(l, e)}
    BY <1>2, RemFields
  <2> HIDE DEF m
  <2>2. IsFiniteSet(l.live) /\ Cardinality(l.live) \in Nat /\ l.size \in Nat
    BY NodesFinite DEF ListOf
  <2>3. Cardinality(m.live) \in {Cardinality(l.live), Cardinality(l.live) - 1}
    BY <2>1, <2>2, FS_RemoveElement
  <2> QED
    BY <2>1, <2>2, <2>3 DEF m
<1> QED
  BY <1>1, <1>2

LEMMA TypeInvInit == MusicInit => TypeInv
<1> SUFFICES ASSUME MusicInit PROVE TypeInv
  OBVIOUS
<1>1. list \in ListOf(Title) /\ list.size <= Cardinality(list.live)
  <2>1. PICK ts \in Directory(disk) : list = FromTitles(ts)
    BY DEF MusicInit
  <2>2. list \in ListOf(Title) /\ list.size = Cardinality(list.live) /\ disk \in SUBSET Title
    BY <2>1, StartList DEF MusicInit
  <2>3. Cardinality(list.live) \in Nat
    BY <2>2, NodesFinite DEF ListOf
  <2> QED
    BY <2>2, <2>3
<1> QED
  BY <1>1 DEF MusicInit, TypeInv, All, Link

LEMMA TypeInvStep == TypeInv /\ StepsOK /\ [MusicNext]_musicVars => TypeInv'
<1> SUFFICES ASSUME TypeInv, StepsOK, [MusicNext]_musicVars PROVE TypeInv'
  OBVIOUS
<1> USE DEF TypeInv
<1>1. CASE UNCHANGED musicVars
  BY <1>1 DEF musicVars
<1>2. CASE Restart
  <2>1. PICK ts \in Directory(disk) : list' = FromTitles(ts)
    BY <1>2 DEF Restart
  <2>2. list' \in ListOf(Title) /\ list'.size = Cardinality(list'.live)
    BY <2>1, StartList
  <2>3. list'.size <= Cardinality(list'.live)
    <3>1. Cardinality(list'.live) \in Nat
      BY <2>2, NodesFinite DEF ListOf
    <3> QED
      BY <2>2, <3>1
  <2>4. /\ disk' \subseteq Title /\ tunes' \subseteq Title /\ unopened' \subseteq Mp3
        /\ current' \in Title \cup {NoTitle, Half}
        /\ pre' \in [Clients -> Link] /\ node' \in [Clients -> Link]
        /\ disturbed' \in BOOLEAN /\ clash' \in BOOLEAN
        /\ \A c \in Clients : pc'[c] = "idle" /\ pre'[c] = NULL
    BY <1>2 DEF Restart, All, Link
  <2> QED
    BY <2>2, <2>3, <2>4
<1>3. ASSUME NEW c \in Clients, LockedKeeps(c), ~Insert(c) PROVE TypeInv'
  <2> USE DEF StepsOK, Goto, Finish, Link
  <2>1. CASE AskUpload(c) \/ AskListing(c) \/ AcquireUpload(c) \/ Release(c) \/ SendCurrent(c)
    BY <2>1 DEF AskUpload, AskListing, AcquireUpload, Release, SendCurrent
  <2>2. CASE OpenFile(c) \/ OpenFails(c)
    BY <2>2, Mp3Assumption DEF OpenFile, OpenFails, Overlaps, Others
  <2>3. CASE AcquireListing(c) \/ CloseFile(c)
    <3>1. list.head \in Node \cup {NULL}
      BY DEF ListOf
    <3> QED
      BY <2>3, <3>1 DEF AcquireListing, CloseFile, Overlaps, Others
  <2>4. CASE Scan(c) \/ SendTitle(c)
    <3>1. \A n \in Node : list.next[n] \in Node \cup {NULL}
      BY DEF ListOf
    <3> QED
      BY <2>4, <3>1 DEF Scan, SendTitle
  <2> QED
    BY <1>3, <2>1, <2>2, <2>3, <2>4 DEF LockedKeeps
<1>4. ASSUME NEW c \in Clients, Insert(c) PROVE TypeInv'
  <2>1. name[c] \in Title /\ list.tail \in Link
    BY <1>4 DEF Insert, ListOf
  <2>2. list' \in ListOf(Title) /\ list'.size <= Cardinality(list'.live)
    BY <1>4, <2>1, InsTyped DEF Insert
  <2> QED
    BY <1>4, <2>2 DEF Insert, Finish, Goto, StepsOK, Link
<1>5. ASSUME NEW c \in Clients, DeleteKeeps(c), ~Search(c) PROVE TypeInv'
  <2> USE DEF StepsOK, Goto, Finish, Link
  <2>1. CASE (\E f \in Title : AskDelete(c, f)) \/ TestCurrent(c) \/ FreeTitle(c)
    BY <2>1 DEF AskDelete, TestCurrent, FreeTitle
  <2>2. CASE Unlink(c)
    <3>1. list.head \in Node \cup {NULL}
      BY DEF ListOf
    <3> QED
      BY <2>2, <3>1 DEF Unlink, Overlaps, Others
  <2> QED
    BY <1>5, <2>1, <2>2 DEF DeleteKeeps
<1>6. ASSUME NEW c \in Clients, Search(c) PROVE TypeInv'
  <2>1. pre[c] \in Link /\ node[c] \in Node
    BY <1>6 DEF Search, Link
  <2>2. list' \in ListOf(Title) /\ list'.size <= Cardinality(list'.live)
    BY <1>6, <2>1, RemTyped DEF Search
  <2>3. list'.next[node[c]] \in Link
    BY <2>1, <2>2 DEF ListOf
  <2> QED
    BY <1>6, <2>1, <2>2, <2>3 DEF Search, Link
<1>7. ASSUME NEW c \in Clients, PlayStep(c) PROVE TypeInv'
  BY <1>7 DEF PlayStep, StepsOK, AskPlay, KillAll, Compare, StartCopy, EndCopy, Launch, Clear, Goto,
     Finish, Others, Link
<1>8. ASSUME NEW c \in Clients, Ask(c) \/ Serve(c) PROVE TypeInv'
  <2>1. LockedKeeps(c) \/ DeleteKeeps(c) \/ PlayStep(c)
    BY <1>8 DEF Ask, Serve, LockedKeeps, DeleteKeeps, PlayStep
  <2> QED
    BY <2>1, <1>3, <1>4, <1>5, <1>6, <1>7
<1> QED
  BY <1>1, <1>2, <1>8 DEF MusicNext

(* Type correctness of the music, also of a list that overlapped deletions   *)
(* have mutilated: no pointer leaves the memory, no size exceeds it.         *)
THEOREM MusicTypeCorrect == MusicSpec => []MusicTypeOK
<1>1. ASSUME MusicInv, TypeInv PROVE MusicTypeOK
  <2>1. Cardinality(list.live) \in Nat
    BY <1>1, NodesFinite DEF TypeInv, ListOf
  <2>2. lock \subseteq Clients /\ Cardinality(lock) <= 1
    <3>1. CASE lock = {}
      BY <3>1, FS_EmptySet
    <3>2. CASE lock # {}
      <4>1. PICK c \in lock : lock = {c}
        BY <1>1, <3>2 DEF MusicInv, LockInv
      <4> QED
        BY <1>1, <4>1, FS_Singleton DEF MusicInv, LockInv
    <3> QED
      BY <1>1, <3>1, <3>2 DEF MusicInv, LockInv
  <2> QED
    BY <1>1, <2>1, <2>2 DEF MusicTypeOK, MusicInv, StepsOK, TypeInv, ListOf, Link
<1>2. MusicInit => MusicInv /\ TypeInv
  BY MusicInvInit, TypeInvInit
<1>3. MusicInv /\ TypeInv /\ [MusicNext]_musicVars => MusicInv' /\ TypeInv'
  BY MusicInvStep, TypeInvStep DEF MusicInv
<1> QED
  BY <1>1, <1>2, <1>3, PTL DEF MusicSpec

-----------------------------------------------------------------------------
(* The list, while no deletion has overlapped another use of it.             *)

\* The steps between which list and files may disagree about a title.
Adding == {"data", "scan", "insert"}
Editing == Adding \cup {"search"}

\* How far c has come along the chain s, and that it has not met its title.
Walk(s, c) ==
  /\ pc[c] = "scan" =>
       \E i \in 1..(list.size + 1) :
         node[c] = At(list, s, i) /\ \A j \in 1..(i - 1) : list.data[s[j]] # name[c]
  /\ pc[c] = "insert" => name[c] \notin Listed(list)
  /\ pc[c] = "search" =>
       \/ name[c] \notin Listed(list) /\ node[c] \in list.live \cup {NULL}
       \/ \E i \in 1..(list.size + 1) :
            /\ node[c] = At(list, s, i) /\ pre[c] = At(list, s, i - 1)
            /\ \A j \in 1..(i - 1) : list.data[s[j]] # name[c]

\* Title f is listed if and only if it has a file or could not get one.
Agreed(f) == f \in Listed(list) <=> f \in disk \cup unopened

FilesInv ==
  /\ \A f \in Mp3 : Agreed(f) \/ \E c \in Clients : pc[c] \in Editing /\ name[c] = f
  /\ \A c \in Clients : pc[c] \in Adding /\ name[c] \in Mp3 => name[c] \in disk \cup unopened
  /\ \A c \in Clients : pc[c] = "search" => name[c] \notin disk \cup unopened

ListInv ==
  ~disturbed =>
    /\ Distinct(list)
    /\ \A c, d \in Clients : pc[c] = "search" /\ pc[d] \in Editing => c = d
    /\ FilesInv
    /\ \E s : Chain(list, s) /\ \A c \in Clients : Walk(s, c)

WholeInv == MusicInv /\ TypeInv /\ ListInv

\* Additions exclude each other by the lock, and a lone search excludes them.
LEMMA OneEditor ==
  ASSUME WholeInv, ~disturbed, NEW c \in Clients, NEW d \in Clients,
         pc[c] \in Editing, pc[d] \in Editing
  PROVE  c = d
BY DEF WholeInv, MusicInv, LockInv, ListInv, LockedStep, Editing, Adding

LEMMA ListInvInit == MusicInit => ListInv
<1> SUFFICES ASSUME MusicInit PROVE ListInv
  OBVIOUS
<1>1. PICK ts \in Directory(disk) : list = FromTitles(ts)
  BY DEF MusicInit
<1>2. Distinct(list) /\ Listed(list) = disk \cap Mp3 /\ \E s : Chain(list, s)
  BY <1>1, StartList DEF MusicInit
<1>3. unopened = {} /\ \A c \in Clients : pc[c] = "idle"
  BY DEF MusicInit, All
<1>4. FilesInv
  BY <1>2, <1>3 DEF FilesInv, Agreed, Adding
<1> QED
  BY <1>2, <1>3, <1>4 DEF ListInv, Walk, Editing

LEMMA ListInvRestart ==
  ASSUME WholeInv, Restart
  PROVE  ListInv'
<1>1. PICK ts \in Directory(disk) : list' = FromTitles(ts)
  BY DEF Restart
<1>2. Distinct(list') /\ Listed(list') = disk \cap Mp3 /\ \E s : Chain(list', s)
  BY <1>1, StartList DEF WholeInv, TypeInv
<1>3. unopened' = {} /\ disk' = disk /\ \A c \in Clients : pc'[c] = "idle"
  BY DEF Restart, All
<1>4. FilesInv'
  BY <1>2, <1>3 DEF FilesInv, Agreed, Adding
<1> QED
  BY <1>2, <1>3, <1>4 DEF ListInv, Walk, Editing

\* A step that neither is nor becomes an edit.
Quiet ==
  /\ UNCHANGED <<list, disk>> /\ (~disturbed' => ~disturbed /\ unopened' = unopened)
  /\ \A d \in Clients :
       IF pc[d] \in Editing
       THEN pc'[d] = pc[d] /\ name'[d] = name[d] /\ node'[d] = node[d] /\ pre'[d] = pre[d]
       ELSE pc'[d] \notin Editing

LEMMA ListInvQuiet ==
  ASSUME WholeInv, Quiet
  PROVE  ListInv'
<1> SUFFICES ASSUME ~disturbed' PROVE ListInv'
  BY DEF ListInv
<1>1. ~disturbed /\ list' = list
  BY DEF Quiet
<1>2. FilesInv'
  BY <1>1 DEF WholeInv, ListInv, FilesInv, Agreed, Quiet, Editing
<1>3. \A s : \A c \in Clients : Walk(s, c) => Walk(s, c)'
  BY <1>1 DEF Quiet, Walk, Editing, Adding
<1>4. \A c, d \in Clients : pc'[c] = "search" /\ pc'[d] \in Editing => c = d
  BY <1>1 DEF WholeInv, ListInv, Quiet, Editing
<1>5. \E s : Chain(list, s) /\ \A c \in Clients : Walk(s, c)'
  <2>1. PICK s : Chain(list, s) /\ \A c \in Clients : Walk(s, c)
    BY <1>1 DEF WholeInv, ListInv
  <2>2. \A c \in Clients : Walk(s, c)'
    BY <2>1, <1>3
  <2> QED
    BY <2>1, <2>2
<1>6. Distinct(list)
  BY <1>1 DEF WholeInv, ListInv
<1> QED
  BY <1>1, <1>2, <1>4, <1>5, <1>6 DEF ListInv

LEMMA QuietSteps ==
  ASSUME WholeInv, NEW c \in Clients,
         \/ AskUpload(c) \/ AskListing(c) \/ AcquireUpload(c) \/ AcquireListing(c)
         \/ SendTitle(c) \/ SendCurrent(c) \/ Release(c)
         \/ (\E f \in Title : AskDelete(c, f)) \/ TestCurrent(c)
         \/ PlayStep(c)
  PROVE  Quiet
<1> USE DEF WholeInv, MusicInv, TypeInv, StepsOK, Quiet, Editing, Adding, Goto, Finish
<1>1. CASE \/ AskUpload(c) \/ AskListing(c) \/ AcquireUpload(c) \/ AcquireListing(c)
           \/ SendTitle(c) \/ SendCurrent(c) \/ Release(c)
  BY <1>1 DEF AskUpload, AskListing, AcquireUpload, AcquireListing, SendTitle, SendCurrent,
     Release, Overlaps
<1>2. CASE (\E f \in Title : AskDelete(c, f)) \/ TestCurrent(c)
  BY <1>2 DEF AskDelete, TestCurrent
<1>3. CASE PlayStep(c)
  BY <1>3 DEF PlayStep, AskPlay, KillAll, Compare, StartCopy, EndCopy, Launch, Clear
<1> QED
  BY <1>1, <1>2, <1>3

\* A client starts to add or to delete a title: nobody else is at it.
LEMMA ListInvFile ==
  ASSUME WholeInv, NEW c \in Clients, OpenFile(c) \/ OpenFails(c) \/ Unlink(c)
  PROVE  ListInv'
<1> SUFFICES ASSUME ~disturbed' PROVE ListInv'
  BY DEF ListInv
<1>1. ~disturbed /\ list' = list /\ Distinct(list) /\ FilesInv
  BY DEF WholeInv, ListInv, TypeInv, OpenFile, OpenFails, Unlink, Overlaps
<1>2. \A d \in Clients : pc[d] \notin Editing
  <2>1. CASE OpenFile(c) \/ OpenFails(c)
    <3>1. pc[c] = "name" /\ c \in lock /\ \A d \in Clients : pc[d] # "search"
      BY <2>1 DEF OpenFile, OpenFails, Overlaps, Others, WholeInv, MusicInv, LockInv, LockedStep
    <3> QED
      BY <3>1 DEF WholeInv, MusicInv, LockInv, LockedStep, Editing, Adding
  <2>2. CASE Unlink(c)
    BY <2>2 DEF Unlink, Overlaps, Others, Editing, Adding, Handling
  <2> QED
    BY <2>1, <2>2
<1>3. /\ \A d \in Clients \ {c} : pc'[d] = pc[d] /\ name'[d] = name[d]
      /\ pc'[c] \in {"data", "search"}
  BY DEF OpenFile, OpenFails, Unlink, Goto, WholeInv, MusicInv, StepsOK
<1>4. FilesInv'
  <2>1. \A f \in Mp3 : Agreed(f)
    BY <1>1, <1>2 DEF FilesInv
  <2>2. CASE OpenFile(c) \/ OpenFails(c)
    <3>1. /\ pc'[c] = "data"
          /\ name'[c] \in Mp3 => name'[c] \in disk' \cup unopened'
          /\ \A f \in Mp3 : f # name'[c] => (f \in disk \cup unopened <=> f \in disk' \cup unopened')
      BY <2>2 DEF OpenFile, OpenFails, Overlaps, Goto, WholeInv, MusicInv, StepsOK
    <3> QED
      BY <2>1, <3>1, <1>1, <1>2, <1>3 DEF FilesInv, Agreed, Editing, Adding
  <2>3. CASE Unlink(c)
    <3>1. /\ pc'[c] = "search" /\ name'[c] = name[c] /\ name[c] \notin disk' \cup unopened'
          /\ \A f \in Mp3 : f # name[c] => (f \in disk \cup unopened <=> f \in disk' \cup unopened')
      BY <2>3 DEF Unlink, Overlaps, Goto, WholeInv, MusicInv, StepsOK
    <3> QED
      BY <2>1, <3>1, <1>1, <1>2, <1>3 DEF FilesInv, Agreed, Editing, Adding
  <2> QED
    BY <2>2, <2>3
<1>5. \A a, b \in Clients : pc'[a] = "search" /\ pc'[b] \in Editing => a = b
  BY <1>2, <1>3 DEF Editing
<1>6. PICK s : Chain(list, s)
  BY <1>1 DEF WholeInv, ListInv
<1>7. pc'[c] = "search" => node'[c] = At(list, s, 1) /\ pre'[c] = At(list, s, 0)
  <2> SUFFICES ASSUME pc'[c] = "search"
               PROVE  node'[c] = At(list, s, 1) /\ pre'[c] = At(list, s, 0)
    OBVIOUS
  <2>1. Unlink(c)
    BY DEF OpenFile, OpenFails, Goto, WholeInv, MusicInv, StepsOK
  <2>2. list.head = At(list, s, 1) /\ list.size \in Nat
    BY <1>6, ChainWalk DEF WholeInv, TypeInv, ListOf
  <2>3. node'[c] = list.head /\ pre'[c] = NULL
    BY <2>1 DEF Unlink, WholeInv, TypeInv
  <2> QED
    BY <2>2, <2>3 DEF At
<1>8. \A d \in Clients : Walk(s, d)'
  <2>1. \A d \in Clients \ {c} : Walk(s, d)'
    BY <1>2, <1>3 DEF Walk, Editing, Adding
  <2>2. Walk(s, c)'
    <3>1. list.size \in Nat
      BY DEF WholeInv, TypeInv, ListOf
    <3> QED
      BY <3>1, <1>1, <1>3, <1>7 DEF Walk
  <2> QED
    BY <2>1, <2>2
<1> QED
  BY <1>1, <1>4, <1>5, <1>6, <1>8 DEF ListInv

\* music_add() starts, compares a title, or is through with the list.
LEMMA ListInvScan ==
  ASSUME WholeInv, NEW c \in Clients, CloseFile(c) \/ Scan(c)
  PROVE  ListInv'
<1> SUFFICES ASSUME ~disturbed' PROVE ListInv'
  BY DEF ListInv
<1>1. /\ ~disturbed /\ UNCHANGED <<list, disk, unopened>> /\ pc[c] \in {"data", "scan"}
      /\ Distinct(list) /\ FilesInv
      /\ \A d \in Clients \ {c} : pc'[d] = pc[d] /\ name'[d] = name[d]
      /\ pc'[c] \in {"scan", "insert", "release"}
      /\ pc'[c] # "release" => name'[c] = name[c]
  BY DEF WholeInv, ListInv, MusicInv, StepsOK, CloseFile, Scan, Goto, Finish
<1>2. \A d \in Clients \ {c} : pc[d] \notin Editing
  BY <1>1, OneEditor DEF Editing, Adding
<1>3. PICK s : Chain(list, s) /\ Walk(s, c)
  BY <1>1 DEF WholeInv, ListInv
<1>4. /\ list.size \in Nat /\ list.head = At(list, s, 1)
      /\ \A i \in 1..list.size : list.next[s[i]] = At(list, s, i + 1)
      /\ \A i \in 1..list.size : s[i] \in list.live /\ s[i] # NULL
      /\ list.live = {s[i] : i \in 1..list.size}
  <2>1. list.size \in Nat
    BY DEF WholeInv, TypeInv, ListOf
  <2> QED
    BY <1>3, <2>1, ChainWalk, HeapFacts DEF Chain
<1>5. CASE CloseFile(c)
  <2>1. pc'[c] = "scan" /\ node'[c] = At(list, s, 1)
    BY <1>4, <1>5 DEF CloseFile, Goto, WholeInv, MusicInv, StepsOK, TypeInv
  <2>2. Walk(s, c)'
    BY <1>1, <1>4, <2>1 DEF Walk
  <2>3. FilesInv'
    BY <1>1, <1>5, <2>1 DEF CloseFile, FilesInv, Agreed, Editing, Adding
  <2>4. \A d \in Clients : Walk(s, d)'
    BY <1>1, <1>2, <2>2 DEF Walk, Editing, Adding
  <2> QED
    BY <1>1, <1>2, <1>3, <2>1, <2>3, <2>4 DEF ListInv, Editing
<1>6. CASE Scan(c)
  <2>1. PICK i \in 1..(list.size + 1) :
          node[c] = At(list, s, i) /\ \A j \in 1..(i - 1) : list.data[s[j]] # name[c]
    BY <1>3, <1>6 DEF Walk, Scan
  <2>2. CASE node[c] # NULL /\ list.data[node[c]] = name[c]
    <3>1. pc'[c] = "release"
      BY <1>6, <2>2 DEF Scan, Finish, Goto, WholeInv, MusicInv, StepsOK
    <3>2. name[c] \in Listed(list)
      BY <1>4, <2>1, <2>2 DEF At, Listed
    <3>3. name[c] \in Mp3 => name[c] \in disk \cup unopened
      BY <1>1 DEF FilesInv, Adding
    <3>4. FilesInv'
      BY <1>1, <1>2, <3>1, <3>2, <3>3 DEF FilesInv, Agreed, Editing, Adding
    <3>5. \A d \in Clients : Walk(s, d)'
      BY <1>1, <1>2, <3>1 DEF Walk, Editing, Adding
    <3> QED
      BY <1>1, <1>2, <1>3, <3>1, <3>4, <3>5 DEF ListInv, Editing, Adding
  <2>3. CASE ~(node[c] # NULL /\ list.data[node[c]] = name[c])
    <3>1. /\ name'[c] = name[c] /\ pc'[c] = IF node[c] = NULL THEN "insert" ELSE "scan"
          /\ node'[c] = IF node[c] = NULL THEN NULL ELSE list.next[node[c]]
      BY <1>6, <2>3 DEF Scan, Goto, WholeInv, MusicInv, StepsOK, TypeInv
    <3>2. Walk(s, c)'
      <4>1. CASE node[c] = NULL
        <5>1. i = list.size + 1
          BY <1>4, <2>1, <4>1 DEF At
        <5>2. name[c] \notin Listed(list)
          BY <1>4, <2>1, <5>1 DEF Listed
        <5> QED
          BY <1>1, <3>1, <4>1, <5>2 DEF Walk
      <4>2. CASE node[c] # NULL
        <5>1. i \in 1..list.size /\ node[c] = s[i]
          BY <2>1, <4>2 DEF At
        <5>2. /\ i + 1 \in 1..(list.size + 1) /\ node'[c] = At(list, s, i + 1)
              /\ \A j \in 1..((i + 1) - 1) : list.data[s[j]] # name[c]
          <6>1. i + 1 \in 1..(list.size + 1) /\ (i + 1) - 1 = i
            BY <1>4, <5>1
          <6>2. node'[c] = At(list, s, i + 1)
            BY <1>4, <3>1, <4>2, <5>1
          <6>3. list.data[s[i]] # name[c]
            BY <2>3, <4>2, <5>1
          <6>4. \A j \in 1..i : j = i \/ j \in 1..(i - 1)
            BY <5>1
          <6> QED
            BY <2>1, <6>1, <6>2, <6>3, <6>4
        <5> QED
          BY <1>1, <3>1, <4>2, <5>2 DEF Walk
      <4> QED
        BY <4>1, <4>2
    <3>3. FilesInv'
      BY <1>1, <1>2, <3>1 DEF FilesInv, Agreed, Editing, Adding
    <3>4. \A d \in Clients : Walk(s, d)'
      BY <1>1, <1>2, <3>2 DEF Walk, Editing, Adding
    <3> QED
      BY <1>1, <1>2, <1>3, <3>1, <3>3, <3>4 DEF ListInv, Editing, Adding
  <2> QED
    BY <2>2, <2>3
<1> QED
  BY <1>5, <1>6

\* As long as titles are distinct there is memory for one that is not listed.
LEMMA RoomLeft ==
  ASSUME NEW l \in ListOf(Title), Distinct(l), NEW x \in Title, x \notin Listed(l)
  PROVE  l.live # Node
<1> DEFINE f == [n \in l.live |-> l.data[n]]
<1>1. f \in Injection(l.live, Title \ {x})
  BY DEF Distinct, Listed, Injection, IsInjective
<1>2. /\ IsFiniteSet(Title \ {x}) /\ Cardinality(Title \ {x}) = Cardinality(Title) - 1
      /\ Cardinality(Title) \in Nat
  BY MemoryAssumption, FS_RemoveElement, FS_CardinalityType
<1>3. Cardinality(l.live) <= Cardinality(Title \ {x})
  BY <1>1, <1>2, FS_Injection
<1>4. Cardinality(Node) = HeapNodes
  BY HeapAssumption, FS_Interval DEF Node
<1> QED
  BY <1>2, <1>3, <1>4, MemoryAssumption, HeapAssumption

\* music_add() puts a title at the tail that is not in the list.
LEMMA ListInvInsert ==
  ASSUME WholeInv, NEW c \in Clients, Insert(c)
  PROVE  ListInv'
<1> SUFFICES ASSUME ~disturbed' PROVE ListInv'
  BY DEF ListInv
<1>1. /\ ~disturbed /\ UNCHANGED <<disk, unopened>> /\ pc[c] = "insert" /\ pc'[c] = "release"
      /\ list \in ListOf(Title) /\ Distinct(list) /\ FilesInv /\ name[c] \in Title
      /\ \A d \in Clients \ {c} : pc'[d] = pc[d] /\ name'[d] = name[d]
  BY DEF WholeInv, ListInv, MusicInv, StepsOK, TypeInv, Insert, Finish, Goto
<1>2. \A d \in Clients : pc'[d] \notin Editing /\ (d # c => pc[d] \notin Editing)
  BY <1>1, OneEditor DEF Editing, Adding
<1>3. PICK s : Chain(list, s) /\ Walk(s, c)
  BY <1>1 DEF WholeInv, ListInv
<1>4. name[c] \notin Listed(list)
  BY <1>1, <1>3 DEF Walk
<1>5. PICK n \in Node \ list.live : list' = InsNext(list, list.tail, n, name[c])
  BY <1>1, <1>4, RoomLeft DEF Insert
<1>6. list.size \in 0..list.size /\ list.tail = At(list, s, list.size) /\ list.tail \in Link
  <2>1. list.size \in Nat /\ list.tail \in Link
    BY <1>1 DEF ListOf
  <2> QED
    BY <1>3, <2>1, ChainWalk
<1>7. Chain(list', WithNode(list, s, list.size, n))
  BY <1>1, <1>3, <1>5, <1>6, InsertionIsRight
<1>8. /\ list'.live = list.live \cup {n} /\ list.live \subseteq Node
      /\ \A x \in Node : list'.data[x] = IF x = n THEN name[c] ELSE list.data[x]
  <2>1. list.live \subseteq Node
    BY <1>1 DEF ListOf
  <2> QED
    BY <1>1, <1>5, <1>6, <2>1, InsFields
<1>9. Listed(list') = Listed(list) \cup {name[c]}
  BY <1>8 DEF Listed
<1>10. Distinct(list')
  BY <1>1, <1>4, <1>8 DEF Distinct, Listed
<1>11. FilesInv'
  BY <1>1, <1>2, <1>9 DEF FilesInv, Agreed, Editing, Adding
<1> QED
  BY <1>1, <1>2, <1>7, <1>10, <1>11 DEF ListInv, Walk, Editing, Adding

\* music_remove() comes to the next element, and frees it if it has the title.
LEMMA ListInvSearch ==
  ASSUME WholeInv, NEW c \in Clients, Search(c)
  PROVE  ListInv'
<1> SUFFICES ASSUME ~disturbed' PROVE ListInv'
  BY DEF ListInv
<1>1. /\ ~disturbed /\ UNCHANGED <<disk, unopened, pc, name>> /\ pc[c] = "search"
      /\ list \in ListOf(Title) /\ Distinct(list) /\ FilesInv /\ node[c] # NULL
      /\ node'[c] = list'.next[node[c]] /\ pre'[c] = node[c]
      /\ list' = IF list.data[node[c]] = name[c] THEN RemNext(list, pre[c]) ELSE list
  BY DEF WholeInv, ListInv, TypeInv, Search
<1>2. \A d \in Clients \ {c} : pc[d] \notin Editing
  BY <1>1, OneEditor DEF Editing, Adding
<1>3. PICK s : Chain(list, s) /\ Walk(s, c)
  BY <1>1 DEF WholeInv, ListInv
<1>4. /\ list.size \in Nat
      /\ \A i \in 1..list.size : list.next[s[i]] = At(list, s, i + 1)
      /\ \A i \in 1..list.size : s[i] \in list.live /\ s[i] \in Node
      /\ \A i, j \in 1..list.size : s[i] = s[j] => i = j
      /\ list.live = {s[i] : i \in 1..list.size}
  <2>1. list.size \in Nat
    BY <1>1 DEF ListOf
  <2>2. /\ \A i \in 1..list.size : list.next[s[i]] = At(list, s, i + 1)
        /\ \A i \in 1..list.size : s[i] \in list.live /\ s[i] \in Node
    BY <1>3, <2>1, ChainWalk
  <2>3. \A i, j \in 1..list.size : s[i] = s[j] => i = j
    BY <1>3 DEF Chain, IsChain
  <2>4. list.live = {s[i] : i \in 1..list.size}
    BY <1>3 DEF Chain
  <2> QED
    BY <2>1, <2>2, <2>3, <2>4
<1>5. name[c] \notin disk \cup unopened
  BY <1>1 DEF FilesInv
\* Whatever happens to the list, it is enough that other titles stay and that
\* c is where its walk should be.
<1>6. ASSUME NEW t, Chain(list', t), Distinct(list'), Walk(t, c)',
             \A f \in Title : f # name[c] => (f \in Listed(list') <=> f \in Listed(list))
      PROVE  ListInv'
  <2>1. FilesInv'
    BY <1>1, <1>2, <1>5, <1>6, Mp3Assumption DEF FilesInv, Agreed, Editing, Adding
  <2>2. \A d \in Clients : Walk(t, d)'
    BY <1>1, <1>2, <1>6 DEF Walk, Editing, Adding
  <2> QED
    BY <1>1, <1>2, <1>6, <2>1, <2>2 DEF ListInv, Editing
<1>7. CASE name[c] \notin Listed(list) /\ node[c] \in list.live \cup {NULL}
  <2>1. list' = list
    BY <1>1, <1>7 DEF Listed
  <2>2. PICK i \in 1..list.size : node[c] = s[i]
    BY <1>1, <1>4, <1>7
  <2>3. node'[c] \in list.live \cup {NULL}
    BY <1>1, <1>4, <2>1, <2>2 DEF At
  <2>4. Walk(s, c)'
    BY <1>1, <1>7, <2>1, <2>3 DEF Walk
  <2> QED
    BY <1>1, <1>3, <1>6, <2>1, <2>4
<1>8. ASSUME NEW i \in 1..(list.size + 1),
             node[c] = At(list, s, i), pre[c] = At(list, s, i - 1),
             \A j \in 1..(i - 1) : list.data[s[j]] # name[c]
      PROVE  ListInv'
  <2>1. i \in 1..list.size /\ node[c] = s[i] /\ i - 1 \in 0..(list.size - 1) /\ (i - 1) + 1 = i
    BY <1>1, <1>4, <1>8 DEF At
  <2>2. CASE list.data[s[i]] # name[c]
    <3>1. list' = list
      BY <1>1, <2>1, <2>2
    <3>2. /\ i + 1 \in 1..(list.size + 1) /\ node'[c] = At(list, s, i + 1)
          /\ pre'[c] = At(list, s, (i + 1) - 1)
          /\ \A j \in 1..((i + 1) - 1) : list.data[s[j]] # name[c]
      BY <1>1, <1>4, <1>8, <2>1, <2>2, <3>1 DEF At
    <3>3. Walk(s, c)'
      BY <1>1, <3>1, <3>2 DEF Walk
    <3> QED
      BY <1>1, <1>3, <1>6, <3>1, <3>3
  <2>3. CASE list.data[s[i]] = name[c]
    <3>1. list' = RemNext(list, pre[c])
      BY <1>1, <2>1, <2>3
    <3>2. /\ Removes(list, pre[c]) /\ Victim(list, pre[c]) = s[i]
          /\ \E t : Chain(list', t)
      BY <1>1, <1>3, <1>8, <2>1, <3>1, RemovalIsRight
    <3>0. PICK t : Chain(list', t)
      BY <3>2
    <3>3. pre[c] \in Link /\ s[i] # NULL /\ s[i] # pre[c]
      BY <1>4, <1>8, <2>1, HeapFacts DEF At, Link
    <3>4. /\ list'.live = list.live \ {s[i]} /\ list.live \subseteq Node
          /\ \A x \in Node : /\ list'.data[x] = IF x = s[i] THEN Garbage ELSE list.data[x]
                             /\ list'.next[x] = IF x = pre[c] THEN list.next[s[i]] ELSE list.next[x]
      <4>1. list.live \subseteq Node
        BY <1>1 DEF ListOf
      <4> QED
        BY <1>1, <3>1, <3>2, <3>3, <4>1, RemFields
    <3>5. Distinct(list')
      BY <1>1, <3>4 DEF Distinct
    <3>6. name[c] \notin Listed(list')
      BY <1>1, <1>4, <2>1, <2>3, <3>4 DEF Listed, Distinct
    <3>7. \A f \in Title : f # name[c] => (f \in Listed(list') <=> f \in Listed(list))
      BY <2>3, <3>4 DEF Listed
    <3>8. node'[c] = At(list, s, i + 1)
      BY <1>1, <1>4, <2>1, <3>3, <3>4
    <3>9. node'[c] \in list'.live \cup {NULL}
      BY <1>4, <2>1, <3>4, <3>8 DEF At
    <3>10. Walk(t, c)'
      BY <1>1, <3>6, <3>9 DEF Walk
    <3> QED
      BY <1>6, <3>0, <3>5, <3>7, <3>10
  <2> QED
    BY <2>2, <2>3
<1> QED
  BY <1>1, <1>3, <1>7, <1>8 DEF Walk

\* It has come to the end: the title is not listed any more.
LEMMA ListInvFree ==
  ASSUME WholeInv, NEW c \in Clients, FreeTitle(c)
  PROVE  ListInv'
<1> SUFFICES ASSUME ~disturbed' PROVE ListInv'
  BY DEF ListInv
<1>1. /\ ~disturbed /\ UNCHANGED <<list, disk, unopened>> /\ pc[c] = "search" /\ node[c] = NULL
      /\ Distinct(list) /\ FilesInv
      /\ \A d \in Clients \ {c} : pc'[d] = pc[d] /\ name'[d] = name[d]
      /\ pc'[c] = "idle"
  BY DEF WholeInv, ListInv, MusicInv, StepsOK, FreeTitle, Finish, Goto
<1>2. \A d \in Clients : pc'[d] \notin Editing /\ (d # c => pc[d] \notin Editing)
  BY <1>1, OneEditor DEF Editing, Adding
<1>3. PICK s : Chain(list, s) /\ Walk(s, c)
  BY <1>1 DEF WholeInv, ListInv
<1>4. name[c] \notin Listed(list)
  <2> SUFFICES ASSUME NEW i \in 1..(list.size + 1), node[c] = At(list, s, i),
                      \A j \in 1..(i - 1) : list.data[s[j]] # name[c]
               PROVE  name[c] \notin Listed(list)
    BY <1>1, <1>3 DEF Walk
  <2>1. list.size \in Nat /\ \A j \in 1..list.size : s[j] # NULL
    BY <1>3, HeapFacts DEF Chain, WholeInv, TypeInv, ListOf
  <2>2. i = list.size + 1
    BY <1>1, <2>1 DEF At
  <2> QED
    BY <1>3, <2>1, <2>2 DEF Listed, Chain
<1>5. FilesInv'
  BY <1>1, <1>2, <1>4 DEF FilesInv, Agreed, Editing, Adding
<1> QED
  BY <1>1, <1>2, <1>3, <1>5 DEF ListInv, Walk, Editing, Adding

LEMMA WholeInvInit == MusicInit => WholeInv
  BY MusicInvInit, TypeInvInit, ListInvInit DEF WholeInv

LEMMA WholeInvStep == WholeInv /\ [MusicNext]_musicVars => WholeInv'
<1> SUFFICES ASSUME WholeInv, [MusicNext]_musicVars PROVE WholeInv'
  OBVIOUS
<1>1. MusicInv' /\ TypeInv'
  BY MusicInvStep, TypeInvStep DEF WholeInv, MusicInv
<1>2. CASE UNCHANGED musicVars
  BY <1>1, <1>2, ListInvQuiet DEF Quiet, musicVars, WholeInv
<1>3. CASE Restart
  BY <1>1, <1>3, ListInvRestart DEF WholeInv
<1>4. ASSUME NEW c \in Clients, Ask(c) \/ Serve(c) PROVE ListInv'
  <2>1. CASE OpenFile(c) \/ OpenFails(c) \/ Unlink(c)
    BY <2>1, ListInvFile
  <2>2. CASE CloseFile(c) \/ Scan(c)
    BY <2>2, ListInvScan
  <2>3. CASE Insert(c)
    BY <2>3, ListInvInsert
  <2>4. CASE Search(c)
    BY <2>4, ListInvSearch
  <2>5. CASE FreeTitle(c)
    BY <2>5, ListInvFree
  <2>6. CASE \/ AskUpload(c) \/ AskListing(c) \/ AcquireUpload(c) \/ AcquireListing(c)
             \/ SendTitle(c) \/ SendCurrent(c) \/ Release(c)
             \/ (\E f \in Title : AskDelete(c, f)) \/ TestCurrent(c)
             \/ PlayStep(c)
    BY <2>6, QuietSteps, ListInvQuiet
  <2> QED
    BY <1>4, <2>1, <2>2, <2>3, <2>4, <2>5, <2>6 DEF Ask, Serve, PlayStep
<1> QED
  BY <1>1, <1>2, <1>3, <1>4 DEF WholeInv, MusicNext

LEMMA WholeInvariant == MusicSpec => []WholeInv
  BY WholeInvInit, WholeInvStep, PTL DEF MusicSpec

\* What Contents() is, whichever chain CHOOSE takes.
LEMMA ContentsFacts ==
  ASSUME WholeInv, ~disturbed
  PROVE  /\ Sound(list)
         /\ {Contents(list)[i] : i \in 1..list.size} = Listed(list)
         /\ \A i, j \in 1..list.size : Contents(list)[i] = Contents(list)[j] => i = j
<1>1. PICK s : Chain(list, s)
  BY DEF WholeInv, ListInv
<1>2. s \in [1..list.size -> Node] /\ IsChain(list, s) /\ list \in ListOf(Title) /\ Distinct(list)
  BY <1>1 DEF Chain, WholeInv, TypeInv, ListInv
<1> DEFINE t == CHOOSE t \in [1..list.size -> Node] : IsChain(list, t)
<1>3. t \in [1..list.size -> Node] /\ IsChain(list, t)
  BY <1>2
<1>4. Contents(list) = [i \in 1..list.size |-> list.data[t[i]]]
  BY DEF Contents
<1> HIDE DEF t
<1>5. list.live = {t[i] : i \in 1..list.size}
  BY <1>1, <1>2, <1>3, ChainsCover
<1>6. \A i, j \in 1..list.size : t[i] = t[j] => i = j
  BY <1>3 DEF IsChain
<1>7. Sound(list)
  BY <1>2 DEF Sound
<1>8. {Contents(list)[i] : i \in 1..list.size} = Listed(list)
  BY <1>4, <1>5 DEF Listed
<1>9. \A i, j \in 1..list.size : Contents(list)[i] = Contents(list)[j] => i = j
  BY <1>2, <1>4, <1>5, <1>6 DEF Distinct
<1> QED
  BY <1>7, <1>8, <1>9

(* No interleaving of uploads, listings, players and lone deletions breaks   *)
(* the list, with any number of connections and any number of titles.        *)
THEOREM ListIsSound == MusicSpec => []ListSound
<1>1. WholeInv => ListSound
  BY ContentsFacts DEF ListSound
<1> QED
  BY <1>1, WholeInvariant, PTL

(* When nobody is at work on them the titles listed are the files there are, *)
(* and those whose upload could not open a file.                             *)
THEOREM ListIsDisk == MusicSpec => []ListMatchesDisk
<1>1. ASSUME WholeInv, ~disturbed, \A c \in Clients : pc[c] \notin Handling
      PROVE  {Contents(list)[i] : i \in 1..list.size} \cap Mp3 = (disk \cap Mp3) \cup unopened
  <2>1. {Contents(list)[i] : i \in 1..list.size} = Listed(list)
    BY <1>1, ContentsFacts
  <2>2. \A f \in Mp3 : Agreed(f)
    BY <1>1 DEF WholeInv, ListInv, FilesInv, Editing, Adding, Handling
  <2>3. unopened \subseteq Mp3
    BY <1>1 DEF WholeInv, TypeInv
  <2> QED
    BY <2>1, <2>2, <2>3 DEF Agreed
<1>2. WholeInv => ListMatchesDisk
  BY <1>1 DEF ListMatchesDisk
<1> QED
  BY <1>2, WholeInvariant, PTL

-----------------------------------------------------------------------------
(* What a listing has sent.                                                  *)

\* The titles of the first elements of the chain s, up to the i-th.
Titles(s, i) == [j \in 1..i |-> list.data[s[j]]]

SentInv ==
  /\ sent \in [Clients -> Seq(Title \cup {Garbage})]
  /\ \A c \in Clients : pc[c] \notin {"walk", "current"} => sent[c] = <<>>
  /\ ~disturbed =>
       \A c \in Clients : pc[c] = "walk" =>
         /\ \A d \in Clients : pc[d] # "search"
         /\ \A s : Chain(list, s) =>
              \E i \in 1..(list.size + 1) : node[c] = At(list, s, i) /\ sent[c] = Titles(s, i - 1)

LEMMA SentInvInit == MusicInit => SentInv
  BY DEF MusicInit, SentInv, All

LEMMA SentInvRestart == Restart => SentInv'
  BY DEF Restart, SentInv, All

\* With nobody walking there is little to keep.
LEMMA NoWalk ==
  ASSUME SentInv, ~disturbed' => \A d \in Clients : pc'[d] # "walk",
         sent' = sent \/ sent' = All(<<>>) \/ \E c \in Clients : sent' = [sent EXCEPT ![c] = <<>>],
         \A d \in Clients : pc'[d] \notin {"walk", "current"} =>
                             pc[d] \notin {"walk", "current"} \/ sent'[d] = <<>>
  PROVE  SentInv'
<1>1. sent' \in [Clients -> Seq(Title \cup {Garbage})]
  <2>1. <<>> \in Seq(Title \cup {Garbage})
    BY EmptySeq
  <2> QED
    BY <2>1, Zenon DEF SentInv, All
<1>2. \A d \in Clients : pc'[d] \notin {"walk", "current"} => sent'[d] = <<>>
  BY DEF SentInv, All
<1> QED
  BY <1>1, <1>2 DEF SentInv

\* Steps that leave the list and who walks along it alone.
LEMMA SentInvAside ==
  ASSUME WholeInv, SentInv, NEW c \in Clients,
         \/ AskUpload(c) \/ AskListing(c) \/ AcquireUpload(c) \/ CloseFile(c) \/ Scan(c)
         \/ SendCurrent(c) \/ Release(c)
         \/ (\E f \in Title : AskDelete(c, f)) \/ TestCurrent(c) \/ FreeTitle(c)
         \/ PlayStep(c)
  PROVE  SentInv'
<1>1. /\ list' = list /\ disturbed' = disturbed
      /\ pc[c] # "walk" /\ pc'[c] \notin {"walk", "search"}
      /\ \A d \in Clients \ {c} :
           /\ pc'[d] = pc[d] \/ (pc[d] = "playing" /\ pc'[d] = "idle")
           /\ node'[d] = node[d]
      /\ (sent' = sent /\ pc[c] # "current") \/ sent' = [sent EXCEPT ![c] = <<>>]
  <2> USE DEF WholeInv, MusicInv, TypeInv, StepsOK, Goto, Finish
  <2>1. CASE \/ AskUpload(c) \/ AskListing(c) \/ AcquireUpload(c) \/ CloseFile(c) \/ Scan(c)
             \/ SendCurrent(c) \/ Release(c)
    BY <2>1 DEF AskUpload, AskListing, AcquireUpload, CloseFile, Scan, SendCurrent, Release
  <2>2. CASE (\E f \in Title : AskDelete(c, f)) \/ TestCurrent(c) \/ FreeTitle(c)
    BY <2>2 DEF AskDelete, TestCurrent, FreeTitle
  <2>3. CASE PlayStep(c)
    BY <2>3 DEF PlayStep, AskPlay, KillAll, Compare, StartCopy, EndCopy, Launch, Clear
  <2> QED
    BY <2>1, <2>2, <2>3
<1>2. sent' \in [Clients -> Seq(Title \cup {Garbage})]
  <2>1. <<>> \in Seq(Title \cup {Garbage})
    BY EmptySeq
  <2> HIDE DEF SentInv
  <2> DEFINE Q == Seq(Title \cup {Garbage})
  <2>2. sent \in [Clients -> Q] /\ <<>> \in Q
    BY <2>1 DEF SentInv
  <2> HIDE DEF Q
  <2>3. sent' \in [Clients -> Q]
    BY <1>1, <2>2
  <2> QED
    BY <2>3 DEF Q
<1>3. \A d \in Clients : pc'[d] \notin {"walk", "current"} => sent'[d] = <<>>
  BY <1>1 DEF SentInv
<1>4. ASSUME ~disturbed', NEW d \in Clients, pc'[d] = "walk"
      PROVE  /\ \A b \in Clients : pc'[b] # "search"
             /\ \A s : Chain(list, s)' =>
                  \E i \in 1..(list.size + 1) : /\ node'[d] = At(list, s, i)
                                               /\ sent'[d] = Titles(s, i - 1)
  <2>1. d # c /\ pc[d] = "walk" /\ sent'[d] = sent[d] /\ node'[d] = node[d] /\ ~disturbed
    BY <1>1, <1>4 DEF SentInv
  <2>2. \A b \in Clients : pc'[b] # "search"
    BY <1>1, <2>1 DEF SentInv
  <2> QED
    BY <1>1, <2>1, <2>2 DEF SentInv
<1>5. \A s, i : Titles(s, i)' = Titles(s, i)
  BY <1>1 DEF Titles
<1> QED
  BY <1>1, <1>2, <1>3, <1>4, <1>5 DEF SentInv

\* Steps that change the list or its files: nobody walks, or all is disturbed.
LEMMA SentInvEdit ==
  ASSUME WholeInv, SentInv, NEW c \in Clients,
         OpenFile(c) \/ OpenFails(c) \/ Insert(c) \/ Unlink(c) \/ Search(c)
  PROVE  SentInv'
<1> USE DEF WholeInv, MusicInv, TypeInv, StepsOK
<1>1. CASE OpenFile(c) \/ OpenFails(c) \/ Insert(c)
  <2>1. /\ pc[c] \in {"name", "insert"} /\ pc'[c] \in {"data", "release"}
        /\ \A d \in Clients \ {c} : pc'[d] = pc[d]
        /\ sent' = sent \/ sent' = All(<<>>) \/ sent' = [sent EXCEPT ![c] = <<>>]
    BY <1>1 DEF OpenFile, OpenFails, Insert, Overlaps, Goto, Finish
  <2>2. \A d \in Clients : pc[d] # "walk"
    BY <2>1 DEF LockInv, LockedStep
  <2> QED
    BY <2>1, <2>2, NoWalk
<1>2. CASE Unlink(c)
  <2>1. /\ pc[c] = "unlink" /\ pc'[c] = "search" /\ \A d \in Clients \ {c} : pc'[d] = pc[d]
        /\ sent' = sent \/ sent' = All(<<>>)
        /\ ~disturbed' => \A d \in Clients \ {c} : pc[d] # "walk"
    BY <1>2 DEF Unlink, Overlaps, Others, Goto, Handling
  <2> QED
    BY <2>1, NoWalk
<1>3. CASE Search(c)
  BY <1>3, NoWalk DEF Search, SentInv
<1> QED
  BY <1>1, <1>2, <1>3

\* A listing begins.
LEMMA SentInvBegin ==
  ASSUME WholeInv, SentInv, NEW c \in Clients, AcquireListing(c)
  PROVE  SentInv'
<1>1. /\ pc[c] = "waitListing" /\ pc'[c] = "walk" /\ node'[c] = list.head /\ list' = list
      /\ \A d \in Clients \ {c} : pc'[d] = pc[d]
      /\ sent' = sent \/ sent' = All(<<>>)
      /\ ~disturbed' => \A d \in Clients : pc'[d] # "search"
  BY DEF AcquireListing, Overlaps, Others, Goto, WholeInv, MusicInv, TypeInv, StepsOK
<1>2. \A d \in Clients : pc[d] # "walk"
  BY DEF AcquireListing, WholeInv, MusicInv, LockInv, LockedStep
<1>3. /\ sent' \in [Clients -> Seq(Title \cup {Garbage})] /\ sent'[c] = <<>>
      /\ \A d \in Clients : pc'[d] \notin {"walk", "current"} => sent'[d] = <<>>
  BY <1>1 DEF SentInv, All
<1>4. ASSUME NEW s, Chain(list, s)
      PROVE  1 \in 1..(list.size + 1) /\ list.head = At(list, s, 1) /\ <<>> = Titles(s, 1 - 1)'
  <2>1. list.size \in Nat
    BY DEF WholeInv, TypeInv, ListOf
  <2>2. list.head = At(list, s, 1)
    BY <1>4, <2>1, ChainWalk
  <2>3. Titles(s, 0)' = <<>>
    BY DEF Titles
  <2> QED
    BY <2>1, <2>2, <2>3
<1> QED
  BY <1>1, <1>2, <1>3, <1>4 DEF SentInv

\* It sends a title, or comes to the end.
LEMMA SentInvSend ==
  ASSUME WholeInv, SentInv, NEW c \in Clients, SendTitle(c)
  PROVE  SentInv'
<1>1. /\ pc[c] = "walk" /\ list' = list /\ disturbed' = disturbed
      /\ \A d \in Clients \ {c} : pc'[d] = pc[d]
  BY DEF SendTitle, Goto, WholeInv, MusicInv, StepsOK
<1>2. \A d \in Clients \ {c} : pc[d] # "walk"
  BY <1>1 DEF WholeInv, MusicInv, LockInv, LockedStep
<1>3. CASE node[c] = NULL
  <2>1. pc'[c] = "current" /\ sent' = sent
    BY <1>3 DEF SendTitle, Goto, WholeInv, MusicInv, StepsOK
  <2> QED
    BY <1>1, <1>2, <2>1, NoWalk
<1>4. CASE node[c] # NULL
  <2> DEFINE d == list.data[node[c]]
  <2>1. node[c] \in Node /\ d \in Title \cup {Garbage} /\ list.size \in Nat
    BY <1>4 DEF WholeInv, TypeInv, ListOf, Link
  <2>2. /\ pc' = pc /\ node'[c] = list.next[node[c]]
        /\ sent' = IF disturbed THEN sent ELSE [sent EXCEPT ![c] = Append(@, d)]
    BY <1>4 DEF SendTitle, WholeInv, TypeInv
  <2>3. Append(sent[c], d) \in Seq(Title \cup {Garbage})
    BY <2>1, AppendProperties DEF SentInv
  <2>4. /\ sent' \in [Clients -> Seq(Title \cup {Garbage})]
        /\ \A b \in Clients : pc'[b] \notin {"walk", "current"} => sent'[b] = <<>>
    BY <1>1, <2>2, <2>3 DEF SentInv
  <2>5. ASSUME ~disturbed, NEW s, Chain(list, s)
        PROVE  \E i \in 1..(list.size + 1) : /\ node'[c] = At(list, s, i)
                                             /\ sent'[c] = Titles(s, i - 1)
    <3>1. PICK i \in 1..(list.size + 1) : node[c] = At(list, s, i) /\ sent[c] = Titles(s, i - 1)
      BY <1>1, <2>5 DEF SentInv
    <3>2. i \in 1..list.size /\ node[c] = s[i] /\ i + 1 \in 1..(list.size + 1) /\ (i + 1) - 1 = i
      BY <1>4, <2>1, <3>1 DEF At
    <3>3. node'[c] = At(list, s, i + 1)
      BY <2>1, <2>2, <2>5, <3>2, ChainWalk
    <3>4. sent'[c] = Append(Titles(s, i - 1), list.data[s[i]])
      BY <2>2, <2>5, <3>1, <3>2 DEF SentInv
    <3>5. Append(Titles(s, i - 1), list.data[s[i]]) = Titles(s, i)
      BY <3>2 DEF Titles
    <3> QED
      BY <3>2, <3>3, <3>4, <3>5
  <2> HIDE DEF d
  <2>6. \A s, i : Titles(s, i)' = Titles(s, i)
    BY <1>1 DEF Titles
  <2> QED
    BY <1>1, <1>2, <2>2, <2>4, <2>5, <2>6 DEF SentInv
<1> QED
  BY <1>3, <1>4

LEMMA SentInvStep == WholeInv /\ SentInv /\ [MusicNext]_musicVars => SentInv'
<1> SUFFICES ASSUME WholeInv, SentInv, [MusicNext]_musicVars PROVE SentInv'
  OBVIOUS
<1>1. CASE UNCHANGED musicVars
  <2>1. \A s, i : Titles(s, i)' = Titles(s, i)
    BY <1>1 DEF musicVars, Titles
  <2> QED
    BY <1>1, <2>1 DEF musicVars, SentInv
<1>2. CASE Restart
  BY <1>2, SentInvRestart
<1>3. ASSUME NEW c \in Clients, Ask(c) \/ Serve(c) PROVE SentInv'
  <2>1. CASE \/ AskUpload(c) \/ AskListing(c) \/ AcquireUpload(c) \/ CloseFile(c) \/ Scan(c)
             \/ SendCurrent(c) \/ Release(c)
             \/ (\E f \in Title : AskDelete(c, f)) \/ TestCurrent(c) \/ FreeTitle(c)
             \/ PlayStep(c)
    BY <2>1, SentInvAside
  <2>2. CASE OpenFile(c) \/ OpenFails(c) \/ Insert(c) \/ Unlink(c) \/ Search(c)
    BY <2>2, SentInvEdit
  <2>3. CASE AcquireListing(c)
    BY <2>3, SentInvBegin
  <2>4. CASE SendTitle(c)
    BY <2>4, SentInvSend
  <2> QED
    BY <1>3, <2>1, <2>2, <2>3, <2>4 DEF Ask, Serve, PlayStep
<1> QED
  BY <1>1, <1>2, <1>3 DEF MusicNext

\* Only SendTitle() ends a walk.
LEMMA WalkEnds ==
  ASSUME WholeInv, MusicNext, NEW c \in Clients, pc[c] = "walk", pc'[c] = "current"
  PROVE  node[c] = NULL
<1> USE DEF WholeInv, MusicInv, StepsOK
<1>1. ~Restart
  BY DEF Restart, All
<1>2. PICK d \in Clients : Ask(d) \/ Serve(d)
  BY <1>1 DEF MusicNext
<1>3. CASE LockedKeeps(d) \/ DeleteKeeps(d)
  <2>1. d = c
    BY <1>3, Aside
  <2> QED
    BY <1>3, <2>1 DEF LockedKeeps, DeleteKeeps, AskUpload, AskListing, AcquireUpload, AcquireListing,
       OpenFile, OpenFails, CloseFile, Scan, Insert, SendTitle, SendCurrent, Release,
       AskDelete, TestCurrent, Unlink, Search, FreeTitle
<1>4. CASE PlayStep(d)
  BY <1>4 DEF PlayStep, AskPlay, KillAll, Compare, StartCopy, EndCopy, Launch, Clear, Goto, Finish
<1> QED
  BY <1>2, <1>3, <1>4 DEF Ask, Serve, LockedKeeps, DeleteKeeps, PlayStep

(* A listing that no deletion disturbs has sent each title once and in order *)
(* when it comes to the end, however long the list is.                       *)
THEOREM ListingsAreWhole == MusicSpec => ListingsAreExact
<1>1. ASSUME WholeInv, SentInv, MusicNext, NEW c \in Clients,
             pc[c] = "walk", pc'[c] = "current", ~disturbed
      PROVE  sent[c] = Contents(list)
  <2>1. PICK s : Chain(list, s)
    BY <1>1 DEF WholeInv, ListInv
  <2>2. PICK i \in 1..(list.size + 1) : node[c] = At(list, s, i) /\ sent[c] = Titles(s, i - 1)
    BY <1>1, <2>1 DEF SentInv
  <2>3. list.size \in Nat /\ \A j \in 1..list.size : s[j] # NULL
    BY <1>1, <2>1, HeapFacts DEF Chain, WholeInv, TypeInv, ListOf
  <2>4. i - 1 = list.size
    BY <1>1, <2>2, <2>3, WalkEnds DEF At
  <2>5. s \in [1..list.size -> Node] /\ IsChain(list, s)
    BY <2>1 DEF Chain
  <2> DEFINE t == CHOOSE t \in [1..list.size -> Node] : IsChain(list, t)
  <2>6. t \in [1..list.size -> Node] /\ IsChain(list, t)
    BY <2>5
  <2>7. Contents(list) = [j \in 1..list.size |-> list.data[t[j]]]
    BY DEF Contents
  <2> HIDE DEF t
  <2>8. t = s
    BY <2>3, <2>5, <2>6, ChainUnique
  <2> QED
    BY <2>2, <2>4, <2>7, <2>8 DEF Titles
<1>2. WholeInv /\ SentInv /\ [MusicNext]_musicVars
        => [\A c \in Clients : pc[c] = "walk" /\ pc'[c] = "current" /\ ~disturbed
              => sent[c] = Contents(list)]_musicVars
  BY <1>1
<1>3. MusicSpec => []SentInv
  BY WholeInvariant, SentInvInit, SentInvStep, PTL DEF MusicSpec
<1> QED
  BY <1>2, <1>3, WholeInvariant, PTL DEF MusicSpec, ListingsAreExact
-----------------------------------------------------------------------------
(* Music implements Library.                                                 *)

\* What a list holds, along its chain.
LEMMA ContentsOf ==
  ASSUME NEW l \in ListOf(Title), NEW s, Chain(l, s), \A n \in l.live : l.data[n] \in Title
  PROVE  /\ Contents(l) = [i \in 1..l.size |-> l.data[s[i]]]
         /\ Contents(l) \in Seq(Title) /\ Len(Contents(l)) = l.size
<1>1. l.size \in Nat /\ s \in [1..l.size -> Node] /\ IsChain(l, s)
  BY DEF Chain, ListOf
<1> DEFINE t == CHOOSE t \in [1..l.size -> Node] : IsChain(l, t)
<1>2. t \in [1..l.size -> Node] /\ IsChain(l, t)
  BY <1>1
<1>3. Contents(l) = [i \in 1..l.size |-> l.data[t[i]]]
  BY DEF Contents
<1> HIDE DEF t
<1>4. t = s
  BY <1>1, <1>2, ChainUnique
<1>5. Contents(l) \in [1..l.size -> Title]
  BY <1>1, <1>3, <1>4 DEF IsChain
<1>6. Contents(l) \in Seq(Title)
  BY <1>1, <1>5, SeqDef
<1>7. Len(Contents(l)) = l.size
  BY <1>1, <1>5, <1>6, LenProperties
<1> QED
  BY <1>3, <1>4, <1>6, <1>7

\* Start-up lists the ".mp3" files in the order of the directory.
LEMMA StartTitles ==
  ASSUME NEW d \in SUBSET Title, NEW ts \in Directory(d)
  PROVE  ALibrary!ListsEach(Contents(FromTitles(ts)), d \cap Mp3)
<1> DEFINE k == Cardinality(d \cap Mp3)
           l == FromTitles(ts)
           s == [i \in 1..k |-> i]
<1>1. IsFiniteSet(d \cap Mp3) /\ k \in Nat /\ k <= Cardinality(Title) /\ Cardinality(Title) \in Nat
  BY MemoryAssumption, FS_Subset, FS_CardinalityType
<1>2. k \in 0..HeapNodes
  BY <1>1, MemoryAssumption, HeapAssumption
<1>3. ts \in [1..k -> d \cap Mp3] /\ (\A i, j \in 1..k : ts[i] = ts[j] => i = j)
  BY DEF Directory
<1>4. ts \in [1..k -> Title]
  BY <1>3
<1>5. ts \in Seq(d \cap Mp3) /\ Len(ts) = k
  <2> HIDE DEF k
  <2>1. ts \in Seq(d \cap Mp3)
    BY <1>1, <1>3, SeqDef
  <2> QED
    BY <1>1, <1>3, <2>1, LenProperties
<1>6. d \cap Mp3 = {ts[i] : i \in 1..k}
  <2>1. ts \in Injection(1..k, d \cap Mp3)
    BY <1>3 DEF Injection, IsInjective
  <2>2. IsFiniteSet(1..k) /\ Cardinality(1..k) = k
    BY <1>1, FS_Interval
  <2>3. ts \in Surjection(1..k, d \cap Mp3)
    BY <1>1, <2>1, <2>2, FS_Injection
  <2> QED
    BY <2>3 DEF Surjection
<1> HIDE DEF k
<1>7. /\ l \in ListOf(Title) /\ l.size = k /\ l.live = 1..k
      /\ \A n \in 1..k : n \in Node /\ l.data[n] = ts[n]
      /\ Chain(l, s)
  BY <1>2, <1>4, FromTitlesIsRight
<1>8. \A n \in l.live : l.data[n] \in Title
  <2> HIDE DEF l
  <2> QED
    BY <1>4, <1>7
<1> HIDE DEF l, s
<1>9. Contents(l) = [i \in 1..l.size |-> l.data[s[i]]]
  BY <1>7, <1>8, ContentsOf
<1>10. Contents(l) = ts
  BY <1>3, <1>7, <1>9 DEF s
<1> QED
  BY <1>3, <1>5, <1>6, <1>10 DEF ALibrary!ListsEach, l

LEMMA LibraryInitial == MusicInit => ALibrary!LibraryInit
<1> SUFFICES ASSUME MusicInit PROVE ALibrary!LibraryInit
  OBVIOUS
<1>1. PICK ts \in Directory(disk) : list = FromTitles(ts)
  BY DEF MusicInit
<1>2. disk \in SUBSET Title /\ disturbed = FALSE
  BY DEF MusicInit
<1> QED
  BY <1>1, <1>2, StartTitles DEF ALibrary!LibraryInit

LEMMA LibraryReload == WholeInv /\ Restart => ALibrary!Reload
<1> SUFFICES ASSUME WholeInv, Restart PROVE ALibrary!Reload
  OBVIOUS
<1>1. PICK ts \in Directory(disk) : list' = FromTitles(ts)
  BY DEF Restart
<1>2. disk \in SUBSET Title /\ disk' = disk /\ disturbed' = FALSE
  BY DEF Restart, WholeInv, TypeInv
<1> QED
  BY <1>1, <1>2, StartTitles DEF ALibrary!Reload

\* A step of c that leaves the list alone changes a file or nothing, unless it
\* overlaps.
LEMMA LibraryAside ==
  ASSUME WholeInv, NEW c \in Clients, Ask(c) \/ Serve(c), ~Insert(c), ~Search(c)
  PROVE  /\ list' = list /\ (disturbed => disturbed')
         /\ disk' = disk \/ \E f \in Title : disk' \in {disk \cup {f}, disk \ {f}}
<1>1. CASE LockedKeeps(c)
  <2>1. CASE \/ AskUpload(c) \/ AskListing(c) \/ AcquireUpload(c) \/ CloseFile(c) \/ Scan(c)
             \/ SendTitle(c) \/ SendCurrent(c) \/ Release(c)
    BY <2>1 DEF AskUpload, AskListing, AcquireUpload, CloseFile, Scan, SendTitle, SendCurrent, Release
  <2>2. CASE AcquireListing(c) \/ OpenFails(c)
    BY <2>2 DEF AcquireListing, OpenFails, Overlaps
  <2>3. CASE OpenFile(c)
    BY <2>3 DEF OpenFile, Overlaps
  <2> QED
    BY <1>1, <2>1, <2>2, <2>3 DEF LockedKeeps
<1>2. CASE Unlink(c)
  <2>1. disk' = disk \ {name[c]} /\ name[c] \in Title \cup {NoTitle}
    BY <1>2 DEF Unlink, WholeInv, MusicInv, StepsOK
  <2>2. CASE name[c] \in Title
    BY <1>2, <2>1, <2>2 DEF Unlink, Overlaps
  <2>3. CASE name[c] = NoTitle
    <3>1. NoTitle \notin disk
      BY NamesAssumption DEF WholeInv, TypeInv
    <3> QED
      BY <1>2, <2>1, <2>3, <3>1 DEF Unlink, Overlaps
  <2> QED
    BY <2>1, <2>2, <2>3
<1>3. CASE (\E f \in Title : AskDelete(c, f)) \/ TestCurrent(c) \/ FreeTitle(c)
  BY <1>3 DEF AskDelete, TestCurrent, FreeTitle
<1>4. CASE PlayStep(c)
  BY <1>4 DEF PlayStep, AskPlay, KillAll, Compare, StartCopy, EndCopy, Launch, Clear
<1> QED
  BY <1>1, <1>2, <1>3, <1>4 DEF Ask, Serve, LockedKeeps, PlayStep

\* music_add() puts the title at the end.
LEMMA LibraryInsert ==
  ASSUME WholeInv, NEW c \in Clients, Insert(c), ~disturbed
  PROVE  \E t \in Title : ALibrary!Add(t)
<1>1. /\ disturbed' = disturbed /\ pc[c] = "insert" /\ name[c] \in Title
      /\ list \in ListOf(Title) /\ Distinct(list)
  BY DEF WholeInv, ListInv, TypeInv, Insert
<1>2. PICK s : Chain(list, s) /\ Walk(s, c)
  BY DEF WholeInv, ListInv
<1>3. name[c] \notin Listed(list)
  BY <1>1, <1>2 DEF Walk
<1>4. PICK n \in Node \ list.live : list' = InsNext(list, list.tail, n, name[c])
  BY <1>1, <1>3, RoomLeft DEF Insert
<1> DEFINE k == list.size
           t == WithNode(list, s, k, n)
<1>5. k \in Nat /\ k \in 0..k /\ list.tail = At(list, s, k) /\ list.tail \in Link
  <2>1. k \in Nat /\ list.tail \in Link
    BY <1>1 DEF ListOf
  <2> QED
    BY <1>2, <2>1, ChainWalk
<1>6. Chain(list', t)
  BY <1>1, <1>2, <1>4, <1>5, InsertionIsRight
<1>7. /\ list' \in ListOf(Title) /\ list'.size = k + 1 /\ list'.live = list.live \cup {n}
      /\ \A x \in Node : list'.data[x] = IF x = n THEN name[c] ELSE list.data[x]
  BY <1>1, <1>4, <1>5, InsFields
<1>8. \A i \in 1..k : s[i] \in list.live /\ s[i] \in Node
  BY <1>2, <1>5, ChainWalk
<1>9. (\A x \in list'.live : list'.data[x] \in Title) /\ (\A x \in list.live : list.data[x] \in Title)
  <2>1. list.live \subseteq Node
    BY <1>1 DEF ListOf
  <2> QED
    BY <1>1, <1>7, <2>1 DEF Distinct
<1> DEFINE old == Contents(list)
           new == Contents(list')
<1>10. old = [i \in 1..k |-> list.data[s[i]]] /\ old \in Seq(Title) /\ Len(old) = k
  BY <1>1, <1>2, <1>9, ContentsOf
<1>11. /\ new = [i \in 1..list'.size |-> list'.data[t[i]]]
       /\ new \in Seq(Title) /\ Len(new) = k + 1
  <2> HIDE DEF t
  <2> QED
    BY <1>6, <1>7, <1>9, ContentsOf
<1>12. \A i \in 1..(k + 1) : new[i] = IF i = k + 1 THEN name[c] ELSE old[i]
  <2> HIDE DEF old, new, k
  <2>1. \A i \in 1..(k + 1) : t[i] = IF i = k + 1 THEN n ELSE s[i]
    BY <1>5 DEF WithNode, k
  <2> HIDE DEF t
  <2>2. \A i \in 1..k : s[i] # n
    BY <1>8
  <2> QED
    BY <1>5, <1>7, <1>8, <1>10, <1>11, <2>1, <2>2
<1> HIDE DEF old, new, k
<1>13. new = Append(old, name[c])
  <2>1. /\ Append(old, name[c]) \in Seq(Title) /\ Len(Append(old, name[c])) = k + 1
        /\ \A i \in 1..k : Append(old, name[c])[i] = old[i]
        /\ Append(old, name[c])[k + 1] = name[c]
    <3>1. old \in Seq(Title)
      BY <1>10
    <3>2. /\ Append(old, name[c]) \in Seq(Title) /\ Len(Append(old, name[c])) = Len(old) + 1
          /\ \A i \in 1..Len(old) : Append(old, name[c])[i] = old[i]
          /\ Append(old, name[c])[Len(old) + 1] = name[c]
      BY <1>1, <3>1, AppendProperties
    <3>3. Len(old) = k
      BY <1>10
    <3> QED
      BY <3>2, <3>3
  <2>2. \A i \in 1..(k + 1) : new[i] = Append(old, name[c])[i]
    BY <1>5, <1>12, <2>1
  <2> QED
    BY <1>11, <2>1, <2>2, SeqEqual
<1>14. \A i \in 1..Len(old) : old[i] # name[c]
  BY <1>3, <1>8, <1>10 DEF Listed
<1> QED
  BY <1>1, <1>13, <1>14 DEF ALibrary!Add, old, new

\* music_remove() takes the title of the deleted file out, wherever it is.
LEMMA LibraryRemove ==
  ASSUME WholeInv, NEW c \in Clients, Search(c), ~disturbed, list' # list
  PROVE  \E i \in 1..Len(Contents(list)) : ALibrary!Remove(i)
<1>1. /\ disturbed' = disturbed /\ disk' = disk /\ pc[c] = "search" /\ node[c] # NULL
      /\ list \in ListOf(Title) /\ Distinct(list) /\ list.size \in Nat
      /\ list.data[node[c]] = name[c] /\ list' = RemNext(list, pre[c])
  BY DEF WholeInv, ListInv, TypeInv, Search, ListOf
<1>2. PICK s : Chain(list, s) /\ Walk(s, c)
  BY DEF WholeInv, ListInv
<1>3. \A i \in 1..list.size : s[i] \in list.live /\ s[i] \in Node
  BY <1>1, <1>2, ChainWalk
<1>4. name[c] \notin disk
  BY <1>1 DEF WholeInv, ListInv, FilesInv
<1>5. PICK i \in 1..(list.size + 1) : node[c] = At(list, s, i) /\ pre[c] = At(list, s, i - 1)
  <2>1. ~(name[c] \notin Listed(list) /\ node[c] \in list.live \cup {NULL})
    BY <1>1 DEF Listed
  <2> QED
    BY <1>1, <1>2, <2>1 DEF Walk
<1> DEFINE k == i - 1
           e == At(list, s, k)
           t == WithoutNode(list, s, k)
<1>6. i \in 1..list.size /\ node[c] = s[i] /\ k \in 0..(list.size - 1) /\ k + 1 = i
  BY <1>1, <1>5 DEF At
<1>7. /\ Removes(list, e) /\ Victim(list, e) = s[i] /\ Chain(list', t)
  <2>1. list' = RemNext(list, e)
    BY <1>1, <1>5
  <2> HIDE DEF e, k, t
  <2>2. /\ Removes(list, At(list, s, k)) /\ Victim(list, At(list, s, k)) = s[k + 1]
        /\ Chain(RemNext(list, At(list, s, k)), WithoutNode(list, s, k))
    BY <1>1, <1>2, <1>6, RemovalIsRight
  <2> QED
    BY <1>6, <2>1, <2>2 DEF e, t
<1>8. e \in Link /\ s[i] # NULL
  BY <1>3, <1>6, HeapFacts DEF At, Link
<1>9. /\ list' \in ListOf(Title) /\ list'.size = list.size - 1 /\ list'.live = list.live \ {s[i]}
      /\ \A x \in Node : list'.data[x] = IF x = s[i] THEN Garbage ELSE list.data[x]
  <2> HIDE DEF e, t, k
  <2>1. list' = RemNext(list, e)
    BY <1>1, <1>5 DEF e, k
  <2> QED
    BY <1>1, <1>7, <1>8, <2>1, RemFields
<1>10. (\A x \in list'.live : list'.data[x] \in Title) /\ (\A x \in list.live : list.data[x] \in Title)
  <2>1. list.live \subseteq Node
    BY <1>1 DEF ListOf
  <2> QED
    BY <1>1, <1>9, <2>1 DEF Distinct
<1> DEFINE old == Contents(list)
           new == Contents(list')
<1>11. old = [j \in 1..list.size |-> list.data[s[j]]] /\ Len(old) = list.size
  BY <1>1, <1>2, <1>10, ContentsOf
<1>12. new = [j \in 1..list'.size |-> list'.data[t[j]]]
  <2> HIDE DEF t
  <2> QED
    BY <1>7, <1>9, <1>10, ContentsOf
<1>13. new = [j \in 1..(list.size - 1) |-> IF j < i THEN old[j] ELSE old[j + 1]]
  <2>1. \A j \in 1..(list.size - 1) :
          /\ t[j] = IF j < i THEN s[j] ELSE s[j + 1]
    BY <1>1, <1>6 DEF WithoutNode
  <2> HIDE DEF t, old, new
  <2>2. \A j, m \in 1..list.size : s[j] = s[m] => j = m
    BY <1>2 DEF Chain, IsChain
  <2>3. ASSUME NEW j \in 1..(list.size - 1)
        PROVE  list'.data[t[j]] = IF j < i THEN old[j] ELSE old[j + 1]
    <3>1. j \in 1..list.size /\ j + 1 \in 1..list.size /\ (j < i => j # i) /\ (~(j < i) => j + 1 # i)
      BY <1>1, <1>6
    <3>2. CASE j < i
      BY <1>3, <1>6, <1>9, <1>11, <2>1, <2>2, <3>1, <3>2
    <3>3. CASE ~(j < i)
      BY <1>3, <1>6, <1>9, <1>11, <2>1, <2>2, <3>1, <3>3
    <3> QED
      BY <3>2, <3>3
  <2> QED
    BY <1>9, <1>12, <2>3
<1>14. old[i] \notin disk /\ i \in 1..Len(old)
  BY <1>1, <1>4, <1>6, <1>11
<1> HIDE DEF old, new
<1>15. new = [j \in 1..(Len(old) - 1) |-> IF j < i THEN old[j] ELSE old[j + 1]]
  <2>1. Len(old) = list.size
    BY <1>11
  <2> QED
    BY <1>13, <2>1
<1> QED
  BY <1>1, <1>14, <1>15 DEF ALibrary!Remove, old, new

LEMMA LibraryStep ==
  WholeInv /\ [MusicNext]_musicVars => [ALibrary!LibraryNext]_(ALibrary!libraryVars)
<1> SUFFICES ASSUME WholeInv, [MusicNext]_musicVars
             PROVE  [ALibrary!LibraryNext]_(ALibrary!libraryVars)
  OBVIOUS
<1> USE DEF ALibrary!LibraryNext, ALibrary!libraryVars
<1>1. CASE UNCHANGED musicVars
  BY <1>1 DEF musicVars
<1>2. CASE Restart
  BY <1>2, LibraryReload
<1>3. ASSUME NEW c \in Clients, Ask(c) \/ Serve(c)
      PROVE  [ALibrary!LibraryNext]_(ALibrary!libraryVars)
  <2>1. disturbed \in BOOLEAN /\ disturbed' \in BOOLEAN
    <3>1. TypeInv'
      BY TypeInvStep DEF WholeInv, MusicInv
    <3> QED
      BY <3>1 DEF WholeInv, TypeInv
  <2>2. CASE Insert(c)
    <3>1. UNCHANGED <<disk, disturbed>>
      BY <2>2 DEF Insert
    <3> QED
      BY <2>1, <2>2, <3>1, LibraryInsert
  <2>3. CASE Search(c)
    <3>1. UNCHANGED <<disk, disturbed>>
      BY <2>3 DEF Search
    <3> QED
      BY <2>1, <2>3, <3>1, LibraryRemove
  <2>4. CASE ~Insert(c) /\ ~Search(c)
    <3>1. /\ list' = list /\ (disturbed => disturbed')
          /\ disk' = disk \/ \E f \in Title : disk' \in {disk \cup {f}, disk \ {f}}
      BY <1>3, <2>4, LibraryAside
    <3>2. CASE disturbed'
      BY <2>1, <3>1, <3>2 DEF ALibrary!Break, ALibrary!Change
    <3>3. CASE ~disturbed'
      BY <2>1, <3>1, <3>3 DEF ALibrary!Change
    <3> QED
      BY <3>2, <3>3
  <2> QED
    BY <2>2, <2>3, <2>4
<1> QED
  BY <1>1, <1>2, <1>3 DEF MusicNext

(* While no deletion overlaps another use of the list, nodes, walks and      *)
(* locks amount to the library clients expect, with any number of them, any  *)
(* titles and any heap, and every start makes good what was broken.          *)
THEOREM MusicIsLibrary == MusicSpec => IsLibrary
BY LibraryInitial, LibraryStep, WholeInvariant, PTL
DEF MusicSpec, IsLibrary, ALibrary!LibrarySpec
=============================================================================
