----------------------------- MODULE LinkedList -----------------------------
(***************************************************************************)
(* lib/list.c: a singly linked list with a tail pointer and a size.        *)
(* Addresses are numbers, 0 is NULL; a list is a record of its header and  *)
(* of the memory its elements are kept in.  free() overwrites the first    *)
(* word of an element, data, and leaves next as it is until malloc() hands *)
(* the address out again: that is what a stale pointer reads.              *)
(***************************************************************************)
EXTENDS Naturals, Sequences

CONSTANTS
  HeapNodes,   \* how many elements fit in the heap (bounds TLC runs)
  Garbage      \* what data of a freed element is read as

ASSUME HeapAssumption == HeapNodes \in Nat

Node == 1..HeapNodes
NULL == 0

\* A list of the titles ts, as music_get_from_directory() builds it at start-up
\* from an empty one, element after element.
FromTitles(ts) ==
  [head |-> IF ts = <<>> THEN NULL ELSE 1,
   tail |-> Len(ts),
   size |-> Len(ts),
   next |-> [n \in Node |-> IF n < Len(ts) THEN n + 1 ELSE NULL],
   data |-> [n \in Node |-> IF n <= Len(ts) THEN ts[n] ELSE Garbage],
   live |-> 1..Len(ts)]

\* list_ins_next(): a new element at address n with data d, after element e or,
\* with e = NULL, in front.
InsNext(l, e, n, d) ==
  [l EXCEPT !.data[n] = d, !.live = @ \cup {n}, !.size = @ + 1,
            !.next = IF e = NULL THEN [@ EXCEPT ![n] = l.head]
                                 ELSE [@ EXCEPT ![n] = l.next[e], ![e] = n],
            !.head = IF e = NULL THEN n ELSE @,
            !.tail = IF (IF e = NULL THEN l.size = 0 ELSE l.next[e] = NULL) THEN n ELSE @]

\* The element list_rem_next() removes: the one after e, or the first.
Victim(l, e) == IF e = NULL THEN l.head ELSE l.next[e]

\* list_rem_next() returns 0 rather than -1.
Removes(l, e) == l.size # 0 /\ (e # NULL => l.next[e] # NULL)

\* The list after list_rem_next(); free() only takes the address out of use.
RemNext(l, e) ==
  IF ~Removes(l, e) THEN l
  ELSE [l EXCEPT !.head = IF e = NULL THEN l.next[l.head] ELSE @,
                 !.tail = IF e = NULL THEN (IF l.size = 1 THEN NULL ELSE @)
                          ELSE (IF l.next[Victim(l, e)] = NULL THEN e ELSE @),
                 !.next = IF e = NULL THEN @ ELSE [@ EXCEPT ![e] = l.next[Victim(l, e)]],
                 !.data[Victim(l, e)] = Garbage,
                 !.live = @ \ {Victim(l, e)}, !.size = @ - 1]

-----------------------------------------------------------------------------
\* s is the sequence of elements that head, next and tail string together.
IsChain(l, s) ==
  /\ \A i \in 1..l.size : s[i] \in l.live /\ (i < l.size => l.next[s[i]] = s[i + 1])
  /\ \A i, j \in 1..l.size : s[i] = s[j] => i = j
  /\ IF l.size = 0 THEN l.head = NULL /\ l.tail = NULL
     ELSE l.head = s[1] /\ l.tail = s[l.size] /\ l.next[l.tail] = NULL

Sound(l) == \E s \in [1..l.size -> Node] : IsChain(l, s)

\* What a sound list holds, in order.
Contents(l) ==
  LET s == CHOOSE s \in [1..l.size -> Node] : IsChain(l, s)
  IN  [i \in 1..l.size |-> l.data[s[i]]]
=============================================================================
