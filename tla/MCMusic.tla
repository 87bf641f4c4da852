------------------------------ MODULE MCMusic ------------------------------
(* Two connections, two titles of which one ends in ".mp3", and memory for   *)
(* as many elements, so that addresses are used again.  The connections      *)
(* overlap in every pair of operations but two listings, which the lock      *)
(* keeps apart, and two deletions, which leave nothing to be promised.       *)
EXTENDS Music
CONSTANTS c1, c2, song, notes, none, half, garbage

MCAsks == [c \in Clients |-> {"upload", "play", IF c = c1 THEN "listing" ELSE "delete"}]

\* list.c on lists of up to four elements, in memory for five, against what
\* insertion and removal do to a sequence.
Five == INSTANCE LinkedList WITH HeapNodes <- 5, Garbage <- 0
Lists == {[i \in 1..n |-> i] : n \in 0..4}
With(s, i, d) == SubSeq(s, 1, i) \o <<d>> \o SubSeq(s, i + 1, Len(s))
Without(s, i) == SubSeq(s, 1, i) \o SubSeq(s, i + 2, Len(s))

ASSUME InsertionsAreRight ==
  \A s \in Lists : \A i \in 0..Len(s) :
    LET l == Five!InsNext(Five!FromTitles(s), i, 5, 9)
    IN  Five!Sound(l) /\ Five!Contents(l) = With(s, i, 9)

ASSUME RemovalsAreRight ==
  \A s \in Lists : \A i \in 0..Len(s) :
    LET l == Five!RemNext(Five!FromTitles(s), i)
    IN  Five!Sound(l) /\ Five!Contents(l) = Without(s, i)
=============================================================================
