------------------------------ MODULE Library ------------------------------
(***************************************************************************)
(* What a client of the planter expects of its music: files it may upload  *)
(* and delete, and a list of titles to choose from.  Titles keep the order *)
(* in which they came, none is listed twice, and none leaves the list      *)
(* before its file is gone.  When the planter starts again the files       *)
(* themselves say what is listed.  Once broken, the list shows anything,   *)
(* here nothing, until then.                                               *)
(***************************************************************************)
EXTENDS Naturals, Sequences

CONSTANTS
  Title,   \* file names
  Mp3      \* those that are listed

VARIABLES
  files,   \* the files there are
  titles,  \* the list
  broken

libraryVars == <<files, titles, broken>>

\* The list ts holds each title of S once.
ListsEach(ts, S) ==
  /\ ts \in Seq(S) /\ S = {ts[i] : i \in 1..Len(ts)}
  /\ \A i, j \in 1..Len(ts) : ts[i] = ts[j] => i = j

LibraryInit ==
  /\ files \subseteq Title
  /\ ListsEach(titles, files \cap Mp3)
  /\ broken = FALSE

\* A file is uploaded or deleted.
Change(t) == files' \in {files \cup {t}, files \ {t}}

Add(t) ==
  /\ \A i \in 1..Len(titles) : titles[i] # t
  /\ titles' = Append(titles, t)

Remove(i) ==
  /\ titles[i] \notin files
  /\ titles' = [j \in 1..(Len(titles) - 1) |-> IF j < i THEN titles[j] ELSE titles[j + 1]]

Break ==
  /\ broken' = TRUE /\ titles' = <<>>
  /\ files' = files \/ \E t \in Title : Change(t)

Reload ==
  /\ broken' = FALSE
  /\ ListsEach(titles', files \cap Mp3)
  /\ UNCHANGED files

LibraryNext ==
  \/ (\E t \in Title : Change(t)) /\ UNCHANGED <<titles, broken>>
  \/ /\ ~broken /\ UNCHANGED <<files, broken>>
     /\ (\E t \in Title : Add(t)) \/ (\E i \in 1..Len(titles) : Remove(i))
  \/ Break
  \/ Reload

LibrarySpec == LibraryInit /\ [][LibraryNext]_libraryVars
=============================================================================
