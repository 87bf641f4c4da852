-------------------------------- MODULE Music --------------------------------
(***************************************************************************)
(* The music of the planter: files in the working directory, the list of   *)
(* their titles (lib/music.c) and the title being played.  Socket threads   *)
(* upload, list, delete and play (receive_file(), transfer_list(),         *)
(* delete_file(), play_music() of main.c).  recv_trans_lock keeps uploads   *)
(* and listings apart; deleting and playing take no lock.  The process may  *)
(* die and be started again at any moment: that is also what a read of     *)
(* freed memory comes to when the memory is no longer as it was.            *)
(***************************************************************************)
EXTENDS LinkedList, FiniteSets

CONSTANTS
  Clients,   \* socket threads: connections served at the same time
  Asks,      \* client -> what it may ask for: "upload", "listing", "delete", "play"
  Title,     \* file names clients send
  Mp3,       \* those that end in ".mp3"
  NoTitle,   \* the empty string
  Half       \* a string strcpy() has not finished: nobody's title

ASSUME Mp3Assumption == Mp3 \subseteq Title
ASSUME AsksAssumption == Asks \in [Clients -> SUBSET {"upload", "listing", "delete", "play"}]
ASSUME NamesAssumption ==
  {NoTitle, Half, Garbage} \cap Title = {} /\ NoTitle # Half

\* malloc() fails only when more memory is lost than the titles need.
ASSUME MemoryAssumption == IsFiniteSet(Title) /\ Cardinality(Title) <= HeapNodes

VARIABLES
  list,      \* the list of titles
  disk,      \* titles there is a file for
  current,   \* current_music
  tunes,     \* titles madplay processes are playing
  lock,      \* holder of recv_trans_lock, {} or one client
  pc,        \* client -> where its socket thread stands
  name,      \* client -> filename
  pre,       \* client -> prehead of music_remove()
  node,      \* client -> head, the element its walk has come to
  sent,      \* history: client -> titles transfer_list() has sent, until disturbed
  disturbed, \* history: a deletion overlapped another use of list and files
  unopened,  \* history: ".mp3" titles whose last upload could not open its file,
             \* until disturbed
  clash      \* history: the last play_music() that began overlapped another, or
             \* a player outlived the process

musicVars == <<list, disk, current, tunes, lock, pc, name, pre, node, sent, disturbed, unopened, clash>>

Step == {"idle", "waitUpload", "name", "data", "scan", "insert", "waitListing", "walk",
         "current", "release", "test", "unlink", "search",
         "kill", "compare", "copy", "copied", "launch", "playing", "clear"}

\* Steps that use the list or create or remove a file, and those that play.
Handling == {"data", "scan", "insert", "walk", "search"}
Playing == {"kill", "compare", "copy", "copied", "launch", "clear"}

Others(c, S) == \E d \in Clients \ {c} : pc[d] \in S

(* Type invariant.  Sizes count elements that are in use.                    *)
MusicTypeOK ==
  /\ list.head \in Node \cup {NULL} /\ list.tail \in Node \cup {NULL}
  /\ list.next \in [Node -> Node \cup {NULL}]
  /\ list.data \in [Node -> Title \cup {Garbage}]
  /\ list.live \subseteq Node /\ list.size \in 0..Cardinality(list.live)
  /\ disk \subseteq Title
  /\ current \in Title \cup {NoTitle, Half} /\ tunes \subseteq Title
  /\ lock \subseteq Clients /\ Cardinality(lock) <= 1
  /\ pc \in [Clients -> Step] /\ name \in [Clients -> Title \cup {NoTitle}]
  /\ pre \in [Clients -> Node \cup {NULL}] /\ node \in [Clients -> Node \cup {NULL}]
  /\ disturbed \in BOOLEAN /\ unopened \subseteq Mp3 /\ clash \in BOOLEAN

\* The orders in which readdir() may return the files that end in ".mp3".
Directory(d) == {ts \in [1..Cardinality(d \cap Mp3) -> d \cap Mp3] :
                   \A i, j \in DOMAIN ts : ts[i] = ts[j] => i = j}

\* music_init(): the list of the files there are; no connection, no title.
All(x) == [c \in Clients |-> x]

MusicInit ==
  /\ disk \in SUBSET Title
  /\ \E ts \in Directory(disk) : list = FromTitles(ts)
  /\ current = NoTitle /\ tunes = {} /\ lock = {}
  /\ pc = All("idle") /\ name = All(NoTitle) /\ pre = All(NULL) /\ node = All(NULL)
  /\ sent = All(<<>>) /\ disturbed = FALSE /\ unopened = {} /\ clash = FALSE

\* The process ends anywhere and starts again; madplay processes go on playing.
Restart ==
  /\ \E ts \in Directory(disk) : list' = FromTitles(ts)
  /\ current' = NoTitle /\ lock' = {}
  /\ pc' = All("idle") /\ name' = All(NoTitle) /\ pre' = All(NULL) /\ node' = All(NULL)
  /\ sent' = All(<<>>) /\ disturbed' = FALSE /\ unopened' = {} /\ clash' = (tunes # {})
  /\ UNCHANGED <<disk, tunes>>

Goto(c, s) == pc' = [pc EXCEPT ![c] = s]

\* The thread goes on to s, and needs none of its variables any more.
Finish(c, s) ==
  /\ Goto(c, s)
  /\ name' = [name EXCEPT ![c] = NoTitle]
  /\ pre' = [pre EXCEPT ![c] = NULL]
  /\ node' = [node EXCEPT ![c] = NULL]
  /\ sent' = [sent EXCEPT ![c] = <<>>]

\* From now on c overlaps the threads that stand in S: a deletion and another
\* use of list or files.  Titles u have been uploaded without a file.
Overlaps(c, S, u) ==
  /\ disturbed' = (disturbed \/ Others(c, S))
  /\ sent' = IF disturbed' THEN All(<<>>) ELSE sent
  /\ unopened' = IF disturbed' THEN {} ELSE u

-----------------------------------------------------------------------------
(* Uploads and listings, one at a time.                                     *)

AskUpload(c) ==
  /\ pc[c] = "idle" /\ Goto(c, "waitUpload")
  /\ UNCHANGED <<list, disk, current, tunes, lock, name, pre, node, sent, disturbed, unopened, clash>>

AskListing(c) ==
  /\ pc[c] = "idle" /\ Goto(c, "waitListing")
  /\ UNCHANGED <<list, disk, current, tunes, lock, name, pre, node, sent, disturbed, unopened, clash>>

\* Mutant: receive_file() does not wait for the lock.
AcquireUploadAlways(c) ==
  /\ pc[c] = "waitUpload"
  /\ lock' = {c} /\ Goto(c, "name")
  /\ UNCHANGED <<list, disk, current, tunes, name, pre, node, sent, disturbed, unopened, clash>>

\* pthread_mutex_lock(&recv_trans_lock).
AcquireUpload(c) ==
  /\ pc[c] = "waitUpload" /\ lock = {}
  /\ lock' = {c} /\ Goto(c, "name")
  /\ UNCHANGED <<list, disk, current, tunes, name, pre, node, sent, disturbed, unopened, clash>>

\* Mutant: transfer_list() does not wait for the lock.
AcquireListingAlways(c) ==
  /\ pc[c] = "waitListing"
  /\ lock' = lock \cup {c}
  /\ node' = [node EXCEPT ![c] = list.head] /\ Goto(c, "walk")
  /\ Overlaps(c, {"search"}, unopened)
  /\ UNCHANGED <<list, disk, current, tunes, name, pre, clash>>

AcquireListing(c) ==
  /\ pc[c] = "waitListing" /\ lock = {}
  /\ lock' = {c}
  /\ node' = [node EXCEPT ![c] = list.head] /\ Goto(c, "walk")
  /\ Overlaps(c, {"search"}, unopened)
  /\ UNCHANGED <<list, disk, current, tunes, name, pre, clash>>

\* Mutant: without O_CREAT.
OpenFileOnly(c) ==
  /\ pc[c] = "name"
  /\ \E f \in Title : name' = [name EXCEPT ![c] = f]
  /\ Goto(c, "data") /\ Overlaps(c, {"search"}, unopened)
  /\ UNCHANGED <<list, disk, current, tunes, lock, pre, node, clash>>

\* receive_file() gets the file name and opens it with O_CREAT.
OpenFile(c) ==
  /\ pc[c] = "name"
  /\ \E f \in Title : /\ name' = [name EXCEPT ![c] = f]
                      /\ disk' = disk \cup {f} /\ Overlaps(c, {"search"}, unopened \ {f})
  /\ Goto(c, "data")
  /\ UNCHANGED <<list, current, tunes, lock, pre, node, clash>>

\* open() fails: "failed" is printed and the upload goes on, file or not.
OpenFails(c) ==
  /\ pc[c] = "name"
  /\ \E f \in Title : /\ name' = [name EXCEPT ![c] = f]
                      /\ Overlaps(c, {"search"}, unopened \cup (({f} \cap Mp3) \ disk))
  /\ Goto(c, "data")
  /\ UNCHANGED <<list, disk, current, tunes, lock, pre, node, clash>>

\* The client has sent the file and closes: music_add() starts.
CloseFile(c) ==
  /\ pc[c] = "data"
  /\ node' = [node EXCEPT ![c] = list.head] /\ Goto(c, "scan")
  /\ UNCHANGED <<list, disk, current, tunes, lock, name, pre, sent, disturbed, unopened, clash>>

\* Mutant: a title already in the list returns without unlocking.
ScanReturnsLocked(c) ==
  /\ pc[c] = "scan"
  /\ IF node[c] # NULL /\ list.data[node[c]] = name[c]
     THEN Finish(c, "idle")
     ELSE /\ Goto(c, IF node[c] = NULL THEN "insert" ELSE "scan")
          /\ node' = [node EXCEPT ![c] = IF @ = NULL THEN NULL ELSE list.next[@]]
          /\ UNCHANGED <<name, pre, sent>>
  /\ UNCHANGED <<list, disk, current, tunes, lock, disturbed, unopened, clash>>

\* music_add() compares the next title, or has come to the end.
Scan(c) ==
  /\ pc[c] = "scan"
  /\ IF node[c] # NULL /\ list.data[node[c]] = name[c]
     THEN Finish(c, "release")
     ELSE /\ Goto(c, IF node[c] = NULL THEN "insert" ELSE "scan")
          /\ node' = [node EXCEPT ![c] = IF @ = NULL THEN NULL ELSE list.next[@]]
          /\ UNCHANGED <<name, pre, sent>>
  /\ UNCHANGED <<list, disk, current, tunes, lock, disturbed, unopened, clash>>

\* Mutant: the new title is put in front.
InsertInFront(c) ==
  /\ pc[c] = "insert"
  /\ IF list.live = Node THEN UNCHANGED list
     ELSE \E n \in Node \ list.live : list' = InsNext(list, NULL, n, name[c])
  /\ Finish(c, "release")
  /\ UNCHANGED <<disk, current, tunes, lock, disturbed, unopened, clash>>

\* list_ins_next(list, list->tail, ...) at any address malloc() has to give.
Insert(c) ==
  /\ pc[c] = "insert"
  /\ IF list.live = Node THEN UNCHANGED list
     ELSE \E n \in Node \ list.live : list' = InsNext(list, list.tail, n, name[c])
  /\ Finish(c, "release")
  /\ UNCHANGED <<disk, current, tunes, lock, disturbed, unopened, clash>>

\* transfer_list() sends the next title, or the end of the list.
SendTitle(c) ==
  /\ pc[c] = "walk"
  /\ IF node[c] = NULL THEN Goto(c, "current") /\ UNCHANGED <<node, sent>>
     ELSE /\ node' = [node EXCEPT ![c] = list.next[@]]
          /\ sent' = IF disturbed THEN sent
                     ELSE [sent EXCEPT ![c] = Append(@, list.data[node[c]])]
          /\ UNCHANGED pc
  /\ UNCHANGED <<list, disk, current, tunes, lock, name, pre, disturbed, unopened, clash>>

\* It sends current_music, if there is one.
SendCurrent(c) ==
  /\ pc[c] = "current" /\ Finish(c, "release")
  /\ UNCHANGED <<list, disk, current, tunes, lock, disturbed, unopened, clash>>

\* pthread_mutex_unlock(&recv_trans_lock).
Release(c) ==
  /\ pc[c] = "release"
  /\ lock' = {} /\ Goto(c, "idle")
  /\ UNCHANGED <<list, disk, current, tunes, name, pre, node, sent, disturbed, unopened, clash>>

-----------------------------------------------------------------------------
(* Deletions, at any time.                                                  *)

AskDelete(c, f) ==
  /\ pc[c] = "idle"
  /\ name' = [name EXCEPT ![c] = f] /\ Goto(c, "test")
  /\ UNCHANGED <<list, disk, current, tunes, lock, pre, node, sent, disturbed, unopened, clash>>

\* "can't delete the file currently playing".
TestCurrent(c) ==
  /\ pc[c] = "test"
  /\ IF name[c] = current THEN Finish(c, "idle")
     ELSE Goto(c, "unlink") /\ UNCHANGED <<name, pre, node, sent>>
  /\ UNCHANGED <<list, disk, current, tunes, lock, disturbed, unopened, clash>>

\* music_remove(): remove(), whose failure is only reported.
Unlink(c) ==
  /\ pc[c] = "unlink"
  /\ disk' = disk \ {name[c]}
  /\ node' = [node EXCEPT ![c] = list.head] /\ Goto(c, "search")
  /\ Overlaps(c, Handling, unopened \ {name[c]})
  /\ UNCHANGED <<list, current, tunes, lock, name, pre, clash>>

\* One round of its loop: the element found is freed, then head->next is read
\* from it.  The loop goes on to the end.
Search(c) ==
  /\ pc[c] = "search" /\ node[c] # NULL
  /\ IF list.data[node[c]] = name[c]
     THEN /\ Removes(list, pre[c]) => Victim(list, pre[c]) # NULL
          /\ list' = RemNext(list, pre[c])
     ELSE UNCHANGED list
  /\ pre' = [pre EXCEPT ![c] = node[c]]
  /\ node' = [node EXCEPT ![c] = list'.next[@]]
  /\ UNCHANGED <<disk, current, tunes, lock, pc, name, sent, disturbed, unopened, clash>>

\* free(data_removed), which is not set when the title was not found.
FreeTitle(c) ==
  /\ pc[c] = "search" /\ node[c] = NULL
  /\ Finish(c, "idle")
  /\ UNCHANGED <<list, disk, current, tunes, lock, disturbed, unopened, clash>>

-----------------------------------------------------------------------------
(* Playing.                                                                 *)

AskPlay(c, f) ==
  /\ pc[c] = "idle"
  /\ name' = [name EXCEPT ![c] = f] /\ Goto(c, "kill")
  /\ clash' = Others(c, Playing)
  /\ UNCHANGED <<list, disk, current, tunes, lock, pre, node, sent, disturbed, unopened>>

\* Mutant: killall is forgotten.
KillNone(c) ==
  /\ pc[c] = "kill" /\ Goto(c, "compare")
  /\ UNCHANGED <<list, disk, current, tunes, lock, name, pre, node, sent, disturbed, unopened, clash>>

\* system("killall madplay"): all players end, and with them the threads that
\* wait for them in system().
KillAll(c) ==
  /\ pc[c] = "kill"
  /\ tunes' = {}
  /\ pc' = [d \in Clients |-> IF d = c THEN "compare"
                             ELSE IF pc[d] = "playing" THEN "idle" ELSE pc[d]]
  /\ UNCHANGED <<list, disk, current, lock, name, pre, node, sent, disturbed, unopened, clash>>

\* strcmp(current_music, filename): the same title again means stop.
Compare(c) ==
  /\ pc[c] = "compare"
  /\ Goto(c, IF name[c] = current THEN "clear" ELSE "copy")
  /\ UNCHANGED <<list, disk, current, tunes, lock, name, pre, node, sent, disturbed, unopened, clash>>

\* strcpy(current_music, filename), which others may see half done.
StartCopy(c) ==
  /\ pc[c] = "copy"
  /\ current' = Half /\ Goto(c, "copied")
  /\ UNCHANGED <<list, disk, tunes, lock, name, pre, node, sent, disturbed, unopened, clash>>

EndCopy(c) ==
  /\ pc[c] = "copied"
  /\ current' = name[c] /\ Goto(c, "launch")
  /\ UNCHANGED <<list, disk, tunes, lock, name, pre, node, sent, disturbed, unopened, clash>>

\* system("madplay ... current_music"), which returns at once without a file and
\* otherwise when the player is killed.
Launch(c) ==
  /\ pc[c] = "launch"
  /\ tunes' = IF current \in disk THEN tunes \cup {current} ELSE tunes
  /\ Finish(c, IF current \in disk THEN "playing" ELSE "idle")
  /\ UNCHANGED <<list, disk, current, lock, disturbed, unopened, clash>>

\* bzero(current_music, ...).
Clear(c) ==
  /\ pc[c] = "clear"
  /\ current' = NoTitle /\ Finish(c, "idle")
  /\ UNCHANGED <<list, disk, tunes, lock, disturbed, unopened, clash>>

-----------------------------------------------------------------------------
\* What clients do, and what the threads do.
Ask(c) == \/ "upload" \in Asks[c] /\ AskUpload(c)
          \/ "listing" \in Asks[c] /\ AskListing(c)
          \/ OpenFile(c) \/ OpenFails(c) \/ CloseFile(c)
          \/ "delete" \in Asks[c] /\ \E f \in Title : AskDelete(c, f)
          \/ "play" \in Asks[c] /\ \E f \in Title : AskPlay(c, f)

Serve(c) == \/ AcquireUpload(c) \/ AcquireListing(c) \/ Scan(c) \/ Insert(c)
            \/ SendTitle(c) \/ SendCurrent(c) \/ Release(c)
            \/ TestCurrent(c) \/ Unlink(c) \/ Search(c) \/ FreeTitle(c)
            \/ KillAll(c) \/ Compare(c) \/ StartCopy(c) \/ EndCopy(c)
            \/ Launch(c) \/ Clear(c)

MusicNext == Restart \/ \E c \in Clients : Ask(c) \/ Serve(c)

MusicSpec == MusicInit /\ [][MusicNext]_musicVars

\* Threads are scheduled, and a mutex that is free again and again is obtained.
MusicFairSpec ==
  /\ MusicSpec
  /\ \A c \in Clients : /\ WF_musicVars(Serve(c))
                        /\ SF_musicVars(AcquireUpload(c) \/ AcquireListing(c))

-----------------------------------------------------------------------------
(* Safety.  As long as no deletion has overlapped another use of the list,   *)
(* head, next, tail and size describe one list of distinct titles: no        *)
(* interleaving of uploads, listings, players and lone deletions breaks it.  *)
ListSound ==
  ~disturbed => /\ Sound(list)
                /\ \A i, j \in 1..list.size :
                     Contents(list)[i] = Contents(list)[j] => i = j

(* Safety.  Then, whenever nobody is at work on them, the titles listed are  *)
(* the files there are, before and after a restart, and those whose upload   *)
(* could not open a file, until a restart drops them.  (Files that do not    *)
(* end in ".mp3" are listed until the next restart only.)                    *)
ListMatchesDisk ==
  ~disturbed /\ (\A c \in Clients : pc[c] \notin Handling)
    => {Contents(list)[i] : i \in 1..list.size} \cap Mp3 = (disk \cap Mp3) \cup unopened

(* Safety.  A listing that no deletion disturbs has sent the whole list, in  *)
(* order and once, whatever uploads wait for the lock.                       *)
ListingsAreExact ==
  [][\A c \in Clients : pc[c] = "walk" /\ pc'[c] = "current" /\ ~disturbed
       => sent[c] = Contents(list)]_musicVars

(* Safety.  Between calls of play_music() at most the title in current_music *)
(* is playing, and nothing when it is empty; overlapped calls may break      *)
(* this, and the next call that runs alone repairs it.                       *)
CurrentIsPlaying ==
  ~clash /\ (\A c \in Clients : pc[c] \notin Playing) => tunes \subseteq {current}

(* Refinement.  Undisturbed, nodes, walks and locks amount to a library.     *)
(* Titles come in at its end and leave it only when their files are gone,    *)
(* and each start lists the files there are, whatever was cut short.         *)
ALibrary == INSTANCE Library WITH
  files  <- disk,
  titles <- IF disturbed THEN <<>> ELSE Contents(list),
  broken <- disturbed

IsLibrary == ALibrary!LibrarySpec

(* Liveness.  If clients that upload always finish, nobody waits for ever    *)
(* for the lock: no path through the locked functions keeps it, unless an    *)
(* overlapping deletion has left the list without an end.                    *)
LockComesFree ==
  (\A c \in Clients : []<>(pc[c] \notin {"name", "data"})) /\ []<>~disturbed
    => \A c \in Clients : []<>(pc[c] \notin {"waitUpload", "waitListing"})

=============================================================================
