----------------------------- MODULE CameraProofs -----------------------------
(***************************************************************************)
(* Theorems about the camera for any number of viewers, buffers and        *)
(* descriptors.  Two viewers can ruin each other's session in many ways;    *)
(* what survives is that the last one to leave leaves the camera free, so  *)
(* that a viewer who comes alone finds it as after the start.              *)
(***************************************************************************)
EXTENDS Camera, FiniteSetTheorems, TLAPS

\* The steps of a viewer who has opened a handle and not closed one, of one
\* who is to unmap what is mapped, and of one who is to free 'buffers'.
HoldingStep == {"format", "request", "count", "map", "queue", "streamon", "select",
                "dequeue", "parse", "requeue", "send", "streamoff", "unmap", "free", "close"}
MappingStep == {"map", "queue", "streamon", "select", "dequeue", "parse", "requeue",
                "send", "streamoff", "unmap"}
UsingStep == MappingStep \cup {"count", "free"}

Holders == {v \in Viewers : step[v] \in HoldingStep}

\* There are as many open handles as viewers who hold one, whoever closes which.
HandleInv ==
  /\ IsFiniteSet(opened) /\ IsFiniteSet(Holders)
  /\ Cardinality(opened) = Cardinality(Holders)

\* The driver's buffers belong to an open handle, or are an orphan's, mapped.
OwnerInv ==
  /\ owner \in opened \cup {NoFd, Orphan}
  /\ streaming => owner \in opened
  /\ owner = Orphan => mapped # {}

\* Somebody is left who unmaps, and if n_buffers does not count all that is
\* mapped then because somebody is still counting.
MapInv ==
  /\ mapped # {} => \E v \in Viewers : step[v] \in MappingStep
  /\ mapped \subseteq 1..n_buffers \/ \E v \in Viewers : step[v] = "map"

MemInv == mem = "live" => \E v \in Viewers : step[v] \in UsingStep

SharedInv == CameraTypeOK /\ HandleInv /\ OwnerInv /\ MapInv /\ MemInv

\* Handles o are open, the buffers belong to h, and nothing is mapped.
Unmapped(o, h) == opened = o /\ owner = h /\ mapped = {} /\ ~streaming

\* The buffers are mapped and the handle that owns them is the viewer's.
Ready(on) ==
  /\ opened = {fd} /\ owner = fd /\ fd # NoFd
  /\ mapped = Buffers /\ n_buffers = NBuf /\ mem = "live" /\ streaming = on

\* What a viewer who is alone finds at each of its steps.
Session(v) ==
  /\ step[v] \in {"open", "forget"} => Unmapped({}, NoFd) /\ mem # "live"
  /\ step[v] \in {"format", "request"} => Unmapped({fd}, NoFd) /\ fd # NoFd /\ mem # "live"
  /\ step[v] = "count" => Unmapped({fd}, fd) /\ fd # NoFd /\ mem = "live" /\ queued = {} /\ filled = {}
  /\ step[v] = "map" => /\ opened = {fd} /\ owner = fd /\ fd # NoFd /\ ~streaming
                        /\ mapped = 1..n_buffers /\ mem = "live" /\ queued = {} /\ filled = {}
  /\ step[v] = "queue" => Ready(FALSE) /\ queued = 1..(next[v] - 1) /\ filled = {}
  /\ step[v] = "streamon" => Ready(FALSE) /\ queued = Buffers /\ filled = {}
  /\ step[v] \in {"select", "dequeue", "send"} => Ready(TRUE) /\ queued \cup filled = Buffers
  /\ step[v] \in {"parse", "requeue"} => Ready(TRUE) /\ queued \cup filled = Buffers \ {slot}
  /\ step[v] = "streamoff" => Ready(TRUE)
  /\ step[v] = "unmap" => Ready(FALSE)
  /\ step[v] = "free" => Unmapped({fd}, fd) /\ fd # NoFd /\ mem = "live"
  /\ step[v] = "close" => Unmapped({fd}, fd) /\ fd # NoFd /\ mem # "live"

SoleInv ==
  ~overlap => /\ \A u, v \in Viewers : Present(u) /\ Present(v) => u = v
              /\ \A v \in Viewers : Session(v)

CameraInv == SharedInv /\ SoleInv

-----------------------------------------------------------------------------
LEMMA Numbers ==
  /\ NBuf \in Nat /\ NBuf >= 2
  /\ \A d \in Descriptors : d \in Nat /\ d # NoFd /\ d # Orphan
  BY BufferAssumption, DescriptorAssumption DEF NoFd, Orphan

\* The invariant holds of a camera nobody has used, whether the process lives.
LEMMA FreshInv ==
  ASSUME alive \in BOOLEAN, AllIdle(step), step \in [Viewers -> Step],
         next = [v \in Viewers |-> 1], gone = {}, fd = NoFd, mem = "unset",
         n_buffers = 0, slot = 1, opened = {}, owner = NoFd, mapped = {},
         streaming = FALSE, queued = {}, filled = {}, overlap = FALSE
  PROVE  CameraInv
<1>1. Holders = {}
  BY DEF Holders, AllIdle, HoldingStep
<1>2. HandleInv
  BY <1>1, FS_EmptySet DEF HandleInv
<1>3. CameraTypeOK
  <2>1. next \in [Viewers -> 1..(NBuf + 1)] /\ slot \in Buffers /\ n_buffers \in 0..NBuf
    BY Numbers DEF Buffers
  <2> QED
    BY <2>1 DEF CameraTypeOK
<1>4. OwnerInv /\ MapInv /\ MemInv
  BY DEF OwnerInv, MapInv, MemInv, NoFd, Orphan
<1>5. SoleInv
  BY DEF SoleInv, Present, AllIdle, Session
<1> QED
  BY <1>2, <1>3, <1>4, <1>5 DEF CameraInv, SharedInv

LEMMA CameraInvInit == CameraInit => CameraInv
  BY FreshInv DEF CameraInit, AllIdle, Step

LEMMA CameraInvFresh ==
  ASSUME Exit \/ Restart
  PROVE  CameraInv'
<1>1. alive' \in BOOLEAN /\ Fresh
  BY DEF Exit, Restart
<1>2. AllIdle(step') /\ step' \in [Viewers -> Step]
  BY <1>1 DEF Fresh, AllIdle, Step
<1>3. Holders' = {}
  BY <1>2 DEF Holders, AllIdle, HoldingStep
<1>4. HandleInv'
  BY <1>1, <1>3, FS_EmptySet DEF HandleInv, Fresh
<1>5. CameraTypeOK'
  <2>1. next' \in [Viewers -> 1..(NBuf + 1)] /\ slot' \in Buffers /\ n_buffers' \in 0..NBuf
    BY <1>1, Numbers DEF Buffers, Fresh
  <2> QED
    BY <1>1, <1>2, <2>1 DEF CameraTypeOK, Fresh
<1>6. OwnerInv' /\ MapInv' /\ MemInv'
  BY <1>1 DEF OwnerInv, MapInv, MemInv, NoFd, Orphan, Fresh
<1>7. SoleInv'
  BY <1>2 DEF SoleInv, Present, AllIdle, Session
<1> QED
  BY <1>4, <1>5, <1>6, <1>7 DEF CameraInv, SharedInv

-----------------------------------------------------------------------------
(* What a step of viewer v to s keeps.                                      *)

LEMMA HoldersAfter ==
  ASSUME step \in [Viewers -> Step], NEW v \in Viewers, NEW s \in Step, Goto(v, s)
  PROVE  Holders' = IF s \in HoldingStep THEN Holders \cup {v} ELSE Holders \ {v}
  BY DEF Holders, Goto

LEMMA HandlesKept ==
  ASSUME HandleInv, step \in [Viewers -> Step], NEW v \in Viewers, NEW s \in Step, Goto(v, s),
         step[v] \in HoldingStep <=> s \in HoldingStep, opened' = opened
  PROVE  HandleInv'
<1>1. Holders' = Holders
  BY HoldersAfter DEF Holders
<1> QED
  BY <1>1 DEF HandleInv

LEMMA MapKept ==
  ASSUME MapInv, step \in [Viewers -> Step], NEW v \in Viewers, NEW s \in Step, Goto(v, s),
         step[v] \in MappingStep => s \in MappingStep, step[v] # "map",
         UNCHANGED <<mapped, n_buffers>>
  PROVE  MapInv'
<1>1. \A u \in Viewers : u # v => step'[u] = step[u]
  BY DEF Goto
<1>2. step'[v] = s
  BY DEF Goto
<1> QED
  BY <1>1, <1>2 DEF MapInv

LEMMA MemKept ==
  ASSUME MemInv, step \in [Viewers -> Step], NEW v \in Viewers, NEW s \in Step, Goto(v, s),
         step[v] \in UsingStep => s \in UsingStep, mem' = mem
  PROVE  MemInv'
<1>1. \A u \in Viewers : u # v => step'[u] = step[u]
  BY DEF Goto
<1>2. step'[v] = s
  BY DEF Goto
<1> QED
  BY <1>1, <1>2 DEF MemInv

\* A viewer who is alone leaves the others idle.
LEMMA SoleKept ==
  ASSUME SoleInv, step \in [Viewers -> Step], NEW v \in Viewers, NEW s \in Step, Goto(v, s),
         Present(v), overlap' = overlap, ~overlap => Session(v)'
  PROVE  SoleInv'
<1> SUFFICES ASSUME ~overlap
             PROVE  /\ \A u, w \in Viewers : Present(u)' /\ Present(w)' => u = w
                    /\ \A u \in Viewers : Session(u)'
  BY DEF SoleInv
<1>1. \A u \in Viewers : u # v => step'[u] = "idle"
  BY DEF SoleInv, Present, Goto
<1>2. \A u \in Viewers \ {v} : Session(u)'
  BY <1>1 DEF Session
<1>3. \A u, w \in Viewers : Present(u)' /\ Present(w)' => u = w
  BY <1>1 DEF Present
<1> QED
  BY <1>2, <1>3

\* When all have left the camera is free.
LEMMA Released ==
  ASSUME SharedInv, AllIdle(step)
  PROVE  opened = {} /\ owner = NoFd /\ mapped = {} /\ mem # "live" /\ ~streaming
<1>1. Holders = {}
  BY DEF Holders, AllIdle, HoldingStep
<1>2. opened = {}
  BY <1>1, FS_EmptySet DEF SharedInv, HandleInv
<1>3. mapped = {} /\ mem # "live"
  BY DEF SharedInv, MapInv, MemInv, AllIdle, MappingStep, UsingStep
<1> QED
  BY <1>2, <1>3 DEF SharedInv, OwnerInv

-----------------------------------------------------------------------------
\* Where a step leads whose viewer goes on holding its handle.
LEMMA SharedKept ==
  ASSUME SharedInv, NEW v \in Viewers, NEW s \in Step, Goto(v, s),
         step[v] \in HoldingStep <=> s \in HoldingStep,
         step[v] \in MappingStep => s \in MappingStep, step[v] # "map",
         step[v] \in UsingStep => s \in UsingStep,
         UNCHANGED <<opened, owner, mapped, n_buffers, mem>>,
         streaming' => owner \in opened,
         CameraTypeOK'
  PROVE  SharedInv'
<1>1. step \in [Viewers -> Step]
  BY DEF SharedInv, CameraTypeOK
<1>2. HandleInv' /\ MapInv' /\ MemInv'
  BY <1>1, HandlesKept, MapKept, MemKept DEF SharedInv
<1> QED
  BY <1>2 DEF SharedInv, OwnerInv

\* Ranges of the parts of the state a step may change.
LEMMA StepRange ==
  ASSUME CameraTypeOK, NEW v \in Viewers, NEW s \in Step, Goto(v, s), alive, s # "idle"
  PROVE  /\ step' \in [Viewers -> Step]
         /\ gone \subseteq {u \in Viewers : Present(u)'}
  BY DEF CameraTypeOK, Goto, Present

\* Steps that only move on.
MovesOn(v, s) ==
  /\ alive /\ Goto(v, s)
  /\ Same(v) /\ UNCHANGED <<libVars, drvVars>>

LEMMA MoveTyped ==
  ASSUME CameraTypeOK, NEW v \in Viewers, NEW s \in Step, s # "idle", MovesOn(v, s)
  PROVE  CameraTypeOK'
<1>1. step' \in [Viewers -> Step] /\ gone \subseteq {u \in Viewers : Present(u)'}
  BY StepRange DEF MovesOn
<1>2. /\ UNCHANGED <<alive, next, gone, overlap, fd, mem, n_buffers, slot, opened, owner, mapped,
                     streaming, queued, filled>>
      /\ alive
  BY DEF MovesOn, Same, libVars, drvVars
<1> QED
  BY <1>1, <1>2 DEF CameraTypeOK

\* Format, Select, Parse and Send move on, if they do not end the process.
LEMMA MoveKeeps ==
  ASSUME CameraInv, NEW v \in Viewers, alive',
         Format(v) \/ Select(v) \/ Parse(v) \/ Send(v)
  PROVE  CameraInv'
<1>1. PICK s \in Step \ {"idle"} :
        /\ MovesOn(v, s)
        /\ step[v] \in HoldingStep /\ s \in HoldingStep
        /\ step[v] \in MappingStep <=> s \in MappingStep
        /\ step[v] \in UsingStep <=> s \in UsingStep
        /\ step[v] # "map" /\ Present(v)
        /\ \/ step[v] = "format" /\ s = "request"
           \/ step[v] \in {"select", "send", "dequeue"} /\ s \in {"select", "send", "dequeue", "streamoff"}
           \/ step[v] = "parse" /\ s = "requeue"
  BY DEF Format, Select, Parse, Send, At, MovesOn, HoldingStep, MappingStep, UsingStep, Step,
         Present, Exit
<1>2. /\ UNCHANGED <<alive, next, gone, overlap, fd, mem, n_buffers, slot, opened, owner, mapped,
                     streaming, queued, filled>>
      /\ Goto(v, s) /\ alive
  BY <1>1 DEF MovesOn, Same, libVars, drvVars
<1>3. CameraTypeOK'
  BY <1>1, MoveTyped DEF CameraInv, SharedInv
<1>4. SharedInv'
  BY <1>1, <1>2, <1>3, SharedKept DEF CameraInv, SharedInv, OwnerInv
<1>5. step'[v] = s
  BY <1>2 DEF Goto, CameraInv, SharedInv, CameraTypeOK
<1>6. ~overlap => Session(v)'
  <2> SUFFICES ASSUME ~overlap PROVE Session(v)'
    OBVIOUS
  <2>1. Session(v)
    BY DEF CameraInv, SoleInv
  <2> QED
    BY <1>1, <1>2, <1>5, <2>1 DEF Session, Unmapped, Ready
<1>7. SoleInv'
  BY <1>1, <1>2, <1>6, SoleKept DEF CameraInv, SharedInv, CameraTypeOK
<1> QED
  BY <1>4, <1>7 DEF CameraInv

\* Queue, Dequeue and Requeue move buffers between driver and viewer, and
\* StreamOn and StreamOff start and stop the driver.
BufferStep(v) == Queue(v) \/ StreamOn(v) \/ Dequeue(v) \/ Requeue(v) \/ StreamOff(v)

LEMMA BufferTyped ==
  ASSUME CameraInv, NEW v \in Viewers, alive', BufferStep(v)
  PROVE  CameraTypeOK'
<1> USE DEF CameraInv, SharedInv
<1>1. /\ UNCHANGED <<alive, gone, overlap, fd, mem, n_buffers, opened, owner, mapped>> /\ alive
      /\ next \in [Viewers -> 1..(NBuf + 1)]
      /\ step \in [Viewers -> Step]
  BY DEF BufferStep, Queue, StreamOn, Dequeue, Requeue, StreamOff, At, Same, Exit, libVars, drvVars,
         CameraTypeOK
<1>2. step' \in [Viewers -> Step] /\ gone \subseteq {u \in Viewers : Present(u)'}
  BY <1>1 DEF BufferStep, Queue, StreamOn, Dequeue, Requeue, StreamOff, At, Exit, Goto, Present,
              Step, CameraTypeOK
<1>3. next' \in [Viewers -> 1..(NBuf + 1)]
  <2>1. CASE Queue(v)
    <3>1. n_buffers \in 0..NBuf /\ next[v] \in 1..(NBuf + 1)
      BY <1>1 DEF CameraTypeOK
    <3>2. next' = [next EXCEPT ![v] = 1]
          \/ (~(next[v] > n_buffers) /\ next' = [next EXCEPT ![v] = next[v] + 1])
      BY <2>1 DEF Queue, Exit
    <3>3. 1 \in 1..(NBuf + 1) /\ (~(next[v] > n_buffers) => next[v] + 1 \in 1..(NBuf + 1))
      BY <3>1, Numbers
    <3> QED
      BY <1>1, <3>2, <3>3
  <2> QED
    BY <2>1, <1>1 DEF BufferStep, StreamOn, Dequeue, Requeue, StreamOff, Same, Exit
<1>4. /\ slot' \in Buffers /\ queued' \subseteq Buffers /\ filled' \subseteq Buffers
      /\ queued' \cap filled' = {} /\ streaming' \in BOOLEAN
  <2>1. CASE Queue(v)
    <3>1. n_buffers \in 0..NBuf /\ next[v] \in 1..(NBuf + 1)
      BY <1>1 DEF CameraTypeOK
    <3>2. ~(next[v] > n_buffers) => next[v] \in Buffers
      BY <3>1, Numbers DEF Buffers
    <3>3. UNCHANGED <<slot, streaming, filled>>
          /\ (queued' = queued
              \/ (next[v] \in Buffers \ (queued \cup filled) /\ queued' = queued \cup {next[v]}))
      BY <2>1, <3>2 DEF Queue, Exit, libVars, drvVars
    <3> QED
      BY <3>3 DEF CameraTypeOK
  <2>2. CASE StreamOn(v) \/ Dequeue(v) \/ Requeue(v) \/ StreamOff(v)
    BY <2>2 DEF StreamOn, Dequeue, Requeue, StreamOff, Exit, CameraTypeOK, libVars, drvVars
  <2> QED
    BY <2>1, <2>2 DEF BufferStep
<1> QED
  BY <1>1, <1>2, <1>3, <1>4 DEF CameraTypeOK

LEMMA BufferKeeps ==
  ASSUME CameraInv, NEW v \in Viewers, alive', BufferStep(v)
  PROVE  CameraInv'
<1> USE DEF CameraInv
<1>0. step \in [Viewers -> Step] /\ next \in [Viewers -> 1..(NBuf + 1)] /\ CameraTypeOK
  BY DEF SharedInv, CameraTypeOK
<1>1. UNCHANGED <<alive, gone, overlap, fd, mem, n_buffers, opened, owner, mapped>>
  BY DEF BufferStep, Queue, StreamOn, Dequeue, Requeue, StreamOff, Same, Exit, libVars, drvVars
<1>2. PICK s \in MappingStep :
        /\ Goto(v, s) /\ step[v] \in MappingStep \ {"map", "unmap"}
        /\ \/ Queue(v) /\ step[v] = "queue" /\ s \in {"queue", "streamon"}
           \/ StreamOn(v) /\ step[v] = "streamon" /\ s = "select"
           \/ Dequeue(v) /\ step[v] = "dequeue" /\ s \in {"send", "parse"}
           \/ Requeue(v) /\ step[v] = "requeue" /\ s = "send"
           \/ StreamOff(v) /\ step[v] = "streamoff" /\ s = "unmap"
  <2>1. CASE Queue(v)
    <3>1. step' = step => Goto(v, "queue")
      BY <2>1, <1>0 DEF Queue, At, Goto
    <3> QED
      BY <2>1, <3>1 DEF Queue, At, Exit, MappingStep
  <2>2. CASE StreamOn(v) \/ Dequeue(v) \/ Requeue(v) \/ StreamOff(v)
    BY <2>2 DEF StreamOn, Dequeue, Requeue, StreamOff, At, Exit, MappingStep
  <2> QED
    BY <2>1, <2>2 DEF BufferStep
<1>3. s \in Step /\ MappingStep \subseteq HoldingStep /\ MappingStep \subseteq UsingStep
  BY DEF MappingStep, HoldingStep, UsingStep, Step
<1>4. Owned => owner \in opened
  BY Numbers DEF Owned, SharedInv, OwnerInv, CameraTypeOK, NoFd, Orphan
<1>5. streaming' => owner \in opened
  BY <1>4 DEF SharedInv, OwnerInv, BufferStep, Queue, StreamOn, Dequeue, Requeue, StreamOff, Exit,
              libVars, drvVars
<1>6. SharedInv'
  BY <1>1, <1>2, <1>3, <1>5, BufferTyped, SharedKept
<1>7. step'[v] = s /\ Present(v)
  BY <1>0, <1>2 DEF Goto, Present, MappingStep
<1>8. ASSUME ~overlap PROVE Session(v)'
  <2>1. Session(v)
    BY <1>8 DEF SoleInv
  <2>2. CASE Queue(v) /\ step[v] = "queue" /\ s \in {"queue", "streamon"}
    <3>1. Ready(FALSE) /\ queued = 1..(next[v] - 1) /\ filled = {}
      BY <2>1, <2>2 DEF Session
    <3>2. n_buffers = NBuf /\ next[v] \in 1..(NBuf + 1)
      BY <3>1, <1>0 DEF Ready
    <3>3. CASE next[v] > n_buffers
      <4>1. step' = [step EXCEPT ![v] = "streamon"] /\ UNCHANGED <<queued, filled, streaming>>
        BY <2>2, <3>3 DEF Queue, Goto, drvVars
      <4>2. next[v] - 1 = NBuf
        BY <3>2, <3>3, Numbers
      <4>3. queued' = Buffers
        BY <4>1, <4>2, <3>1 DEF Buffers
      <4>4. step'[v] = "streamon"
        BY <4>1, <1>0
      <4> QED
        BY <4>1, <4>3, <4>4, <3>1, <1>1 DEF Session, Ready
    <3>4. CASE ~(next[v] > n_buffers)
      <4>1. /\ step' = step /\ queued' = queued \cup {next[v]} /\ UNCHANGED <<filled, streaming>>
            /\ next' = [next EXCEPT ![v] = @ + 1]
        BY <2>2, <3>4 DEF Queue, Exit
      <4>2. next'[v] = next[v] + 1
        BY <4>1, <1>0
      <4>3. queued' = 1..(next'[v] - 1)
        BY <4>1, <4>2, <3>1, <3>2
      <4> QED
        BY <4>1, <4>3, <2>2, <3>1, <1>1 DEF Session, Ready
    <3> QED
      BY <3>3, <3>4
  <2>3. CASE StreamOn(v) /\ step[v] = "streamon" /\ s = "select"
    <3>1. streaming' = TRUE /\ UNCHANGED <<queued, filled>>
      BY <2>3 DEF StreamOn, Exit
    <3> QED
      BY <2>1, <2>3, <3>1, <1>1, <1>7 DEF Session, Ready
  <2>4. CASE Dequeue(v) /\ step[v] = "dequeue" /\ s \in {"send", "parse"}
    <3>1. /\ Ready(TRUE) /\ queued \cup filled = Buffers /\ queued \cap filled = {}
          /\ queued' = queued /\ streaming' = streaming
      BY <2>1, <2>4, <1>0 DEF Session, Dequeue, Exit, CameraTypeOK, drvVars
    <3>2. \/ s = "send" /\ filled' = filled
          \/ s = "parse" /\ slot' \in filled /\ filled' = filled \ {slot'}
      BY <2>4, <1>0, <1>7 DEF Dequeue, Exit, Goto, drvVars
    <3> QED
      BY <3>1, <3>2, <1>1, <1>7 DEF Session, Ready
  <2>5. CASE Requeue(v) /\ step[v] = "requeue" /\ s = "send"
    <3>1. /\ Ready(TRUE) /\ queued \cup filled = Buffers \ {slot} /\ slot \in Buffers
          /\ queued' = queued \cup {slot} /\ UNCHANGED <<filled, streaming>>
      BY <2>1, <2>5, <1>0 DEF Session, Requeue, Exit, CameraTypeOK
    <3> QED
      BY <3>1, <2>5, <1>1, <1>7 DEF Session, Ready
  <2>6. CASE StreamOff(v) /\ step[v] = "streamoff" /\ s = "unmap"
    <3>1. streaming' = FALSE
      BY <2>6 DEF StreamOff, Exit
    <3> QED
      BY <2>1, <2>6, <3>1, <1>1, <1>7 DEF Session, Ready
  <2> QED
    BY <2>2, <2>3, <2>4, <2>5, <2>6, <1>2
<1>9. SoleInv'
  BY <1>0, <1>1, <1>2, <1>3, <1>7, <1>8, SoleKept
<1> QED
  BY <1>6, <1>9

\* Clients come and go, and the driver fills buffers.
LEMMA ConnectKeeps ==
  ASSUME CameraInv, NEW v \in Viewers, Connect(v)
  PROVE  CameraInv'
<1> USE DEF CameraInv
<1>1. /\ UNCHANGED <<alive, next, gone, fd, mem, n_buffers, slot, opened, owner, mapped, streaming,
                     queued, filled>>
      /\ alive /\ Goto(v, "open") /\ step[v] = "idle" /\ "open" \in Step
      /\ overlap' = (overlap \/ ~AllIdle(step))
  BY DEF Connect, At, libVars, drvVars, Step
<1>2. step \in [Viewers -> Step] /\ CameraTypeOK
  BY DEF SharedInv, CameraTypeOK
<1>3. CameraTypeOK'
  BY <1>1, <1>2, StepRange DEF CameraTypeOK
<1>4. SharedInv'
  <2>1. step[v] \notin HoldingStep /\ step[v] \notin MappingStep /\ step[v] \notin UsingStep
        /\ "open" \notin HoldingStep /\ step[v] # "map"
    BY <1>1 DEF HoldingStep, MappingStep, UsingStep
  <2> QED
    BY <1>1, <1>3, <2>1, SharedKept DEF SharedInv, OwnerInv
<1>5. SoleInv'
  <2> SUFFICES ASSUME ~overlap'
               PROVE  /\ \A u, w \in Viewers : Present(u)' /\ Present(w)' => u = w
                      /\ \A u \in Viewers : Session(u)'
    BY DEF SoleInv
  <2>1. AllIdle(step)
    BY <1>1
  <2>2. \A u \in Viewers : step'[u] = IF u = v THEN "open" ELSE "idle"
    BY <1>1, <1>2, <2>1 DEF Goto, AllIdle
  <2>3. opened = {} /\ owner = NoFd /\ mapped = {} /\ mem # "live" /\ ~streaming
    BY <2>1, Released
  <2> QED
    BY <1>1, <2>2, <2>3 DEF Present, Session, Unmapped
<1> QED
  BY <1>4, <1>5

LEMMA LeaveKeeps ==
  ASSUME CameraInv, NEW v \in Viewers, Leave(v)
  PROVE  CameraInv'
<1> USE DEF CameraInv
<1>1. /\ UNCHANGED <<alive, step, next, fd, mem, n_buffers, slot, opened, owner, mapped, streaming,
                     queued, filled, overlap>>
      /\ gone' = gone \cup {v} /\ Present(v)
  BY DEF Leave, libVars, drvVars
<1>2. CameraTypeOK'
  BY <1>1 DEF SharedInv, CameraTypeOK, Present
<1>3. SharedInv'
  BY <1>1, <1>2 DEF SharedInv, HandleInv, Holders, OwnerInv, MapInv, MemInv
<1>4. SoleInv'
  BY <1>1 DEF SoleInv, Present, Session, Unmapped, Ready
<1> QED
  BY <1>3, <1>4

LEMMA FillKeeps ==
  ASSUME CameraInv, Fill
  PROVE  CameraInv'
<1> USE DEF CameraInv
<1>1. /\ UNCHANGED <<alive, step, next, gone, fd, mem, n_buffers, slot, opened, owner, mapped,
                     streaming, overlap>>
      /\ streaming
  BY DEF Fill, libVars
<1>2. PICK b \in queued : queued' = queued \ {b} /\ filled' = filled \cup {b}
  BY DEF Fill
<1>3. CameraTypeOK'
  BY <1>1, <1>2 DEF SharedInv, CameraTypeOK, Present
<1>4. SharedInv'
  BY <1>1, <1>3 DEF SharedInv, HandleInv, Holders, OwnerInv, MapInv, MemInv
<1>5. queued' \cup filled' = queued \cup filled
  BY <1>2
<1>6. ASSUME NEW v \in Viewers, Session(v) PROVE Session(v)'
  BY <1>1, <1>5, <1>6 DEF Session, Unmapped, Ready
<1>7. SoleInv'
  BY <1>1, <1>6 DEF SoleInv, Present
<1> QED
  BY <1>4, <1>7

-----------------------------------------------------------------------------
(* Coming.                                                                  *)

LEMMA OpenKeeps ==
  ASSUME CameraInv, NEW v \in Viewers, alive', Open(v)
  PROVE  CameraInv'
<1> USE DEF CameraInv
<1>1. /\ UNCHANGED <<alive, next, gone, overlap, mem, n_buffers, slot, owner, mapped, streaming,
                     queued, filled>>
      /\ alive /\ step[v] = "open" /\ Goto(v, "format")
  BY DEF Open, At, Exit, Same
<1>2. PICK d \in Descriptors \ opened : opened' = opened \cup {d} /\ fd' = d
  BY DEF Open, Exit
<1>3. step \in [Viewers -> Step] /\ "format" \in Step
  BY DEF SharedInv, CameraTypeOK, Step
<1>4. CameraTypeOK'
  BY <1>1, <1>2, <1>3, StepRange DEF SharedInv, CameraTypeOK
<1>5. HandleInv'
  <2>1. Holders' = Holders \cup {v} /\ v \notin Holders
    BY <1>1, <1>3, HoldersAfter DEF HoldingStep, Holders
  <2>2. /\ IsFiniteSet(opened) /\ IsFiniteSet(Holders)
        /\ Cardinality(opened) = Cardinality(Holders)
    BY DEF SharedInv, HandleInv
  <2>3. IsFiniteSet(opened') /\ Cardinality(opened') = Cardinality(opened) + 1
    BY <1>2, <2>2, FS_AddElement
  <2>4. IsFiniteSet(Holders') /\ Cardinality(Holders') = Cardinality(Holders) + 1
    BY <2>1, <2>2, FS_AddElement
  <2> QED
    BY <2>2, <2>3, <2>4 DEF HandleInv
<1>6. OwnerInv'
  BY <1>1, <1>2 DEF SharedInv, OwnerInv
<1>7. MapInv' /\ MemInv'
  BY <1>1, <1>3, MapKept, MemKept DEF SharedInv, MappingStep, UsingStep
<1>8. SoleInv'
  <2>1. step'[v] = "format" /\ Present(v)
    BY <1>1, <1>3 DEF Goto, Present
  <2>2. ~overlap => Session(v)'
    BY <1>1, <1>2, <2>1, Numbers DEF SoleInv, Session, Unmapped
  <2> QED
    BY <1>1, <1>3, <2>1, <2>2, SoleKept
<1> QED
  BY <1>4, <1>5, <1>6, <1>7, <1>8 DEF SharedInv

LEMMA RequestKeeps ==
  ASSUME CameraInv, NEW v \in Viewers, alive', Request(v)
  PROVE  CameraInv'
<1> USE DEF CameraInv
<1>1. /\ UNCHANGED <<alive, next, gone, overlap, fd, n_buffers, slot, opened, mapped, streaming>>
      /\ alive /\ step[v] = "request" /\ Goto(v, "count")
      /\ fd \in opened /\ mapped = {} /\ ~streaming
      /\ owner' = fd /\ queued' = {} /\ filled' = {} /\ mem' = "live"
  BY DEF Request, At, Exit, Same
<1>3. step \in [Viewers -> Step] /\ "count" \in Step
  BY DEF SharedInv, CameraTypeOK, Step
<1>4. CameraTypeOK'
  BY <1>1, <1>3, StepRange DEF SharedInv, CameraTypeOK
<1>5. HandleInv'
  BY <1>1, <1>3, HandlesKept DEF SharedInv, HoldingStep
<1>6. OwnerInv' /\ MapInv'
  BY <1>1, <1>4, Numbers DEF OwnerInv, MapInv, CameraTypeOK
<1>7. step'[v] = "count" /\ Present(v)
  BY <1>1, <1>3 DEF Goto, Present
<1>8. MemInv'
  BY <1>7 DEF MemInv, UsingStep
<1>9. SoleInv'
  <2>1. ~overlap => Session(v)'
    BY <1>1, <1>7 DEF SoleInv, Session, Unmapped
  <2> QED
    BY <1>1, <1>3, <1>7, <2>1, SoleKept
<1> QED
  BY <1>4, <1>5, <1>6, <1>8, <1>9 DEF SharedInv

LEMMA CountKeeps ==
  ASSUME CameraInv, NEW v \in Viewers, Count(v)
  PROVE  CameraInv'
<1> USE DEF CameraInv
<1>1. /\ UNCHANGED <<alive, next, gone, overlap, fd, mem, slot, opened, owner, mapped, streaming,
                     queued, filled>>
      /\ alive /\ step[v] = "count" /\ Goto(v, "map") /\ n_buffers' = 0
  BY DEF Count, At, Same, drvVars
<1>3. step \in [Viewers -> Step] /\ "map" \in Step
  BY DEF SharedInv, CameraTypeOK, Step
<1>4. CameraTypeOK'
  BY <1>1, <1>3, StepRange, Numbers DEF SharedInv, CameraTypeOK
<1>5. HandleInv' /\ MemInv'
  BY <1>1, <1>3, HandlesKept, MemKept DEF SharedInv, HoldingStep, UsingStep, MappingStep
<1>6. OwnerInv'
  BY <1>1 DEF SharedInv, OwnerInv
<1>7. step'[v] = "map" /\ Present(v)
  BY <1>1, <1>3 DEF Goto, Present
<1>8. MapInv'
  BY <1>7 DEF MapInv, MappingStep
<1>9. SoleInv'
  <2>1. 1..n_buffers' = {}
    BY <1>1
  <2>2. ~overlap => Session(v)'
    BY <1>1, <1>7, <2>1 DEF SoleInv, Session, Unmapped
  <2> QED
    BY <1>1, <1>3, <1>7, <2>2, SoleKept
<1> QED
  BY <1>4, <1>5, <1>6, <1>8, <1>9 DEF SharedInv

LEMMA MapKeeps ==
  ASSUME CameraInv, NEW v \in Viewers, alive', Map(v)
  PROVE  CameraInv'
<1> USE DEF CameraInv
<1>1. /\ UNCHANGED <<alive, gone, overlap, fd, mem, slot, opened, owner, streaming, queued, filled>>
      /\ alive /\ step[v] = "map"
  BY DEF Map, At, Exit, Same, libVars, drvVars
<1>2. /\ step \in [Viewers -> Step] /\ "queue" \in Step /\ CameraTypeOK
      /\ n_buffers \in 0..NBuf /\ next \in [Viewers -> 1..(NBuf + 1)]
  BY DEF SharedInv, CameraTypeOK, Step
<1>3. CASE n_buffers >= NBuf
  <2>1. Goto(v, "queue") /\ next' = [next EXCEPT ![v] = 1] /\ UNCHANGED <<mapped, n_buffers>>
    BY <1>3 DEF Map, libVars, drvVars
  <2>2. n_buffers = NBuf /\ 1 \in 1..(NBuf + 1)
    BY <1>2, <1>3, Numbers
  <2>3. next' \in [Viewers -> 1..(NBuf + 1)]
    BY <1>2, <2>1, <2>2
  <2>4. CameraTypeOK'
    BY <1>1, <1>2, <2>1, <2>3, StepRange DEF CameraTypeOK
  <2>5. HandleInv' /\ MemInv'
    BY <1>1, <1>2, <2>1, HandlesKept, MemKept DEF SharedInv, HoldingStep, UsingStep, MappingStep
  <2>6. OwnerInv'
    BY <1>1, <2>1 DEF SharedInv, OwnerInv
  <2>7. step'[v] = "queue" /\ Present(v) /\ next'[v] = 1
    BY <1>1, <1>2, <2>1 DEF Goto, Present
  <2>8. MapInv'
    BY <1>2, <2>1, <2>2, <2>7 DEF MapInv, MappingStep, CameraTypeOK, Buffers
  <2>9. ~overlap => Session(v)'
    <3> SUFFICES ASSUME ~overlap PROVE Session(v)'
      OBVIOUS
    <3>1. /\ opened = {fd} /\ owner = fd /\ fd # NoFd /\ ~streaming
          /\ mapped = 1..n_buffers /\ mem = "live" /\ queued = {} /\ filled = {}
      BY <1>1 DEF SoleInv, Session
    <3>2. 1..(next'[v] - 1) = {}
      BY <2>7
    <3> QED
      BY <1>1, <1>2, <2>1, <2>2, <2>7, <3>1, <3>2 DEF Session, Ready, Buffers, CameraTypeOK
  <2>10. SoleInv'
    BY <1>1, <1>2, <2>1, <2>7, <2>9, SoleKept
  <2> QED
    BY <2>4, <2>5, <2>6, <2>8, <2>10 DEF SharedInv
<1>4. CASE ~(n_buffers >= NBuf)
  <2>1. /\ Owned /\ UNCHANGED <<step, next>>
        /\ mapped' = mapped \cup {n_buffers + 1} /\ n_buffers' = n_buffers + 1
    BY <1>4 DEF Map, Exit, Same
  <2>2. n_buffers + 1 \in Buffers /\ n_buffers + 1 \in 0..NBuf
    BY <1>2, <1>4, Numbers DEF Buffers
  <2>3. CameraTypeOK'
    BY <1>1, <1>2, <2>1, <2>2 DEF CameraTypeOK, Present
  <2>4. HandleInv' /\ MemInv'
    BY <1>1, <2>1 DEF SharedInv, HandleInv, Holders, MemInv
  <2>5. OwnerInv'
    BY <1>1, <2>1 DEF SharedInv, OwnerInv
  <2>6. MapInv'
    BY <1>1, <2>1 DEF MapInv, MappingStep
  <2>7. ~overlap => Session(v)'
    <3>1. 1..(n_buffers + 1) = (1..n_buffers) \cup {n_buffers + 1}
      BY <1>2
    <3> QED
      BY <1>1, <2>1, <3>1 DEF SoleInv, Session
  <2>8. Goto(v, "map") /\ Present(v) /\ "map" \in Step
    BY <1>1, <1>2, <2>1 DEF Goto, Present, Step
  <2>9. SoleInv'
    BY <1>1, <1>2, <2>7, <2>8, SoleKept
  <2> QED
    BY <2>3, <2>4, <2>5, <2>6, <2>9 DEF SharedInv
<1> QED
  BY <1>3, <1>4

-----------------------------------------------------------------------------
(* Going.                                                                   *)

LEMMA UnmapKeeps ==
  ASSUME CameraInv, NEW v \in Viewers, alive', Unmap(v)
  PROVE  CameraInv'
<1> USE DEF CameraInv
<1>1. /\ UNCHANGED <<alive, next, gone, overlap, fd, mem, n_buffers, slot, opened, streaming,
                     queued, filled>>
      /\ alive /\ step[v] = "unmap" /\ Goto(v, "free")
      /\ mapped' = mapped \ (1..n_buffers)
      /\ owner' = IF owner = Orphan /\ mapped' = {} THEN NoFd ELSE owner
  BY DEF Unmap, At, Exit, Same, libVars
<1>2. step \in [Viewers -> Step] /\ "free" \in Step
  BY DEF SharedInv, CameraTypeOK, Step
<1>3. CameraTypeOK'
  BY <1>1, <1>2, StepRange DEF SharedInv, CameraTypeOK
<1>4. HandleInv' /\ MemInv'
  BY <1>1, <1>2, HandlesKept, MemKept DEF SharedInv, HoldingStep, UsingStep, MappingStep
<1>5. OwnerInv'
  BY <1>1, Numbers DEF SharedInv, OwnerInv, CameraTypeOK, NoFd, Orphan
<1>6. \A u \in Viewers : step[u] = "map" => step'[u] = "map"
  BY <1>1, <1>2 DEF Goto
<1>7. MapInv'
  BY <1>1, <1>6 DEF SharedInv, MapInv, MappingStep
<1>8. step'[v] = "free" /\ Present(v)
  BY <1>1, <1>2 DEF Goto, Present
<1>9. SoleInv'
  <2>1. ASSUME ~overlap PROVE Session(v)'
    <3>1. Ready(FALSE)
      BY <1>1, <2>1 DEF SoleInv, Session
    <3>2. owner # Orphan
      BY <3>1, Numbers DEF Ready, SharedInv, CameraTypeOK, NoFd, Orphan
    <3> QED
      BY <1>1, <1>8, <3>1, <3>2 DEF Session, Unmapped, Ready, Buffers
  <2> QED
    BY <1>1, <1>2, <1>8, <2>1, SoleKept
<1> QED
  BY <1>3, <1>4, <1>5, <1>7, <1>9 DEF SharedInv

LEMMA FreeKeeps ==
  ASSUME CameraInv, NEW v \in Viewers, alive', Free(v)
  PROVE  CameraInv'
<1> USE DEF CameraInv
<1>1. /\ UNCHANGED <<alive, next, gone, overlap, fd, n_buffers, slot, opened, owner, mapped,
                     streaming, queued, filled>>
      /\ alive /\ step[v] = "free" /\ Goto(v, "close") /\ mem' = "freed"
  BY DEF Free, At, Exit, Same, drvVars
<1>2. step \in [Viewers -> Step] /\ "close" \in Step
  BY DEF SharedInv, CameraTypeOK, Step
<1>3. CameraTypeOK'
  BY <1>1, <1>2, StepRange DEF SharedInv, CameraTypeOK
<1>4. HandleInv' /\ MapInv'
  BY <1>1, <1>2, HandlesKept, MapKept DEF SharedInv, HoldingStep, MappingStep
<1>5. OwnerInv' /\ MemInv'
  BY <1>1 DEF SharedInv, OwnerInv, MemInv
<1>6. step'[v] = "close" /\ Present(v)
  BY <1>1, <1>2 DEF Goto, Present
<1>7. SoleInv'
  <2>1. ~overlap => Session(v)'
    BY <1>1, <1>6 DEF SoleInv, Session, Unmapped
  <2> QED
    BY <1>1, <1>2, <1>6, <2>1, SoleKept
<1> QED
  BY <1>3, <1>4, <1>5, <1>7 DEF SharedInv

LEMMA CloseKeeps ==
  ASSUME CameraInv, NEW v \in Viewers, alive', Close(v)
  PROVE  CameraInv'
<1> USE DEF CameraInv
<1>1. /\ UNCHANGED <<alive, next, gone, overlap, fd, mem, n_buffers, slot, mapped>>
      /\ alive /\ step[v] = "close" /\ Goto(v, "forget")
      /\ fd \in opened /\ opened' = opened \ {fd}
      /\ \/ /\ Owned /\ owner' = (IF mapped = {} THEN NoFd ELSE Orphan)
            /\ streaming' = FALSE /\ queued' = {} /\ filled' = {}
         \/ ~Owned /\ UNCHANGED <<owner, streaming, queued, filled>>
  BY DEF Close, At, Exit, Same, libVars
<1>2. step \in [Viewers -> Step] /\ "forget" \in Step
  BY DEF SharedInv, CameraTypeOK, Step
<1>3. CameraTypeOK'
  BY <1>1, <1>2, StepRange DEF SharedInv, CameraTypeOK
<1>4. HandleInv'
  <2>1. Holders' = Holders \ {v} /\ v \in Holders
    BY <1>1, <1>2, HoldersAfter DEF HoldingStep, Holders
  <2>2. /\ IsFiniteSet(opened) /\ IsFiniteSet(Holders)
        /\ Cardinality(opened) = Cardinality(Holders)
    BY DEF SharedInv, HandleInv
  <2>3. IsFiniteSet(opened') /\ Cardinality(opened') = Cardinality(opened) - 1
    BY <1>1, <2>2, FS_RemoveElement
  <2>4. IsFiniteSet(Holders') /\ Cardinality(Holders') = Cardinality(Holders) - 1
    BY <2>1, <2>2, FS_RemoveElement
  <2> QED
    BY <2>2, <2>3, <2>4 DEF HandleInv
<1>5. MapInv' /\ MemInv'
  BY <1>1, <1>2, MapKept, MemKept DEF SharedInv, MappingStep, UsingStep
<1>6. OwnerInv'
  <2>1. fd # NoFd
    BY <1>1, Numbers DEF SharedInv, CameraTypeOK
  <2> QED
    BY <1>1, <2>1 DEF Owned, SharedInv, OwnerInv, NoFd, Orphan
<1>7. step'[v] = "forget" /\ Present(v)
  BY <1>1, <1>2 DEF Goto, Present
<1>8. SoleInv'
  <2>1. ~overlap => Session(v)'
    BY <1>1, <1>7 DEF SoleInv, Session, Unmapped, Owned
  <2> QED
    BY <1>1, <1>2, <1>7, <2>1, SoleKept
<1> QED
  BY <1>3, <1>4, <1>5, <1>6, <1>8 DEF SharedInv

LEMMA ForgetKeeps ==
  ASSUME CameraInv, NEW v \in Viewers, Forget(v)
  PROVE  CameraInv'
<1> USE DEF CameraInv
<1>1. /\ UNCHANGED <<alive, next, mem, n_buffers, slot, opened, owner, mapped, streaming,
                     queued, filled>>
      /\ alive /\ step[v] = "forget" /\ Goto(v, "idle")
      /\ fd' = NoFd /\ gone' = gone \ {v} /\ overlap' = (overlap /\ ~AllIdle(step'))
  BY DEF Forget, At, drvVars
<1>2. step \in [Viewers -> Step] /\ "idle" \in Step
  BY DEF SharedInv, CameraTypeOK, Step
<1>3. \A u \in Viewers : step'[u] = IF u = v THEN "idle" ELSE step[u]
  BY <1>1, <1>2 DEF Goto
<1>4. CameraTypeOK'
  <2>1. step' \in [Viewers -> Step]
    BY <1>1, <1>2 DEF Goto
  <2>2. gone' \subseteq {u \in Viewers : Present(u)'}
    BY <1>1, <1>3 DEF SharedInv, CameraTypeOK, Present
  <2>3. overlap' \in BOOLEAN
    BY <1>1
  <2> QED
    BY <1>1, <2>1, <2>2, <2>3 DEF SharedInv, CameraTypeOK
<1>5. HandleInv' /\ MapInv' /\ MemInv'
  BY <1>1, <1>2, HandlesKept, MapKept, MemKept DEF SharedInv, HoldingStep, MappingStep, UsingStep
<1>6. OwnerInv'
  BY <1>1 DEF SharedInv, OwnerInv
<1>7. SoleInv'
  <2>1. ~overlap => AllIdle(step')
    BY <1>1, <1>3 DEF SoleInv, Present, AllIdle
  <2>2. ~overlap' => AllIdle(step')
    BY <1>1, <2>1
  <2> QED
    BY <2>2 DEF SoleInv, Present, AllIdle, Session
<1> QED
  BY <1>4, <1>5, <1>6, <1>7 DEF SharedInv

-----------------------------------------------------------------------------
LEMMA CameraInvStep == CameraInv /\ [CameraNext]_camVars => CameraInv'
<1> SUFFICES ASSUME CameraInv, [CameraNext]_camVars PROVE CameraInv'
  OBVIOUS
<1>1. CASE UNCHANGED camVars
  BY <1>1 DEF camVars, CameraInv, SharedInv, CameraTypeOK, HandleInv, Holders, OwnerInv, MapInv,
              MemInv, SoleInv, Present, Session, Unmapped, Ready
<1>2. CASE Fill \/ Restart
  BY <1>2, FillKeeps, CameraInvFresh
<1>3. ASSUME NEW v \in Viewers, Connect(v) \/ Leave(v) PROVE CameraInv'
  BY <1>3, ConnectKeeps, LeaveKeeps
<1>4. ASSUME NEW v \in Viewers, View(v) PROVE CameraInv'
  <2>1. CASE alive'
    BY <1>4, <2>1, OpenKeeps, MoveKeeps, RequestKeeps, CountKeeps, MapKeeps, BufferKeeps,
       UnmapKeeps, FreeKeeps, CloseKeeps, ForgetKeeps DEF View, BufferStep
  <2>2. CASE ~alive'
    <3>1. Exit
      BY <1>4, <2>2 DEF View, Open, Format, Request, Count, Map, Queue, StreamOn, Select, Dequeue,
         Parse, Requeue, Send, StreamOff, Unmap, Free, Close, Forget, At, Same
    <3> QED
      BY <3>1, CameraInvFresh
  <2> QED
    BY <2>1, <2>2
<1> QED
  BY <1>1, <1>2, <1>3, <1>4 DEF CameraNext

(* Type correctness of the camera, however many viewers there are.           *)
THEOREM CameraTypeCorrect == CameraSpec => []CameraTypeOK
<1>1. CameraInv => CameraTypeOK
  BY DEF CameraInv, SharedInv
<1> QED
  BY <1>1, CameraInvInit, CameraInvStep, PTL DEF CameraSpec

(* When the last viewer has gone the camera is closed, unmapped and stopped, *)
(* although viewers that overlap unmap and close what is not theirs.         *)
THEOREM CameraIsReleased == CameraSpec => []CameraReleased
<1>1. CameraInv => CameraReleased
  BY Released DEF CameraInv, CameraReleased
<1> QED
  BY <1>1, CameraInvInit, CameraInvStep, PTL DEF CameraSpec

(* A frame is not overwritten or unmapped while a viewer who is alone        *)
(* converts it, with any number of buffers.                                  *)
THEOREM FramesAreStill == CameraSpec => []FrameIsStill
<1>1. CameraInv => FrameIsStill
  <2> SUFFICES ASSUME CameraInv, ~overlap, NEW v \in Viewers, step[v] = "parse"
               PROVE  slot \notin queued \cup filled /\ slot \in mapped /\ mem = "live"
    BY DEF FrameIsStill
  <2>1. Ready(TRUE) /\ queued \cup filled = Buffers \ {slot}
    BY DEF CameraInv, SoleInv, Session
  <2> QED
    BY <2>1 DEF Ready, CameraInv, SharedInv, CameraTypeOK
<1> QED
  BY <1>1, CameraInvInit, CameraInvStep, PTL DEF CameraSpec

(* No buffer of a viewer who is alone is lost, whatever frames are late.     *)
THEOREM NoBufferIsLost == CameraSpec => []BuffersCirculate
<1>1. CameraInv => BuffersCirculate
  BY DEF CameraInv, SoleInv, Session, BuffersCirculate
<1> QED
  BY <1>1, CameraInvInit, CameraInvStep, PTL DEF CameraSpec

(* Only viewers who overlap can end the process: no request of one who is    *)
(* alone is ever refused, in the first session or in any later one.          *)
THEOREM AloneNeverExits == CameraSpec => ExitNeedsOverlap
<1>1. CameraInv /\ [CameraNext]_camVars => [alive /\ ~alive' => overlap]_camVars
  <2> SUFFICES ASSUME CameraInv, CameraNext, alive, ~alive', ~overlap
               PROVE  FALSE
    OBVIOUS
  <2>1. PICK v \in Viewers : View(v)
    BY DEF CameraNext, Fill, Restart, Connect, Leave
  <2>2. CameraTypeOK /\ Session(v)
    BY DEF CameraInv, SharedInv, SoleInv
  <2>3. CASE Open(v) \/ Format(v) \/ Request(v) \/ Map(v)
    <3>1. Open(v) => Descriptors \subseteq opened /\ opened = {}
      BY <2>2 DEF Open, At, Same, Session, Unmapped
    <3>2. Format(v) => ~(fd \in opened /\ owner = NoFd) /\ Unmapped({fd}, NoFd)
      BY <2>2 DEF Format, At, Same, Session
    <3>3. Request(v) => /\ ~(fd \in opened /\ owner \in {NoFd, fd} /\ mapped = {} /\ ~streaming)
                        /\ Unmapped({fd}, NoFd)
      BY <2>2 DEF Request, At, Same, Session
    <3>4. ~Map(v)
      BY <2>2 DEF Map, At, Same, Session, Owned
    <3> QED
      BY <2>3, <3>1, <3>2, <3>3, <3>4, DescriptorAssumption DEF Unmapped
  <2>4. CASE Queue(v)
    <3>1. /\ Ready(FALSE) /\ queued = 1..(next[v] - 1) /\ filled = {}
          /\ ~(Owned /\ next[v] \notin queued \cup filled)
      BY <2>2, <2>4 DEF Queue, At, Session
    <3>2. next[v] \in 1..(NBuf + 1)
      BY <2>2 DEF CameraTypeOK
    <3>3. next[v] \notin 1..(next[v] - 1)
      BY <3>2, Numbers
    <3> QED
      BY <3>1, <3>3 DEF Ready, Owned
  <2>5. CASE StreamOn(v) \/ Dequeue(v) \/ StreamOff(v)
    BY <2>2, <2>5 DEF StreamOn, Dequeue, StreamOff, At, Same, Session, Ready, Owned
  <2>6. CASE Parse(v) \/ Requeue(v)
    <3>1. Ready(TRUE) /\ queued \cup filled = Buffers \ {slot} /\ slot \in Buffers
      BY <2>2, <2>6 DEF Parse, Requeue, At, Session, CameraTypeOK
    <3> QED
      BY <2>6, <3>1 DEF Parse, Requeue, At, Same, Ready, Owned
  <2>7. CASE Unmap(v) \/ Free(v) \/ Close(v)
    BY <2>2, <2>7 DEF Unmap, Free, Close, At, Same, Session, Unmapped, Ready
  <2>8. CASE Count(v) \/ Select(v) \/ Send(v) \/ Forget(v)
    BY <2>8 DEF Count, Select, Send, Forget, At, Same
  <2> QED
    BY <2>1, <2>3, <2>4, <2>5, <2>6, <2>7, <2>8 DEF View
<1> QED
  BY <1>1, CameraInvInit, CameraInvStep, PTL DEF CameraSpec, ExitNeedsOverlap
=============================================================================
