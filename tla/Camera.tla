-------------------------------- MODULE Camera --------------------------------
(***************************************************************************)
(* The camera: transfer_camera_data() of src/main.c and the V4L2 streaming *)
(* protocol of drivers/lib/video_capture.c.  Each viewer is a socket       *)
(* thread that opens the camera, maps the driver's buffers, and takes one  *)
(* filled buffer after the other until its client is gone.  All viewers    *)
(* share the library's globals fd, buffers, n_buffers and                  *)
(* buf_in_while_loop, and an error of any request ends the whole process.  *)
(*                                                                         *)
(* The driver is external: it does what the V4L2 specification says of     *)
(* handles that do not own the buffers, and of buffers already queued.     *)
(***************************************************************************)
EXTENDS Integers, FiniteSets

CONSTANTS
  Viewers,      \* threads that may be in transfer_camera_data()
  NBuf,         \* buffers asked for and granted (req.count, 4 in the code)
  Descriptors   \* numbers open() can return

ASSUME BufferAssumption == NBuf \in Nat /\ NBuf >= 2
ASSUME DescriptorAssumption == Descriptors # {} /\ Descriptors \subseteq Nat \ {0}

Buffers == 1..NBuf
NoFd == 0
Orphan == -1   \* the owner is a handle that is closed but still mapped

VARIABLES
  alive,      \* whether the process lives
  step,       \* viewer -> where its thread stands
  next,       \* viewer -> the buffer its loop over buffers has come to
  gone,       \* viewers whose client has left
  fd,         \* fd, the library's global descriptor
  mem,        \* what 'buffers' points to: "unset", "live", "freed"
  n_buffers,  \* n_buffers
  slot,       \* buf_in_while_loop.index
  opened,     \* driver: open handles
  owner,      \* driver: the handle buffers are allocated for
  mapped,     \* driver: buffers that are mapped
  streaming,  \* driver: whether it fills buffers
  queued,     \* driver: buffers it may write to
  filled,     \* driver: buffers with a frame
  overlap     \* history: two viewers were there since the camera was last free

camVars == <<alive, step, next, gone, fd, mem, n_buffers, slot, opened, owner, mapped,
             streaming, queued, filled, overlap>>
libVars == <<fd, mem, n_buffers, slot>>
drvVars == <<opened, owner, mapped, streaming, queued, filled>>

Step == {"idle", "open", "format", "request", "count", "map", "queue", "streamon",
         "select", "dequeue", "parse", "requeue", "send",
         "streamoff", "unmap", "free", "close", "forget"}

Present(v) == step[v] # "idle"
AllIdle(s) == \A v \in Viewers : s[v] = "idle"

Fresh ==
  /\ step' = [v \in Viewers |-> "idle"] /\ next' = [v \in Viewers |-> 1] /\ gone' = {}
  /\ fd' = NoFd /\ mem' = "unset" /\ n_buffers' = 0 /\ slot' = 1
  /\ opened' = {} /\ owner' = NoFd /\ mapped' = {} /\ streaming' = FALSE
  /\ queued' = {} /\ filled' = {}
  /\ overlap' = FALSE

CameraInit ==
  /\ alive = TRUE
  /\ step = [v \in Viewers |-> "idle"] /\ next = [v \in Viewers |-> 1] /\ gone = {}
  /\ fd = NoFd /\ mem = "unset" /\ n_buffers = 0 /\ slot = 1
  /\ opened = {} /\ owner = NoFd /\ mapped = {} /\ streaming = FALSE
  /\ queued = {} /\ filled = {}
  /\ overlap = FALSE

\* exit(), or a death by an access to freed memory: the kernel closes all files.
Exit == alive' = FALSE /\ Fresh

\* The process is started again.
Restart == ~alive /\ alive' = TRUE /\ Fresh

-----------------------------------------------------------------------------
Goto(v, s) == step' = [step EXCEPT ![v] = s]

At(v, s) == alive /\ step[v] = s

\* The handle all requests go to is the one the buffers are allocated for.
Owned == fd # NoFd /\ fd = owner

\* What stays as it is in a step of viewer v that does not fail.
Same(v) == UNCHANGED <<alive, next, gone, overlap>>

\* socket_handler() is asked for the camera; or the client of v leaves.
Connect(v) ==
  /\ At(v, "idle")
  /\ Goto(v, "open")
  /\ overlap' = (overlap \/ ~AllIdle(step))
  /\ UNCHANGED <<alive, next, gone, libVars, drvVars>>

Leave(v) ==
  /\ alive /\ Present(v) /\ v \notin gone
  /\ gone' = gone \cup {v}
  /\ UNCHANGED <<alive, step, next, libVars, drvVars, overlap>>

\* open_device(): open() returns a number that is free, if there is one.
Open(v) ==
  /\ At(v, "open")
  /\ \/ /\ \E d \in Descriptors \ opened : opened' = opened \cup {d} /\ fd' = d
        /\ Goto(v, "format")
        /\ Same(v)
        /\ UNCHANGED <<mem, n_buffers, slot, owner, mapped, streaming, queued, filled>>
     \/ Descriptors \subseteq opened /\ Exit

\* init_device(): VIDIOC_S_FMT is refused while buffers are allocated.
Format(v) ==
  /\ At(v, "format")
  /\ IF fd \in opened /\ owner = NoFd
     THEN /\ Goto(v, "request")
          /\ Same(v) /\ UNCHANGED <<libVars, drvVars>>
     ELSE Exit

\* init_mmap(): VIDIOC_REQBUFS is refused to a second handle and while buffers
\* are mapped; calloc().
Request(v) ==
  /\ At(v, "request")
  /\ IF fd \in opened /\ owner \in {NoFd, fd} /\ mapped = {} /\ ~streaming
     THEN /\ owner' = fd /\ queued' = {} /\ filled' = {}
          /\ mem' = "live"
          /\ Goto(v, "count")
          /\ Same(v) /\ UNCHANGED <<fd, n_buffers, slot, opened, mapped, streaming>>
     ELSE Exit

\* n_buffers = 0, the start of the loop that maps.
Count(v) ==
  /\ At(v, "count")
  /\ n_buffers' = 0
  /\ Goto(v, "map")
  /\ Same(v) /\ UNCHANGED <<fd, mem, slot, drvVars>>

\* Mutant: the loop turns once too often.
MapOneMore(v) ==
  /\ At(v, "map")
  /\ IF n_buffers > NBuf
     THEN /\ Goto(v, "queue")
          /\ UNCHANGED <<alive, next, gone, overlap, libVars, drvVars>>
     ELSE /\ n_buffers' = n_buffers + 1
          /\ Same(v) /\ UNCHANGED <<step, fd, mem, slot, drvVars>>

\* One turn of it: VIDIOC_QUERYBUF, mmap(), ++n_buffers.
Map(v) ==
  /\ At(v, "map")
  /\ IF n_buffers >= NBuf
     THEN /\ Goto(v, "queue")
          /\ next' = [next EXCEPT ![v] = 1]
          /\ UNCHANGED <<alive, gone, overlap, libVars, drvVars>>
     ELSE IF Owned
     THEN /\ mapped' = mapped \cup {n_buffers + 1}
          /\ n_buffers' = n_buffers + 1
          /\ Same(v) /\ UNCHANGED <<step, fd, mem, slot, opened, owner, streaming, queued, filled>>
     ELSE Exit

\* start_capturing(): VIDIOC_QBUF for every buffer, then VIDIOC_STREAMON.
Queue(v) ==
  /\ At(v, "queue")
  /\ IF next[v] > n_buffers
     THEN /\ Goto(v, "streamon")
          /\ next' = [next EXCEPT ![v] = 1]
          /\ UNCHANGED <<alive, gone, overlap, libVars, drvVars>>
     ELSE IF Owned /\ next[v] \notin queued \cup filled
     THEN /\ queued' = queued \cup {next[v]}
          /\ next' = [next EXCEPT ![v] = @ + 1]
          /\ UNCHANGED <<alive, step, gone, overlap, libVars, opened, owner, mapped, streaming, filled>>
     ELSE Exit

StreamOn(v) ==
  /\ At(v, "streamon")
  /\ IF Owned
     THEN /\ streaming' = TRUE
          /\ Goto(v, "select")
          /\ Same(v) /\ UNCHANGED <<libVars, opened, owner, mapped, queued, filled>>
     ELSE Exit

\* The driver fills a buffer.
Fill ==
  /\ alive /\ streaming
  /\ \E b \in queued : queued' = queued \ {b} /\ filled' = filled \cup {b}
  /\ UNCHANGED <<alive, step, next, gone, libVars, opened, owner, mapped, streaming, overlap>>

\* select(): a frame is there, or a key was pressed or two seconds have passed,
\* and what the image held before is sent.  (A handle that is not streaming is
\* reported ready, too.)
Select(v) ==
  /\ At(v, "select")
  /\ \/ (filled # {} \/ ~Owned \/ ~streaming) /\ Goto(v, "dequeue")
     \/ Goto(v, "send")
  /\ Same(v) /\ UNCHANGED <<libVars, drvVars>>

\* Mutant: the buffer is given back before it is read.
DequeueAndRequeue(v) ==
  /\ At(v, "dequeue")
  /\ \E b \in filled : filled' = filled \ {b} /\ slot' = b /\ queued' = queued \cup {b}
  /\ Goto(v, "parse")
  /\ Same(v) /\ UNCHANGED <<fd, mem, n_buffers, opened, owner, mapped, streaming>>

\* VIDIOC_DQBUF into the global buf_in_while_loop; without a frame it is EAGAIN.
Dequeue(v) ==
  /\ At(v, "dequeue")
  /\ IF ~Owned \/ ~streaming THEN Exit
     ELSE \/ /\ filled = {}
             /\ Goto(v, "send")
             /\ Same(v) /\ UNCHANGED <<libVars, drvVars>>
          \/ /\ \E b \in filled : filled' = filled \ {b} /\ slot' = b
             /\ Goto(v, "parse")
             /\ Same(v) /\ UNCHANGED <<fd, mem, n_buffers, opened, owner, mapped, streaming, queued>>

\* parse_im() reads the buffer through the global pointer; after free() or
\* munmap() this may be the end.
Parse(v) ==
  /\ At(v, "parse")
  /\ \/ /\ Goto(v, "requeue")
        /\ Same(v) /\ UNCHANGED <<libVars, drvVars>>
     \/ (mem # "live" \/ slot \notin mapped) /\ Exit

\* Mutant: a buffer of a frame nobody wants is not given back.
RequeueUnlessGone(v) ==
  /\ At(v, "requeue")
  /\ queued' = IF v \in gone THEN queued ELSE queued \cup {slot}
  /\ Goto(v, "send")
  /\ Same(v) /\ UNCHANGED <<libVars, opened, owner, mapped, streaming, filled>>

\* VIDIOC_QBUF of whatever buf_in_while_loop holds now.
Requeue(v) ==
  /\ At(v, "requeue")
  /\ IF Owned /\ slot \notin queued \cup filled
     THEN /\ queued' = queued \cup {slot}
          /\ Goto(v, "send")
          /\ Same(v) /\ UNCHANGED <<libVars, opened, owner, mapped, streaming, filled>>
     ELSE Exit

\* Mutant: the result of network_send() is not looked at.
SendOn(v) ==
  /\ At(v, "send")
  /\ Goto(v, "select")
  /\ Same(v) /\ UNCHANGED <<libVars, drvVars>>

\* network_send() fails once the client is gone, and the loop ends.
Send(v) ==
  /\ At(v, "send")
  /\ Goto(v, IF v \in gone THEN "streamoff" ELSE "select")
  /\ Same(v) /\ UNCHANGED <<libVars, drvVars>>

\* free_video_capture(): stop_capturing() takes all buffers from the driver ...
StreamOff(v) ==
  /\ At(v, "streamoff")
  /\ IF Owned
     THEN /\ streaming' = FALSE /\ queued' = {} /\ filled' = {}
          /\ Goto(v, "unmap")
          /\ Same(v) /\ UNCHANGED <<libVars, opened, owner, mapped>>
     ELSE Exit

\* Mutant: the buffers are freed and not unmapped.
UnmapNothing(v) ==
  /\ At(v, "unmap")
  /\ Goto(v, "free")
  /\ Same(v) /\ UNCHANGED <<libVars, drvVars>>

\* ... uninit_device() unmaps them through the global pointer, and frees it ...
Unmap(v) ==
  /\ At(v, "unmap")
  /\ \/ /\ mapped' = mapped \ (1..n_buffers)
        /\ owner' = IF owner = Orphan /\ mapped' = {} THEN NoFd ELSE owner
        /\ Goto(v, "free")
        /\ Same(v) /\ UNCHANGED <<libVars, opened, streaming, queued, filled>>
     \/ mem # "live" /\ Exit

Free(v) ==
  /\ At(v, "free")
  /\ \/ /\ mem' = "freed"
        /\ Goto(v, "close")
        /\ Same(v) /\ UNCHANGED <<fd, n_buffers, slot, drvVars>>
     \/ mem # "live" /\ Exit

\* Mutant: the descriptor is forgotten and not closed.
CloseNothing(v) ==
  /\ At(v, "close")
  /\ Goto(v, "forget")
  /\ Same(v) /\ UNCHANGED <<libVars, drvVars>>

\* ... and close_device() closes the global descriptor.  Closing the owner's
\* handle releases the buffers, unless they are still mapped.
Close(v) ==
  /\ At(v, "close")
  /\ IF fd \notin opened THEN Exit
     ELSE /\ opened' = opened \ {fd}
          /\ IF Owned
             THEN /\ owner' = IF mapped = {} THEN NoFd ELSE Orphan
                  /\ streaming' = FALSE /\ queued' = {} /\ filled' = {}
             ELSE UNCHANGED <<owner, streaming, queued, filled>>
          /\ Goto(v, "forget")
          /\ Same(v) /\ UNCHANGED <<libVars, mapped>>

\* fd = -1; socket_handler() returns.
Forget(v) ==
  /\ At(v, "forget")
  /\ fd' = NoFd
  /\ Goto(v, "idle")
  /\ gone' = gone \ {v}
  /\ overlap' = (overlap /\ ~AllIdle(step'))
  /\ UNCHANGED <<alive, next, mem, n_buffers, slot, drvVars>>

View(v) == \/ Open(v) \/ Format(v) \/ Request(v) \/ Count(v) \/ Map(v) \/ Queue(v) \/ StreamOn(v)
           \/ Select(v) \/ Dequeue(v) \/ Parse(v) \/ Requeue(v) \/ Send(v)
           \/ StreamOff(v) \/ Unmap(v) \/ Free(v) \/ Close(v) \/ Forget(v)

CameraNext == Fill \/ Restart \/ \E v \in Viewers : Connect(v) \/ Leave(v) \/ View(v)

CameraSpec == CameraInit /\ [][CameraNext]_camVars

\* Threads run; nothing is assumed of clients and of the camera's frames.
CameraFairSpec == CameraSpec /\ \A v \in Viewers : WF_camVars(View(v))

-----------------------------------------------------------------------------
(* Type invariant.  A buffer is never both the driver's to write to and      *)
(* reported as filled, and only a process that lives has files open.         *)
CameraTypeOK ==
  /\ alive \in BOOLEAN
  /\ step \in [Viewers -> Step]
  /\ next \in [Viewers -> 1..(NBuf + 1)]
  /\ gone \subseteq {v \in Viewers : Present(v)}
  /\ fd \in Descriptors \cup {NoFd} /\ owner \in Descriptors \cup {NoFd, Orphan}
  /\ mem \in {"unset", "live", "freed"}
  /\ n_buffers \in 0..NBuf /\ slot \in Buffers
  /\ opened \subseteq Descriptors
  /\ mapped \subseteq Buffers /\ queued \subseteq Buffers /\ filled \subseteq Buffers
  /\ queued \cap filled = {}
  /\ streaming \in BOOLEAN /\ overlap \in BOOLEAN
  /\ ~alive => AllIdle(step) /\ opened = {}

(* Safety.  While a viewer who is alone converts a frame the driver does not *)
(* write to its buffer, which is still mapped: not after a timeout, not      *)
(* after EAGAIN, and not in any later session.                               *)
FrameIsStill ==
  ~overlap => \A v \in Viewers : step[v] = "parse" =>
    slot \notin queued \cup filled /\ slot \in mapped /\ mem = "live"

(* Safety.  No buffer is lost: in the loop of a viewer who is alone every    *)
(* buffer is the driver's but the one being converted, so that the camera    *)
(* never runs out of buffers, however many frames were late.                 *)
BuffersCirculate ==
  ~overlap => \A v \in Viewers :
    /\ step[v] \in {"select", "dequeue", "send"} => queued \cup filled = Buffers
    /\ step[v] \in {"parse", "requeue"} => queued \cup filled = Buffers \ {slot}

(* Safety.  When the last viewer has gone the camera is free for the next:   *)
(* closed, unmapped, its buffers released, even if viewers overlapped and    *)
(* closed each other's descriptors on the way.                               *)
CameraReleased ==
  AllIdle(step) => opened = {} /\ owner = NoFd /\ mapped = {} /\ mem # "live" /\ ~streaming

(* Safety.  Viewers who come one after the other never end the process: no   *)
(* request fails, in any order of frames, timeouts and departures.  (Two who *)
(* overlap end it for everybody, since every request that fails exits.)      *)
ExitNeedsOverlap == [][alive /\ ~alive' => overlap]_camVars

(* Liveness.  A session ends when its client has left, whether the camera    *)
(* still sends frames or not.                                                *)
SessionsEnd ==
  \A v \in Viewers : []<>(v \notin gone \/ overlap)
=============================================================================
