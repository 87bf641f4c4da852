# Smart planter: TLA+ models, model checking and proofs

The program in `src/` runs a planter on an ARM board: it reads four sensors,
switches a lamp, a fan, a dryer, a humidifier, a water valve and a drain, keeps
readings in SQLite, plays music, and serves clients over TCP. It is one C process
(`src/src/main.c`, `src/lib`, `src/drivers/lib`) with the kernel drivers of its
devices (`src/drivers/kernel-level/mds2450_*.c`). Its threads share some thirty
`g_` variables and driver globals without locks. That sharing is what this
project is mostly about.

Line numbers below are of `src/src/main.c` unless a file is named.

## 1. The system

| Component | State | Operations | Interacts through |
|---|---|---|---|
| Main loop | message queue `/mq_main` (64 messages, non-blocking) | accept a client, create its thread; receive a command, run `message_queue_handler()` (221-345) | queue, devices |
| Polling threads | last readings `g_humi`, `g_temp`, `g_photo`, `g_magnet`, `g_moisture` | read a sensor, evaluate its rules against boundaries and records, `mq_send()`, insert into the database (468-716) | queue, records, boundaries, `g_mode`, SQLite connection |
| Device control | relays, PWM duty rates, humidifier; records `g_state_*` | 13 commands (246-345), called by the main thread **and** by socket threads | driver globals `duty`, `cnt` |
| Humidifier library | press count `cnt` (`drivers/lib/humidifier.c`) | on, off: 0 to 2 presses of the one button | GPIO line |
| Socket threads | one per connection | 13 network commands (347-436) | everything above, files, list |
| Mode | `g_mode` | toggle (831), orders in MANUAL mode (809), state stream (734) | polling threads |
| Boundaries | ten integers, five set by clients, five derived | `receive_boundary_data()` (775), `boundary_update()` (1250) | polling threads |
| Music | files, linked list of titles, `current_music`, madplay processes | upload, list, delete, play (922-1113), `lib/music.c`, `lib/list.c` | `recv_trans_lock` |
| Database | SQLite connection | insert, query streamed to a client (`lib/database.c`) | connection mutex |
| Start-up, shutdown | open files; whatever devices and the queue kept from earlier | `devices_init()`, SIGINT handler `resources_deinit()` (1116-1228) | all |
| DHT11 driver | bytes received, turns of its polling loops | start signal, 40 bits told apart by their length, checksum (`mds2450_dht11.c`) | sensor's data line, humitemp thread |
| Camera | `fd`, `buffers`, `n_buffers`, the V4L2 driver's queues of buffers (`video_capture.c`) | open, map, stream frame after frame (852), close | socket threads, kernel |

What is hard to get right, and hard to test:

* **Interleaving without locks.** `message_queue_handler()` is several hardware
  accesses and one store; two threads in it mix them. `cnt++`, `g_mode ^= 1`, the
  shared `duty`, `sscanf()` into the boundaries, `current_music` and the music
  list are all read and written by several threads.
* **Late decisions.** A rule tests a record that only changes when the main
  thread gets to the command, so rules repeat themselves, commands arrive after
  the reading has changed, and when the queue is full a command is dropped.
* **Two rule pairs for one fan** (humidity and temperature), which can undo each
  other.
* **State outside the process.** The humidifier keeps spraying and madplay keeps
  playing when the process dies; counts and titles start afresh.
* **Waiting for clients** with a lock or with SQLite's mutex held.
* **A process that ends in the middle**: by SIGINT, whose handler closes files
  under running threads, by any error of the camera (`errno_exit()`), or by an
  access to freed memory; and starts again on devices and a queue that are not as
  new.
* **Timing**: the sensor's bits are told apart by when the driver looks.

`PROJECT.json` lists each hazard at its line, with the properties that watch it.

What makes each part correct, in a sentence: a record describes its device; a
device follows its reading; the mode decides who is in charge; a band of
boundaries is never inverted; presses of the button lead where they should; the
list is the files, a listing is the list, and the lock comes free; water is
only let in by hand; a shutdown turns things off and ends; a reading that is
taken is the one that was sent; and the camera's buffers go round.

## 2. The modules

**Actuators** - `message_queue_handler()` and the library calls below it. A call
of thread `t` is `Begin`, then the accesses `SwitchRelay`, `SetPulse` (the store
to the library's global `duty`), `LatchPulse` (the ioctl that reads it),
`PressButton`, and last `Record`, the store to `g_state_<device>`. Any thread may
call at any moment. `settled` is a history variable: the devices whose last call
no other call overlapped. PWM is kept as the pulse width only, and channels, commands
and records have the source's names. `PressButton` is the contract of module
Humidifier: exact while calls do not overlap and the count is right, otherwise any
outcome.

**Planter** - the controller around it: polling threads (`Sense`, one `Evaluate`
per condition, `Send`, `Store`), the main thread (`Receive`, `Connect`, `Work`) and the socket
threads. The rules are a table in the order of the code; rule *k*, *k*+1 (*k* odd)
are an if / else-if pair, and the FAN_OFF of the cooler becomes FAN_ON when the
humidity is not below its lower boundary (569-587). A reading is abstracted to
the boundaries it is beyond, since the rules test nothing else; a boundary update therefore is a
change of what readings are beyond. While an update is half done, or has been left so by an
overlapped one, a reading may be beyond both. The queue, the records, the mode
and every early return are as in the code. The humitemp thread's failed reads
change nothing and are not separate steps.

**Humidifier** - `humidifier_on/off/push/push_2`, with `cnt++` as load and store,
the line going low and high, any number of callers, and `Restart` at any moment:
the count is lost, the humidifier keeps its phase. **Switch** is what `main.c`
expects of it, and `IsSwitch` the refinement: undisturbed, the counted button is
a switch.

**Boundary** - `receive_boundary_data()` and `boundary_update()` number by number:
`sscanf()` stores as many numbers as the message has, the update loads a boundary
and stores the derived one, sums wrap at the width of `int`.

**LinkedList**, **Music** - `lib/list.c` as operators on a header and its memory
(`InsNext`, `RemNext`; a freed element keeps `next` and loses `data`, as its first
word goes to the allocator, until the address is handed out again), and the
socket threads that upload, list, delete and play, element by element.
`receive_file()` goes on when its `open()` has failed (`OpenFails`), and lists a title
without a file. `music_remove()` reads `head->next` of the element it has just freed and frees an
unset pointer when it finds nothing; the model lets such an access read what is
there, or the process die, which is `Restart` at any moment. `strcpy()` to
`current_music` shows others a half-copied title. `disturbed` is the history of a
deletion that overlapped another use of list and files, `clash` that of
overlapped `play_music()` calls. **Library** is what clients expect, a sequence of titles
and the files themselves, and `IsLibrary` the refinement: undisturbed, titles come in at the end,
none leaves before its file is gone, and every start lists the files there are.

**Lifecycle** - Planter through the lives of its process. `SigInt` starts
`resources_deinit()`, whose steps (`DeinitSteps`: relays, their file, servo,
sensors, fan, humidifier, database, exit) interleave with all threads but the main one,
which the handler has interrupted. An access to a closed file is `LostAccess`, a
sensor that is closed `SenseClosed`; `HumidifierOff` and `PressOverlap` are the
handler and a thread at the same button. `Insert` and `EndQuery` may fail and close the
SQLite connection, after which queries fail at once (`QueryFails`). `Crash` ends the process anywhere. Relays,
PWM, the humidifier and the queue survive (`Die`); `Start` is `devices_init()`, which opens
all relays and turns the servo, on the queue that `mq_open()` finds. `touched` is
a history variable: devices some other thread was using while the handler ran.

**Dht11** - one reading of the humidity sensor in units of 2 us, the
`udelay()` of the driver's loops. A byte is the set of the places of its bits, as
`DHT11_byte |= 1 << i` builds it; `Value` is what the checksum adds up. The sensor's line moves from pulse to pulse with
time (`Tick`); the driver polls it (`AwaitReply`, `AwaitResponse`, `AwaitRise`, `Sample`,
`AwaitFall`, `Check`). `Interrupt` delays the driver between two accesses, `Stop` is a
sensor that falls silent with the line at either level.

**Camera** - `transfer_camera_data()` and the V4L2 requests of
`video_capture.c`, one action each, for several viewers over the library's globals. The
V4L2 driver is external: it refuses requests of handles that do not own the
buffers and the queueing of a buffer it already has, and `open()` may return any
free number. Every refusal is `Exit`, the end of the process.
`overlap` is the history of two viewers at once.

`MCClimate`, `MCLifecycle`, `MCDht11`, `MCCamera`, `MCHumidifier`, `MCBoundary` and
`MCMusic` give TLC the constants; `*Proofs` hold the theorems. `MCMusic` also has TLC compare insertion and
removal at every place of lists of up to four elements with sequence operations
(`InsertionsAreRight`, `RemovalsAreRight`).

## 3. What is checked

Runs that pass:

| Run | Configuration | Shows |
|---|---|---|
| `fan` | humitemp thread, humidity and temperature for the fan move freely, a client toggles the mode, queue of 2 | `FanFollowsClimate`: heat wins, then humidity decides, whatever late and duplicate commands do; `ClimateSettles`: the two rule pairs stop undoing each other; `ManualTakesOver`: in MANUAL mode the commands still queued are executed and then the main thread rests; `RecordsAreTrue` |
| `control` | photo thread, two clients: one moves boundaries, the other toggles the mode, watches states, gives an order when its stream ends, and queries the database; queue of 1 | `DevicesFollowClimate`: once clients have left the lamp ends as its reading asks, whatever they moved, queued or dropped; `TypeOK` |
| `shutdown` | magnetic thread, a client that orders a device of each kind by hand, SIGINT, crashes, restarts | `ShutdownTurnsOff`: at `exit()` every device is off that no other thread was using during shutdown; `WaterOnlyByHand` and `ValveOpensOnlyByHand`: neither a rule, a restart nor an old queue opens the valve; `RecordMatchesHardware` and its inductive `HwInv` in every life; `LifeTypeOK` |
| `restart` | humitemp thread, a client that queries the database, inserts and queries that fail, SIGINT, crashes, restarts | `InsertsReturn`, `ShutdownEnds`: whoever waits for the database gets it, if clients read what they asked for; `ClimateAfterRestart`: the last life follows the climate whatever earlier ones left behind |
| `humidifier` | two callers, restarts | `CountIsPhase`, `HumInv`; refinement `IsSwitch`; `CallsReturn` |
| `boundary` | two clients, messages with five, three, two and no numbers, one at the limit of `int` | `NeverBeyondBoth`: an update that runs alone leaves every band open, whatever overlapped before; `BoundaryInv` |
| `music` | two clients who both upload, play and delete or list, two titles, failing `open()`, restarts | `ListSound`, `ListMatchesDisk` (but for titles whose file could not be opened), `ListingsAreExact`, `CurrentIsPlaying`; refinement `IsLibrary`; `LockComesFree` |
| `dht11` | two frames, interrupts, a sensor that stops anywhere | `AcceptedIsSent`: no wrong reading passes the checksum; `HealthyIsAccepted`: a sensor that does not stop is never refused; `ReadEnds`: unless it stops in its response a reading ends |
| `camera` | two viewers, three buffers, three descriptors | `FrameIsStill`, `BuffersCirculate`, `CameraReleased`, `ExitNeedsOverlap`, `SessionsEnd` |

Runs that find a claim of the code violated (each is a finding in
`PROJECT.json`):

| Run | Claim | What happens |
|---|---|---|
| `water_runs_on` | valve closes when the magnet is detected (665) | an automatic close and a manual open overlap: relay open, record closed, and the rule trusts the record |
| `observer_orders` | command 9 transfers state data (410) | no `break`: the ended stream goes on in `state_change()` and takes orders |
| `response_spins` | "block 80us until pin gets high" (`mds2450_dht11.c:120`) | the loops of STEP3 and STEP4 note that their turns are over and go on: a sensor that stops in its response keeps the driver, and the humitemp thread, for ever |

Disagreements that the modules contain without a run of their own:

* `states_init()` records the drain as open (1245) while `servo_init()` has turned
  it shut: with full soil from the start the rule of line 700 never fires. The
  invariants count the drain as settled from its first command on.
* After a restart in the spraying phase `humidifier_off()` presses nothing, since
  the count says "never pressed" (`humidifier.c:69`). `ClimateAfterRestart` therefore asks for
  a right count (`insync`), and `IsSwitch` for no restart in between.
* `delete_file()` compares with `current_music` (972) and removes the file later: it
  can be played in between.
* Two viewers of the camera can end the process for everyone. In the model they
  can also both get to stream on one handle; then frames tear, and a
  departed viewer's thread may go on, which is why those properties have the
  condition `~overlap`. `CameraReleased` holds even then.
* STEP2 of the DHT11 driver waits about 30 us where its comment says 20-40 (97): a
  sensor that answers later is refused.

**Bounds.** Queue capacities of 1 and 2 instead of 64: with 2, an old and a new
command of opposite effect wait together while the main thread executes a third
and a rule decides on a fourth; with 1 every burst of OFF commands overflows. Two clients
suffice for each race above, all of which are between two threads; the theorems
below hold for any number. In the runs of Lifecycle the other actors are the
handler, the main thread and a polling thread, so one client is enough, and a
queue of one message is enough for what one life leaves to the next. Runs move
the readings of one thread (`Excited`): threads
only meet in the queue, whose delay and loss are present in every run. 1000
stands for the limits of `int`, beyond which sums wrap; messages in `MCBoundary`
reach it. Two titles, one of which does not end in `.mp3`, and memory for two
elements make addresses be reused at once; longer lists are covered by the ASSUMEs of
`MCMusic` and by the theorems below.

In `MCDht11` bytes have two bits; a frame has the five bytes of the code. Pulses have the lengths the driver's comments and
the data sheet give: 80 us twice for the response, 50 us before each bit, 26 or 28 us for a 0 and
70 us for a 1. The sensor answers within 28 us, since the driver gives up after about 30, and
interrupts take at most 24 us between two rising edges: a longer
one can make the driver miss the low pulse between two bits, and readings fail.
`char` is unsigned on ARM, so the tests of `humitemp_read()` against -1 are always true.
`MCCamera` has three buffers where the code asks for four, enough for one to be
converted, one filled and one queued at the same time, and one descriptor more than
two viewers can have open at once. In `MCMusic` not every client asks for
everything (`Asks`), but each operation meets each other one (two listings are kept apart
by the lock, and two deletions leave nothing to be promised).

Symmetry of clients (in `MCBoundary`, safety only) is the only reduction.

**Fairness.** Each thread is weakly fair: one `WF` condition over all the steps it
takes on its own. The kernel schedules it and none of these steps waits for anyone. A polling thread is
assumed to get readings; nothing is assumed of clients, except that in
`LockComesFree` the premise says that uploads end. It also says that list and files
are undisturbed again and again: a list that a deletion has mutilated may have a
cycle, in which a listing under the lock never ends. A POSIX mutex that is free
again and again is assumed to be obtained (strong fairness of the two `Acquire` steps in Music).
Liveness properties of the controller have the premise `Stable`: the mode stays
AUTO, clients are gone, and readings stop changing sides. The premise matters: with
a reading that moves for ever, a command of another rule can be dropped by the
full queue every time.

In Lifecycle the handler of SIGINT, the threads and the main thread (while it is
not interrupted) are weakly fair; SQLite's mutex is obtained by who waits for it
while others take and release it again and again (strong fairness of `Insert` and
`CloseDatabase`). Neither SIGINT, a crash nor a start is ever assumed to happen, and
clients are assumed to read what they asked for only as a premise (`QueriesEnd`). In
Dht11 time passes and the driver runs. In Camera threads run, while frames and
clients may stop coming.

## 4. What is proved

TLAPS checks the following for all values of the constants: any number of
threads and clients, any queue capacity, any choice of polling threads, any
messages and any width of `int` (at least 1000 either way).

* `ActuatorsProofs`: `HwTypeCorrect`, and `RecordsCorrect` - whatever threads call
  `message_queue_handler()` with whatever commands, a device whose last call ran
  alone is in the recorded condition. `RecordMatchesHardware` is not inductive: a
  call under way must have done its part of the work (`Progress`), stand only
  before accesses its command makes (`CallFits`), be alone on a settled device
  (`Alone`), and records must be of their own device (`RecordsFit`). `HwInv` is
  that conjunction; the proof has one lemma per kind of step, and the main idea is that
  devices share no relay and no motor (`ChannelsDiffer`).
* `PlanterProofs`: `TypeCorrect` (with the bound on the queue); `DrivesActuators` -
  the controller implements Actuators, step by step - and from it
  `RecordsCorrectInPlanter`; `ValveSafety` - only a client's order opens the water valve,
  by the invariant that no SOLENOID_OPEN is ever in the queue, pending in a
  thread or in the main thread's hands; `AutomaticRecordsAreTrue` - without client
  orders every record is right at all times, since the main thread is the sole
  caller.
* `HumidifierProofs`: `HumTypeCorrect`, `HumInvariant`, `CountCorrect`, `CallsDeliver` and the
  refinement `ButtonIsSwitch`. The inductive `HumInv` says how many presses a
  call still owes at each of its steps (`OnCourse`).
* `LifecycleProofs`: `LifeTypeCorrect`, `CallsProgressInEveryLife`, `RecordsCorrectInEveryLife`,
  `WaterSafety` and `ShutdownSafety`, for any number of threads, any queue capacity and any commands
  an earlier life left behind. `LifeInv` adds to the invariants of Actuators and Planter
  that between two lives no call is under way and the records are back at their
  initial values (`DownInv`); without it nothing would be known of the next start.
  Water needs that no SOLENOID_OPEN gets into the queue, which now outlives the
  process. For the shutdown, `OffSoFar` lists the devices the handler's step
  has already passed, and `ShutdownInv` says that each is off unless another thread
  has touched it.
* `BoundaryProofs`: `BoundaryTypeCorrect`, `BoundaryInvariant` and `BandsOpen`. `BoundaryInv` adds that an
  update which runs alone has loaded what is set and that the pairs it has passed
  agree.
* `CameraProofs`: `CameraTypeCorrect`, `CameraIsReleased`, `FramesAreStill`, `NoBufferIsLost`
  and `AloneNeverExits`, for any number of viewers and buffers. The inductive
  `CameraInv` has two halves. `SharedInv` holds whatever viewers do to each other:
  there are as many open handles as viewers who owe a `close()` (`HandleInv`, by
  cardinality), and owner, mappings and memory belong to an open handle. `SoleInv` says what
  a viewer who is alone has done at each step (`Session`). The first half is needed for
  the second: only it shows that a viewer who comes after others overlapped
  finds the camera closed.
* `MusicProofs`, for the list: `InsertionIsRight` and `RemovalIsRight` - `list_ins_next()` and
  `list_rem_next()` at any place of a list of any length leave one chain, with the
  new element in its place or without the removed one (the chain is a witness that each
  call extends or shortens, so no induction is needed); `ChainUnique` - `head` and `next`
  determine it (by the first place where two chains would differ).
* `MusicProofs`, for any number of connections and titles: `MusicTypeCorrect`,
  `ListIsSound`, `ListIsDisk`, `ListingsAreWhole`, `PlayingIsCurrent`,
  `TransfersExcludeEachOther` and the refinement `MusicIsLibrary`. The invariant has four parts. `MusicInv`: the lock is held by exactly
  the thread between its lock and unlock, and a lone `play_music()` has killed all
  players or is about to. `TypeInv`: even a list that overlapping deletions have
  mutilated has no pointer outside its memory and no size beyond it. `ListInv`, while
  undisturbed: there is a chain, `music_add()` has not met its title in the part it has
  walked, nor has `music_remove()`, and a title is listed if and only if it has a file
  or could not get one, but for the title somebody is adding or removing. `SentInv`: a
  listing has sent the titles of the part it has walked. For the refinement `InsertionIsRight` and
  `RemovalIsRight` become `Add` and `Remove` of the abstract sequence (`ContentsOf`). It is assumed that the heap has room
  for every title (`MemoryAssumption`): otherwise `music_add()` stores a file it does not list.

* `Dht11Proofs`: `ReadingInStep`, and from it `ReadingTyped`, `AcceptedReadingIsSent` and
  `HealthySensorAccepted`, for any frames, bytes of up to eight bits, pulses of the lengths
  of the data sheet and any interrupts that sum up to `MaxLate` between two rising edges. None of the
  three is inductive. `TimeInv` says, for each of the driver's loops, that the line
  is at the pulse the loop waits for, with no more of it left than the loop has turns, or at the
  next one, with no more of it gone than interrupts have taken; so a sample falls
  at 32 to 56 us of a pulse, after the end of a 0 and before that of a 1. `DataInv` says that the
  bytes received are the first of the frame, or, after the sensor has stopped, that there
  is one place (`DamagedAfter`) before which they are, at which the lowest bit may be lost and
  after which all is 255. `DamageIsFound` is the argument about the checksum: such a
  frame has the right sum only if nothing was lost, since readings in the sensor's range
  neither sum up to 255 nor start with 0 (`SensorAssumption`, from the data sheet). `TimeAssumption`
  is needed as it stands: an interrupt as long as the pulse of a 0 hides the bit.

Assumptions are those named in the modules (`ThreadsAssumption`,
`QueueAssumption`, `NumberAssumption`, ...); TLC evaluates them in the runs.

Only model-checked: all liveness (TLAPS has neither fairness nor ENABLED). Every
invariant and every action property of the runs is stated by a theorem.

## 5. What is left out, and why

* File contents (a title uploaded again over a longer file keeps the end of
  the old one, as `O_CREAT` does not truncate), the wording of messages, `itoa()`,
  sensor conversions, images and the framebuffer: data no property is about.
* Integer overflow of boundaries is in Boundary only; Planter assumes that bands
  left by lone updates are open, which is what `BandsOpen` proves for boundaries
  200 or more away from the limits.
* A blocked `send()` in a listing or a state stream: the kernel's socket buffer holds these few
  bytes. A query of the whole database is modelled as held by the client
  (`query`).
* The framing of TCP messages: whether a command and its argument arrive in one
  `recv()` depends on clients that are not in the repository. Descriptors of
  sockets, which are never closed, and the read-only transfers (`transfer_sensor_data()`,
  `transfer_mode_data()`, `transfer_boundary_data()`), which change no state.
* SIGINT before the main loop (no other thread runs yet) and a second SIGINT while the
  handler runs; `mq_close()` is folded into the exit, and `music_deinit()` frees a list
  that ends with the process.
* The start signal of the DHT11 driver, where the model begins; a failing
  `copy_to_user()`.
* Not to be modelled: SQLite, sample and test programs, probing
  and registration of kernel drivers, and the vendored Wi-Fi driver
  (`rtl8188C_8192C_usb_linux_*`), which is third-party code that the program only uses
  through sockets. It is some 95 % of the lines in the repository, so the modules
  cover a small share of all lines but, as `PROJECT.json` shows, nearly all of the
  program's own.

Two behaviours the models have and no property forbids, because the code simply
has them: an order that arrives after another client's toggle is obeyed in AUTO mode
(`state_change()` tests the mode before it waits for the order), and of two
overlapping toggles one is lost.

## 6. Plan

1. *(done)* Actuators, Planter, Humidifier with Switch, Boundary, LinkedList with
   Music and Library, Dht11, Lifecycle, Camera.
2. *(done)* Proofs of all safety properties of these, and of the refinements.
3. SocketProtocol, should the clients become part of the repository: commands and
   arguments in one TCP segment.
