# LiamPhone in TLA+

A verification project for LiamPhone: the firmware of a small phone
(`src/pico-phone`), the backend that runs the same firmware on a PC
(`src/mock-backend`) and the script that plays the hardware for it
(`src/mock-host`). The modules here model the parts of it that carry state
through several steps; TLC checks them on small instances, and for the runtime,
the bridge, the host's files and the load of the database from them, the user
interface, the texts screen, the display and the caches and skip lists of littlefs TLAPS proves the safety properties for every instance.

Everything is translated from the source. `PROJECT.json` maps every definition
to its lines, lists the runs, the mutants that show each property can fail, the
hazards and the theorems.

## The system

One thread runs everything in the core. `core()` initialises the parts, each of
which spawns a task, and enters `async_loop`, which calls the tasks' functions
in turn. A function runs until it returns a code that says what it waits for.

    encoder, button, screens, database, display     pico-phone/core
        |  calls of async.h: spawn, sleep, await, lock
    async loop                                      pico-phone/core/async.c
        |  async_wait_until_time_or_event
    event source: none, or epoll on a socket        platform / mock-backend
        |  bytes
    host: keys, files, picture                      mock-host/main.py

| component | state | operations | what makes it correct |
|---|---|---|---|
| async runtime (`core/async.c`, `list.c`, `async.h`) | the schedule, the running and the shortcut stack, the frames of each stack, locks with their waiters | `async_spawn`, the five return codes, the loop's choice, `async_lock_try_acquire`, `async_lock_release` | no stack is lost or run twice; wake order; locks exclusive, accounted for, first come first served |
| host bridge (`mock-backend/host_bridge.c`, `main.py`'s loop) | queue of chunks and how far the first is sent, poll mode, pointers to the stacks to wake, the reply being read | `host_transmit`, `writer_task`, `reader_task`, `reader_task_sub`, `host_wait_for_ms_or_event` | requests are framed, replies reach the right caller, the wait wakes only stacks that are parked, every call returns |
| screens (`screen_machine.c`, `screen_home.c`, `screen_texts.c`) | stack of screens, selection, `loader_run`, `has_db_lock`, what the buffer shows | `send_event_top`, `draw_me_if_top`, `draw`, `on_event`, `destroy`, `loader` | the buffer shows the top screen, "loading..." is redrawn, the database is drawn only when complete |
| database (`db.c`) | contacts and their index, the conversations, `db_lock` | `initial_load`, `build_contact_indexes`, `bsearch2`, the two lookups | lock held until loaded; lookups right for every table; files parsed as they were written |
| input tasks (`button.c`, `rotary_encoder.c` and their mock halves) | last reading, `first_time` | the polling loop, the chain of encoder tasks | every press and turn counts once |
| frame buffer (`display.c`) | `display_fb` | `display_init`, `display_fill`, `display_draw_glyph` and its wrappers | the framing of the transmission survives; a cell is a cell |
| display driver, Pico (`platform/display_driver.c`) | DMA, interrupt, alarm, VCOM bit | two handlers | transmissions follow each other for ever, VCOM alternates |
| display driver, mock (`mock-backend/display_driver.c`) | - | transmit, sleep, repeat | a caller of the host bridge |
| file system, mock (`mock-backend/fs.c`) | a request's buffers | open, close, size, read, seek | each is one host call; marshalling agrees with `main.py` |
| disk image generator (`disk_gen.py`) | the two files | writes them | `initial_load` reads back what was written |
| littlefs (`platform/lfs.c`), which nothing calls yet | caches; open files and the allocator; metadata pairs and their log of tags; the tree of directories and the list of pairs; directory readers | the calls of `lfs.h` on files and directories, commits, relocation, repair after a loss of power | what was synced is what a mount finds; a call takes effect at once or not at all; blocks in use are not handed out |
| platform time, glyphs, LED, connection set-up, host drawing | constants, registers, system calls | | not modelled but for the Pico's waits (Async), see below |

How they interact: calls of the runtime's API; the lock `db_lock` between
`initial_load` and the texts screen; host calls, which suspend the caller until
the reader asks for it to be woken; `display_fb`, which the core writes and a
DMA channel (or the mock's display task) reads; interrupts between the DMA and
the alarm.

What is hard here: raw pointers to task stacks kept by an event source
(`writer_stack`, `reader_stack`, `wake_me_up`), stacks owned by nobody while
detached, lock hand-over with tasks that try as well as wait, partial sends and
receives, loaders that outlive the screen they were spawned for, tasks that
spawn their own successor, off-by-ones in the search and in the layout of the
frame buffer, and two interrupt handlers that keep each other alive. The list
is in `PROJECT.json` under `hazards`, with lines.

## The modules

    Coroutines  <--implements--  Async  --extended by-->  HostBridge --implements--> HostRpc
                                   |                                                   |
                                   +------extended by---->  PhoneUi  <---instance------+
    FileService <--implements--  HostFiles <--extended by-- DbLoad --implements--> Database
    TextGrid    <--implements--  Display       DisplayDriver    ContactSearch    TextsLayout

    littlefs:  LfsCache    LfsTags    LfsDirRead    LfsCtz <-- LfsCtzWriter, LfsFile
               LfsLog --implements--> LfsRecord     LfsTree --implements--> LfsDirectories

**Async** is `async.c` under an arbitrary client: while a function runs it may
make any call, and it ends with any of the five codes. `phase` says where the
processor is: before the loop ("boot"), at its top ("pick"), in a function
("run"), or past its end ("exited"). A task stack is a name and a number of
frames, `depth`. `schedule` is the linked list; a wake time is kept relative to
the clock, so that `Tick` decrements the timed entries, and the null time is
the integer below all others. `schedule_a_value` inserts where the C loop stops
walking. `PickShortcut`, `PickScheduled`, `PickEvented` and `LoopReturns` are
the ways through the top of `async_loop`; `ReturnDone`, `ReturnSleep`,
`ReturnAwait`, `ReturnDetach` and `ReturnLockAcquire` are the codes 0 to 4.
`EventSource` selects the mock's wait (TRUE) or the Pico's, which never has an
event (FALSE). `owns`, `acquiring` and `unadopted` are what the clients know
about locks; the code has no such variable, and they guard only what a client
may do: release what it holds, not ask for a lock it holds, not end with a lock
held. `unadopted` are the locks initialised as held (`db_lock`) whose releasing
task is still to be spawned.

**Coroutines** is what the runtime promises: each task has a status (ready,
running, continuing, sleeping, detached, blocked, absent), sleepers wake in the
order of their deadlines, and locks have a keeper and a line.
`ImplementsCoroutines` is the refinement, with the mapping in Async.

**HostBridge** keeps Async's state and replaces the arbitrary functions by
those of `host_bridge.c`. A byte on the wire is a record that says what it is a
byte of, so that a byte out of place is visible. A pointer to a list node is
the task and the height of the node: popping a frame frees the node, so
`WakesParkedTop` can tell a stale pointer from a good one. The writer's `send`
takes what the socket has room for; the reader reads the four fields of a reply
with a sub-frame each, in pieces as they arrive. `HostReads` is `main.py`'s
loop, which trusts the framing. **HostRpc** is the promise: two lines of callers,
those not yet served and those whose call has not returned; calls are served in
order, once each, and return in that order.

**PhoneUi** is the core as the mock runs it: Async with the functions of the
screens, the texts screen's loader, the database's load, the button task and
the encoder's chain of tasks, over HostRpc instead of the bridge (which
`ImplementsHostRpc` justifies). The user presses keys, the host answers polls
as `main.py` does. The frame buffer is which of three pictures was drawn last.
`draw` on the texts screen tries, draws and releases in one step: the function
does not yield in between, and a lock that was free has no waiters. The number
of file operations of the load is arbitrary.

**ContactSearch** is `build_contact_indexes` and `bsearch2`, one round of its
loop a step, over every table and every index `qsort` may return.
**TextsLayout** is `draw_actual`: which columns the name, the count, the time
and the preview of an entry take.

**HostFiles** is `fs.c` and the file operations of `main.py`: a request is
packed, goes through HostRpc, is unpacked, done to the open files of the host,
and the answer copied out; what the host cannot do, such as an open with all its
descriptors in use, ends it. `FilesAssumption` says what the types of `fs.h` say of
an operation (`WellTyped`), and that a path is shorter than its byte of length can
tell and a file shorter than an int can. **FileService** is what `core/fs.h` promises.
**DbLoad** is `initial_load`, field by field, over the files `disk_gen.py` writes
from some contents in some shuffle; **Database** is what `core/db.h` promises the
screens, which DbLoad implements. `LoadAssumption` is what `disk_gen.py` ends with an
exception without: numbers that fit their bytes (`struct.pack`), time stamps of 14
characters (its assertions), which the model takes to be digits, of one byte each. `Measured` is what it does not check: that no character
of a name or a number takes more than one byte.

**Display** is `display_fb` byte by byte with the sizes as parameters;
**TextGrid** is the grid of cells it stands for. **DisplayDriver** is the DMA,
its interrupt and the alarm, in ticks of 100 us, with the queue of the SPI and
one byte of the buffer that the core may draw at any time.

littlefs is third-party code that the firmware is to use for its files; it is
modelled because it is where most of the state of the repository is.
**LfsCache** is the program and the read cache over the block device. **LfsCtz**
is the skip list of a file's blocks, **LfsCtzWriter** its writing, where the
allocator may give it any block that the file does not have, **LfsFile** the calls on open files with the allocator. **LfsLog** is a metadata pair as two
logs of commits, programmed a unit at a time; **LfsRecord** is what it promises,
a record replaced as a whole. **LfsTags** is what the log holds, a reader's and a
compaction's view of it. **LfsTree** is the directories: pairs, the list through
all of them, creating, removing and renaming with their several commits,
relocation of worn blocks, orphans and pending moves, loss of power and repair;
**LfsDirectories** is the promise. **LfsDirRead** is a directory read, told and
sought while it changes. Each takes from the one below that its promise holds:
LfsTree commits at once because LfsLog implements LfsRecord, LfsFile has no
caches because LfsCache is coherent, as long as the device's reads do not fail.
In LfsCache the device may fail: worn blocks in programming and in erasing,
`Unreadable` ones in reading, any in syncing. A failed read leaves the byte
`Unknown` in the buffer it was to fill. `CacheInv` says exactly what is read of
every other block, and of an `Unreadable` one that a byte is right or such a
leftover (the disagreements below). Of the errors of programming and validating
only LFS_ERR_CORRUPT is modelled; every caller hands any other one up at once,
with the caches as they are.

**BasicLemmas**, **AsyncProofs**, **PhoneUiProofs**, **HostBridgeProofs**,
**FilesProofs**, **AlgorithmProofs**, **DisplayProofs** and **LfsCacheProofs** hold the proofs. The MC modules
define constants, and where one of them checks several components that share no
state it has a variable that says which one a behaviour is about (`part`, or
`on_pico` for the two platforms of Async); the others' state then stays as it is.

Operators named `Bug_...` are plausible mistakes in the code. No
specification uses them; `PROJECT.json` lists under `mutants` which definition
each replaces and which property must then fail.

## What the runs check

| run | question | bounds |
|---|---|---|
| `async_mock` | the runtime on the mock and on the Pico, arbitrary clients: `EveryStackInOnePlace`, `MutualExclusion`, `LockAccounted`, what is left when the loop returns (`ExitStrandsOnlyParked`), refinement of Coroutines | 3 tasks, 2 locks (one initially held), 2 frames, sleeps up to 2 ticks, 1 tick late |
| `host_bridge` | framing (`StreamIsRequests`), `BridgeInv` (poll set, wake-ups, results), the event source's contract with Async, refinement of HostRpc, every call returns | 3 callers (result only, argument only, both), socket of 2 bytes, pointers of 1 byte |
| `phone_ui` | `ShowsTop`, `OneEncoderChain`, `UiInv` (the database is drawn only when complete, a loading screen has a loader, loaders start in time, turns are counted), `InputsGetThrough` (loading ends, presses and turns are taken) | 4 inputs, turns of -5, 2 loaders |
| `texts` | the search probes inside, halves and is right; the columns of the list (`LayoutRight`) | up to 4 contacts over 4 numbers, repeats included; names up to 255 characters on 50 columns, lists of 0, 1 and 16 |
| `display` | framing and refinement of TextGrid; the driver takes turns and VCOM alternates (`DriverInv`); what is drawn is sent, for ever (`DrawingsAreSent`) | 3 x 2 cells of 2 lines, glyphs drawn up to 1 cell off the grid; 60 bytes, a queue of 8, interrupts up to 2 ticks late |
| `db_load` | reads the host can answer, and it gives up for a good reason only (`FilesAndLoadInv`); refinement of FileService and Database, the load ends (`LoadsDatabase`) | 2 tasks and 2 files; three contents of up to 2 contacts and 3 conversations, every shuffle, every count of unread messages, messages with characters of two bytes |
| `lfs_cache` | reads give what was programmed, what was flushed is on disk, and what keeps it so of caches, device and calls (`CacheInv`); nothing is programmed twice (`NeverReprogrammed`) | 2 blocks of 4 bytes, caches of 2, one block worn and not always readable |
| `lfs_file` | a file is an array of bytes (`ActsAsArray`), what was synced stays (`FilesIntact`), blocks are handed out and refused rightly (`BlocksAllocatedRight`) | 1 file of up to 11 bytes with a bad block, 5 calls; 2 files with a loss of power |
| `lfs_tree` | list and tree agree or are flagged, an entry is in one place, no assertion fails (`TreeInv`); refinement of LfsDirectories; calls return | trees of two or three directories, one of one or two pairs, 2 calls, 2 relocations, 1 loss of power; 4 relocations with 1 call, and with 2 removals of a directory and wear during repairs |
| `lfs_log` | refinement of LfsRecord; mdirs are current, both blocks of a pair wear (`LogInv`) | 6 blocks of 3 units, 3 commits, 2 losses of power; 20 commits until revisions wrap |
| `lfs_structures` | tags are read, found and compacted rightly (`TagsRight`); skip lists are found and traversed (`FilesRight`); a directory is read once, told and sought (`ReadsRight`, `SeekFinds`) | 3 entries and 4 commits in 2 pairs; files up to 9 blocks of 32 bytes, the lowest free block each time (`LowestFirst`); 3 names in 3 pairs, 4 changes |
| `display_select_low` | the disagreement below; a counterexample is expected | 60 bytes |

Properties with several named parts (`BridgeInv`, `UiInv`, `InputsGetThrough`,
`LayoutRight`, `DriverInv`, `DrawingsAreSent`, `FilesAndLoadInv`,
`LoadsDatabase`, `CacheInv`, `FilesIntact`, `BlocksAllocatedRight`, `TreeInv`,
`LogInv`, `TagsRight`, `FilesRight`, `ReadsRight`) are conjunctions of properties of one
component, each stated and commented on its own above the conjunction; when one
fails, checking the parts by name says which.

Why the bounds are enough. Async: with three tasks one can hold a lock while two
wait for it, which is what the order of hand-over needs, and one can run while
two are on the schedule in either order; two locks let a task hold one and wait
for the other; the second frame is what tells a return from an end. Wake times
have a late, a due, a near and a far value besides null. HostBridge: a socket of
two bytes is smaller than every request, so sends end inside every field and
between fields; the three callers have requests queued behind each other while
a reply is half read. The argument of the caller without one is the empty
chunk of the code. PhoneUi: opening the texts screen takes a turn and a press,
closing it and opening it again two more, so four inputs reach the state with
two loaders waiting on the lock for one screen. Turning by -5 takes the
selection from the first entry to the second, backwards, where C's remainder is
negative. Task names of loaders and encoders are used again when a task has
ended: two of each are the most that are alive at once with these inputs, and
`Spawns` needs a free one. ContactSearch: four contacts give ends of every
parity and runs of equal numbers. Display: three columns and two rows have
inner, edge and corner cells; two lines make the stride matter. DbLoad: three
conversations have a first, a middle and a last place in the order, two of them
the same stamp. LfsFile: blocks of 5 bytes with pointers of 1, so that 11 bytes
are three blocks and the third has two pointers. LfsTree: of two
nested relocations the second leaves a half-orphan, which `lfs_fs_deorphan`
repairs at the end of the call. It starts over (`lfs.c:4535`, 4585) when one of
its own commits moves a pair and then that pair's parent, so four relocations,
below a directory that is not the root, are what that takes in one call, and two
after a power loss. The parts "nested" and "repair" of MCLfsTree are these; the
others have two relocations. LfsLog: the second disk
writes to a pair until it has been moved by wear and its revisions have passed
their maximum.
Deadlock is checked where the system may not stop: HostBridge, PhoneUi and the
display. The others rightly stop: Async when all tasks are detached for ever or
each waits for a lock another holds, the rest when what is bounded (calls,
contacts, commits) is used up.

Constants named `Edge...` (LfsFile, LfsTree, LfsLog, LfsDirRead) say whether
clients do the things by which littlefs does not keep what it says (the
disagreements below). The passing runs leave them out, and say by this what
the properties hold for; turning one on gives the counterexample. Three are on
where they do no harm: `EdgeOutlines` on the device of one file, `EdgeBefore` in
the part of LfsDirRead that asks only whether entries are read once, `EdgeRepairs`
in the part "repair" of MCLfsTree, whose only calls remove one directory.

Fairness. `HostBridge` and `PhoneUi` assume weak fairness of the processor as a
whole (`Phone`: it never stops while it has a step; which step is the code's
choice, never the scheduler's), of the clock, of the host and of the network.
The code justifies no more: the loop is one thread, `epoll_wait` ends when a
descriptor is ready or the time has come. `PhoneUi` also assumes strong fairness
of `LoadReleases`, which says only that the files `initial_load` reads are
finite: the model lets the load make one more file operation at each turn. The
user is under no fairness. `DisplayDriver` assumes that the DMA sends
and that raised interrupts are handled.

`DbLoad` assumes that the load and the host go on, LfsTree that a call that has
begun does (a call is code that runs to its end); neither yields to anybody who
could keep it waiting.

## The disagreements found

With a run: `platform/display_driver.c:34` says of the time the select line must
be low between transmissions "100 ms works, 75 ms doesn't, so use safety factor
2x, 200 ms"; the next line asks for an alarm in 200 *micro*seconds
(`add_alarm_in_us(200, ...)`). The run `display_select_low` states the comment
as `LowLongEnough` and shows the transmission that starts 200 us after the last.

Met while modelling, and reproduced by changing a configuration as said:

* `TransmissionDone` (DisplayDriver, as a property of `DisplayDriverLow.cfg`):
  `display_driver.c:29` says "transmission done" where the DMA has written the
  last byte to the SPI's queue; bytes are still in it when the line is dropped.
* `MCDbLoadAccented.cfg` (`ReadsAreWhole`): `disk_gen.py:20` measures a name in
  characters and writes it in bytes. A name with a character of two bytes shifts
  every field after it, until `main.py:145` asserts that a read was not short.
* LfsCache, `NothingUnknown` (as an invariant of `MCLfsCache.cfg`): `lfs_bd_read`
  gives the read cache its block, offset and size before it asks the device
  (`lfs.c:110`), and keeps them when that fails (119). The caller gets the error,
  but the next read of the range is answered from the buffer and returns 0 (74).
  The counterexample is a read that fails and the same read again.
* LfsFile, `ActsAsArray`, with `EdgeSeeks`: after a read that ended with its
  block, a seek within the next block keeps the cache of the block before
  (`lfs.c:3498`). With `EdgeTruncates`: a truncation to the start of a block looks
  up the block behind it (3538).
* LfsFile, `BlocksAllocatedRight`, with `EdgeFailures`: a new block that fails with
  the first byte written is replaced while the walk over open files starts one
  block too low, so that a block of the file is handed out (4329). With
  `EdgeOutlines` on the device of two files: LFS_BLOCK_INLINE is taken for a block
  in use and there is no space while a block is free (4320).
* LfsTree, with `EdgeMoves` and the calls of MCLfsTree that its comment names for
  it: moving the only file of a pair out of the predecessor of a relocated pair
  fails an assertion (2028); a directory that precedes its new parent on the list
  is lost to it when both are relocated (2322); a pending move is counted twice
  in the id of a relocated directory (2289).
  With `EdgeRepairs`: one pass of `lfs_fs_deorphan` drops a directory whose parent
  is not yet on the list (4511), and the first commit of `lfs_rawmkdir` says too
  early that orphans are cleared (2432); the latter also on a full tree
  (`CrowdedTrees`), and without a power loss in the part "nested" with one call
  more, when a removal with two relocations comes before. With `EdgeNoSpace`: a rename that failed leaves its move in the
  global state, and the next commit hides the file (3774).
* LfsLog, `SyncedIsStored`, with `EdgeParent`: when the commit that tells the
  parent fails, open files have moved to blocks nothing refers to, and their
  next sync returns 0 (2251).
* LfsDirRead: a seek to where the end was told is refused (`SeekTaken`); with
  `EdgeBefore` the position is wrong after changes before the reader or before
  "." and ".." are read (`TellIsPlace`); a reader whose next entry is removed gets
  LFS_ERR_CORRUPT from then on (`ReadsSucceed`); with `EdgeReuse` a reader of a
  dropped pair reads entries twice (`ReadsOnce`).

## What is proved

All proofs are for every value of the constants that satisfies the named
assumption of the module, with no bound on tasks, locks, sleeps, contacts,
cells, blocks or bytes.

* `AsyncProofs` (from `AsyncAssumption`): `TypeCorrect`, `OnePlace`,
  `SortedSchedule`, `Exclusion`, `LocksAccounted`. `TypeOK` is not inductive: a
  function that returns code 0 must have a frame to drop, which follows from
  the running stack being live, which follows from every stack that is
  anywhere being live. So the invariant is `PlaceInv`: no stack is in two
  places, and the stacks with frames are exactly those in some place. It is
  stated with sets (who is queued, who is blocked) instead of with `Places`,
  which makes each action's step a case of moving one stack; `OnePlace` then
  translates it. `LockInv` adds who has been given each lock, counting a task
  that was handed it but has not run since; mutual exclusion and the account
  of the flag `held` follow. `SortedSchedule` rests on one lemma about
  `schedule_a_value`.
  Also there: `Refinement`, that Async implements Coroutines, and `ExitStrands`. Besides `PlaceInv`, `LockInv` and the order of the
  schedule the refinement needs `Mapped`: the status and the deadline that
  Coroutines keeps for a stack are those the mapping reads off the place it is
  in. The step that matters is the pick from the schedule: that the head of a
  sorted list is a sleeper whose deadline nobody else's precedes. `ExitStrands`
  needs `ExitInv`, that the loop ends only with nothing scheduled.
* `HostBridgeProofs` (from `BridgeAssumption`: any callers, arguments, results,
  size of pointers and of the socket): `Framing`, `BridgeCorrect`,
  `WakeUpsDelivered`, `BridgeIsAsync`, `BridgeIsRpc`. One invariant,
  `BridgeIndInv`, carries all five, since each of its parts needs the others.
  `CallerInv`, `WriterInv` and `ReaderInv` tie the place of a stack to the line it
  will go on from; `RxInv` says how much of a reply has been read; `StreamInv` that
  the bytes on their way are requests, and replies, joined, less what has been
  read; `FlightInv` that a caller that has asked is waited for in exactly one of
  the request stream, the reply stream, `wake_me_up` and the processor. That the
  wait wakes only stacks it was given, so that the bridge's steps are Async's
  and `PlaceInv` holds of it, needs the wake-up to name a caller that is
  detached, which needs the bytes of the reply to be the host's, which needs
  the requests to be framed, which needs the writer to be woken once.
* `FilesProofs` (from `FilesAssumption`, for any clients, disk and operations of the
  types of `fs.h`): `FilesTyped`, `HostDies` (an exception ends the host only on an
  operation that cannot be carried out) and `FileServiceKept`, the refinement of
  FileService. Its core is `Unpacked`: what `main.py` unpacks from the bytes is what
  `fs.c` packed, field by field, which rests on the arithmetic of bytes
  (`FourDigits`, `SignedBytes`: an int of two's complement is its four bytes, also
  when negative). The invariant `FilesInv` says that the open files are files of the
  disk, that an unanswered call is on the queue once and carries the bytes of
  what its client asked, and that what is answered is something `fs_result` can
  copy out. Each of the host's five operations then is `Done`: it raises, and
  what was asked is impossible, or it is the service's operation.
  From `LoadAssumption`, about `DbLoad`, with `Measured` of the contents:
  `LoadIsSafe` (`FilesAndLoadInv`), `LoadReadsWhole` (the assertion of `main.py:145` never
  fails) and `LoadImplementsDatabase`. `FilesAndLoadInv` says that the load asks for
  nothing that is not there, which is not inductive: a length that was read wrong
  shows only when the bytes after it are read. `LoadInv` says instead that there is
  one reading of the files, two tables and the order of one of them (`w`), such that
  the disk holds its bytes (`OnDisk`) and it is what the user wrote (`Faithful`), and
  follows the load through it: at every line of `initial_load` the open file has
  before it what is left of the reading from there (`FilesNow`), the call under way
  is that line's (`CallNow`), a length in `u8len` is that of the bytes that are due
  (`LocalsNow`), and the tables hold the reading up to here (`ContactsNow`,
  `TextsNow`). That `disk_gen.py` writes such a reading is `GeneratedIsWanted`, that it
  is what the user wrote `WantedIsFaithful`. Both need its sort to have a result: the
  model takes any sorted order of the conversations, and `CanBeSorted` shows by
  insertion that there is one. The steps then rest on `ReadingGoesOn`: after what is
  due at a line comes what is due at the line the code goes to.
* `PhoneUiProofs` (from `UiAssumption`): `TopShown`, `OneChain`, `UiCorrect`.
  `ScreenInv` relates stack, selection and what was drawn last; `FramesInv` gives
  each task the frames its line calls for; `ChainInv` counts the encoder tasks
  that will go on; `FreshInv`, `ComingInv` and `DatabaseInv` follow a loader from its
  spawning to its drawing, and the lock from the load to it.
* `AlgorithmProofs` (from `SearchAssumption`, `LayoutAssumption`, `CtzAssumption` and
  `WriterAssumption`): `SearchTypes`, `NoProbeOutside`, `LookupCorrect`,
  `SearchHalves`, `ListLegible`, `IndexRight` and `FilesLaidOut`. The invariant of the first four is that of binary search, all at or below `a` is
  smaller than the key and all at or above `b` greater, with the index sorted;
  the delicate part is that C rounds the middle toward zero, which at -1 and 0 is
  up. `ListLegible` is `LayoutRight` for every list and every screen of at least 29
  columns, the least that leaves a cut name a letter, and 30 rows (the code has 50
  and 30): each text keeps to columns of its own.
  `IndexRight` is about the arithmetic of `lfs_ctz_index`, which inverts in closed
  form a sum over all blocks before one: the bytes of block `i` start
  at `i * (B - 8) + 4 * (popc(i - 1) + 2)`. The code guesses `i` by a division that is
  one too high for the last bytes of a block, then divides again with the ones of
  the guess less one; that the second quotient is always right is `IndexIs`.
  `FilesLaidOut` is `FilesRight` whatever is written and whichever blocks are handed
  out. `CtzInv` says of every block where its bytes and pointers are and which
  blocks the pointers name, without saying how they got there; from this follow
  that `lfs_ctz_find` arrives (`WalkArrives`: no skip leads past the target) and
  that `lfs_ctz_traverse`, two blocks at a time, misses none (`ReportsAll`). That
  `lfs_ctz_extend` keeps it is `NextPointersAre`: the pointers it reads along the way
  are those the new block needs. The recursive functions of the model are shown to
  be defined by `Recursion` of BasicLemmas. `WriterAssumption`, that a block has room
  for its pointers and four more, is a bound on the size of files: the assertion
  of `lfs_init` ("fit ctz pointers") does not imply it for blocks of 104 to 111
  bytes; with blocks of 112 and more it holds of every file up to `LFS_FILE_MAX`.
* `DisplayProofs` (from `DisplayAssumption` and `DriverAssumption`): `FramingKept` and
  `BufferIsGrid`, the refinement of TextGrid. The argument is about addresses: a
  line number and a column determine the byte and are determined by it, so the
  bytes of two cells are disjoint and none of them is framing. `DriverCorrect`
  and `StartsClean`, of the Pico's driver: `TakeTurns`, that exactly one of the
  DMA, its interrupt and the alarm is what goes on, and `DriverIndInv`, which
  follows the queue of the SPI through a transmission and the wait after it.
* `LfsCacheProofs` (from `CacheAssumption`: what `lfs_init` asserts of the sizes,
  and that a read unit divides a programming unit): `CacheCorrect`, that `CacheInv`
  always holds, and `ProgrammedOnce`. That reads are right and that flushed bytes
  are on the device is not inductive. What is needed besides is that the program
  cache holds the last bytes of its block from a programming unit on
  (`PcacheIsTail`); that the device has everything that has left it and is
  erased from there on, except on a block that has just failed (`DiskIsRest`); that
  the read cache agrees with the device on what may be read, and only there,
  since it is not dropped by an erase, by a flush without validation or by a
  read that failed (`RcacheFresh`); and where a call is in its block (`CallOnItsWay`). `CacheInv` has
  these parts, so the run checks them too. `CacheIndInv` adds the types, and
  compares what has been read byte by byte. A flush pads to a unit with what an
  earlier block left in the buffer, which is why everything is by units:
  `Multiples`, `AlignedUp` and `AlignedSum` are the arithmetic. `ProgrammedOnce`
  follows from `DiskIsRest`: what is programmed is where the device was erased.
* `BasicLemmas`: induction over numbers and over sequences, as statements about a
  set, which need no operator as a parameter (a least counterexample); that a
  recursive function over numbers is what its definition says (`Recursion`);
  division; schedules as sequences (what an insertion and a removal do to who is
  queued and to the order); and the algebra of concatenation and of `FlattenSeq`
  that the streams of HostBridge rest on.

Only model-checked: the modules of littlefs above its caches but for the skip lists: what LfsLog,
LfsTags and LfsTree read off a pair is a fold over the whole of its log, so that
every fact about them is an induction over data, by hand as it was done for the
skip lists, and LfsFile checks a file against its blocks with the allocator and
the bad blocks in between; and every liveness property: `CallsReturn` of the bridge and of LfsTree,
`InputsGetThrough`, `DrawingsAreSent`, and that the load ends
(`LoadEnds`, in `LoadsDatabase`, whose other half is `LoadImplementsDatabase`). Liveness under fairness is outside what the prover does;
`SearchHalves` and `StartsClean` are the safety halves of two of them.

## What is not modelled

* Of littlefs: formatting and mounting but for the repair, the expansion of the
  superblock, the migration from version 1, attributes of users, and the
  arithmetic of the CRC. In LfsTree and LfsFile the allocator hands out the lowest
  free block, in LfsTree the order of names is abstract, and a relocation that
  finds no space while it retries is left out, as is `lfs_mkdir` into a
  directory of two full pairs. LfsDirRead has no pending move. LfsLog assumes
  that a device stores bytes again where they are stored already, reports no
  error for bytes it has stored, and that a unit half programmed is caught by
  the CRC when it looks erased.
* Glyph tables, the font generator, the on-board LED, pin and clock set-up:
  constants and register writes.
* Connection set-up and fatal errors of the bridge: they end the program.
* pygame and the host's drawing.
* Memory allocation: the code takes `malloc` to succeed, and so do the models.
* `screen_machine_send_event_all`: nothing calls it.

## Plan

Written in this order, the most important behaviour first: the runtime, since
all else runs on it (Async, Coroutines); the bridge, whose pointers are the
riskiest part (HostBridge, HostRpc); their composition with the user interface
(PhoneUi); the pure parts (ContactSearch, Display, TextGrid); the interrupt
handlers (DisplayDriver); then the proofs.

Then the files (HostFiles, FileService, DbLoad, Database), the columns of the
texts screen (TextsLayout), the queue of the SPI, and littlefs from the block
device upwards.

Then the proofs, in the order of "What is proved".

What is left: that a metadata pair is a record
(`Implements` of LfsLog), and that the calls of LfsFile keep the skip lists of
all its files as `FilesLaidOut` has them.
