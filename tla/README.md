# A TLA+ model of the Contiki node firmware

The repository is the firmware of a wireless sensor node: an STM32F1
(Cortex-M3) with an AT86RF231/233 transceiver, the Contiki operating system
(`src/code/Contiki/core`), the port and drivers written for the board
(`src/code/MiddleWare`), and a UDP client over 6LoWPAN and RPL
(`src/code/User`). There are no unit tests; what the code promises is said in
the comments of its headers.

This directory holds TLA+ modules translated from that code, the TLC
configurations that check them on small instances, and proofs checked by TLAPS.
Paths below are relative to `src/code`.

## 1. Inventory

The firmware has one thread and several interrupts. `main` (User/Main.c:85)
initialises clocks and drivers, starts `etimer_process`, `ctimer_process`, the
network processes and `udp_client_process`, and then calls `process_run` for
ever. A *process* is a function that is called with an event and returns when it
waits for the next one. All concurrency is of two kinds: an interrupt between
any two instructions, and calls that nest, so that a list or a state is changed
by a callee while a caller still walks or holds it.

| Part | State | Operations | Talks to | What is hard |
|---|---|---|---|---|
| event queue (Contiki/core/sys/process.c) | `events`, `nevents`, `fevent` | `process_post`, head of `do_event` | everything | indices of one byte, a full queue |
| process kernel (process.c, process.h) | `process_list`, `next`, `state`, `needspoll`, `poll_requested`, `process_current` | start, exit, poll, post, post_synch, run | every process; interrupts through `process_poll` | exits and starts under a walk of the list, nested calls, polls from interrupts |
| event timers (sys/etimer.c, sys/timer.c, MiddleWare/contiki/contiki_clock.c) | `timerlist`, `next_expiration`, the timers, `current_clock` | set, reset, restart, adjust, stop; the scan; SysTick | kernel (polls, events, EXITED) | SysTick between any two statements, wrap of the clock, full queue |
| callback timers (sys/ctimer.c) | `ctimer_list`, `p`, `f` of each | set, reset, restart, stop; `ctimer_process` | event timers, kernel, callers | events that are stale when they arrive, nested contexts |
| real-time timer (sys/rtimer.c, MiddleWare/contiki/rtimer-arch.c) | `next_rtimer`, overflow count, compare register | set, run_next, interrupt | hardware timer | torn read of the time, lost compare |
| serial port (MiddleWare/devs/serial, lib/ringbuf.c, dev/serial-line.c) | two ring buffers, interrupt enable | writeb, interrupt, line reader | kernel | interrupt and process on one buffer |
| critical sections, SPI bus (MiddleWare/hal/CortexM3/hal_io_asm.asm, devs/spi) | saved interrupt mask, bus owner | enter, exit, select | radio, flash | nesting |
| radio driver (MiddleWare/net/at86rf23x_drv_ext.c) | transceiver state, pending flags | prepare, transmit, read, on, off, interrupt | RDC layer, kernel, SPI | interrupts that mean two things, bounded waits |
| flash and coffee (MiddleWare/fs/cfs-coffee-arch.c, Contiki/core/cfs) | the pages; a cache of files, descriptors, hints of the allocator | open, close, seek, read, write, remove, reserve, format; the collector | flash controller | a reset between or in the middle of flash writes; a cache and hints that must agree with a medium that says nothing but headers |
| MAC and RDC (net/mac) | sequence numbers, queues | send, input | radio, 6LoWPAN | duplicates, freed packets with pending timers |
| pools and lists (lib/list.c, lib/memb.c, net/queuebuf.c, net/packetbuf.c) | free maps, links | alloc, free, add, remove | all of net | limits, double free |
| 6LoWPAN (net/ipv6/sicslowpan.c) | one reassembly buffer | output, input | MAC, uIP | interleaved, repeated, late fragments |
| neighbours, routes (net/nbr-table.c, net/ipv6/uip-ds6*.c, uip-nd6.c) | tables sharing one index | add, remove, periodic | uIP, RPL | eviction of an entry in use |
| RPL (net/rpl) | DAG, parents, trickle timer | DIO, DAO, periodic | ctimer, uIP | rank and loop rules |
| TCP/IP process, UDP client (net/ip/tcpip.c, net/ipv6/uip6.c, User/udp-client.c) | connections | input, output, periodic | kernel, 6LoWPAN | a connection that outlives its process |
| hardware abstraction, runtime, shell | registers | register access, printing, parsing | - | no protocol state |

What makes each modelled part correct:

- *event queue*: first in, first out; nothing lost or doubled; refusal only when full.
- *kernel*: no poll is lost; the list and the process states agree; no thread is
  entered a second time; `process_current` is whoever runs; a broadcast reaches
  everyone who stays, once.
- *event timers*: whatever the interleaving with SysTick, an overdue timer is
  noticed and answered; its event goes to the process that set it, once per
  setting, and never to a process that is gone.
- *callback timers*: one callback per setting, in the context of the setter; none
  after a stop; none forgotten.
- *coffee*: the store is a map from names to contents, whatever is opened,
  extended, collected or cut short by a reset; extents never overlap; what is
  cached in memory is what the medium holds.
- *6LoWPAN*: what reaches IP is a packet as it was sent, once and in order.
- *serial line*: a reader finds one whole line in the shared buffer; nothing that
  was typed stays unread.
- *neighbours, routes, RPL*: the three tables that share the slots agree, routes
  and the default route lead to the neighbour they were made for, the preferred
  parent is never evicted, and the rank never becomes the root's.

The hazards behind these properties are listed with their lines under `hazards`
in `PROJECT.json`.

## 2. Modules

| Module | Models | Role |
|---|---|---|
| `BoundedFifo` | what a queue promises | abstract |
| `EventQueue` | the ring of process.c | implements `BoundedFifo` |
| `ProcessKernel` | process.c with an explicit call stack | |
| `TimerService` | what event timers promise | abstract |
| `EventTimer` | etimer.c, timer.c, SysTick | implements `TimerService` |
| `CallbackService` | what callback timers promise | abstract |
| `CallbackTimer` | ctimer.c on top of `TimerService` | implements `CallbackService` |
| `RingBuf` | ringbuf.c | operators |
| `SerialLine` | serial-line.c and its interrupt, on `EventQueue` and `RingBuf` | its queue implements `BoundedFifo` |
| `FileStore` | what a file system promises | abstract |
| `Coffee` | cfs-coffee.c, cfs-coffee-arch.c | implements `FileStore` |
| `DatagramService` | what IP expects of the layer below | abstract |
| `SixLowpan` | sicslowpan.c, nullrdc.c, mac-sequence.c | implements `DatagramService` |
| `NbrTable` | nbr-table.c | operators |
| `RplRouter` | uip-ds6-nbr.c, uip-ds6-route.c, uip-nd6.c, rpl-dag.c, rpl-mrhof.c, rpl-icmp6.c on `NbrTable` | |
| `MC...` | small instances for TLC | |
| `EventQueueProofs`, `ProcessKernelProofs`, `EventTimerProofs`, `CallbackTimerProofs`, `SerialLineProofs`, `CoffeeProofs`, `SixLowpanProofs`, `RplRouterProofs` | theorems and proofs about the module of that name | |

The layers fit together as the code does. `ProcessKernel` and `EventTimer` take
the event queue for a sequence, which `EventQueue` shows it is; `CallbackTimer`
takes its etimers for a `TimerService`, which `EventTimer` shows they are.
`SerialLine` extends `EventQueue` itself: its events go through the ring, with
its counters, and its theorem carries the refinement over to the composition.
`RplRouter` composes the neighbour cache, the routes and RPL over one
`NbrTable`.

### EventQueue

`events`, `nevents` and `fevent` are the statics of process.c; `current` stands
for the static `ev`, `data`, `receiver` of `do_event`, `full` for the last result
of `process_post`. `snum` keeps the two reductions of the code, to the width of
`process_num_events_t` and modulo the number of slots. `WidthAssumption` is what
makes the first of them harmless: `2 * NUMEVENTS <= 2^w + 1`, which 32 slots and
8 bits satisfy and 129 slots would not.

### ProcessKernel

Each C function that waits for another one to return is a frame of `stack` with
the locals it will still use: `do_poll` and `do_event` hold their list pointer,
`exit_process` its pointer and `old_current`, `process_post_synch` its `caller`,
and a *thread* is a process function that is being called. The walks move on
along whatever `next` is when the callee has returned, as the code does, so a
walk may stand on a process that has left the list. `isr_poll` may come between
any two steps. `From(p)`, what a walk that stands on `p` still meets, is the
least set that holds `p` and is closed under `next` (`Holds`). The ghost fields
`due`, `got`, `twice` and `told` record who a broadcast or an exit notice
reached.

`May` says what the code of each process may call; a thread makes at most
`MaxCalls` kernel calls per activation and no nested call with `MaxDepth` frames
on the stack. Test-and-clear of `poll_requested` and of `needspoll` is one step:
`process_poll` sets the flag of the process first, so an interrupt between the
two instructions of the kernel is seen as one that came before them.
`process_alloc_event` is left out, and so are posts of `PROCESS_EVENT_INIT` and
`PROCESS_EVENT_EXIT`, which nothing in the build makes.

### EventTimer

One thread with place `pc`, and `clock_tick`, which may come between any two
steps; steps are cut where the thread touches what SysTick shares with it.
`add_timer`, the two halves of `update_time` and each element of the scan are
steps of their own. `clock_time_t` counts modulo `CLOCK`; differences wrap, the
comparison in `OS_CPU_SysTickHandler` does not take that into account, and
`timer_expired` adds one before comparing, all as in the code. The list is a
set: the scan may meet its members in any order and `update_time` takes a
minimum.

Not in the model: the `current_seconds` count, and timers that are set while no
process runs (`p` would be `PROCESS_NONE` on the list; `main` sets none).
`etimer_reset` is called only after the timer expired, as all callers do.

### CallbackTimer

`timer`, `client` and `mail` are the variables of `TimerService`, here the
etimers of the ctimers and the event queue; `ctimer_list` and `p` are those of
ctimer.c, `calling` is the timer whose callback runs, with `process_current`
switched to its `p`. Users call the ctimer functions from their handlers and
from callbacks. `initialized` is always 1, since `main` calls `ctimer_init`
before anything sets a ctimer. Users do not exit in this module.

### RingBuf and SerialLine

`type` is the receive interrupt: `serial_line_input_byte` with its static
`overflow`, and the poll that it ends with; it may come between any two steps.
`pc` is where `serial_line_process` stands, `c`, `buf` and `ptr` are its static
variables, and `needspoll`, `process_run` and the deliveries are as much of the
kernel as this process meets: polls are served before each event, a broadcast is
given to one process after the other. The process broadcasts the *address* of
its line buffer, posts itself `PROCESS_EVENT_CONTINUE` behind it and does not
touch the buffer before that comes back. `handed` and `torn` record what the
readers found in the buffer when their event came. A character is known by the
line and the column where it was typed.

When the queue has no place for the second event, `process_post` says so and the
process goes on at once (serial-line.c:117), while readers may still have the
line to come. Such a reader is excused: one whose line is not followed by the
process's own event (`Waited`). `WaitsForAll` states what the comment at
serial-line.c:116 promises.

`type` types no line longer than the buffer; the code cuts longer ones off where
the buffer ends.

### FileStore and Coffee

A call is computed on a record of the flash image and the protected memory
(`files`, `fds`, `next_free`, `gc_wait`), in the order of the code, and leaves
the sequence of flash operations it made. `flash_step` then takes them one at a
time. `reset` may come between any two of them, and `MaxTears` times in the
middle of one: a page programmed in part, a sector erased in part. Within one
call nothing else runs, so splitting the medium's operations from the call's
computation loses no interleaving; a reset forgets the protected memory.

Whether a page is a header is nowhere on the medium: `next_file` jumps from
header to header, and `Chain` is what a search meets. A reset may leave data
where a search expects a header, pages that pass for free and are not, or both
extents of a file that was being extended. `mountable` records that; from there
the model goes on only with a format, because what the code does depends on the
bits of the data. Coffee has no recovery, and the repository does not promise
one.

The configuration is that of the build: no micro logs, extended wear levelling.
Data is counted in blocks of a page and the header fills a page of its own. The
size in bytes, where `cfs_seek` compares with the extent of the file without the
header (cfs-coffee.c:1064), is therefore not told apart from the extent.
`cfs_opendir` and `cfs_readdir` only read.

The walks of the medium (`Chain`, the count of a sector, the collector's and the
allocator's loops) are recursive functions of the page or sector they stand at.

The last sections of the module say what the code relies on without ensuring it
(`Disciplined`), in three parts:

- `EndsWithin`: no file ends beyond its pages for data. `cfs_seek`
  (cfs-coffee.c:1064) forgets that the header takes room in the extent.
- `RoomInCache`, when a call begins: a slot of the cache is not referred to, or
  nothing can need one. The build has 4 slots for 8 descriptors. When every cached
  file is open, `load_file` finds no slot (cfs-coffee.c:458) after `reserve` has
  written the header, or `find_file` takes a file it cannot load for a missing
  one, and the medium holds two headers of one name. `MCCoffeeFull` shows it: a
  file that cannot be extended leaves an empty twin, which is what is found after
  `cfs_remove`. `OneExtentEach`, which forbids it, is violated there too.
- `NoOverhang`, when a call begins: an obsolete extent whose header lies beside
  active pages does not reach into a sector without any. The collector erases the
  tail of such an extent and leaves the header (cfs-coffee.c:383); this is what
  `coffee_straddle` shows. Where extents are whole sectors it holds always. The
  build has sectors of four pages and gives a file opened by `cfs_open` two
  (`COFFEE_DYN_SIZE`, cfs-coffee-arch.h:76), so there it depends on what is removed
  when.

In the run `coffee` all states are `Disciplined`, which TLC has checked; the
instances of `coffee_straddle` and `MCCoffeeFull` leave it.

### DatagramService and SixLowpan

`output` starts a packet, `transmit` is one transmission of its current frame,
heard or not and acknowledged or not: the radio repeats a frame up to `Tries`
times, so the receiver may see copies, with frames of others in between.
`packet_input` is the duplicate filter (`mac_sequence_is_duplicate`,
`mac_sequence_register_seqno`) and one of the three ways through `input` of
sicslowpan.c: a whole packet, a fragment that is dropped, a fragment that is
copied. A piece in the buffer names the packet it comes from and its place
there. Lengths are counted as in the code, with no look at the offsets.

The filter keeps its entries as the code does: those before the sender's own
move down by one over it, or the last one is forgotten for a new sender.

Header compression, which is data, is left out; the queue of packets above the
sender too: one packet at a time, as with nullmac. `MaxPackets` bounds the
packets of all senders together, `Begun`; `arrived` and `mixed` are ghosts that
remember what was handed to IP.

### NbrTable and RplRouter

Each handler runs to its end in `tcpip_process` or in a callback timer, so a
step is a whole handler, and the functions it calls are operators from the state
before to the state after. All tables share the slots of nbr-table.c; adding to
one evicts the least used slot that is not locked and calls the callbacks of the
others (`Evict`), which call the neighbour cache, the routing table and RPL
again. A walk of the parents in the order of the keys, where each may be
nullified or removed on the way, is a recursive function (`EachParent`); the
items of the tables have their own types (`Neighbour`, `Parent`, `Route`,
`Router`).

`dio_input`, `dao_input`, `na_input`, `ns_input`, the link callback, the
periodic timer, the errors of `rpl_verify_header` and the outputs that add a
neighbour are the actions. Ranks are small numbers that saturate at
`INFINITE_RANK`, path metrics are sums of link metrics, and `MIN_DIFF` is the
hysteresis of MRHOF.

One DAG and one instance, and the node is not a root. Abstracted: route lifetimes
(`handle_periodic_timer` may drop any route), the states of unreachability
detection (any entry may be given up), a neighbour that stops being a router
(`na_input` removes its default router; `uip_ds6_defrt_periodic` may remove one at
any time), DIO versions (a DIO is of an older, the
current or a newer one). Left out: trickle timing, what the node itself sends, the
node's own addresses and prefixes. `via`, in a route, is a ghost that remembers
the neighbour the route was made for.

## 3. What the runs check

| Run | Shows |
|---|---|
| `timer_expiry` | two timers, intervals 0 and 2, a clock modulo 5 that wraps, other events in a queue of two: `NoLostExpiry`, `OverdueIsAnswered` |
| `timer_owner` | exits, adjustments, wrap: `ListedOwnersAlive`, and `EventTimer` refines `TimerService` |
| `callbacks` | two timers, two users, three places in the queue: `NeverForgotten`, `CallbackComes`, and `CallbackTimer` refines `CallbackService` |
| `kernel_ending` | three processes that post, poll, broadcast, pause, call each other and end, an interrupt that polls one: `NoLostPoll`, `EnteredOnce`, `ListedAreRunning`, `BroadcastOnce`, and `PollsAnswered` |
| `kernel_manage` | processes started late, made to exit by others and by themselves, restarted: `CurrentIsRunning` |
| `coffee` | two files, four sectors of two pages, resets between and in the middle of flash operations: `Coffee` refines `FileStore`; extents, names on the medium and in the cache, descriptors and the allocator's hints (`ExtentsApart`, `OneExtentEach`, `DescriptorsSound`, `HintsSound`); a flash operation touches one sector (`FlashIsLocal`) |
| `sixlowpan` | two senders, frames lost, repeated and interleaved: `CountedIsThere`, and `SixLowpan` refines `DatagramService` |
| `serial` | bytes by interrupt between any two steps, a ring that overflows, a queue of two places that others fill: `LinesIntact`, `AllIsRead`, and the events refine `BoundedFifo` (counters modulo 3, the tightest width the assumption allows) |
| `rpl_router` | a neighbour table of two slots, two routers and a host, two routes: `RoutesConsistent`, `DefaultIsParent`, `RoutesLead`, `PreferredStays` |

Three runs end in a violation; each is a disagreement between the code and what
a comment says of it:

| Run | Disagreement |
|---|---|
| `coffee_straddle` | extents that end in another sector than they start in: the collector erases the tail of an obsolete extent whose header stays, and a file allocated there is skipped by every search (cfs-coffee.c:383) |
| `rpl_unresolved` | neighbours without a link-layer address share one key: a route on it leads to whichever was added last (nbr-table.c:278) |
| `rpl_root` | a parent whose cache entry was removed and comes back has link metric zero: the child of a root takes the rank of the root (rpl-dag.c:594) |

**Other disagreements.** These have configurations too; TLC finds the property
violated:

| Configuration | Property | Disagreement |
|---|---|---|
| `MCKernelTold` | `AllToldOfExit` | a process in a synchronous call is not told of another one's exit (process.c:147 against its comment at 142) |
| `MCKernelExit` | `ListedAreRunning` | a process that calls `process_exit` for itself and then waits is off the list and in state running (process.c:196) |
| `MCKernelPause` | `PauseEnds` | `PROCESS_PAUSE` with a full queue never ends (process.h:222) |
| `MCEventTimerStaleWrap` | `NoLostExpiry` | exits leave `next_expiration` stale (etimer.c:91); with the comparison of contiki_clock.c:157 an expiry is lost at the wrap of the clock |
| `MCCoffeeFull` | `IsFileStore` | with every entry of the file cache in use, a file that is extended gets a second header, and `cfs_remove` (`Remove a file.`, cfs.h) uncovers it (cfs-coffee.c:458); `OneExtentEach` is violated as well |
| `MCCallbackEarly` | `CallbackIsDue` | a ctimer set again while the event of its earlier setting waits is called back early (ctimer.c:76). The UDP client does this: its backoff timer has the period of the timer whose handler sets it (User/udp-client.c:215) |

`MCEventTimerExit` (an exit with pending timers, no wrap: `NoLostExpiry` holds)
and `MCEventQueue` (the ring alone, five slots) end without an error. `WaitsForAll` of `SerialLine` is violated in the instance
of `serial`.

`timer_expiry` and `MCEventTimerExit` differ in what they leave out: an exit *and*
a wrap together are `MCEventTimerStaleWrap`. `etimer_adjust` occurs in
`timer_owner` only: `NoLostExpiry` does not hold with it, since it requests no
poll; the build does not call it.

**Met while reading**, without a run of their own: a torn erase or a reset during
`merge_log` can leave two extents of one name; a first fragment of the sender
whose packet is being reassembled is dropped until `REASS_MAXAGE` is over, where
the comment at sicslowpan.c:1668 says the earlier packet is discarded; a first
fragment that is too large is counted without starting a packet
(sicslowpan.c:1710); `dao_input` leaves a neighbour locked when no route can be
added (rpl-icmp6.c:770); a nullified parent may stay preferred until the next
selection (rpl-dag.c:1158); tcpip.c:624 returns without clearing `uip_len`;
uip-ds6-nbr.c:322 compares `nbr` with itself; `serial_writeb` sends 0xFF, what `ringbuf_get` returns of an empty ring, when
the transmit interrupt sends the byte and clears `transmitting` before the test
at stm32f1xx_serial.c:100.

**Bounds.** Two timers are needed for one to hide another in `next_expiration`;
three processes for a caller, an exiting process and a bystander. A clock of
five or six ticks goes round many times in a run, with deadlines on either side
of the wrap. Queues of one to three places fill and empty. `MaxLate` is the
number of ticks a listed timer may be overdue before its scan, a bound on the
main loop's latency; the clock stands still at that bound. `MaxCalls = 1`
still lets a process call again at its next activation.

*Coffee*: two names are one that is collected and one that must survive it; four
sectors of two pages hold an extent of two pages each, so extents are aligned
with sectors and the allocator must collect; `MaxLength = 2` makes a file
outgrow its extent and be merged into another one; `MaxSeek = 0` leaves of
`cfs_seek` the rewind; one torn operation is followed by any number of clean
resets. `coffee_straddle` has two sectors of
four pages and extents that are not aligned, which is the whole difference.
*SixLowpan*: packets of one, three and four pieces are one that is not
fragmented, one that just fits and one that does not; three packets of two
senders, two tries, a sequence number that wraps modulo 16 (every frame of a
packet still has a number of its own, as with 256), a timeout at any time.
`MAX_SEQNOS` is at least the number of senders; with more senders the filter
forgets one, and a late copy of its frame passes. *SerialLine*: six bytes are two lines with
a correction; a ring of four places overflows with the fourth. *RplRouter*:
with two slots the third neighbour always evicts one; two routes of three
targets always replace one. In `rpl_router` hosts and routers are different
neighbours; `rpl_unresolved` lifts that. `rpl_root` has the constants of
`rpl_router`.

Symmetry is used for names, senders and targets, which no definition tells
apart, and in no run with a liveness property.

**Fairness.** The thread never stops (`WF` of everything the main loop does).
`EventTimer`: the main loop comes round, and finds the queue empty now and
then if it ever does so again and again (`SF` of `process_run`), and
`OverdueIsAnswered` has that as its premise, because the code does not exclude
that a queue which is never empty starves a timer: timers are linked at the
head of the list, and each scan begins there. `CallbackTimer`: each round
delivers an event, time passes, and a due etimer that finds room again and
again is posted, which is `OverdueIsAnswered`; `CallbackComes` carries its
premise. `SerialLine`: `WF` of the thread and the kernel together. No fairness
is assumed of interrupts other than the clock's.

Deadlock is checked in all runs but two: in `serial` typing ends and in
`sixlowpan` the packets do, by their bounds.

## 4. What is proved

TLAPS checks these for every value of the constants that satisfies the
assumptions in the modules.

- `EventQueueProofs`: `TypeCorrect`; `RingIsFifo`, that `EventQueue` implements
  `BoundedFifo`. The lemmas are about one number: the slot of the i-th waiting
  event, `(fevent + i - 1) % NUMEVENTS`. `ModTwoRounds` replaces the remainder
  by one subtraction, `CastIsHarmless` removes the cast under `WidthAssumption`,
  and a post and a take then become `Append` and `Tail`.
- `EventTimerProofs`: `TypeCorrect`; `OwnersStayAlive`; `ImplementsTimerService`;
  and `ExpiryIsNotLost`, `NoLostExpiry` for systems without exits of timer
  owners and without adjustments. Its inductive invariant `IInv` is the argument
  why the code works: outside `update_time`, `next_expiration` is the exact
  first deadline unless some timer is overdue (`ExactWhenIdle`); what
  `update_time` is about to store was exact when it read the clock and has not
  been passed unnoticed (`TargetIsExact`); until it stores, the old value is no
  later than any deadline or a poll is on its way (`OldStillServes`); and no
  timer is so late that the clock has gone round (`OnTime`). An overdue timer is
  then noticed because the first deadline is met with equality by the tick that
  reaches it, so the comparison's disregard of wrapping does not matter.
  `Roles` and `ListedOwnersAlive` are inductive together.
- `CallbackTimerProofs`: `TypeCorrect`; `CallbacksAreNotForgotten`; and
  `ImplementsCallbackService`.
- `SerialLineProofs`: `SerialTypeCorrect`; `EventsStayFifo`, that the queue
  under the serial line, which its driver, its readers and others fill, still
  implements `BoundedFifo` (every step of the composition is a step of
  `EventQueue` or leaves it alone, and the lemmas of `RingIsFifo` do the rest);
  and `LinesStayIntact`, for rings, line buffers and event queues of every size.
  `LinesIntact` speaks of the moment a reader looks; `LineInv` of everything on
  the way. The bytes in the ring are keystrokes, each of which leads from one
  position of the typed text to the next (`Follows`; after an overflow, an end
  leads to the start of a later line, so what was skipped does not matter). The
  line buffer holds what leads to the position of the process, or an ended line
  that lies before it (`Edited`). The event the process waits for is in the
  queue once, directly behind the one of its line (`ContinueBehindLine`), so
  while a reader is owed the line the buffer is not written, and the lines it was
  handed before are earlier ones (`HandedBefore`). A refused event breaks the
  chain: the process may go on at once, and the readers that still have a line
  to come are those that `Waited` excuses.
- `ProcessKernelProofs`: `KernelTypeCorrect` and `CurrentIsAlwaysRunning`, with no
  assumption on `May`, `Boot` or the interrupts. `TypeOK` is not inductive: what
  a frame does with its pointer when its callee returns depends on the frame
  above it. The invariant `KernelInv` says of each frame that it is of one of the
  five kinds and holds a process where it will use one, and of each two
  neighbours that they fit: a thread that waits has above it the frame that will
  restore `process_current`, and that frame holds the thread's own process.
  `CurrentIsRunning` is inductive with that.
- `ProcessKernelProofs`, second part: `PollsAreNotLost`, `NoLostPoll` for systems in which
  processes are started by `main` only, each once (`OnlyBoot`). Three parts are
  inductive together: the list has no cycles (`Acyclic`); a process with its flag
  set is announced by `poll_requested` or is ahead of a `do_poll` on the stack
  (`Polled`), along `next` as it is now, so each change of the list has a lemma
  that says what it does to what lies ahead of a walk; and a process that was
  not started has no flag (`BootInv`). `OnlyBoot` is needed for the last:
  `needspoll` survives an exit, so a process that is started again comes to the
  list with a flag that nobody announced. `kernel_ending` is a system of
  this kind.
- `ProcessKernelProofs`, third part: `ThreadsAreEnteredOnce` and `ListedProcessesRun`,
  if nobody calls `process_exit` (`NoExits`: processes end by themselves, and
  may be started again, by anyone). Along the ways of `next` nobody is met again
  behind himself, not even from a process that has left the list (`NeverRound`);
  who is on the list and not running has a frame on the stack (`Busy`); a walk
  of `do_poll` has at most the process it called above it (`Ridden`) and never
  leaves the list (no frame is `Astray`); each process has one frame at most, on
  the list, and its state is the one the frame tells (`Seated`). `NoExits` is
  needed: a process that is made to exit while it waits for a callee gets its
  exit event inside its own call, and its state is set to running when that
  call returns (process.c:196), off the list; `MCKernelExit` shows it.
  `BroadcastsReachAllOnce` allows all exits, but starts by `main` only
  (`NoStarts`): of those who were on the list when a broadcast began and still
  are, each has been called or is ahead of the walk, and nobody is both
  (`Served`). `NoStarts` is needed because a process that exits under the walk
  and is started again is linked at the head, with the walk on it.
- `CoffeeProofs`: `CoffeeTypeCorrect`, `ExtentsStayApart`, `NamesStayUnique`,
  `DescriptorsStaySound`, `HintsStaySound`, `FlashStaysLocal` and
  `ImplementsFileStore`, each of the form `Spec /\ []Disciplined => ...`. Of the
  constants nothing is assumed but that they are numbers: sectors, extents, cache
  and descriptor table may have any size, also those of the build, with extents
  that straddle sectors, and any number of flash operations may be torn.

  The difficulty is that what a search finds depends on every page it crosses,
  and a call searches a medium that it is changing itself. `Laid` is the answer:
  no header lies in the extent of another. On such a medium a search that stands
  on a page which no extent goes over (`Uncovered`) comes to another such page
  next, whatever the data in the extents says; when these pages are also `Clear`,
  a search meets every active header and no other (`SearchMeets`), so `Extents`
  and the collector's counts can be read off the pages without the walk
  (`ExtentsActive`). A collection goes sector by sector, with part of an extent
  that it has isolated or must still skip; `Stage` is the medium on the way,
  `Partial` the memory, and `Collected` is where it ends. This is where
  `NoOverhang` is needed.

  There is one lemma for each function of the code. `Leads(m, ops, fl)`
  says that the flash operations `ops` take the medium `m` to `fl` and that *every
  medium on the way is laid*; it is what makes a reset between two of them
  harmless. A torn operation leaves some pages of its sector as they were, which
  keeps `Laid` but perhaps not that searches meet headers only, and then the medium
  is no longer `mountable`. `FileStore` says nothing of a call that was interrupted;
  what stays is the matter of `FlashIsLocal`. `CoffeeInv` says of the memory and of the medium with all pending
  operations done (`Shadow`): the types, `Leads`, the hints (`HintsGood`), that
  each cached file is an active extent with its exact count of references and an
  end that covers its data (`FilesGood`), and that while `mountable` no search
  meets data and no name has two extents (`Mountable`). `OneExtentEach` and
  `HintsSound` are not inductive by themselves: that a name stands in one slot
  follows from its standing on the medium once, and `gc_wait` from there being no
  sector that a collection would erase.

  `Disciplined` speaks of the calls made so far and not of the constants, and each
  part is needed where section 2 says: without `NoOverhang` `ExtentsApart` fails
  (`coffee_straddle`), without `RoomInCache` `OneExtentEach` and `IsFileStore`
  (`MCCoffeeFull`). Without `EndsWithin` the invariant fails: when a file whose end
  was put behind its pages is extended, what lies behind the extent, possibly a
  header, is copied into the new one as data. TLC found none of the properties
  violated by that. A firmware of this build keeps `EndsWithin` and `RoomInCache` by
  never seeking beyond what a file holds and never holding descriptors on four
  different files between two calls. `NoOverhang` it can only be sure of with
  extents that are whole sectors, that is with a `COFFEE_DYN_SIZE` of three pages,
  which the header makes four, and which extensions double.

  The run `coffee` is an instance of all this. Before the proof, TLC searched two
  larger instances with straddling extents for violations of the properties and of
  the parts of `CoffeeInv`, as far as the states were `Disciplined`: three sectors
  of three pages, seeks and a torn operation (4.0 million states, to depth 21), and
  four sectors of two pages with files of one and of three pages besides those of
  two (2.6 million, to depth 29). Neither search was exhaustive, and none found a
  violation.
- `SixLowpanProofs`: `SixTypeCorrect`, with no condition; `CountIsTrue` and
  `ImplementsDatagramService` under `Enough`: the filter remembers all senders
  (`Cardinality(Senders) <= MAX_SEQNOS`; the build has 16) and no tag comes round
  again (`MaxPackets < TAG_MOD`; tags have 16 bits). Without the first a late
  copy of a frame passes the filter and is counted again, without the second a
  reassembly that was left open can take pieces of a later packet for its own.
  The code counts lengths and does not look where the pieces lie, so the
  argument is about history: the frame on the air, once taken, is known to the
  filter (`Fresh` is its negation), what stands in the buffer was sent before
  (`BufferIsPast`), and so a piece that is counted is a piece that was not there.
  `Gathers` says which packet is being reassembled and that the count is the
  number of its pieces in place (`There`); it is told from others by its tag,
  which is the larger the later (`SendersSound`). A packet is handed over with
  the last of its frames and not before (`ArrivedIsPast`), from which each step
  is a step of `DatagramService` or changes nothing it sees.
- `RplRouterProofs`: `StaysGood`, and from it `RouterTypeCorrect`,
  `RoutesAndListsAgree`, `DefaultRouterIsParent`, `RoutesLeadToSenders` and
  `PreferredParentStays`, for tables of every size and all neighbours, messages
  and metrics. None of the five is inductive, nor are the tables without the
  DAG. `Good` is the conjunction of: every slot without a key is empty
  (`Allotted`); a neighbour stands at its own address or at none, a router at its
  own (`Addressed`), in one slot (`KnownOnce`); the lists of the neighbours are
  the routes seen from the other side (`Mirrored`); a parent is a router, in the
  cache while its rank is finite (`Parented`); the slot of a route is that of its
  sender (`Leading`); and, of the DAG, that there are parents only after joining
  (`Joined`), that the preferred parent is locked (`Held`), and that there is one
  default router at most, in the block `def_route` names, and it is the
  preferred parent (`Pointed`, `RoutedBy`). Inside a handler the default route may
  still be that of the parent before, so the lemmas about functions of RPL are
  about `Sound`, which leaves `RoutedBy` open, or name the slot it speaks of.
  There is one lemma for each function and what it keeps.
  The condition is `RoutersAreNoHosts`: no node that sends DIOs and DAOs is met
  first as the destination of a packet on the link. Then what a router sends
  makes its cache entry, with its address; otherwise the entry is unresolved, and
  all unresolved ones share a key. The condition is that of the run `rpl_router`;
  `rpl_unresolved` lifts it, and `RoutesLead` fails.
  The walks of the parents and `Only` are recursive functions. The library's
  induction theorems cannot be used, so `SetInduction`, for sets of naturals,
  is drawn from the well-foundedness of `<`.

TLC checked `Good` on all states of `rpl_router` before it was proved. `NoExits`
and `NoStarts` hold in the run `kernel_ending`, `Enough` in `sixlowpan`.

Only model-checked: liveness (`OverdueIsAnswered`, `CallbackComes`,
`PollsAnswered`, `AllIsRead`), since TLAPS has no `ENABLED`; and each property
outside the conditions named above.

## 5. Not modelled

- *radio driver*: right or wrong depends on the states of the transceiver, which
  only its data sheet describes. What the code shows by itself is in the hazards:
  `radio_isr_process` takes every end of a transfer for a reception, and one frame
  buffer serves both directions.
- *real-time timer*: nothing in the build sets one. The radio driver reads the
  time for its bounded waits (`BUSYWAIT_UNTIL`, at86rf23x_drv_ext.c:48), which only
  a model of the driver would see.
- *csma, queuebuf, packet queues*: the build is configured for nullmac.
- *critical sections and the SPI bus*: one saved word of assembly, used around
  transfers that no interrupt shares.
- *uip6.c, TCP and UDP connections*: parsing, and connections of which the
  firmware has one that is never closed.
- *header compression, formatting, the shell, the runtime, register access*: data.
- *trickle timing and what RPL sends*: times and counts that only matter to
  neighbours.
- *the transmit side of the serial port*: see above, stm32f1xx_serial.c:100; a
  model would need the interrupt controller's pending bits.
- Contiki's parts that the build leaves out (rime, ctk, loader, IPv4, other radio
  drivers) and vendored code (dlmalloc), which is most of the repository's lines.

## 6. Plan

1. Proofs: a form of `ExpiryIsNotLost` that allows exits while the clock does not
   wrap; `Coffee` with seeks that go beyond the pages of a file.
2. `SerialPort`: the send buffer with the transmit interrupt.
3. Exits of users in `CallbackTimer`.
4. Trickle timing with two nodes that hear each other; several DAGs.
5. Connections of exited processes (tcpip.c).
