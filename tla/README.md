# A TLA+ development of the radar simulator

The radar simulator replays synthetic radar video into a real radar display
chain. A desktop program (the *designer*, Kotlin/JavaFX) computes which range
cells of which antenna positions echo, writes them to two *hit files* and copies
them to a Zynq board. A Linux process on the board (the *server*, C++/Thrift)
loads the files into reserved memory, one block per antenna rotation, and gives
that memory to AXI DMA engines in cyclic mode. Logic in the FPGA (Verilog)
measures the radar's own signals (ARP, one pulse per rotation; ACP, one pulse
per azimuth step; TRIG, one per sweep) and plays the stream of slices in step
with them.

This directory holds TLA+ models of the parts where order and timing decide
whether the result is right, TLC configurations that check them on small
instances, and TLAPS proofs of all their safety properties for every instance.

Paths below: `SRV` is
`src/petalinux/project-spec/meta-user/recipes-apps/radar-sim-server/radar-sim-server/src`,
`KT` is `src/designer/src/main/kotlin/hr/franp/rsim`, `HDL` is `src/hw/hdl`.

## 1. Inventory

### AXI DMA driver: the BD ring (`SRV/xilinx/xaxidma_bdring.c`, `xaxidma_bd.c`)
*State.* Per channel, a ring of buffer descriptors (BDs) and four groups in it
(free, pre-work, hardware, post-work), each a head pointer and a counter; the
tail given to the engine; in memory, the descriptors with their control bits,
buffer address, link and completed bit.
*Operations.* Create, Alloc, UnAlloc, ToHw, FromHw, Free; the client writes the
descriptors between Alloc and ToHw. This copy of the vendor's driver is changed
for cyclic chains: ToHw moves the tail out of the ring (:1009-1011).
*Interaction.* Called by the server thread; the engine reads and completes
descriptors in the same memory at any moment.
*Hard.* Four borders moving around a ring with a single conditional wrap; the
engine runs concurrently; refused calls.
*Correct when* no BD is lost or in two groups, and only completed BDs come back.

### The server's use of a channel (`SRV/radar_simulator.cpp`, startDmaTransfer)
*State.* `firstTargetBdPtr`/`firstClutterBdPtr` and the ring. *Operations.* Each
`enable()` takes back completed BDs, allocates a chain, links it to a loop over
the map's blocks (one for clutter, four for targets) and commits it.
`stopDmaTransfer`, called by disable() and reset(), is empty.
*Hard.* The engine is never stopped, so it cycles over descriptors that are
taken back and described again; any of six driver calls may refuse.
*Correct when* the driver's contract is kept, every call ends, and the FPGA sees
one uninterrupted cycle of blocks.

### The map queue (`SRV/radar_simulator.cpp`, loadMap, loadNextTargetMap, loadNextClutterMap)
*State.* The block memory, `fromArpIdx`, the two load indices, the file streams,
the FPGA's rotation counter. *Operations.* loadMap resets and fills the queue;
the refresh thread, once a second, loads blocks ahead of the FPGA.
*Hard.* Unsigned differences of two counters one of which belongs to the
hardware; a counter read once and used for a whole pass; files that are shorter
than their header; restarts in the middle of everything.
*Correct when* in each rotation the block of that rotation is in its place, and
nothing that is still to be played is overwritten.

### The server process (`SRV/main.cpp`, `SRV/radar_simulator.cpp`)
*State.* The refresh thread and its handle, the enable/calibrated registers
(which outlive the process), the handler's pointers. *Operations.* enable,
disable, reset, loadMap, calibrate, flag toggles, getState; construction, signal
handler, destruction. *Interaction.* One RPC at a time (TSimpleServer), a refresh
thread created by enable() and joined by disable(), a signal handler that calls
reset() on top of either.
*Hard.* No lock anywhere; an exception in the thread ends the process; a crash
leaves the registers as they were.
*Correct when* the maps are touched by one thread at a time, a stop leaves no
thread behind, and the output is never on with nobody loading.

### The designer session (`KT/SimulatorController.kt`, `KT/helpers/ReconnectingThriftClient.kt`)
*State.* The connection, the lock, the operation under way. *Operations.* Launch
(kill old servers, start one, reset), startSimulation (disable, loadMap,
enable), stopSimulation, uploads; each call is repeated once after a lost
connection.
*Hard.* A call whose reply was lost is executed twice; the server may end between
any two calls; a TSocket without a time limit.
*Correct when* an operation is safe to repeat, and every call ends.

### The hit files (`KT/DesignerController.kt`, `KT/helpers.kt`)
*State.* Two files, a buffer as long as each, the `calculatingHits` flag.
*Operations.* computeScenario: ask whether to overwrite, size the file, collect
the hits in the buffer, write the header, spread each hit over the beam and the
impulse, write the position of every slice.
*Hard.* Offsets in Int arithmetic, files cut to what Int can address, an
exception at any hit, files of an earlier computation, the beam at north.
*Correct when* the file holds the echoes of the scenario where the server and
the FPGA look for them, and nothing else.

### The FPGA (`HDL`, wired in `src/hw/bd/design_1.tcl`)
*State.* Registers of the 100 MHz clock. `radar_statistics.v` counts ACPs per
turn and samples of each signal; `radar_sim_ctrl_axi.v` holds the enable bit, and
counts the ACPs of the run for the server; `radar_sim_target_axis.v` takes slices
off the DMA stream, which passes the engine's buffers, a width converter and a
FIFO of 16 slices, until the position field of the last one is the ACPs since the
ARP; `azimuth_signal_generator.v` sends that slice bit by bit, one for each
microsecond since the trigger; `clk_divider.v`, `edge_detect.v`, `mux_2_1.v` and the
generators are around them.
*Hard.* ARP and the ACP of north pass separate synchronizers; pulses are missed;
the server enables and disables at any clock; nothing rewinds the stream or
empties its buffers but the reset of the whole FPGA; the radar's trigger has any phase in the microsecond.
*Correct when* a turn plays one block, slice by slice under the antenna, the
server's counter never runs ahead of the stream, and the sample sent is that of
the microsecond.

### Not modelled
The designer's geometry (which hits a scenario has: floating point over scene
data), its JavaFX views, its mock server, the hardware test program (an earlier
copy of the server's handler behind a command line), the vendored driver's
initialisation and simple mode, the generated Thrift code, the Vivado and
PetaLinux parts (generated; `ps7_init*.c` alone is half of the repository's
lines). The list is in `PROJECT.json`, with the reason for each.

## 2. The plan and where it stands

| # | module | models | composes or refines | state |
|---|--------|--------|---------------------|-------|
| 1 | `BdRing` | the driver's ring and the engine | | done, proved |
| 2 | `DmaChannel` | startDmaTransfer on that ring, both channels | extends `BdRing`; implements `RingSpec` and `CyclicStream` (both proved) | done, proved |
| 3 | `MapQueue` | loader, file, memory, rotation counter, both maps | implements `BlockFifo` (proved) | done, proved |
| 4 | `Playback` | what the FPGA gets when nothing rewinds the stream or empties its buffers | extends `MapQueue`; its stream takes the actions of `BlockPerTurn` | done, proved |
| 5 | `SimServer` | calls, refresh thread, signals, crashes | | done, proved |
| 6 | `DesignerSession` | the client and its repeated calls | extends `SimServer` | done, proved |
| 7 | `RadarStatistics`, `CtrlAxi`, `TargetAxis` | three FPGA modules | | done |
| 8 | `Fpga` | the three under an antenna, a server and a stream | extends the three; implements `BlockPerTurn` (proved) | done, proved |
| 9 | `Video` | trigger, microsecond clock, sweep, trigger period | | done, proved |
| 10 | `HitFile` | computation of a hit file | what `MapQueue` reads | done, proved |

Left: nothing of this plan; section 6 says what is outside it.

## 3. The modules

### BdRing
A BD is its index. Each operation of the driver is one action: its guard is the
driver's checks, so an action is a call that succeeds. `AllocFails` and
`ToHwFails` are the refusals; a refusal that has already changed memory
(`ToHwRefusedLate`: ToHw clears the completed bits of the BDs it walks before it
notices a missing EOF) is an action too. `WholePackets` and `FromHwReturns` say
which number of BDs FromHw returns without repeating its loop. `HwTailAfter` is
the driver's change for cyclic chains; `HwTail += Separation` is arithmetic on a
descriptor pointer, so it adds descriptors, not bytes, which is why the constant
is compared with the ring's size. The engine is external: it completes its
descriptor and follows the link, whatever the groups say. `RingNext` is the most
general client: any call with any arguments, and writes to pre-work BDs only.

### DmaChannel, CyclicStream, MCDmaChannel
`DmaChannel` splits startDmaTransfer at its driver calls (`pc`), with the engine
between any two. `channel` is which of the two maps the behaviour is about, with
its number of `Blocks`. `first` is the handler's pointer member, which no constructor
sets: initially null or anything. `sizeOk` is whether BdSetLength accepts the
block size of this call (calibrate() may have changed it). `CyclicStream` is what
the FPGA is promised; the mapping is `on <- go` and `pos <- ` the buffer of the
engine's descriptor.

### MapQueue, BlockFifo
Indices are unsigned: below `Wrap` (2^32 in the code) and subtracted modulo it.
The contents of a block is the number of the file block it was read from, or
`Blank` (cleared) or `Torn` (partly read). `pc` is the loader, in the refresh
thread or inside loadMap; `rpc` is the RPC thread. The stream's failbit is `good`:
with it set the header reads as zero and `blockCount - 1` wraps, which
`BlockFilePos` follows. `Rotate` is the antenna. One module serves both maps
(`map`, with `BlkCnts`): loadNextClutterMap takes the same steps as
loadNextTargetMap on its own members. A queue that can load ahead implements
`BlockFifo`, a FIFO of the blocks of the file whose head is never missing while
the antenna turns.

### Playback, BlockPerTurn, MCPlayback
`slot` is the block of the memory the stream is really at. The software numbers
the rotations of a run from zero and loads rotation r into slot r modulo the
block count; the stream goes on where it was. How it moves is not assumed here
but taken from `BlockPerTurn`, the abstract stream that `Fpga` is proved to
implement: its `Turn` happens with each rotation, its `Stop` with each stop of a run
(the rest of the block under way is lost, or it has not been begun).

Between memory and the front end a slice waits in buffers: those of the DMA
engine, the width converter, and the AXIS FIFO, 6144 bytes or 16 slices of 384
(`design_1.tcl:182-201`). disable(), reset() and loadMap() leave them as they are,
and the front end looks only at the position of a slice. So what is played was
read from memory earlier, perhaps in an earlier run. The buffers hold less than a
block. The model therefore follows one slice of each block, any one: `piece` is
what was read of the block in `slot`, `ahead` of the block after it, `Unread` says
that the slice is still in memory. `early` is whether it is one of the first of
its block, which the buffers hold already when the block before it ends. `Fetch`
and `FetchAhead` are the engine's reads: a first slice is read as soon as there is
room, the output being on or not; any other only when the stream has come near
it. After a stop the next run throws away what is left of a block begun and keeps
what the buffers hold of the block after it (`PlayStop`). No step empties them.
Which slice is followed is free, so a property of `piece` is one of every slice.

All of MapQueue's properties are checked in this composition, and `PlaysExpected`
is about the memory, `FirstRunInStep` and `PlaysNearby` about what is played too. The rotation that `Playback`
counts is the server's; it differs from the FPGA's turns by what
`RotationFollows` of `Fpga` says.

### SimServer
`rpc` is where the call is, `thr` where the refresh thread is. Calls are split
where another thread, a signal or the hardware can see the difference: the write
of the register, the join, the creation of the thread and the assignment of its
handle, the clearing and the filling of the maps. `settled` and `loaded` are
history: has this process stopped or started the simulator, have the maps been
loaded since they were cleared. `Kill`, an exception that leaves the refresh
thread, and a join inside a join end the process and keep the registers; `Boot`
starts the next one. The handler of SIGINT/SIGTERM runs on top of the call it
interrupts and never returns to it.

### DesignerSession
Extends `SimServer` with the designer. `plan` is what is left of the operation
under the controller's lock, `asked` the call it waits for, `queue` the calls the
server has been sent and not yet read (the server reads connections one after
the other, so a call sent on a lost connection is still served, before its
repetition). A reply reaches the designer only if it answers the last call sent.

### RadarStatistics, CtrlAxi, TargetAxis, Fpga
One step of `Fpga` is one edge of the clock. The three modules are their Verilog
`always` blocks as operators on the pulses of that edge (`StatClock`,
`CtrlClock`, `AxisClock`: nonblocking assignments become primed variables);
`Registers` wires them as `design_1.tcl` does. Around them stand the antenna
(`angle`, missed pulses, an ARP in the clock of the ACP of north or after it), the
server (writes of the enable bit at any clock) and the stream (slices, an empty
FIFO, any starting position). `first` and `turn` are history: the slice the run
began at, and the ARPs since. The mapping to `BlockPerTurn` takes a run to last
until the clock after the enable bit fell (`Handing`), in which one more slice
may be taken and lost; between runs the block is the one that the next run will
begin with (`StartBlock`).

### Video
The two dividers, the two edge detectors and the generator's sample counter,
with the trigger's phase free. The trigger is the built-in one (`TRIG_SEL`) or the
radar's, whose period may be staggered (`RadarPeriods`, a new one each time).
`trig_us_tmp` and `trig_us_max` are the period measurement of
`radar_statistics.v`; `sinceTrig` and `longest` are history.

### HitFile
A file is the set of its bits, each a byte and a bit in it. `duration` is the whole
rotations of a scenario. Its seconds are hardly ever that many rotations (the
period is measured): its hits are computed as long as the time lasts, so
`LastAcpIdx` goes through the rotation begun last, for which the file has no
room. `Compute` to
`AddIndex` are the phases of computeScenario, with one step for each hit written
and each hit spread: any of them may throw and end the computation. `AsInt` is
the 32-bit arithmetic of the offsets. `kind` is which of the two files it is.

### Proof modules
`BdRing_proofs`, `DmaChannel_proofs`, `Fpga_proofs`, `Video_proofs` and
`HitFile_proofs` extend the module they are about; `MapQueue_proofs` is about
`MapQueue` and about `Playback`, which extends it, and `SimServer_proofs` about
`SimServer` and `DesignerSession` in the same way. `CircularSlots` has the
arithmetic they share: division with remainder, and slots of a circular buffer. The
operators named "Mutant of ..." in the modules are plausible mistakes in the
code; `PROJECT.json` says which property each of them breaks in which run, which
shows that the property depends on the code.

## 4. The runs

| run | configuration | asks | states |
|-----|---------------|------|--------|
| `ring` | `BdRing.cfg`, ring of 3 | `RingTypeOK`, `RingPartition`, `PostCompleted` for every client | 868 k |
| `channel` | `DmaChannel.cfg` with `MCDmaChannel`, chains of 4 and of 2 in a ring of 12 | `KeepsContract`, `CommitAccepted`, `CyclicTail`, `StreamSpec`, `CallReturns` | 7.5 k |
| `playback` | `Playback.cfg` with `MCPlayback`, queues of 3 and of 1, and a slice in the buffers | `PlaysExpected`, `OverwritesOnlyPlayed`, `FirstRunInStep`, `PlaysNearby`, `FifoSpec`, `RotationServed`, `CallsReturn` with calls in any order, whole and short files | 387 k |
| `server` | `SimServer.cfg` | `MapsUnshared`, `StoppedMeansStopped`, `OutputIsServed`, `ExitsSwitchedOff`, `StopReturns` | 736 |
| `session` | `DesignerSession.cfg`, 3 losses | `RefreshNeverThrows`, `StartsOnLoadedMaps`, `StartsFromOff`, `AnsweredUnlessLost` | 9.4 k |
| `fpga` | `Fpga.cfg`, 4 ACPs to a turn, 3 blocks | `CalibratedCount`, `PlaysBlockOfTurn`, `Settled`, `RotationFollows`, `MovesOnAfterLastSlice`, `TurnSpec`, `MeasuresTheAntenna`, `ComesToPlay` | 182 k |
| `video` | `Video.cfg`, triggers of 9, 14, 23 and 20 clocks, 5 to a microsecond | `RangeAccurate`, `SweepEnds`, `PeriodAccurate` | 5.3 k |
| `hitfile` | `HitFile.cfg`, two computations of up to two hits | `HoldsTheScenario`, `FileServes`, `FailsOnlyBeyondInt` | 744 k |
| `old_freed`, `restarted_playback`, `repeated_enable`, `declined_overwrite` | see section 7 | one claim of a comment or a dialog each, which TLC refutes | |

What they show:

* **The driver and its client.** No sequence of driver calls, in any order and
  with any arguments, loses a BD. startDmaTransfer is a legal client, its chains
  are never refused when it holds exactly what it allocated, it always ends, and
  although it rewrites descriptors under a running engine the blocks reach the
  FPGA in order without a gap. That last fact is a consequence of the never
  stopped engine and of chain sizes that divide the ring (`ChainsAlign`): every
  chain is aligned, so a descriptor always gets the block it had.
* **The queue.** A client that loads before it enables finds in every rotation the
  block of that rotation in its place (targets), or of that rotation or the one
  before (clutter, which has nothing to load ahead into). Whatever the client, the
  file and the timing, no block is overwritten before its rotation is over.
* **What is played.** The first run plays what was loaded for each rotation,
  although slices are read ahead of it. A run after one that was stopped in the
  middle is shifted by up to a queue (section 7), and plays slices of its own
  run, with one exception: in its first rotation, the slices at the beginning
  of the block that the buffers have kept from the run before (`PlaysNearby`
  allows just those, and TLC finds behaviours with them).
* **The process.** With signals, kills and restarts at every point: the maps have
  one owner, a stop is complete, the output is not on unserved between calls.
  `OutputIsServed` needs `settled`: after a SIGKILL the register stays set and a
  new process is on without a thread until its first call; `StartsFromOff` shows
  that the designer's first call, reset(), repairs that.
* **The session.** Lost replies and repeated calls do no harm to disable and
  loadMap; only enable is not repeatable (section 7).
* **The FPGA.** With pulses missed and the register written at any clock, each
  turn plays slices of one block and only the slice under the antenna; the count
  given to the server (and divided by) is zero or right, and right whenever the
  output is on; the server's rotation is never ahead of the stream, and its ACPs
  are behind those of the antenna only by the ones missed in the run. Stopped at
  any clock and slice, the stream goes on in the block of that turn or the next
  (`TurnSpec`), which is what `Playback` builds on.
* **The video.** The sample sent is that of the microseconds since the trigger,
  to less than one, and the reported period that of the longest interval.
* **The hit files.** A finished file holds the echoes at their slices and times
  and whole rotations, never more than its header says. Hits beyond its end are
  left out; only one whose offset is beyond an Int fails the computation, and it
  fails instead of writing elsewhere. Clutter never fails, nor does a scenario
  whose begun rotation would fit as well; one whose whole rotations just fit may
  fail by a hit of the begun one.

### Bounds
* Ring of 3 for an arbitrary client: enough for three groups to be nonempty at
  once and every border to wrap; the proofs cover every size. Ring of 12 for the
  channels (three chains of four, six of two; 64 / 4 = 16 in the code): enough
  for the ring to run out and for an allocation to wrap. A larger ring would show
  nothing new, since each start allocates one chain and frees only the engine's.
* The target queue has 3 blocks (4 in the code) with a lag of 2, which leaves room
  for blocks already played, still to be played and being read ahead.
  `MaxArp` (rotations in one run) is 4: the index wraps around the memory, and the
  file of four blocks ends. `Wrap` is 64 so that the
  *difference* of two counters can wrap around as at 2^32; the counters themselves
  do not reach `Wrap`: at one rotation every few seconds 2^32 takes centuries.
  The file has its four blocks or only two of them.
* `Positions` are the second block and a position beyond the file; from the
  second block a run comes to the end of the file earlier than from the first.
* `MaxLost` (connections lost) is 3: enough for a loss in each of two operations
  and for a repeated call to be lost.
* `Fpga`: a turn of 4 ACPs and 3 blocks distinguish every case of "slice before,
  at and after the antenna" and "block before, now and after"; up to
  two pulses are missed in each turn; two turns in a run. `Samples` (7 in the code)
  is 2, so that calibration takes several turns; counters stay at the first value
  that is enough. What is proved covers every turn, stream and run.
* `Video`: 5 clocks to a microsecond (100) and triggers of 9, 14 and 23, whose
  residues reach every phase; a slice of 3 samples is shorter and longer than the
  sweeps. What is proved covers every divider.
* `HitFile`: `MaxInt` is 31 bytes, so that two rotations of 12 bytes fit with the
  header: a scenario of 1 fits with its begun rotation, one of 2 fits exactly but
  its begun rotation does not, one of 3 is cut off; offsets of the latter two
  overflow; hits fall in the reserved bytes, beyond them and at the
  end of a slice; two hits may overlap; two computations show what the first
  leaves to the second.

### Timing assumptions
* `MaxLags` in `MapQueue` bounds the rotations between the start of one refresh
  and the end of the next (a second of sleep and the reads). In the run it is
  2 for the target queue, one less than its blocks, and 1 for clutter; the proofs
  are for every lag. What is read ahead of its rotation is bounded in the same way
  (`FetchAhead`: a refresh that is due has come before the buffers reach into a
  block that it should have loaded). The code assumes it
  silently: it sleeps a second and counts on an antenna that takes seconds per
  rotation. Without it the queue drains, the unsigned difference wraps, the
  loader takes the empty queue for a full one ("early exit for full queue",
  `radar_simulator.cpp:596`) and loads nothing for the rest of the run.
  `OverwritesOnlyPlayed` needs no such assumption, and is proved without.
* `Gap` in `Fpga`: between two pulses of the antenna the stream has had enough
  clocks to skip to the slice under the antenna: two for each slice of a turn
  (`AntennaAssumption`), 8192 of them at 10 ns where an ACP takes a millisecond or
  so.
* `Jitter = FALSE`: on one antenna the ARP always comes in the clock of the ACP of
  north, or always after it. The two edges pass separate synchronizers; if their
  order could change from turn to turn, a turn would be counted with one ACP too
  many and the maximum would keep that count: `CalibratedCount` fails with
  `Jitter = TRUE`. The built-in generators (dividers 146484 and 1200000000, not
  multiples of each other) drift in just that way.
* `MaxMissed`, the ACPs missed in one turn, is below N - 1, so that a turn has two
  at least and the front end leaves the block of the turn before; `MaxLost`, the
  ACPs missed before calibration, is below `Samples`, so that some turn until then
  is counted in full (`AntennaAssumption`). After calibration any number may be
  missed in all.

### Fairness
* `DmaChannel`: weak fairness of the call's own steps. It contains no wait.
* `MapQueue`/`Playback`, `SimServer`: weak fairness of the refresh thread (the
  kernel runs it, its sleep ends) and of the RPC thread where it can go on. A
  join can only go on when the thread has ended, so its fairness promises nothing
  by itself.
* `DesignerSession`: the same, and the designer's thread runs and notices that
  the connection to a server that has ended is broken.
* `Fpga`: `StreamFlows` (the clock runs and the FIFO offers slices: the DMA is
  cyclic and never stops; the radar transmits) and `AntennaTurns` (the radar's
  antenna turns, and does not go unseen for ever). These are the hardware the
  simulator is built for: without a radar nothing is ever measured or played.
* Never assumed: that a client calls, that the antenna turns during a run of
  `Playback`, that the radar's signals are measured in `SimServer`, that anyone
  restarts the server, that the engine moves. A server that waits for a
  calibration that never comes is therefore left out of `StopReturns`, which
  speaks of the calls that stop.

Deadlock is checked in every run but the two of `HitFile`, where nobody is obliged
to compute again.

## 5. What is proved

All proofs are for every value of the constants that satisfies the named
assumptions: `RingAssumption` (a nonempty ring not larger than what ToHw adds to
the tail), `BlockAssumption` (at least one block), `ChainsAlign` (the length of a
chain divides the ring, as 2 and 4 divide 64; only `ChannelStreams` needs it),
`QueueAssumption` (counters stay below `Wrap`), `LossAssumption` (`MaxLost` is a
number), `VideoAssumption` (dividers of more than two), `SamplesAssumption`,
`FpgaAssumption` and `AntennaAssumption` (section 4), `HitFileAssumption` and
`ScenarioAssumption` (below). The theorems about `Fpga` have the hypothesis
`~Jitter` (section 4), without which they are false.

* **BdRing.** The invariant is `Borders`: types and the equations that chain the
  four heads. `RingTypeOK` alone is not inductive: that Free or FromHw leave the
  counters within the ring follows from their sum. `RingTypeCorrect` and
  `RingPartitioned` follow. `ReturnedBdsCompleted` adds that groups are disjoint
  (`GroupsDisjoint`): ToHw clears completed bits only of pre-work BDs, so those
  of the post-work group survive.
* **DmaChannel.** `ChannelInv`, `Borders` and `Locals`: while startDmaTransfer
  describes a chain, that chain is the end of the pre-work group. Hence each
  write goes to a BD it holds and each step is a step of `RingSpec` or leaves the
  ring alone: `ChannelKeepsContract`, a refinement, from which the ring's theorems
  hold of the channel (`ChannelRingPartitioned`, `ChannelPostCompleted`).
  `ChainInv` adds the marks and lengths of the BDs described so far (`Marks`):
  from it ToHw's walk over the chain finds nothing to refuse (`ChainsAccepted`).
  `TailOutsideRing` is the separation of the tail, for every ring.
  `ChannelStreams` is the refinement of `CyclicStream`. Its invariant has three
  parts. `Places`: a descriptor has the same place in every chain it is ever part
  of, so whatever has been written into it is what will be written again.
  `Aligned`: the free group and the chain being described begin at a multiple of
  the chain's length. `OnLoop`: the engine is in a chain described to its end.
  Then a descriptor that has a buffer keeps it (`Kept`), under any number of
  starts, and the engine reads the next place of the same loop. `OnLoop` also
  says that only the chain at the beginning of the ring can set the engine off:
  after a first call that raised, the pre-work group begins with a stranded chain
  and no later one is accepted.
* **MapQueue.** `Inv` is the types and `LoaderBehind`: the loader's copy of the
  rotation counter is never ahead of the counter during a run, and at most `age`
  behind, and no call is under way then. It gives `MapQueueTypes` and
  `UnplayedNeverOverwritten`. `LiveInv`, for a run that was loaded, is `Window`
  (the last BlkCnt rotations served are in their slots), `Failed` (a failed
  stream has met the end of the file), `Ahead` (at most a queue ahead of the
  FPGA) and `Filled` (the last pass filled the queue): together `QueueInPlace`,
  for every size of the queue and every lag below (or equal to) it, and `QueueIsFifo`, the refinement of `BlockFifo`. The arithmetic
  of slots is in `SlotsDiffer` and `SlotsRepeat` of `CircularSlots`: rotations less than a queue
  apart have different slots, a queue apart the same.
* **Playback.** PlaySpec implies MapQueue's steps, so its invariants carry over.
  `InStep` says that until a run is interrupted `slot` is the rotation modulo the
  queue. `Buffers` says when a slice can have been read at all, and that one read
  ahead is an early one. `FirstPieces` says of the first run that the slices read
  are those of their rotations: a block is not written between the reading of its
  slice and its rotation (`ReadInFirstRun`). `FirstRunsInStep` follows.
  `LaterRunsNearby` needs nothing of the slot: whatever slot the stream is at,
  `Window` says what is in it (`SlotOfThisRun`), and `NearPieces` that what was
  read in this run was so then and is not further away now.
* **SimServer.** The invariant adds to the types which call is where (`Places`),
  who refers to the refresh thread (`Handle`) and what the register must be on
  the way (`Register`); from it `ServerTypes`, `MapsNeverShared`, `StopIsComplete`,
  `OutputAlwaysServed`, `SignalSwitchesOff`. The model has no constants: the
  theorem's gain over the run is the inductive invariant, which the modules that
  extend `SimServer` use.
* **DesignerSession.** `SInv` adds to the invariant of `SimServer` what may be in
  the queue of calls. `Asking`: the designer waits for the first call of its plan.
  `Waiting`: that call is the last one in the queue or the one being served.
  `EnableLast`: an enable() that is asked for, about to be, or still in the queue
  has only other ones before it, and the maps are loaded; it is sent when
  everything before it was answered, so no late disable() or loadMap() can come
  between. `FromFiles`: loaded maps came from files that exist, in a process that
  has stopped once. `StartsLoaded`, `RefreshFindsFiles` and `StartsSwitchedOff`
  follow, for any number of lost connections.
* **Fpga.** The invariant is `FInv`, of three parts. `CountInv` ties the ACP count
  of `radar_statistics.v`, its maximum and the position counter of the front end to
  the angle of the antenna: each lacks at most what was missed. Its part `Counting`
  carries the argument for calibration: as long as the maximum falls short of N,
  every turn so far has cost an ACP, so with fewer lost than samples taken one
  turn was counted in full. `RunCount` is the server's counter: the ACPs of the run
  and those missed make up `turn * N` and the angle. `InStep` puts the stream
  against the antenna. It numbers slices on and on instead of modulo the stream, by a
  witness `L`, because only so "the bank is less than a block behind the antenna
  and never ahead of it" can be said; and it counts the clocks: what is still to be
  skipped, two clocks to a slice, fits into what is left of `Gap`. Without
  that part the invariant is not inductive, since at the ARP the front end must be
  at the last slices to know the block is over. `CountCalibrated`, `StreamSettles`,
  `OneBlockATurn`, `ServerFollows` and `LastSliceFirst` follow, with the division
  lemmas of `CircularSlots`. `PlaysByTurns` is the refinement of `BlockPerTurn`. It
  needs one more part, `Ended`: ready is only ever asserted in a run or the clock
  after it, and in that clock the stream is still where `InStep` had it. From the
  bounds of `InStep` a run stopped in block b leaves the stream at a slice whose
  `StartBlock` is b or b + 1 (`StopsIn`).
* **Video.** `VInv` relates the sample counter, the microsecond divider's
  position and the clocks since the trigger, through the two clocks of the edge
  detector: `SampleOfTheMicrosecond` and `SilentAfterSweep`, for every divider,
  slice length and trigger. `PInv` adds the period: the count of microseconds
  against the clocks since the trigger (`InPeriod`), and the stored maximum, which
  is a clock late, against the longest interval (`Stored`); hence `PeriodMeasured`.
* **HitFile.** `HInv` says of a computation that the buffer has exactly the hits
  that lie in the file (`Buffer`, `Collecting`), that each hit which has left it
  has its whole response in the file and everything new in the file is an echo
  (`Spreading`), and that header and position fields are clean (`Clean`). The
  lemmas under it are about the Int arithmetic: an offset of less than twice
  `MaxInt` comes out right or negative (`Place`), so writeHit sets the bit, returns,
  or throws (`Lands`); spreadHits reads slice and time back from a bit
  ((`ReadBack`), and no two hits share one (`SameBit`); the response of a hit in the
  file cannot throw (`Responds`). `ScenarioHeld`, `FileServed` and
  `FailureMeansOverflow` follow. `ScenarioAssumption` names the sizes they hold for:
  with the default radar (4096 slices of 384 bytes) a file has room for 1365
  rotations, the division leaves 524267 bytes, the beam behind the last slice needs
  15 slices, 5760 bytes, and scenarios may last 2729 whole rotations and one begun.
  So a scenario of 1364 rotations and some is safe, and one of 1365 and some fails
  as soon as it has a hit in the last two thirds of the begun rotation. Where the division
  happens to leave less than the beam, spreading the hits of the last slices would
  throw.

**Only model-checked:** everything under fairness (`CallReturns`, `CallsReturn`,
`RotationServed`, `StopReturns`, `AnsweredUnlessLost`, `MeasuresTheAntenna`,
`ComesToPlay`), which is out of the prover's reach (liveness and ENABLED). Every
invariant, action property and refinement that a passing run checks is also a
theorem.

## 6. What the models leave out

* Bytes of blocks beyond those named; status words of descriptors.
* The two channels and the two maps are modelled one at a time: they share no
  state except the enable register and `fromArpIdx`.
* The MTI and NORM switches and getState: single accesses to a register. In the
  FPGA the AXI handshake (a write takes effect at one clock), the ARP and ACP
  periods (measured like the trigger's), the ACP and ARP generators (dividers,
  like the trigger's), RST and RECAL, which nothing sets.
* 32-bit counters of the FPGA that wrap (sample counts after months: CALIBRATED
  then falls for some samples) and a missed ARP, after which the position counter
  stays at its limit until the next one.
* calibrate()'s change of the block size under a running loader. `SimServer` has
  calibrate() as a wait: its write to the read-only status register changes
  nothing. That designer, server and FPGA have the same N is assumed where
  modules meet.
* Geometry: any hit is a hit of some scenario. Scenarios of more than 2^32 bytes,
  where offsets come out positive again, and the heap that holds the buffer.
* The buffers of the stream across a restart of the server: the constructor resets
  the DMA engines, which begin again at block 0, and not the FIFO, so slices of
  the process before come ahead of block 0, and a part of a slice left in the width
  converter would shift all that follow. `Playback` is about the first process
  after the FPGA's reset, which finds the buffers empty.
* Memory ordering between processor and engine: the driver's cache flushes and
  barriers are taken to work.
* A second server started while the first is alive (the designer kills old
  servers first), and hit files replaced while the server reads them.

## 7. Where comments and code part

Each of these is a run that TLC ends with a counterexample.

* `old_freed` — "free old BDs" (`radar_simulator.cpp:104`). Only the chain the
  engine is on is ever completed. The chains of later starts are never freed, and
  Alloc fails when the ring is used up, after which the server must be restarted.
* `restarted_playback` — "block index to write (circular buffer) with 0 being the
  starting ARP" (`radar_simulator.cpp:620`). stopDmaTransfer is empty: the stream
  of the next run goes on in the block after the one it was stopped in, while
  loadMap starts at block 0. The whole run is shifted.
* `repeated_enable` — "attempts a reconnect and tries the method again"
  (`ReconnectingThriftClient.kt:14-15`). A repeated enable() joins a refresh
  thread that loops while the output is on, in the only thread that could switch
  it off: server and designer wait for ever.
* `declined_overwrite` — "Are you sure you want to overwrite the generated
  simulation files?" (`DesignerController.kt:218`). After a "no" the computation
  goes on all the same and ORs the new scenario into the old files.

Noted in passing, without a run of their own: the comment at
`DesignerController.kt:298` has the number of rotations decreased to what a file
can hold; the file is, but the hits are still computed for the whole time, and
those whose offset overflows end the computation, even when only the begun
rotation is too much (`FailsOnlyBeyondInt` allows just that case); the slices that
the FIFO keeps are played in the first rotation of the next run, old ones though
the maps have been loaded anew; "normalize
(wrap around north) because clutter maps are repeating" (`helpers.kt:969`) holds of
the hits, while spreadHits cuts the beam off at north instead of continuing it;
the falling-edge output of `edge_detect.v` is computed as the rising one, and is
used nowhere.

## 8. Running it

    tlc -config Playback.cfg MCPlayback         (a run of section 4; PROJECT.json names its module)
    tlapm MapQueue_proofs.tla                   (and the other proof modules)

`playback` takes over two minutes, `fpga` one, `hitfile` and `ring` half of one;
the other runs a few seconds. Proofs take a few minutes in all.
