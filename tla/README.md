# A verification project for pa_nju

`pa_nju` is NEMU, an IA-32 emulator with a small kernel and a few games that run
on it.  This directory holds TLA+ models of its stateful parts, TLC runs that
check them on small instances, and TLAPS proofs of the properties that hold for
every instance.  The reference is the code; modules are translated from it, with
the names the code uses.

The configuration modelled is the one `src/include/config.h` selects:
segmentation, paging, interrupts, and the timer, serial, IDE, keyboard, VGA and
audio devices, with `PA_ONLINE`; `CACHE_ENABLED` and `TLB_ENABLED` are off.  Two
modules are about code another configuration compiles: `MemCache` and the TLB in
`Paging` are what those two switches turn on, and `Audio` is the sound card without
`PA_ONLINE`.

Contents: [inventory](#inventory), [plan](#plan), [modules](#modules-and-the-code),
[runs](#runs), [fairness](#fairness), [proofs](#proofs),
[findings](#what-the-runs-found), [observations](#observations-without-a-run),
[what is not modelled](#what-is-not-modelled).

## Inventory

Paths are relative to `src/`.

| Part | State | Operations | Touches |
|---|---|---|---|
| CPU loop (`nemu/src/cpu/cpu.c`) | `nemu_state`, `n`, `is_nemu_hlt`, registers | `exec`, `exec_inst`, `do_intr` | everything below, in turn |
| i8259 (`nemu/src/device/i8259_pic.c`) | one latched vector, `cpu.intr`, a mutex | raise, query, acknowledge, destroy | CPU thread and audio thread |
| interrupt entry (`nemu/src/cpu/intr.c`, `instr/iret.c`) | stack frames, IF | `raise_intr`, `iret` | the kernel's IDT |
| timer, keyboard (`nemu/src/device/dev`) | last poll, one scan code | polled by `do_devices` | i8259, `nemu_state` |
| audio (`dev/audio.c`) | heartbeat thread, or (without `PA_ONLINE`) a double buffer with two threads and mutexes | port writes, callback | i8259, SDL |
| disk device (`dev/ide.c`) | sector, byte count, direction, ports | command, data in and out | i8259, image file |
| VGA, serial | memory windows, ports | pixels and characters out | SDL |
| memory (`nemu/src/memory`) | `hw_mem`, page walk, optional cache and TLB | read, write by length | every access |
| monitor (`nemu/src/monitor`) | pool of breakpoints and watchpoints, the program's patched bytes | `b`, `w`, `d`, `c`, `si` | memory, CPU loop |
| ALU, FPU, decoder (`nemu/src/cpu`) | flags, register stack | one function per operation | registers |
| kernel disk driver (`kernel/src/driver/ide`) | 128-slot sector cache, interrupt flag, tick counter | `ide_read`, `ide_write`, `ide_intr`, `ide_writeback` | disk device, interrupts |
| kernel interrupts, syscalls (`kernel/src/irq`, `syscall`) | lists of handlers | `add_irq_handle`, `irq_handle`, `do_syscall` | driver, file system |
| kernel file system (`kernel/src/fs`) | a file table, one offset per file | open, read, write, lseek, close | disk driver |
| kernel memory, loader (`kernel/src/memory`, `elf`) | page tables, `brk` | mapping, loading | disk driver |
| games (`game/src`) | key states, linked lists, a reload flag | main loops, interrupt callbacks | syscalls, ports |

How they interact.  The emulator's CPU thread executes one instruction, polls the
devices, and takes a pending interrupt, in that order, for ever.  A device tells
the processor through one latch, shared with a second thread (the audio
heartbeat) under a mutex.  In the guest, an interrupt runs a kernel handler with
IF cleared, between any two instructions of the kernel's own main path or of a
game; the handlers and that path share the disk device, the sector cache and the
flags the games poll.  The monitor rewrites bytes of the running program.

Where it is hard, and what should be true there:

- *The latch.* Two threads write it in several steps and the processor reads it
  outside the mutex.  The signal must never come without a vector (an assertion
  aborts NEMU), the disk's interrupt must not be displaced by another, handlers
  must not nest, and a halted processor must wake.
- *The disk.* A program that sleeps for an interrupt, a handler that uses the same
  device, a cache refilled under one tag and filled for another, ports that data
  overwrites.  A read must return the sector's bytes, a sleep must end, a dirty
  slot must reach the device before it is reused.
- *Breakpoints.* A byte is replaced, put back on a hit, and written again one
  instruction later, while interrupts, steps, watchpoints and deletions fall in
  between.  The program must get its bytes back, a listed breakpoint must stop
  it, and one that keeps continuing must get past.
- *Memory.* A loader that relies on the order in which frames are given, a TLB that
  is never flushed, accesses split at a page or a cache line, random replacement.
  The program must see bytes at addresses and nothing else.
- *Arithmetic.* Flags computed from the result alone, at three widths in 32-bit
  registers; floats rounded on integers with a sticky bit.
- *File system.* One descriptor and one offset per file, unsigned offsets that wrap.
  No read may leave its file, no stream may move another.
- *Audio.* Three threads, two mutexes named by indices that change, a flag cleared
  without one.  What is heard must be what was written, and a write must end.
- *Games.* Key states that a handler sets while the loop scans and clears them, a
  one-byte scan code buffer that several events of a poll go through, a pool of
  letters that must not run out.

`PROJECT.json` lists every component with its status and every hazard at its line.

## Plan

The order the modules were written in, the most important behaviour first; all of it
is done.

1. `NemuInterrupt` over the abstract `PriorityLatch`.
2. `IdeDriver` on an instance of `PriorityLatch` (so the driver is checked against
   what the emulator's interrupt path was shown to provide) and over the abstract
   `WordStore`; `IdeWriters` for a caller of `ide_write`.
3. `Breakpoints`.
4. `FileSystem` over the abstract `FileStreams`.
5. `Paging` over the abstract `ByteMemory`; `MemCache`; `Alu`; `Fpu`; `Machine`, which
   checks them as the layers an instruction relies on.
6. `Typing`, `Audio` and `PalKeys` with the devices that drive them; `Programs`, which
   checks `Audio`, `PalKeys` and `FileSystem` as three programs on the kernel.

The proofs are in modules of their own: `NemuInterruptProofs`, `IdeDriverProofs`,
`BreakpointsProofs`, `TypingProofs`; `MemoryProofs` (`MemCache` and `Paging`) and
`FpuProofs` with `MachineProofs` (`Alu` and the layers together) on top of them, as
`Machine` is on top of the layers; and `ProgramsProofs` (`FileSystem`, `Audio`, `PalKeys`
and the programs together).

How the modules depend on each other: `IdeDriver` contains an instance of
`PriorityLatch`, and `NemuInterrupt` implements that; `IdeDriver` implements
`WordStore`, which is what `FileSystem` takes `ide_read` to be; `Paging` takes
memory to return what was stored, which is what `MemCache` shows of the cache;
`Audio` takes for granted that the disk's interrupts are not displaced, and shows that
the sound card's are not either.

## Modules and the code

### PriorityLatch
What devices and processor are promised: one pending vector, a higher number
replaces a lower one, taking empties it.  `Async` names the vectors raised by
another thread; only those may vanish untaken (`LosingTake`).

### NemuInterrupt
`i8259_pic.c`, the loop of `exec()`, `do_intr`, `raise_intr`, `iret`, the polled
devices, the heartbeat thread and `close_sdl`.

- `pc` is the CPU thread's place in `exec()`; `call[t]` is thread t's place in
  `i8259_raise_intr`, which both run, one action per access of shared memory.
  `owner` is the mutex, `intr_no` and `intr` the latch and `cpu.intr`, `frames`
  the interrupt frames with the saved IF.
- The guest is any program whose kernel behaves as this one: interrupt gates for
  the four lines, handlers that neither set IF nor halt.  It appears as the
  instructions that touch this state (`GuestCliSti`, `GuestHlt`, `GuestInt`,
  `GuestIret`, `GuestDiskRead`, `GuestAudioPlay`, `GuestTrap`); every other
  instruction is `GuestPlain`.
- A destroyed mutex is undefined behaviour: `RaiseOnDestroyed` lets the lock
  succeed or fail.

`IndInv` is the inductive invariant (below).  The mapping to `PriorityLatch` sees a
raise at the write of the latch and a take at the query.

### WordStore
Requests for a word, one at a time: a read returns what is stored, a write changes
one word.

### IdeDriver
`cache.c`, `disk.c` and `ide.c` of the kernel over `dev/ide.c` of NEMU.

- `at[a]` is the position of actor a, the main program or the interrupt handler;
  one action per access of the device or of a shared cache slot.  `DiskRead` and
  `DiskWrite` are `disk_do_read` and `disk_do_write`; `TestIntr` and the second
  `ClearIntr` are `wait_ide_intr` (test and hlt are one step, since `NeverHalts` shows
  that the hlt is not reached: the device raises its interrupt within the command, and
  the processor takes it before the next instruction); `IdeWriteback` and `Scan` the timer's handler.
- The device's `status`, `select`, `sector`, `byte_cnt` and `ide_write` are the
  ports and statics of `handler_ide`; a failed assertion is `aborted`.
- A sector has `WORDS` words; a byte of the image is known by its address.  The
  data port is four ports wide and a transfer overwrites the sector number's low
  byte: `Garbled`.
- The image is opened read-only, so no write reaches it; `received` records what
  the device was sent.
- `HasWriter` says whether something calls `ide_write`, and `timed` whether the timer
  runs.  Nothing calls it in this commit (`fs_write` writes only the console); the
  driver is there, so `IdeWriters` states what it keeps once somebody does: without
  the timer's writeback the device's protocol, with it only what lasts up to the
  failed assertion that ends NEMU.

### Breakpoints
`breakpoint.c`, the commands of `ui.c` that change its state, and `exec()` again,
this time for what the monitor does to it.

- `pool`, `head` and `free_` are the array and its two lists, `mem` the first byte
  of every instruction.  One iteration of `exec()` is four actions, in order:
  `ExecInst` (with `resume_breakpoints` if `rerun`), `FindBreakpoint`,
  `ScanWatchpoint`, `Devices`; `Leave` is the end of `exec()`.
- The program is a loop of `Length` instructions and a one-instruction handler.
  It may contain its own `BREAK_POINT`, traps, and instructions that change the
  watched variable.  It does not write its own code.
- A full pool is an assertion: `Exhausted` ends NEMU.

`NemuInterrupt` and `Breakpoints` both contain `exec()`: the first with threads and
the latch and with INT3 only as a way to stop, the second with the monitor's list
and with interrupts only as a jump to the handler.

### FileSystem and FileStreams
`fs.c` behind `do_syscall.c`: the file table, one descriptor per file with one offset,
and the `FILE*` of a program.  A system call runs to its end before the program goes
on, so each is one action.

- `files` is the array of `Fstate`; `tf`, `ret` and `buf` are the last call, `%eax` and
  the program's buffer; `stopped` is a failed assertion.
- A byte is known by its address on the disk, and offsets are numbers modulo `MOD`
  (2^32), so a seek to before the start wraps around.
- `mark` and `sharing` are history: where a stream's own calls have left it, and
  which streams had their file in common with another.  The kernel gives every
  `open` of a file the same descriptor, so sharing streams move each other.

`FileStreams` is what a program may rely on: a position per file, bytes delivered from
there on in order, and seeks.  It is exact: `asked` is the call that was
answered, so which read delivers how many bytes, and which seek leaves which position.
It deviates from the files of C in three ways, stated
in its header because the code deviates: a read that reaches the end stops one byte short of
it, so the last byte of a file is never delivered; a seek past the end, or from the start or the
position to before the start, goes to the last byte; one from the end to before the start
goes to the end.  A seek from a position at or past the end may go to any byte: what
lies past the end is one position there, and several offsets in the code.

### Paging and ByteMemory
The loader of `elf.c`, `mm_malloc()` (a prebuilt object, modelled from its use and
marked external), both page directories, `page_walk` with the TLB of `tlb.c`,
`laddr_read`/`laddr_write` with the split at a page, and `brk`.

- Until `Run` the kernel runs on a directory that maps each frame at its own number;
  what it leaves in the TLB stays there when CR3 changes.
- `Load` places one segment, with the whole copy going to the physical address of the
  segment's first byte, as the code does.
- `pc = "fault"` is the assertion on a page that is not present.
- `PagingInv` is the inductive invariant (below): where the tables are, which frame a
  page has, and what a TLB entry says.

`ByteMemory` is a memory of bytes that can grow.

### MemCache
`cache.c`: write-through without allocation, fill of a free or a random way, accesses
that go on in the next line.  `torn` remembers the bytes of a cached line that a store
passed by because it missed the line below: they are stale, and the one exception of
`LoadsAreCurrent`.

### Alu
`alu.c` behind the instruction files, and the conditions of `jcc`: registers of `W`
bits and operands of fewer, the flags from the result alone as the code computes
them.  An instruction is `Execute` and `Fetch`, so that what it left can be examined.
Products and divisions use two registers, which are one number of twice the bits; a
division by zero ends NEMU with a signal of its host and is not taken.

### Fpu
`fpu.c` behind `x87.c`: the register ring, and sums, differences, products and
quotients with the corner tables, normalisation and rounding of the code, at `EXP`
exponent and `FRAC` fraction bits.  `FloatsRound` compares with the exact rational
result, and says of every other result which NaN, infinity or zero it is, with its sign.  The registers hold the floats that `fpu.c` has a name or a meaning for
(`Canonical`): numbers, two infinities and its two NaNs.  NaNs of another payload, which
the corner tables pass by, are not loaded; comparisons and conversions are the host's.

### Machine
The four layers side by side: a behaviour takes the steps of one layer and leaves the
others as they are.

### Typing
The typing game and the devices that drive it: NEMU's keyboard buffer and timer, the
one slot of the controller, the kernel's dispatch of handlers and the whole main loop
with `effect.c`'s list of letters.  Clocks are kept as differences, heights are in
units of a fall.  `credit` is history: strokes of a letter that have hit nothing yet.

### Audio
`dev/audio.c` without `PA_ONLINE`, and `credits.c`: the callback (`cb`), the monitor
thread (`mon`) and the program (`prog`), one action per access of what is shared.  A
chunk is known by the number of the stretch of the file in it.  The two workers that
copy a chunk are one step.

### PalKeys
The keys of nemu-pal: NEMU's buffer and request, `keyboard_event()` and
`process_keys()` of the HAL, and the two handlers of `device/input.c` that turn keys into
the hero's direction.  `process_keys()` runs with interrupts off and is one step;
`PAL_StartFrame()` is the rest of the game, which may begin or end a battle.  `told`,
`missed` and `retold` are history: what the game has been told, of which keys it
has not seen the last event, and whether a key was reported pressed twice.

### Programs
NEMU loads one program; `Programs` chooses one of three and takes its steps:
`Audio`, `PalKeys`, or `FileSystem` with two neighbouring files.

## Runs

Each property is described where it is defined.  For every property of a passing
run there is a faulty variant of a definition (an operator named for the fault,
just before the definition it replaces) under which the property fails; they
are listed in `PROJECT.json`.

| Run | Instance | Shows |
|---|---|---|
| `interrupt` | four lines, both threads, `exec(1)` and `exec(2)`; 151,509 states | `IndInv` (with it types, agreement of latch and signal, no nested handlers), no signal without a vector, disk interrupt never displaced, refinement of `PriorityLatch`; a halt ends and a latched disk interrupt is delivered |
| `interrupt_ack` | the same | counterexample: an interrupt acknowledged that nobody took |
| `ide_read` | 4 sectors, 2 slots, 2 words, writeback every 2 ticks; 24,324 states | without a writer: `ReadInv`, refinement of `WordStore`, every request ends |
| `ide_writer` | 2 sectors, 1 slot, 2 words, writeback every 2 ticks, with and without the timer; 2,475,283 states | a caller of `ide_write`, `WriterInv`: no sleep for an interrupt that has come; without the timer a device that is ready for every command, its assertions, commands and transfers on the right sector; and no refill over unsent data |
| `bp_pool` | pool of 3, 3 instructions and the handler, `c`, `si 1`, `si 2`, 2 watchpoints, interrupts; 1,007,256 states | the pool is partitioned, the program keeps its bytes |
| `bp_continue` | pool of 3, 4 instructions, `c` only, 1 watchpoint, interrupts; 492,720 states | no listed breakpoint is run through, the end is final, continuing gets past |
| `bp_step` | `c`, `si 1`, `si 2` | counterexample: a listed breakpoint that is not armed |
| `machine` | below; 292,695 states | `MachineInv` (`PagingInv`, the cache sound, types), a program runs in its image, loads are current, exact arithmetic, conditions, floats rounded or the right NaN, infinity or zero, refinement of `ByteMemory` |
| `typing` | 2 letters, 4 cells, 3 strokes; 530,321 states | no assertion fails, list and pool sound, a stroke hits once, marks are answered |
| `programs` | below; 262,902 states | `Audio`: `AuInv`, the locked chunk is the one filled, reads undisturbed, heard in order, writes end.  `PalKeys`: `PalInv`, releases arrive.  `FileSystem`: `FsInv`, own bytes only, places kept, refinement of `FileStreams` with its exact reads and seeks |
| `audio_reload` | chunks of 2 pieces, a file of 4 | counterexample: a request for data is forgotten |
| `pal_keys` | 2 arrows, 4 events | counterexample: a key held down is reported pressed again |

Bounds and why they are enough.

- *Interrupt.* Four lines are all there are.  `ExecMax` only bounds the countdown
  to the end of `exec()`; 2 gives an instruction with and without a successor.
  Handlers do not nest, so frames stay at most two deep (a syscall and a handler
  in it) and `frames` needs no bound.
- *IDE.* Two sectors per slot make evictions and hits on a stale tag possible; two
  words make a transfer interruptible in the middle; two ticks to a writeback let
  one tick pass without and one with it.  `ide_writer` is smaller because writer and
  timer are checked together; it keeps one eviction per request.
- *Breakpoints.* A pool of three holds two breakpoints and a watchpoint and can be
  exhausted.  Three or four instructions give a breakpoint whose next instruction
  is another breakpoint, the program's own, a trap, or a change of the variable.
  `MaxWatch` bounds the watchpoints; `StopIsFinal` is about at most one.  No run sets
  two breakpoints at one address (`Same`); what happens then, and with two watchpoints, is
  under the observations.
- *Machine.* Pages of 2 bytes, 4 entries a table, 7 frames of which the kernel's are
  2, a TLB of 2: two segments that meet on a page (`TwoSegments`), a stack, the
  video page and a heap, with `MaxBreak` = 3 bounding the break and `MaxStores` = 1 the
  stores.  A byte stored is known by its store and address, so that a load that gets the
  wrong one is seen; bytes have no value, so the order in which the code packs them in a
  register is not checked.  With `NR_LINES` = 5, two groups and two ways, three lines share a group and have to
  evict each other; `MaxWrites` = 2 is the number of stores to the cache.
  Registers of 4 bits with operands of 2, 3 and 4 are all values of all widths.  Three
  exponent and four fraction bits with `WIDE` = 14 (the width of the division, which
  has to exceed 2 * FRAC + 5 as the code's 64 exceeds 51: with 13 there are
  quotients of exponent 0 that are too short to be shifted into a denormal)
  and the floats of `SomeFloats` give denormals, every rounding case, cancellation and
  infinity; `MaxLoads` = 1 fills one register before the computation.
- *Typing.* Two letters, so that two keys of a poll can differ; a pool of 4 is the
  smallest that suffices with `PERIOD` 2, `LOW` 3, `RISE` 2 and `MaxLag` 2 (with 3 the run
  finds the assertion of `linklist.h:61`); the code's has 1000 cells for a screen of
  200 lines.  That a pool of some size suffices, although letters that were hit keep
  their cell until they leave at the top, is the point of `GameGoesOn`.  `MaxPresses` and `MaxEvents` bound
  the strokes and the events of a poll.
- *Audio.* Chunks of two pieces have a middle; a file of four stretches lets each chunk
  be filled twice.
- *PalKeys.* Two arrows and a key that is none, four events, two in a poll: two arrows
  pressed and released in any order with a repetition in between.  `PalInv` is proved
  for any numbers.
- *FileSystem.* Two neighbouring files of 4 and 2 bytes, two streams, a word of four
  bits; reads of 0, 1 and 3 bytes and seeks by -5, -1 and 2 pass both ends and wrap
  around.  As in the code, where `off_t` is a signed 32-bit number and no file has 2^31 bytes,
  a distance lies in the signed half of the words and a size in the positive half.  `Before` is what may lie in memory in front of the file table.

Deadlock is checked in every run; the ends of NEMU are explicit self-loops
(`Terminated`, `Aborted`, `Ended`, `Stopped`).

## Fairness

- `NemuInterrupt`: both host threads are scheduled; a thread waiting for the mutex
  gets it, because each holder leaves after a few instructions and the heartbeat
  then sleeps for a second; wall time passes, so the timer falls due again and
  again; the event queue is finite.  Nothing is assumed of the monitor's user.
- `IdeDriver`: pending interrupts are taken and handlers run on; ticks are 10 ms
  apart, so the main program runs again and again in between; it need not ask for
  anything.
- `Breakpoints`: `exec()` does not pause, and the user keeps continuing.  An
  interrupt in the very iteration of a hit brings the program back to the same
  stop; if that happened for ever there would be no progress, so `GetsPast` excepts
  endless interrupts, and endlessly set breakpoints.
- `Typing`: NEMU executes instructions and the timer goes on; nobody has to type.
- `Audio`: every thread is scheduled and the timer goes on.  A program that waits for
  the mutex of the chunk to fill gets it (strong fairness of `LockChunk`): the callback
  gives it back while it sleeps, again and again.
- `PalKeys`: NEMU executes instructions; nobody has to press a key.
- `FileSystem` and `Machine` have safety properties only.

## Proofs

TLAPS checks eight modules of proofs, for all values of the constants that the named
assumptions allow.  There is no RECURSIVE operator in the project.

**Interrupt path.**  Assumptions: the lines fit a byte above `IRQ_BASE`, the disk's
is the highest and not the audio's, 0x80 is no line's vector.  `IndInv` is the
conjunction of types; `MutexHeld` (a position inside a critical section means
owning the mutex, unless it was destroyed); `HeartbeatCalls` (the heartbeat
raises only its own line); `SignalInStep` (what latch and signal are, at each
position); `TakenIsLatched` (what the latch may hold between query and
acknowledgement); `DeliveryEnabled`; and `HandlersDoNotNest`.  `SignalHasVector`
alone is not inductive: that the query finds a vector depends on the order of the
two writes on both threads, which is what `SignalInStep` says.  Proved: `Invariance`, `TypeCorrect`, `AssertionHolds`,
`LatchAgreement`, `HandlerNesting`, the action property `DiskIrqNeverDisplaced`, and
`LatchRefinement`, with and without the heartbeat: without it `Async` is empty and
no interrupt is lost between query and acknowledgement.

**Disk driver.**  For any number of sectors, words and slots, any period, with or
without the timer.  First `HasWriter = FALSE`.  `ReadInv` says of every slot in use that
it holds its sector's image, except the one being filled, whose words so far are the
new sector's (`FillInStep`): a slot is overwritten under its old tag, so
`SlotsMirrorDisk` alone is not inductive.  `NothingWrites` (no dirty slot, no write
position, device never in write mode) rests on the absence of a writer, and
`WritebackCounts` keeps the tick counter below its period.  `AnswerComes` says that from
the command to the test the disk's interrupt is latched, taken or handled, which needs
that a tick cannot displace it.  Proved: `ReadInvariance`, `NoDeviceAssertion`,
`NeverSleeps`, `ReadsImplementStore`.
Then with or without a writer: `WriterInv` (`IdeWriters`) keeps `AnswerComes`, which the
timer's writeback cannot break, and without the timer adds what a transfer has sent
so far (`SentInStep`), that a dirty slot is in use (`DirtyIsUsed`), and that the device
is ready outside a transfer (`ReadyBetween`: `waitdisk` never spins), none of which is
inductive without the others.  Proved: `WriterInvariance`, `WriterKeepsToItsSector`,
`NoDirtyWordIsLost`, `WriterNeverSleeps`.  That all but the first part fail with writer
and timer together is the assertion described under the observations.

**Breakpoints.**  For any pool, program, places of breakpoints and user.  The two lists
are sequences of entries of one array; `PoolInv` is that together they name every
entry once and that the listed ones are in use, which `PoolIsKept` carries through
`new_BP` and `free_BP`.  `ProgramInv` adds that a byte of the program is the
original or the INT3 of a listed entry, which remembers the original, and that no two
of these have one address; `SystemInv` adds the types of the CPU loop.  `ProgramIsKept` and `TypesAreKept` therefore assume
`~Same`: with two breakpoints at one address they are false.  `ArmInv` relates the
armed bytes to the place in `exec()`; with it `BreakpointsStop` (nothing listed is run
through) and `EndIsFinal` hold for a user who only continues and has at most one
watchpoint, which are the assumptions `StepCounts = {}` and `MaxWatch <= 1`.

**File system.**  `FsInv` is inductive for any table, streams, lengths and word width
with room for one read past the end, distances in the signed half of the words and sizes in
half of them (`FileTable`): types, streams that have a
file in common know it, every other stream is at its mark, and what was delivered
lies within the file.  `ReadsStayInFile` and `PlaceIsKept` are its parts.
`FilesImplementStreams` is the refinement: each system call is a step of `FileStreams` on
one stream, or a stutter for the others, with the offset, or the file's size if that is
smaller, as the position.  A read's delivery is the stretch of the file from there on, of
the length `FileStreams` gives (`ReadAmount`), whether it is whole, cut before the last byte
or empty.  A seek leaves the position `FileStreams` names (`SeekPlaces`): what is clamped
is the place asked for or the last byte, since a number that wrapped around lies beyond
every file (`ClampedIs`); from the end it is not clamped, and a place before the start is an
offset past the end.

**Data cache.**  `CacheInv` is inductive for every geometry, memory and number of stores:
a line is in one way at most, and a cached line is memory but for torn bytes.
`CacheReturnsTheLastStore` follows from it: a load returns the bytes stored last, also when
it goes on in the next line, except torn ones.  Adjacent lines are in different groups
(`cache.h:16`), so the fill of the second line leaves the first where it is.

**Paging.**  For any frames, segments, tables, TLB and program within `Layout`, which
says that the segments lie in the order of their addresses, above the kernel's own
pages and below the stack with room for the heap, and that memory and tables are large
enough.  `PagingInv`: each table is in its own place and empty until it is in use
(`TablesSound`); a page that is mapped has a frame `mm_malloc()` gave, above the kernel's,
and no two pages share one (`FramesGiven`, `FramesApart`); while the loader runs the page of
the last byte it has placed is the highest one and has the frame given last
(`LoadedInOrder`), which is why a copy that goes on to the next physical address lands in
the next page, and is what makes `RunsInItsImage` inductive; a program's own memory is mapped
(`OwnIsMapped`); and an entry of the TLB is a frame at its own number, left from the
kernel's directory, or what the program's tables say (`TlbSound`).  That is inductive only because
programs lie above the frames, so a leftover never has the number of a page of
theirs.  Proved: `PagingInvariance`, `ProgramsRunInTheirImage` and `PagingImplementsMemory`: an access,
cut at a page or not, through the TLB or the tables, reads or writes the bytes at its
addresses and no others, and `brk` extends the memory by fresh bytes only.

**Arithmetic.**  For any width `W`, any widths of operands from `BYTE` to `W` and all operands.
`AluInv` is the types, `ArithmeticIsExact` and `ConditionsTell`; it says of each
instruction what its operands determine, so it needs no strengthening, only the operands' types.
The work is in the lemmas, which go from quotients and remainders (`RemainderBy`: they
are determined by their bounds) over powers of two to the operators of `alu.c`:
`ExtendedIs` (a sign-extended result keeps the order and the sign of its low bits,
which is why flags can be recovered from it), `SumTells` and `DifferenceTells` (result and
flags are those of the exact number, with and without a sign), `ShlIs`, `ShrIs`, `SarIs`,
`MulIs`, `ImulIs`, and `TruncatedIs` (C's quotient is the one that leaves a small
remainder of the dividend's sign).  Since the prover has no induction, what holds for all numbers of bits is
proved by its least counterexample (`Smallest`), and 2^n is the number of subsets of a set of n elements,
by the library's theorem `FS_SUBSET` (its proof there uses 2^(n+1) = 2^n + 2^n, which the library
states without a proof).  Proved: `InstructionsAreExact`,
`ConditionsTellTheOrder`.  The shifts' part holds for counts below `W` only: for `W` itself the host
takes the count modulo `W` and nothing moves, which no operand of the run is large enough to show.

The lemmas on quotients, remainders and powers are in `FpuProofs`, which needs them too.

**FPU.**  For any format with at least 4 bits of fraction and a division of more than
2 * FRAC + 5 bits.  `FpuTypeOK` and `FloatsRound` together are inductive (`FpuStep`): what is
computed depends on the operands only, so all the strengthening needed is that the
registers are canonical; with any other NaN the corner tables would be passed by.  The argument
is about one computation, and goes from the outside in:

- *Where no corner applies* (`AddCorners`, `SubCorners`, `MulCorners`, `DivCorners`): the
  tables and tests of the code leave the numbers, and give a NaN exactly where the operation
  is invalid: the only one among the operands, the positive one of two (`NaNIs`), and the
  negative one where there is none.  Infinities and zeros get their signs here too
  (`ZeroSums`, `AddedSums`: a sum that cancels is a positive zero).
- *What the integers keep.*  A significand that is shifted to the right keeps a sticky last bit,
  so it is not the value any more but compares with every even number as the value does
  (`Tracks`, from `JammedTells`), or is still exact (`Meets`).  A sum loses nothing by a shift
  of up to 3 places, and beyond that is large enough for the lost bits not to reach the half
  unit (`SumSticks`, `SumNormalizes`); a product loses nothing before it is normalised
  (`ProductNormalizes`); for a quotient the dividend reaches the top of its integer, the
  divisor is odd at the bottom, and the quotient has digits enough (`UpReaches`,
  `DownDivides`, `QuotientTracks`).
- *Normalisation* to the right, to the left or not at all keeps this, and ends with a
  leading 1, with exponent 0, too large, or too small (`NormalizedRight`, `NormalizedLeft`,
  `NormalizedAsItIs`).
- *Rounding* what tracks a value by multiples of 4 gives the nearest number of units, or one
  half a unit below when a lost bit cannot be seen (`RoundedWithin`), and that is the nearest
  float, since the floats of an exponent are the multiples of its unit and those of
  the others lie outside (`SizeIs`, `WithinNearest`, `NextBelow`, `PackedNormal`,
  `PackedDenormal`): `NormalizedRounds`.

From these `AddComputes`, `SubComputes`, `MulComputes` and `DivComputes`.  So the
exceptions of `FloatsRound` are the only ones in every format: a product of exponent 0
that is not shifted (`Unshifted`), a denormal rounded up to the first normal number
(`UpToNormal`), and a quotient one float below.  Proved: `FpuIsSound` of the FPU
alone, and `FloatsAreRounded` of the layers together.

**The layers and the programs together.**  `Machine` and `Programs` take the steps of one
part and leave the others as they are; `MachineInvariance`, `MemoryOfTheMachine`,
`ProgramsInvariance` and `ProgramsKeepTheirPromises` carry what was proved of the parts over to them, so that the
theorems speak of the specifications the runs `machine` and `programs` check.

**Sound card.**  `AuInv` says that a request for data is in one place at a time (a swap,
`switch_buf`, the latch, the reload flag of a player that will look, or the write that
answers it), that the chunk to fill is not ready while it is anywhere, who holds which
mutex at which position, and that what plays, what is ready and what is written are
successive stretches of the file.  From it `FillsLockedChunk`,
`ReadingIsUndisturbed` and `HeardAsWritten`, for chunks and files of any size.

**Typing.**  `KeysInv`: a stroke that counts is a mark or a code still to be read, and
while the handler or the controller is about to read it perhaps both, which interrupts
being off keeps apart from a hit (`StrokesCounted`).  `OneHitAStroke` follows, for any
letters, pool, screen, lag and number of events in a poll.
`LettersInv`: the cells have an order `p` in which the first `m` are the letters, newest
first, and the others the free ones (`Linked`), and each letter is a period older than
the one in front of it, as far as its place and way tell (`Aged`, `Age`).  The order is
what creation, removal anywhere in the list and reuse keep, so `LinksAreSound`
follows (`Chain`, the cells reachable by links, is then a prefix or a suffix of it; that
uses the least-number principle, lemma `Least`).  A letter that is m periods older than the newest has
left the screen if m is large enough, so a pool with `PoolSuffices`, RISE * (POOL - 1) *
PERIOD > RISE * LOW + LOW, never runs out: with `LagBounded`, that is `PoolIsLargeEnough`.
The condition is tight for the run's instance (4 cells suffice, 3 do not) and holds with
room to spare for the 1000 cells of the code.

**nemu-pal's keys.**  `PalInv` is inductive for any keyboard and any number of events in a
poll: a key the game has or will be told of is down exactly if it is down, unless its
last event was lost in one of three named ways, and the hero's two directions are
those of arrows that were told and are different, as long as no press was reported twice.

**Model-checked only.**  Liveness (`HaltWakes`, `DiskIrqDelivered`, `RequestsEnd`,
`GetsPast`, `StrokesAreAnswered`, `WritesEnd`, `ReleasesArrive`), since ENABLED and
fairness are out of the prover's reach.

## What the runs found

- `interrupt_ack`.  `do_intr` reads the latch without the mutex (`cpu.c:156`) and
  empties it later.  An audio interrupt the heartbeat latches in between, over a
  timer or keyboard vector, is acknowledged without ever being delivered.
  `PriorityLatch` allows exactly that loss and no other.
- `bp_step`.  A breakpoint hit by the last instruction of `si N` ends in READY, not
  BREAK, and the next `exec()` does not write its INT3 back.
- `audio_reload`.  The credits player clears `audio_reload` after it has written the
  data (`credits.c:50-51`).  An interrupt that sets it in between is erased, no more
  data is written, and the music stops for good.
- `pal_keys`.  `process_keys()` leaves a pressed key in state EMPTY rather than
  WAIT_RELEASE (`hal/keyboard.c:79`), so the repetition of a key that is held is a new
  press.  For an arrow the handler then sets `prevdir` to `dir`, and when the key is
  released the hero goes on walking.  `WalksWhereTold` holds up to such a report.

## Observations without a run

Met while modelling; each can be reproduced by changing a constant or a named part of
a module, or is below the models' abstraction.

- *Interrupts.*  On `NEMU_STOP`, `exec()` destroys the PIC's mutex while the heartbeat
  thread still runs (`cpu.c:116`); `RaiseOnDestroyed` models it.  The assertion of
  `irq_handle.c:24` admits one handler more than the pool has; so many are never
  registered.
- *Disk driver.*  With a caller of `ide_write` the timer's writeback breaks into the
  transfer it interrupted and the program's next access fails the device's
  assertion, after which `WriterInv` claims nothing: with the timer it says only that the awaited interrupt
  comes before it is looked for.  `waitdisk` can also spin with interrupts off.  The image is opened
  read-only (`dev/ide.c:32`), so a written byte would be lost when its slot is reused.
- *Monitor.*  With `Same = TRUE` a second breakpoint at one address saves the first
  one's INT3 as the program's byte: continuing stops at the same place for ever, and
  deleting both can leave the INT3.  With `MaxWatch = 2` two watchpoints on one variable
  break `StopIsFinal`: `cpu.c:100` overwrites a STOP with READY.  In `expr.c` the token `>`
  is never matched (the case is `'A'`), `(1)+(2)` is taken for one parenthesised
  expression, and of two unary operators in a row one is lost.
- *File system.*  The comment at `fs.c:58` says that a read is cut off so as not to go past the end.
  A read that only reaches the end stops one byte short of it too (`fs.c:65-66`), so that the last byte of
  every file can never be read; `FileStreams` says so, and with `Delivered` going to the end
  instead `ImplementsStreams` fails.  `lseek` on a standard descriptor reads a size in front of the
  table.
- *Sound card.*  A switch between the monitor's interrupt and its clearing of
  `switch_buf` is never announced (`audio.c:147-151`): if that thread is slow enough, the
  music stops, in order and with every write ended.  Both copying workers get the address of the creating loop's
  counter (`audio.c:128`) and may read the same or a later number.
- *Keyboard and games.*  A key event takes the slot of a tick that waits.  Of several
  events in a poll only the last is seen; in nemu-pal a press and release between two
  calls of `process_keys()` is a release only.
- *Cache.*  A store that crosses a line and misses the lower one leaves the upper one
  with its old bytes (`torn`).
- *ALU.*  The cases of `imul`'s flags fall through to the 32-bit one (`alu.c:277-313`): CF and
  OF are 0 for 8 and 16 bits, and for 32 bits there is a shift by 32, which is undefined and
  leaves them 1 for small positive numbers (`set_CF_OF_imul`).  A quotient too large for its
  register is cut off; the processor would raise an exception.  The overflow flag of `shl`
  is truncated to the sign bit although the comment says the exclusive or of the top
  two (`alu.c:447-449`); shifts by 0 change flags; `cltd` at 16 bits never sees a negative
  AX.
- *FPU.*  Products that end just below the normal numbers and quotients of denormals are
  misplaced: 2^-149 times 2^19 gives 0x00100000 instead of 0x00080000, and
  (2 - 2^-23) 2^-126 times 2^-1 gives 0 instead of 0x00800000.  `UpToNormal` and `Unshifted`
  name them.  Quotients are sometimes one unit low, which the repository's test admits.
  NaNs other than the canonical ones are treated as numbers by products and quotients.

## What is not modelled

- Most of the repository's lines are not the project's subject.  Of the 107,571 lines of
  implementation more than 47,000 are two tables of glyphs (`big5font.h`, `gbfont.h`) and
  most of the rest is the SDLPAL game, vendored under `game/src/nemu-pal` (only its
  keys are modelled).  The code NEMU, the kernel and the small games are
  made of is 10,000 to 14,000 lines; the map covers more than 3,700 lines, and what it
  leaves out there is listed here.
- Monitor: expressions, symbol tables, command-line parsing, which have no state
  and no concurrency.  `mask_breakpoints` has no callers.
- CPU: the decoder (a table of functions), comparisons and conversions of floats (the host's), segmentation (flat here).
- Kernel: boot and PIC initialisation (straight-line code; NEMU ignores the latter),
  `printk` and the serial port, `dma.c` (compiled, unused), the GDT.
- Devices: pixels, characters, dispatch of ports, sound samples: pure I/O.
- Games: drawing, statistics, the rolling text; the game support library is thin
  wrappers over syscalls and ports.
- `libs/`, prebuilt objects, `testcase/` and `scripts/`.
- Between two positions a thread's accesses are taken in source order; compiler
  reordering of unlocked reads is not modelled.
- Breakpoints across address spaces and on code that is loaded over them: `Breakpoints`
  has one address space and constant code.
