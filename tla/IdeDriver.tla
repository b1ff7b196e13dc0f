------------------------------ MODULE IdeDriver ------------------------------
(***************************************************************************)
(* The kernel's disk driver (driver/ide: the sector cache, programmed I/O  *)
(* and the interrupts it sleeps for) on NEMU's IDE device.  The main       *)
(* program asks for bytes one at a time; the timer's handler writes dirty  *)
(* slots back from the interrupt, with interrupts off, beside whatever the *)
(* main program is doing.  Both use the one device.                        *)
(*                                                                         *)
(* An actor's position is at[a]; between two positions it touches the      *)
(* device or the shared cache at most once.  The processor takes a pending *)
(* interrupt before the main program's next instruction, as exec() does;   *)
(* PriorityLatch, which the emulator's interrupt path implements, says     *)
(* which one.  The four bytes of the sector number go out in one step, the *)
(* unit of a transfer is the 4-byte word, and a byte of the image is known *)
(* by its address.                                                         *)
(***************************************************************************)
EXTENDS Integers

CONSTANTS
    SECTORS,        \* number of sectors of the disk
    WORDS,          \* 4-byte words in a sector: 128
    NR_SEC_CACHE,   \* slots of the sector cache: 128
    WRITEBACK,      \* WRITEBACK_TIME * HZ, timer interrupts to a writeback
    NewData,        \* what a writer writes
    HasWriter,      \* something calls ide_write (nothing does at present)
    Timers          \* settings of HAS_DEVICE_TIMER

ASSUME Sizes ==
    /\ {SECTORS, WORDS, NR_SEC_CACHE, WRITEBACK} \subseteq Nat \ {0}
    /\ HasWriter \in BOOLEAN /\ Timers \subseteq BOOLEAN

Sectors == 0..(SECTORS - 1)
Words   == 0..(WORDS - 1)
Slots   == 0..(NR_SEC_CACHE - 1)
Actors  == {"main", "isr"}

\* The file behind the disk is opened "rb": it reads as this image for ever.
Image(s, w) == <<s, w>>
Data == (Sectors \X Words) \cup NewData

Request ==
    [op : {"read"}, sector : Sectors, word : Words]
        \cup (IF HasWriter
              THEN [op : {"write"}, sector : Sectors, word : Words, data : NewData]
              ELSE {})
NoRequest == [op |-> "none"]

TIMER_VECTOR == 32
IDE_VECTOR == 46
NoVector == 255
Garbled == -1       \* a sector number whose low byte is a byte of data

VARIABLES
    cache,          \* the kernel's SectorCache array
    has_ide_intr, counter,
    at, i,          \* per actor: position, and index of a word transfer
    k,              \* the slot cache_writeback is at
    req, reply,     \* the main program's request and its last answer
    halted,         \* is_nemu_hlt
    status,         \* port 0x1F7: "ready" 0x40, "writing" 0x30
    select,         \* ports 0x1F3 to 0x1F6: the sector number
    sector, byte_cnt, ide_write,    \* the device's, byte_cnt in words
    received,       \* history: the disk, had every fwrite succeeded
    aborted,        \* an assertion of the device failed: NEMU is gone
    pending, taken, \* the interrupt latch
    timed           \* NEMU is built with the timer

kernel == <<cache, has_ide_intr, counter>>
program == <<req, reply, halted>>
device == <<status, select, sector, byte_cnt, ide_write, received, aborted>>
latch == <<pending, taken, timed>>
vars == <<kernel, at, i, k, program, device, latch>>

Latch == INSTANCE PriorityLatch WITH Vectors <- {TIMER_VECTOR, IDE_VECTOR}, Async <- {}

Init ==
    /\ cache = [c \in Slots |-> [sector |-> 0, used |-> FALSE, dirty |-> FALSE,
                                 content |-> [w \in Words |-> Image(0, 0)]]]
    /\ has_ide_intr = FALSE /\ counter = 0
    /\ at = [a \in Actors |-> IF a = "main" THEN "idle" ELSE "none"]
    /\ i = [a \in Actors |-> 0] /\ k = 0
    /\ req = NoRequest /\ reply = Image(0, 0) /\ halted = FALSE
    /\ status = "ready" /\ select = 0 /\ sector = 0 /\ byte_cnt = 0
    /\ ide_write = FALSE /\ aborted = FALSE
    /\ received = [s \in Sectors |-> [w \in Words |-> Image(s, w)]]
    /\ Latch!Init /\ timed \in Timers

-----------------------------------------------------------------------------
\* Who runs, and on which slot.

Home(s) == s % NR_SEC_CACHE

Slot(a) == IF a = "main" THEN Home(req.sector) ELSE k

MainRuns ==
    at["isr"] = "none" /\ ~halted /\ pending = NoVector /\ taken = NoVector

\* Actor a is at p, has the processor, and goes on at q.
Step(a, p, q) ==
    /\ ~aborted
    /\ at[a] = p
    /\ a = "main" => MainRuns
    /\ at' = [at EXCEPT ![a] = q]

-----------------------------------------------------------------------------
\* cache_fetch, for one byte of the main program.

Ask ==
    /\ Step("main", "idle", "fetch")
    /\ req' \in Request
    /\ UNCHANGED <<kernel, i, k, reply, halted, device, latch>>

\* Faulty variants: a slot in use is taken for a hit; a dirty slot is not
\* written back.
HitsAnySector(c) == c.used

EvictsNothing(c) == FALSE

Hits(c) == c.used /\ c.sector = req.sector

Evicts(c) == c.used /\ c.dirty

Fetch ==
    LET c == cache[Home(req.sector)] IN
    /\ Step("main", "fetch", IF Hits(c) THEN "use" ELSE IF Evicts(c) THEN "wWait" ELSE "rClear")
    /\ UNCHANGED <<kernel, i, k, program, device, latch>>

\* Faulty variant: the slot keeps its old tag.
TagSectorKept ==
    /\ Step("main", "tag", "clean")
    /\ cache' = [cache EXCEPT ![Slot("main")].used = TRUE]
    /\ UNCHANGED <<has_ide_intr, counter, i, k, program, device, latch>>

\* After the transfer: the slot's new tag, then its clean bit.
Tag ==
    /\ Step("main", "tag", "clean")
    /\ cache' = [cache EXCEPT ![Slot("main")] =
                    [@ EXCEPT !.used = TRUE, !.sector = req.sector]]
    /\ UNCHANGED <<has_ide_intr, counter, i, k, program, device, latch>>

Clean ==
    /\ Step("main", "clean", "use")
    /\ cache' = [cache EXCEPT ![Slot("main")].dirty = FALSE]
    /\ UNCHANGED <<has_ide_intr, counter, i, k, program, device, latch>>

\* read_byte and write_byte, once the sector is there.
UseRead ==
    /\ req.op = "read" /\ Step("main", "use", "idle")
    /\ reply' = cache[Slot("main")].content[req.word]
    /\ req' = NoRequest
    /\ UNCHANGED <<kernel, i, k, halted, device, latch>>

UseWrite ==
    /\ req.op = "write" /\ Step("main", "use", "dirty")
    /\ cache' = [cache EXCEPT ![Slot("main")].content[req.word] = req.data]
    /\ UNCHANGED <<has_ide_intr, counter, i, k, program, device, latch>>

MarkDirty ==
    /\ Step("main", "dirty", "idle")
    /\ cache' = [cache EXCEPT ![Slot("main")].dirty = TRUE]
    /\ req' = NoRequest
    /\ UNCHANGED <<has_ide_intr, counter, i, k, reply, halted, device, latch>>

-----------------------------------------------------------------------------
\* The device, as the driver's port accesses drive it.

\* waitdisk spins until the device is ready.
WaitDisk(a, p, q) ==
    /\ Step(a, p, IF status = "ready" THEN q ELSE p)
    /\ UNCHANGED <<kernel, i, k, program, device, latch>>

SelectSector(a, p, q, s) ==
    /\ Step(a, p, q)
    /\ select' = s
    /\ UNCHANGED <<kernel, i, k, program, status, sector, byte_cnt, ide_write,
                   received, aborted, latch>>

\* A command takes the sector number from the ports; a garbled one may be any.
Command == sector' \in (IF select = Garbled THEN Sectors ELSE {select})

\* Faulty variant: the device raises no interrupt.
IssueReadSilent ==
    /\ Step("main", "rIssue", "rTest")
    /\ Command
    /\ byte_cnt' = 0 /\ ide_write' = FALSE /\ status' = "ready"
    /\ i' = [i EXCEPT !["main"] = 0]
    /\ UNCHANGED <<kernel, k, program, select, received, aborted, latch>>

\* Faulty variant: the device stays in write mode.
IssueReadModeKept ==
    /\ Step("main", "rIssue", "rTest")
    /\ Command
    /\ byte_cnt' = 0 /\ status' = "ready"
    /\ i' = [i EXCEPT !["main"] = 0]
    /\ Latch!Raise(IDE_VECTOR)
    /\ UNCHANGED <<kernel, k, program, select, ide_write, received, aborted, timed>>

\* A read command is done at once: ready, and the interrupt is raised.
IssueRead ==
    /\ Step("main", "rIssue", "rTest")
    /\ Command
    /\ byte_cnt' = 0 /\ ide_write' = FALSE /\ status' = "ready"
    /\ i' = [i EXCEPT !["main"] = 0]
    /\ Latch!Raise(IDE_VECTOR)
    /\ UNCHANGED <<kernel, k, program, select, received, aborted, timed>>

\* A write command leaves its own number in the status port until 512 bytes
\* have come.
IssueWrite(a) ==
    /\ Step(a, "wIssue", "wData")
    /\ Command
    /\ byte_cnt' = 0 /\ ide_write' = TRUE /\ status' = "writing"
    /\ i' = [i EXCEPT ![a] = 0]
    /\ UNCHANGED <<kernel, k, program, select, received, aborted, latch>>

\* The data port's handler asserts that the last command was of its kind and
\* that no more than a sector was moved; its bytes overlay the number ports.
MoveWord(writing) ==
    IF byte_cnt > WORDS \/ ide_write # writing
    THEN aborted' = TRUE /\ UNCHANGED <<byte_cnt, status, select>>
    ELSE /\ byte_cnt' = byte_cnt + 1
         /\ status' = IF byte_cnt' = WORDS THEN "ready" ELSE status
         /\ select' = Garbled
         /\ UNCHANGED aborted

NextWord(a, p, q) ==
    /\ Step(a, p, IF i[a] + 1 = WORDS THEN q ELSE p)
    /\ i' = [i EXCEPT ![a] = IF @ + 1 = WORDS THEN 0 ELSE @ + 1]

ReadWord ==
    /\ NextWord("main", "rData", "tag")
    /\ MoveWord(FALSE)
    /\ cache' = IF aborted' THEN cache
                ELSE [cache EXCEPT ![Slot("main")].content[i["main"]] = Image(sector, byte_cnt)]
    /\ UNCHANGED <<has_ide_intr, counter, k, program, sector, ide_write, received, latch>>

\* fwrite on the read-only stream fails and its result is not looked at.
WriteWord(a, q) ==
    /\ NextWord(a, "wData", q)
    /\ MoveWord(TRUE)
    /\ received' = IF aborted' THEN received
                   ELSE [received EXCEPT ![sector][byte_cnt] = cache[Slot(a)].content[i[a]]]
    /\ UNCHANGED <<kernel, k, program, sector, ide_write, latch>>

-----------------------------------------------------------------------------
\* disk_do_read, with wait_ide_intr; disk_do_write.

ClearIntr(p, q) ==
    /\ Step("main", p, q)
    /\ has_ide_intr' = FALSE
    /\ UNCHANGED <<cache, counter, i, k, program, device, latch>>

\* The test of the flag, and the hlt if it is clear.
TestIntr ==
    /\ Step("main", "rTest", IF has_ide_intr THEN "rAck" ELSE "rTest")
    /\ halted' = ~has_ide_intr
    /\ UNCHANGED <<kernel, i, k, req, reply, device, latch>>

DiskRead ==
    \/ ClearIntr("rClear", "rWait")
    \/ WaitDisk("main", "rWait", "rSelect")
    \/ SelectSector("main", "rSelect", "rIssue", req.sector)
    \/ IssueRead
    \/ TestIntr
    \/ ClearIntr("rAck", "rData")
    \/ ReadWord

DiskWrite(a, q) ==
    \/ WaitDisk(a, "wWait", "wSelect")
    \/ SelectSector(a, "wSelect", "wIssue", cache[Slot(a)].sector)
    \/ IssueWrite(a)
    \/ WriteWord(a, q)

-----------------------------------------------------------------------------
\* The interrupts: the latch, the two handlers, and cache_writeback.

TimerTick ==
    /\ timed /\ ~aborted /\ taken = NoVector
    /\ Latch!Raise(TIMER_VECTOR)
    /\ UNCHANGED <<kernel, at, i, k, program, device, timed>>

\* do_intr: interrupts are on unless a handler runs; a halt ends.
TakeInterrupt ==
    /\ ~aborted /\ at["isr"] = "none"
    /\ Latch!Take
    /\ halted' = FALSE
    /\ UNCHANGED <<kernel, at, i, k, req, reply, device, timed>>

IdeIntr ==
    /\ taken = IDE_VECTOR
    /\ Latch!Dispatch
    /\ has_ide_intr' = TRUE
    /\ UNCHANGED <<cache, counter, at, i, k, program, device, timed>>

IdeWriteback ==
    /\ taken = TIMER_VECTOR
    /\ Latch!Dispatch
    /\ counter' = counter + 1
    /\ at' = [at EXCEPT !["isr"] = IF counter + 1 = WRITEBACK THEN "scan" ELSE "none"]
    /\ k' = 0
    /\ UNCHANGED <<cache, has_ide_intr, i, program, device, timed>>

Scan ==
    /\ k < NR_SEC_CACHE
    /\ Step("isr", "scan", IF cache[k].dirty THEN "wWait" ELSE "scan")
    /\ k' = IF cache[k].dirty THEN k ELSE k + 1
    /\ UNCHANGED <<kernel, i, program, device, latch>>

WrittenBack ==
    /\ Step("isr", "wClean", "scan")
    /\ cache' = [cache EXCEPT ![k].dirty = FALSE]
    /\ k' = k + 1
    /\ UNCHANGED <<has_ide_intr, counter, i, program, device, latch>>

EndOfScan ==
    /\ k = NR_SEC_CACHE
    /\ Step("isr", "scan", "none")
    /\ counter' = 0 /\ k' = 0
    /\ UNCHANGED <<cache, has_ide_intr, i, program, device, latch>>

Aborted == aborted /\ UNCHANGED vars

Main ==
    \/ Ask \/ Fetch \/ Tag \/ Clean \/ UseRead \/ UseWrite \/ MarkDirty
    \/ DiskRead
    \/ DiskWrite("main", "rClear")

Handler ==
    \/ TakeInterrupt \/ IdeIntr \/ IdeWriteback
    \/ Scan \/ WrittenBack \/ EndOfScan
    \/ DiskWrite("isr", "wClean")

Next == Main \/ Handler \/ TimerTick \/ Aborted

Spec == Init /\ [][Next]_vars

(***************************************************************************)
(* Fairness.  The emulator runs one instruction after another and takes a  *)
(* pending interrupt before the next, so handlers and the device go on.    *)
(* Ticks are 10 ms apart and a handler is short, so the main program gets  *)
(* its turn again and again; it need not ask for anything, and the         *)
(* answer to a request does not wait for another one.  Time passes.        *)
(***************************************************************************)
Fairness ==
    /\ SF_vars(Main /\ at["main"] # "idle")
    /\ WF_vars(Handler)
    /\ WF_vars(TimerTick)

FairSpec == Spec /\ Fairness

-----------------------------------------------------------------------------
ReadPositions == {"rClear", "rWait", "rSelect", "rIssue", "rTest", "rAck", "rData"}
WritePositions == {"wWait", "wSelect", "wIssue", "wData"}
MainPositions == {"idle", "fetch", "tag", "clean", "use", "dirty"}
                    \cup ReadPositions \cup WritePositions
IsrPositions == {"none", "scan", "wClean"} \cup WritePositions

SectorCache == [sector : Sectors, used : BOOLEAN, dirty : BOOLEAN,
                content : [Words -> Data]]

\* The variables have the types the C declarations and the code give them.
TypeOK ==
    /\ cache \in [Slots -> SectorCache]
    /\ has_ide_intr \in BOOLEAN /\ counter \in 0..WRITEBACK
    /\ at \in [Actors -> MainPositions \cup IsrPositions]
    /\ at["main"] \in MainPositions /\ at["isr"] \in IsrPositions
    /\ i \in [Actors -> Words] /\ k \in 0..NR_SEC_CACHE
    /\ req \in Request \cup {NoRequest} /\ reply \in Data /\ halted \in BOOLEAN
    /\ status \in {"ready", "writing"} /\ select \in Sectors \cup {Garbled}
    /\ sector \in Sectors /\ byte_cnt \in 0..(WORDS + 1) /\ ide_write \in BOOLEAN
    /\ received \in [Sectors -> [Words -> Data]] /\ aborted \in BOOLEAN
    /\ {pending, taken} \subseteq {TIMER_VECTOR, IDE_VECTOR, NoVector}

\* The assertions of NEMU's handler_ide never fail under this driver: no word
\* is read while the device is on a write command or written on a read, and
\* no transfer overruns its sector (device/dev/ide.c:24, 30, 84).
DeviceAssertions == ~aborted

\* No command is issued on a garbled sector number, though every word of a
\* transfer overwrites its low byte (the data port is four ports wide); and
\* until its last word an actor's transfer has the device for itself: the
\* device is still on that actor's sector and command, at that actor's word,
\* whatever interrupts came in between.
TransferOwnsDevice ==
    /\ at["main"] = "rIssue" => select = req.sector
    /\ \A a \in Actors : at[a] = "wIssue" => select = cache[Slot(a)].sector
    /\ at["main"] \in {"rTest", "rAck", "rData"} =>
        sector = req.sector /\ ~ide_write /\ byte_cnt = i["main"]
    /\ \A a \in Actors : at[a] = "wData" =>
        sector = cache[Slot(a)].sector /\ ide_write /\ byte_cnt = i[a]

\* A slot is refilled only after its dirty content went to the device, word
\* for word (cache.c:50 "write back").
FillOverSent ==
    at["main"] = "rAck" /\ at'["main"] = "rData" =>
        LET c == cache[Slot("main")] IN c.dirty => received[c.sector] = c.content

\* wait_ide_intr never halts, so the interrupt cannot come between its test and
\* its hlt and leave it asleep: the device raises the interrupt within the
\* command, no timer tick displaces it, and its handler has set the flag before
\* the program gets to the test.
NeverHalts == ~halted

\* Every request for a byte is answered.
RequestsEnd == at["main"] # "idle" ~> at["main"] = "idle"

-----------------------------------------------------------------------------
\* What the driver holds at a sector: the cached content, unless the slot is
\* being filled, over a disk.
Filling(c) == at["main"] \in {"rData", "tag"} /\ c = Slot("main")

Cached(s) ==
    LET c == cache[Home(s)] IN c.used /\ c.sector = s /\ ~Filling(Home(s))

Over(disk) == [s \in Sectors |-> IF Cached(s) THEN cache[Home(s)].content ELSE disk[s]]

\* A write takes effect when the byte is stored, before the dirty bit.
Asked == IF at["main"] = "dirty" THEN NoRequest ELSE req

Store == INSTANCE WordStore WITH
    Requests <- Request, request <- Asked,
    store <- Over([s \in Sectors |-> [w \in Words |-> Image(s, w)]])

\* The driver, the interrupts and the device implement the store: a read
\* returns what was last written there.  It holds while nothing writes; the
\* device says of each word "write 4 bytes data to disk" (nemu's ide.c:29).
ImplementsStore == Store!Spec

-----------------------------------------------------------------------------
(***************************************************************************)
(* The inductive invariant of a system in which nothing writes, as the     *)
(* kernel is built today: every slot mirrors its sector.                   *)
(***************************************************************************)

Mirrors(c) == \A w \in Words : cache[c].content[w] = Image(cache[c].sector, w)

\* The write path is dead code, in the program and in the timer's handler.
NothingWrites ==
    /\ \A c \in Slots : ~cache[c].dirty
    /\ at["main"] \in {"idle", "fetch", "tag", "clean", "use"} \cup ReadPositions
    /\ at["isr"] \in {"none", "scan"}
    /\ status = "ready" /\ ~ide_write /\ ~aborted

\* A handler has the processor from the vector to its end.
WritebackCounts ==
    /\ counter = WRITEBACK <=> at["isr"] # "none"
    /\ at["isr"] # "none" => taken = NoVector

SlotsMirrorDisk == \A c \in Slots :
    cache[c].used =>
        /\ Home(cache[c].sector) = c
        /\ ~Filling(c) => Mirrors(c)

\* The device serves the request the main program is at, from the command on.
FillInStep ==
    /\ at["main"] = "idle" <=> req = NoRequest
    /\ at["main"] = "rIssue" => select = req.sector
    /\ at["main"] \in {"rTest", "rAck", "rData"} =>
        sector = req.sector /\ byte_cnt = i["main"]
    /\ at["main"] \in {"rTest", "rAck"} => i["main"] = 0
    /\ at["main"] \in {"rData", "tag"} =>
        \A w \in Words : w < i["main"] \/ at["main"] = "tag" =>
            cache[Slot("main")].content[w] = Image(req.sector, w)
    /\ at["main"] \in {"clean", "use"} =>
        cache[Slot("main")].used /\ cache[Slot("main")].sector = req.sector

\* From the command to the test the interrupt is latched, taken or handled.
AnswerComes ==
    /\ ~halted
    /\ at["main"] = "rTest" =>
        has_ide_intr \/ pending = IDE_VECTOR \/ taken = IDE_VECTOR

ReadInv ==
    /\ TypeOK
    /\ NothingWrites
    /\ WritebackCounts
    /\ SlotsMirrorDisk
    /\ FillInStep
    /\ AnswerComes
=============================================================================
