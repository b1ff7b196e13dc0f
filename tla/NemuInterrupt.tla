---------------------------- MODULE NemuInterrupt ----------------------------
(***************************************************************************)
(* The interrupt path of NEMU: the i8259 latch and its mutex               *)
(* (device/i8259_pic.c), the loop of exec() with do_devices() and          *)
(* do_intr() (cpu/cpu.c), the gates of raise_intr() and iret, the devices  *)
(* polled by the loop (timer, keyboard, IDE), the audio heartbeat thread   *)
(* that raises IRQ 2 beside it, and the way the emulator shuts down.       *)
(*                                                                         *)
(* Two threads share the latch.  The CPU thread's position is pc; a call   *)
(* of i8259_raise_intr is a position of its own, call[t], since both       *)
(* threads run that code.  Between two positions a thread touches shared   *)
(* memory at most once (the binary's accesses are in source order).        *)
(*                                                                         *)
(* The guest is whatever program runs on the emulator; it appears as the   *)
(* instructions that touch this state, restricted only by what the kernel  *)
(* does: a hardware handler neither changes IF nor halts, and `int' comes  *)
(* from a program and not from the kernel.  Breakpoints and watchpoints    *)
(* live in another part of the emulator; only INT3's effect is here.       *)
(***************************************************************************)
EXTENDS Integers, Sequences

CONSTANTS
    TIMER_IRQ, KEYBOARD_IRQ, AUDIO_IRQ, IDE_IRQ,
    HasAudio,   \* HAS_DEVICE_AUDIO and PA_ONLINE: the heartbeat thread exists
    ExecMax     \* the largest argument of exec(): `c' passes 2^32 - 1

IRQ_BASE == 32
NoIntr   == 255
SYSCALL  == 128

Lines   == {TIMER_IRQ, KEYBOARD_IRQ, AUDIO_IRQ, IDE_IRQ}
Vectors == {l + IRQ_BASE : l \in Lines}

ASSUME LinesFitAByte == \A l \in Lines : l \in 0..(NoIntr - IRQ_BASE - 1)
ASSUME DiskIsNotAudio == IDE_IRQ # AUDIO_IRQ
ASSUME DiskIsHighest == \A l \in Lines : l <= IDE_IRQ
ASSUME NoLineIsSyscall == SYSCALL \notin Vectors
ASSUME ExecArgument == HasAudio \in BOOLEAN /\ ExecMax \in Nat \ {0}

Threads  == {"cpu", "hb"}
Critical == {"slot", "intr", "unlock"}          \* inside i8259_raise_intr
AckCritical == {"ackSlot", "ackIntr", "ackUnlock"}

VARIABLES
    intr_no,        \* i8259_intr_no, the one latched vector
    intr,           \* cpu.intr
    owner,          \* who holds i8259_mutex
    pic_alive,      \* i8259_mutex has not been destroyed
    eflags_IF,      \* cpu.eflags.IF
    is_nemu_hlt,
    nemu_state,
    n,              \* instructions left to exec()
    pc,             \* where the CPU thread is
    taken,          \* do_intr's local intr_no
    frames,         \* what raise_intr pushed and iret has not popped yet
    call, irq,      \* i8259_raise_intr, per thread: position and argument
    audio_active,
    hb              \* the heartbeat thread

pic     == <<intr_no, intr, owner, pic_alive>>
guest   == <<eflags_IF, is_nemu_hlt, frames>>
control == <<nemu_state, n, pc, taken>>
audio   == <<audio_active, hb>>
calls   == <<call, irq>>
vars    == <<pic, guest, control, audio, calls>>

Init ==
    /\ intr_no = NoIntr /\ intr = FALSE
    /\ owner = "free" /\ pic_alive = TRUE
    /\ eflags_IF = FALSE /\ is_nemu_hlt = FALSE /\ frames = <<>>
    /\ nemu_state = "READY" /\ n = 0 /\ pc = "monitor" /\ taken = NoIntr
    /\ call = [t \in Threads |-> "idle"]
    /\ irq = [t \in Threads |-> TIMER_IRQ]
    /\ audio_active = FALSE /\ hb = "none"

-----------------------------------------------------------------------------
\* i8259_raise_intr, run by thread t with argument irq[t].

\* The call is made; the caller resumes when the call is "idle" again.
StartRaise(t, line) ==
    /\ call' = [call EXCEPT ![t] = "lock"]
    /\ irq' = [irq EXCEPT ![t] = line]

\* Faulty variant: the last one always wins.
ArbitrateLastWins(held, line) == line + IRQ_BASE

\* A higher number wins the latch, an equal or lower one is dropped.
Arbitrate(held, line) ==
    IF held = NoIntr \/ line > held - IRQ_BASE THEN line + IRQ_BASE ELSE held

\* SDL_LockMutex succeeds on a live mutex nobody holds.
RaiseLock(t) ==
    /\ call[t] = "lock" /\ pic_alive /\ owner = "free"
    /\ owner' = t
    /\ call' = [call EXCEPT ![t] = "slot"]
    /\ UNCHANGED <<intr_no, intr, pic_alive, irq, guest, control, audio>>

\* The mutex was destroyed under the heartbeat: the freed mutex may seem to
\* lock, or the call fails and the loop returns because of NEMU_STOP.
RaiseOnDestroyed ==
    /\ call["hb"] = "lock" /\ ~pic_alive
    /\ \E next \in {"slot", "idle"} : call' = [call EXCEPT !["hb"] = next]
    /\ UNCHANGED <<pic, irq, guest, control, audio>>

RaiseSlot(t) ==
    /\ call[t] = "slot"
    /\ intr_no' = Arbitrate(intr_no, irq[t])
    /\ call' = [call EXCEPT ![t] = "intr"]
    /\ UNCHANGED <<intr, owner, pic_alive, irq, guest, control, audio>>

RaiseIntr(t) ==
    /\ call[t] = "intr"
    /\ intr' = TRUE
    /\ call' = [call EXCEPT ![t] = "unlock"]
    /\ UNCHANGED <<intr_no, owner, pic_alive, irq, guest, control, audio>>

RaiseUnlock(t) ==
    /\ call[t] = "unlock"
    /\ owner' = IF owner = t THEN "free" ELSE owner
    /\ call' = [call EXCEPT ![t] = "idle"]
    /\ UNCHANGED <<intr_no, intr, pic_alive, irq, guest, control, audio>>

Raise(t) ==
    \/ RaiseLock(t)
    \/ RaiseSlot(t)
    \/ RaiseIntr(t)
    \/ RaiseUnlock(t)

-----------------------------------------------------------------------------
\* Guest instructions: exec_inst() and the bookkeeping after it.

At(p) == pc = p /\ call["cpu"] = "idle"

Innermost == frames[Len(frames)]

Mode ==
    IF frames = <<>> THEN "program"
    ELSE IF Innermost.vector = SYSCALL THEN "syscall" ELSE "handler"

\* One turn of the loop with an instruction to execute; what it does not
\* mention it leaves alone.
Executes ==
    /\ At("loop") /\ n > 0 /\ nemu_state = "RUN" /\ ~is_nemu_hlt
    /\ n' = n - 1
    /\ pc' = "timer"
    /\ UNCHANGED <<pic, taken>>

\* raise_intr: push the old IF; an interrupt gate clears IF, a trap gate sets
\* it.  The kernel's IDT has interrupt gates for the four lines only.
GateIF(vector) == vector \notin Vectors

\* Faulty variant: an interrupt gate is entered like a trap gate.
EnterGateEnabled(vector) ==
    /\ frames' = Append(frames, [vector |-> vector, flag |-> eflags_IF])
    /\ eflags_IF' = TRUE

EnterGate(vector) ==
    /\ frames' = Append(frames, [vector |-> vector, flag |-> eflags_IF])
    /\ eflags_IF' = GateIF(vector)

GuestPlain ==
    /\ Executes
    /\ UNCHANGED <<guest, nemu_state, audio, calls>>

GuestCliSti ==
    /\ Executes /\ Mode # "handler"
    /\ eflags_IF' \in BOOLEAN
    /\ UNCHANGED <<is_nemu_hlt, frames, nemu_state, audio, calls>>

GuestHlt ==
    /\ Executes /\ Mode # "handler"
    /\ is_nemu_hlt' = TRUE
    /\ UNCHANGED <<eflags_IF, frames, nemu_state, audio, calls>>

GuestInt ==
    /\ Executes /\ Mode = "program"
    /\ EnterGate(SYSCALL)
    /\ UNCHANGED <<is_nemu_hlt, nemu_state, audio, calls>>

GuestIret ==
    /\ Executes /\ frames # <<>>
    /\ eflags_IF' = Innermost.flag
    /\ frames' = SubSeq(frames, 1, Len(frames) - 1)
    /\ UNCHANGED <<is_nemu_hlt, nemu_state, audio, calls>>

\* `out' of command 0x20 to the IDE command port: the data is there at once.
GuestDiskRead ==
    /\ Executes /\ Mode # "handler"
    /\ StartRaise("cpu", IDE_IRQ)
    /\ UNCHANGED <<guest, nemu_state, audio>>

\* `out' of 0 to AUDIO_CTL: the first one starts the heartbeat thread.
GuestAudioPlay ==
    /\ Executes /\ Mode = "program" /\ HasAudio
    /\ IF hb = "none"
       THEN audio_active' = TRUE /\ hb' = "loop"
       ELSE UNCHANGED audio
    /\ UNCHANGED <<guest, nemu_state, calls>>

\* nemu_trap stops the machine, INT3 breaks into the monitor.
GuestTrap ==
    /\ Executes
    /\ nemu_state' \in {"STOP", "BREAK"}
    /\ UNCHANGED <<guest, audio, calls>>

Guest ==
    \/ GuestPlain \/ GuestCliSti \/ GuestHlt \/ GuestInt \/ GuestIret
    \/ GuestDiskRead \/ GuestAudioPlay \/ GuestTrap

-----------------------------------------------------------------------------
\* The rest of exec()'s loop, and the two ends of exec().

\* A halted processor executes nothing but the devices still run.
SkipHalted ==
    /\ At("loop") /\ n > 0 /\ nemu_state = "RUN" /\ is_nemu_hlt
    /\ pc' = "timer"
    /\ UNCHANGED <<pic, guest, nemu_state, n, taken, audio, calls>>

\* do_timer, 10 ms not over yet, or over in a state timer_intr ignores.
TimerQuiet ==
    /\ At("timer")
    /\ pc' = "keyboard"
    /\ UNCHANGED <<pic, guest, nemu_state, n, taken, audio, calls>>

TimerDue ==
    /\ At("timer") /\ nemu_state = "RUN"
    /\ pc' = "keyboard"
    /\ StartRaise("cpu", TIMER_IRQ)
    /\ UNCHANGED <<pic, guest, nemu_state, n, taken, audio>>

\* do_keyboard polls until the event queue is empty.
KeyEvent ==
    /\ At("keyboard")
    /\ StartRaise("cpu", KEYBOARD_IRQ)
    /\ UNCHANGED <<pic, guest, control, audio>>

QuitEvent ==
    /\ At("keyboard")
    /\ nemu_state' = "STOP"
    /\ UNCHANGED <<pic, guest, n, pc, taken, audio, calls>>

NoMoreEvents ==
    /\ At("keyboard")
    /\ pc' = "intr"
    /\ UNCHANGED <<pic, guest, nemu_state, n, taken, audio, calls>>

\* Faulty variant: the halt flag is left set.
CheckIntrStaysHalted ==
    /\ At("intr")
    /\ pc' = IF intr /\ eflags_IF THEN "query" ELSE "loop"
    /\ UNCHANGED <<pic, guest, nemu_state, n, taken, audio, calls>>

\* do_intr: look at cpu.intr and IF without the mutex ...
CheckIntr ==
    /\ At("intr")
    /\ IF intr /\ eflags_IF
       THEN pc' = "query" /\ is_nemu_hlt' = FALSE
       ELSE pc' = "loop" /\ UNCHANGED is_nemu_hlt
    /\ UNCHANGED <<pic, eflags_IF, frames, nemu_state, n, taken, audio, calls>>

\* ... read the latch without it, and assert that it was not empty ...
QueryIntr ==
    /\ At("query")
    /\ taken' = intr_no
    /\ pc' = IF intr_no = NoIntr THEN "aborted" ELSE "ackLock"
    /\ UNCHANGED <<pic, guest, nemu_state, n, audio, calls>>

\* Faulty variants of the acknowledgement: the mutex is not taken; the latch
\* is not emptied.
AckWithoutLock ==
    /\ At("ackLock")
    /\ pc' = "ackSlot"
    /\ UNCHANGED <<pic, guest, nemu_state, n, taken, audio, calls>>

AckSlotKept ==
    /\ At("ackSlot")
    /\ pc' = "ackIntr"
    /\ UNCHANGED <<pic, guest, nemu_state, n, taken, audio, calls>>

\* ... empty the latch under the mutex ...
AckLock ==
    /\ At("ackLock") /\ owner = "free"
    /\ owner' = "cpu"
    /\ pc' = "ackSlot"
    /\ UNCHANGED <<intr_no, intr, pic_alive, guest, nemu_state, n, taken, audio, calls>>

AckSlot ==
    /\ At("ackSlot")
    /\ intr_no' = NoIntr
    /\ pc' = "ackIntr"
    /\ UNCHANGED <<intr, owner, pic_alive, guest, nemu_state, n, taken, audio, calls>>

AckIntr ==
    /\ At("ackIntr")
    /\ intr' = FALSE
    /\ pc' = "ackUnlock"
    /\ UNCHANGED <<intr_no, owner, pic_alive, guest, nemu_state, n, taken, audio, calls>>

AckUnlock ==
    /\ At("ackUnlock")
    /\ owner' = "free"
    /\ pc' = "gate"
    /\ UNCHANGED <<intr_no, intr, pic_alive, guest, nemu_state, n, taken, audio, calls>>

\* ... and enter the handler of the vector that was read.
Deliver ==
    /\ At("gate")
    /\ EnterGate(taken)
    /\ pc' = "loop"
    /\ UNCHANGED <<pic, is_nemu_hlt, nemu_state, n, taken, audio, calls>>

\* The loop ends: the PIC is destroyed on NEMU_STOP and ui_mainloop returns;
\* otherwise the monitor prompts again.
LeaveExec ==
    /\ At("loop") /\ (n = 0 \/ nemu_state # "RUN")
    /\ IF nemu_state = "STOP"
       THEN pic_alive' = FALSE /\ pc' = "closing" /\ UNCHANGED nemu_state
       ELSE /\ pic_alive' = pic_alive /\ pc' = "monitor"
            /\ nemu_state' = IF n = 0 THEN "READY" ELSE nemu_state
    /\ UNCHANGED <<intr_no, intr, owner, guest, n, taken, audio, calls>>

\* `c' and `si N' at the monitor's prompt, and `q'.
MonitorExec ==
    /\ At("monitor")
    /\ \E k \in 1..ExecMax : n' = k
    /\ nemu_state' = "RUN"
    /\ pc' = "loop"
    /\ UNCHANGED <<pic, guest, taken, audio, calls>>

MonitorQuit ==
    /\ At("monitor")
    /\ pc' = "closing"
    /\ UNCHANGED <<pic, guest, nemu_state, n, taken, audio, calls>>

\* close_sdl: only here is the heartbeat told to stop.
AudioStop ==
    /\ At("closing")
    /\ audio_active' = FALSE
    /\ pc' = "closed"
    /\ UNCHANGED <<pic, guest, nemu_state, n, taken, hb, calls>>

Loop ==
    \/ SkipHalted \/ TimerQuiet \/ TimerDue
    \/ KeyEvent \/ QuitEvent \/ NoMoreEvents
    \/ CheckIntr \/ QueryIntr \/ AckLock \/ AckSlot \/ AckIntr \/ AckUnlock
    \/ Deliver \/ LeaveExec \/ AudioStop

Monitor == MonitorExec \/ MonitorQuit

-----------------------------------------------------------------------------
\* AUDIO_HB_Thread: raise, sleep a second, while audio_active.

Heartbeat ==
    /\ hb = "loop" /\ call["hb"] = "idle"
    /\ IF audio_active
       THEN StartRaise("hb", AUDIO_IRQ) /\ UNCHANGED hb
       ELSE hb' = "done" /\ UNCHANGED calls
    /\ UNCHANGED <<pic, guest, control, audio_active>>

Terminated ==
    /\ pc = "closed" /\ hb \in {"none", "done"}
    /\ UNCHANGED vars

Next ==
    \/ Guest
    \/ Loop
    \/ Monitor
    \/ Raise("cpu")
    \/ Raise("hb")
    \/ RaiseOnDestroyed
    \/ Heartbeat
    \/ Terminated

Spec == Init /\ [][Next]_vars
(***************************************************************************)
(* Fairness.  Both threads are scheduled by the host.  A thread that waits *)
(* for the mutex gets it: each holder leaves within a few instructions and *)
(* the heartbeat then sleeps a second, so the mutex is free again and      *)
(* again.  Wall time advances, so do_timer's 10 ms are over again and      *)
(* again; the event queue is finite, so polling it ends.  Nothing is       *)
(* assumed of the user at the monitor.                                     *)
(***************************************************************************)
Fairness ==
    /\ WF_vars(Guest \/ Loop)
    /\ WF_vars(Raise("cpu")) /\ SF_vars(RaiseLock("cpu"))
    /\ SF_vars(AckLock)
    /\ WF_vars(Raise("hb")) /\ WF_vars(Heartbeat)
    /\ SF_vars(TimerDue) /\ SF_vars(NoMoreEvents)

FairSpec == Spec /\ Fairness

-----------------------------------------------------------------------------
Frame == [vector : Vectors \cup {SYSCALL}, flag : BOOLEAN]

LoopPositions == {"loop", "timer", "keyboard", "intr", "query", "ackLock",
                  "ackSlot", "ackIntr", "ackUnlock", "gate"}
Positions == LoopPositions \cup {"monitor", "closing", "closed", "aborted"}

\* The variables have the types the C declarations and the code give them.
TypeOK ==
    /\ intr_no \in Vectors \cup {NoIntr} /\ intr \in BOOLEAN
    /\ owner \in Threads \cup {"free"} /\ pic_alive \in BOOLEAN
    /\ eflags_IF \in BOOLEAN /\ is_nemu_hlt \in BOOLEAN /\ frames \in Seq(Frame)
    /\ nemu_state \in {"READY", "RUN", "BREAK", "STOP"}
    /\ n \in 0..ExecMax /\ pc \in Positions
    /\ taken \in Vectors \cup {NoIntr}
    /\ call \in [Threads -> {"idle", "lock"} \cup Critical]
    /\ irq \in [Threads -> Lines]
    /\ audio_active \in BOOLEAN /\ hb \in {"none", "loop", "done"}

\* do_intr's assertion (cpu.c:157): an interrupt that was signalled still has
\* a vector when do_intr reads the latch without the mutex, whatever the
\* heartbeat thread does in between.
SignalHasVector == pc = "query" => intr_no # NoIntr

\* What the mutex is there for (i8259_pic.c:25): outside its critical
\* sections a vector is latched exactly when the processor is signalled, so
\* neither a phantom interrupt nor a pending one nobody looks at.
LatchAgrees == pic_alive /\ owner = "free" => (intr <=> intr_no # NoIntr)

\* Interrupt gates and iret keep hardware handlers from nesting: at most one
\* is on the stack, on top, with interrupts off, over at most one syscall.
HandlersDoNotNest ==
    /\ Len(frames) <= 2
    /\ \A i \in 1..Len(frames) :
        frames[i].vector \in Vectors =>
            i = Len(frames) /\ ~eflags_IF /\ frames[i].flag
    /\ \A i, j \in 1..Len(frames) : frames[i].vector = frames[j].vector => i = j

\* A latched disk interrupt leaves the latch only by being the one taken:
\* no timer tick, key or heartbeat can displace the interrupt wait_ide_intr
\* sleeps for, although the latch has a single slot.
DiskIrqKept ==
    [][intr_no = IDE_IRQ + IRQ_BASE /\ intr_no' # intr_no
        => pc = "ackSlot" /\ taken = intr_no]_vars

\* A processor that halts with interrupts enabled is woken (by the next
\* tick at the latest) unless the machine stops: the hlt of wait_ide_intr
\* and of the games' main loops ends even when the awaited interrupt came
\* before the hlt.
HaltWakes ==
    (is_nemu_hlt /\ eflags_IF /\ nemu_state = "RUN")
        ~> (~is_nemu_hlt \/ nemu_state # "RUN")

\* A latched disk interrupt reaches its handler as long as the processor
\* keeps coming to do_intr with interrupts enabled.
DiskIrqDelivered ==
    []<>(pc = "intr" /\ eflags_IF) =>
        (intr_no = IDE_IRQ + IRQ_BASE ~> pc = "gate" /\ taken = IDE_IRQ + IRQ_BASE)

\* cpu.c:158 acknowledges "interrupt info received" and i8259_pic.h:15 says
\* the acknowledgement comes "after the cpu has received the interrupt": the
\* vector that is cleared is the one do_intr read.
AckClearsWhatWasTaken == [][pc = "ackSlot" /\ pc' # pc => intr_no = taken]_vars

-----------------------------------------------------------------------------
(***************************************************************************)
(* The inductive invariant behind the safety properties above.             *)
(***************************************************************************)

\* Who is inside the mutex, and where the CPU thread can be while it is
\* inside i8259_raise_intr or after the PIC is gone.
MutexHeld ==
    /\ call["cpu"] # "idle" => pc \in {"timer", "keyboard"}
    /\ ~pic_alive => pc \in {"closing", "closed"}
    /\ pic_alive =>
        /\ owner = "cpu" <=> call["cpu"] \in Critical \/ pc \in AckCritical
        /\ owner = "hb" <=> call["hb"] \in Critical

\* Only the heartbeat thread calls from beside the loop, with its own line.
HeartbeatCalls ==
    /\ hb # "none" => HasAudio
    /\ call["hb"] # "idle" => hb = "loop" /\ irq["hb"] = AUDIO_IRQ

\* How far the signal may lag behind the latch.
SignalInStep ==
    /\ intr => intr_no # NoIntr \/ pc = "ackIntr"
    /\ intr_no # NoIntr => intr \/ \E t \in Threads : call[t] = "intr"
    /\ \A t \in Threads : call[t] = "intr" => intr_no # NoIntr
    /\ pc \in {"query", "ackLock", "ackSlot"} => intr
    /\ pc = "ackIntr" => intr_no = NoIntr

\* What was queried is still latched, or an audio interrupt went over it.
TakenIsLatched ==
    /\ pc \in {"ackIntr", "ackUnlock", "gate"} => taken \in Vectors
    /\ pc \in {"ackLock", "ackSlot"} =>
        /\ taken \in Vectors /\ intr_no \in Vectors
        /\ taken # intr_no =>
            HasAudio /\ intr_no = AUDIO_IRQ + IRQ_BASE /\ taken < intr_no

\* IF stays set from the check to the gate.
DeliveryEnabled ==
    pc \in {"query", "ackLock", "ackSlot", "ackIntr", "ackUnlock", "gate"} => eflags_IF

\* The conjunction is inductive, and implies the invariants above.
IndInv ==
    /\ TypeOK
    /\ MutexHeld
    /\ HeartbeatCalls
    /\ SignalInStep
    /\ TakenIsLatched
    /\ DeliveryEnabled
    /\ HandlersDoNotNest

-----------------------------------------------------------------------------
\* The latch is emptied at AckSlot; from there to Deliver a vector is in hand.
Latch == INSTANCE PriorityLatch WITH
    Async    <- IF HasAudio THEN {AUDIO_IRQ + IRQ_BASE} ELSE {},
    NoVector <- NoIntr,
    pending  <- intr_no,
    taken    <- IF pc \in {"ackIntr", "ackUnlock", "gate"} THEN taken ELSE NoIntr

\* The threads, the mutex and the loop implement the one-slot priority latch;
\* without audio nothing is ever lost between the query and the
\* acknowledgement, and with it only an audio interrupt.
ImplementsLatch == Latch!Spec
=============================================================================
