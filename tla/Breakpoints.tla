------------------------------ MODULE Breakpoints ------------------------------
(***************************************************************************)
(* The monitor's breakpoints and watchpoints and the loop that runs the    *)
(* program under them (monitor/breakpoint.c, exec() in cpu/cpu.c).         *)
(*                                                                         *)
(* A breakpoint is an INT3 byte written over the first byte of an          *)
(* instruction.  Hitting it puts the original byte back and returns to the *)
(* monitor; the next exec() runs that instruction and then writes every    *)
(* INT3 again.                                                             *)
(*                                                                         *)
(* The program is a loop over the instructions 0 .. Length-1, and Handler  *)
(* is the one instruction (iret) of its interrupt handler.  The first byte *)
(* of the instruction at a is known by a.  The program does not write its  *)
(* own code, breakpoints are set on instructions, and every watchpoint     *)
(* watches the one variable x.                                             *)
(***************************************************************************)
EXTENDS Integers, Sequences, SequencesExt

CONSTANTS
    NR_BP,          \* size of the pool: 32
    Length,         \* instructions of the program
    OwnBreaks,      \* where the program itself says BREAK_POINT
    Traps,          \* its nemu_trap instructions
    Writers,        \* its instructions that change x
    Breakable,      \* where the user sets breakpoints
    Same,           \* the user may set two breakpoints at one address
    MaxWatch,       \* bound on the watchpoints listed at a time
    StepCounts,     \* the N of the `si N' the user enters
    Interrupts      \* a device may interrupt

Program == 0..(Length - 1)
Handler == Length
Addr    == 0..Length
NOs     == 0..(NR_BP - 1)
INT3    == -1
None    == -1
Forever == -1       \* the uint32_t of exec(-1), for `c'
Runs    == {Forever} \cup StepCounts

ASSUME Parameters ==
    /\ NR_BP \in Nat \ {0} /\ Length \in Nat \ {0, 1}
    /\ OwnBreaks \cup Traps \cup Writers \subseteq 0..(Length - 2)
    /\ Traps \cap Writers = {} /\ OwnBreaks \cap (Traps \cup Writers) = {}
    /\ Breakable \subseteq Addr
    /\ StepCounts \subseteq Nat \ {0}
    /\ MaxWatch \in Nat /\ {Same, Interrupts} \subseteq BOOLEAN

VARIABLES
    pool, head, free_,  \* bp_list, and its two lists of numbers
    mem,                \* first byte of every instruction
    x, eip,
    frame,              \* return address of the running handler, or None
    nemu_state, n,
    rerun,              \* hit_break_rerun
    pc                  \* where exec() is, or "monitor"

list == <<pool, head, free_>>
machine == <<x, eip, frame>>
vars == <<list, mem, machine, nemu_state, n, rerun, pc>>

Code(a) == IF a \in OwnBreaks THEN INT3 ELSE a

Init ==
    /\ pool = [p \in NOs |-> [type |-> "B", addr |-> 0, ori_byte |-> 0,
                              old_val |-> 0, in_use |-> FALSE]]
    /\ head = <<>> /\ free_ = [j \in 1..NR_BP |-> j - 1]
    /\ mem = [a \in Addr |-> Code(a)]
    /\ x = 0 /\ eip = 0 /\ frame = None
    /\ nemu_state = "READY" /\ n = 0 /\ rerun = FALSE /\ pc = "monitor"

-----------------------------------------------------------------------------
\* The list.

ListedAt(a) == {j \in DOMAIN head : pool[head[j]].type = "B" /\ pool[head[j]].addr = a}
Listed(a) == ListedAt(a) # {}
First(J) == head[CHOOSE j \in J : \A l \in J : j <= l]

Watched == {j \in DOMAIN head : pool[head[j]].type = "W"}

\* Commands of the monitor's user; ui_mainloop() returns when NEMU stops.
Command == pc = "monitor"

\* new_BP(), and the new head of the list.
Take(entry) ==
    /\ free_ # <<>>
    /\ pool' = [pool EXCEPT ![Head(free_)] = entry]
    /\ head' = <<Head(free_)>> \o head
    /\ free_' = Tail(free_)

SetBreakpoint(a) ==
    /\ Command
    /\ Same \/ ~Listed(a)
    /\ Take([type |-> "B", addr |-> a, ori_byte |-> mem[a], old_val |-> 0, in_use |-> TRUE])
    /\ mem' = [mem EXCEPT ![a] = INT3]
    /\ UNCHANGED <<machine, nemu_state, n, rerun, pc>>

SetWatchpoint ==
    /\ Command
    /\ Cardinality(Watched) < MaxWatch
    /\ Take([type |-> "W", addr |-> 0, ori_byte |-> 0, old_val |-> x, in_use |-> TRUE])
    /\ UNCHANGED <<mem, machine, nemu_state, n, rerun, pc>>

\* new_BP() asserts that the pool is not empty.
Exhausted ==
    /\ Command
    /\ free_ = <<>>
    /\ pc' = "aborted"
    /\ UNCHANGED <<list, mem, machine, nemu_state, n, rerun>>

\* Faulty variant: the byte under a deleted breakpoint stays INT3.
FreedLeavesINT3(p) == mem

\* What free_BP leaves in memory.
Freed(p) ==
    IF pool[p].type = "B" THEN [mem EXCEPT ![pool[p].addr] = pool[p].ori_byte] ELSE mem

Delete(j) ==
    /\ Command
    /\ pool' = [pool EXCEPT ![head[j]].in_use = FALSE]
    /\ mem' = Freed(head[j])
    /\ free_' = <<head[j]>> \o free_
    /\ head' = RemoveAt(head, j)
    /\ UNCHANGED <<machine, nemu_state, n, rerun, pc>>

\* Faulty variant: the list is not emptied.
AllDeleted == head

NoneListed == <<>>

\* The recursion frees the last one first, so the first one's byte stays.
DeleteAll ==
    /\ Command
    /\ head # <<>>
    /\ pool' = [p \in NOs |-> [pool[p] EXCEPT !.in_use = FALSE]]
    /\ mem' = [a \in Addr |-> IF Listed(a) THEN pool[First(ListedAt(a))].ori_byte
                                           ELSE mem[a]]
    /\ free_' = head \o free_
    /\ head' = NoneListed
    /\ UNCHANGED <<machine, nemu_state, n, rerun, pc>>

Quit ==
    /\ Command
    /\ pc' = "quit"
    /\ UNCHANGED <<list, mem, machine, nemu_state, n, rerun>>

-----------------------------------------------------------------------------
\* exec(), one iteration of its loop in four steps.

\* Faulty variant: the breakpoint that was hit is not written again.
ResumedNever == mem

\* resume_breakpoints()
Resumed == [a \in Addr |-> IF Listed(a) THEN INT3 ELSE mem[a]]

Exec(k) ==
    /\ Command
    /\ rerun' = (nemu_state = "BREAK")
    /\ nemu_state' = "RUN" /\ n' = k /\ pc' = "fetch"
    /\ UNCHANGED <<list, mem, machine>>

\* The end of exec() in state st, and ui_mainloop() after it.
Leave(st) ==
    /\ nemu_state' = IF st # "STOP" /\ n = 0 THEN "READY" ELSE st
    /\ pc' = IF st = "STOP" THEN "quit" ELSE "monitor"

Plain ==
    /\ mem[eip] # INT3
    /\ eip' = IF eip = Handler THEN frame ELSE (eip + 1) % Length
    /\ frame' = IF eip = Handler THEN None ELSE frame
    /\ x' = IF eip \in Writers THEN 1 - x ELSE x
    /\ nemu_state' \in IF eip \in Traps THEN {"RUN", "STOP"} ELSE {"RUN"}

BreakPoint ==
    /\ mem[eip] = INT3
    /\ eip' = eip + 1
    /\ nemu_state' = "BREAK"
    /\ UNCHANGED <<x, frame>>

ExecInst ==
    /\ pc = "fetch"
    /\ Plain \/ BreakPoint
    /\ n' = IF n > 0 THEN n - 1 ELSE n
    /\ mem' = IF rerun THEN Resumed ELSE mem
    /\ rerun' = FALSE
    /\ pc' = "break"
    /\ UNCHANGED list

\* Faulty variant: the original byte is not put back.
RestoredNothing(a) == mem

Restored(a) == [mem EXCEPT ![a] = pool[First(ListedAt(a))].ori_byte]

Back == eip - 1

FindBreakpoint ==
    /\ pc = "break"
    /\ IF nemu_state = "BREAK" /\ Listed(eip - 1)
       THEN mem' = Restored(eip - 1) /\ eip' = Back
       ELSE UNCHANGED <<mem, eip>>
    /\ pc' = "watch"
    /\ UNCHANGED <<list, x, frame, nemu_state, n, rerun>>

\* Faulty variant: a watchpoint already reported is a change.
ChangedStill == Watched

Changed == {j \in Watched : pool[head[j]].old_val # x}

ScanWatchpoint ==
    /\ pc = "watch"
    /\ IF Changed # {}
       THEN /\ pool' = [pool EXCEPT ![First(Changed)].old_val = x]
            /\ Leave("READY")
       ELSE pc' = "devices" /\ UNCHANGED <<pool, nemu_state>>
    /\ UNCHANGED <<head, free_, mem, machine, n, rerun>>

\* do_devices() and do_intr(): the window may be closed, and an interrupt
\* delivered.  The timer raises none unless NEMU runs; the keyboard and the
\* audio device may in any state.
Devices ==
    /\ pc = "devices"
    /\ \/ UNCHANGED <<eip, frame>>
       \/ Interrupts /\ frame = None /\ frame' = eip /\ eip' = Handler
    /\ \E st \in {nemu_state, "STOP"} :
         IF n # 0 /\ st = "RUN" THEN pc' = "fetch" /\ nemu_state' = st ELSE Leave(st)
    /\ UNCHANGED <<list, mem, x, n, rerun>>

Steps == ExecInst \/ FindBreakpoint \/ ScanWatchpoint \/ Devices

Edits ==
    \/ \E a \in Breakable : SetBreakpoint(a)
    \/ SetWatchpoint
    \/ \E j \in DOMAIN head : Delete(j)
    \/ DeleteAll

\* NEMU's process has ended.
Ended == pc \in {"quit", "aborted"} /\ UNCHANGED vars

Next == Edits \/ Exhausted \/ Quit \/ (\E k \in Runs : Exec(k)) \/ Steps \/ Ended

Spec == Init /\ [][Next]_vars

\* exec() does not pause, and the user keeps continuing.
FairSpec == Spec /\ WF_vars(Steps) /\ WF_vars(Exec(Forever))

-----------------------------------------------------------------------------
\* Properties.

Entry == [type : {"B", "W"}, addr : Addr, ori_byte : Addr \cup {INT3},
          old_val : {0, 1}, in_use : BOOLEAN]

\* The values of the variables; the addresses eip passes through on a hit
\* included (breakpoint.h, cpu.c).
TypeOK ==
    /\ pool \in [NOs -> Entry]
    /\ head \in Seq(NOs) /\ free_ \in Seq(NOs)
    /\ mem \in [Addr -> Addr \cup {INT3}]
    /\ x \in {0, 1} /\ eip \in 0..(Length + 1) /\ frame \in Program \cup {None}
    /\ pc = "fetch" => eip \in Addr /\ nemu_state = "RUN" /\ n # 0
    /\ nemu_state \in {"READY", "RUN", "BREAK", "STOP"} /\ n \in Int
    /\ rerun \in BOOLEAN
    /\ pc \in {"monitor", "fetch", "break", "watch", "devices", "quit", "aborted"}

\* No entry of the pool is lost, listed twice or both listed and free, and
\* exactly the listed ones are in use: what the assertions of new_BP, free_BP
\* and the list's walks rely on.
PoolPartition ==
    LET all == head \o free_
    IN  /\ Len(all) = NR_BP
        /\ {all[j] : j \in DOMAIN all} = NOs
        /\ \A p \in NOs : pool[p].in_use <=> \E j \in DOMAIN head : head[j] = p

\* Setting, hitting, passing and deleting breakpoints leaves the program as it
\* was: a byte that is not the program's own is an INT3 of a listed
\* breakpoint, which remembers the byte the program has there.
MemoryIsProgram ==
    /\ \A a \in Addr : mem[a] # Code(a) => mem[a] = INT3 /\ Listed(a)
    /\ \A j \in DOMAIN head :
         pool[head[j]].type = "B" => pool[head[j]].ori_byte = Code(pool[head[j]].addr)

\* What list_breakpoint calls enabled is armed: every listed breakpoint has its
\* INT3 in memory, except the one the program is stopped at, until exec() has
\* run the instruction under it.
EnabledIsArmed ==
    (pc = "fetch" /\ ~rerun) \/ (pc = "monitor" /\ nemu_state # "BREAK")
        => \A a \in Addr : Listed(a) => mem[a] = INT3

\* exec() never runs the instruction under a listed breakpoint without having
\* stopped there: only the first instruction after a stop may be one.
NoBreakpointRunThrough ==
    [][ExecInst /\ Listed(eip) /\ mem[eip] # INT3 => rerun]_vars

\* Once the program has ended in a trap or its window is closed, NEMU does not
\* go back to the monitor as if there were more to run.
StopIsFinal == [][nemu_state = "STOP" => nemu_state' = "STOP"]_vars

\* A user who keeps continuing gets past every breakpoint the program stops
\* at, unless she sets breakpoints for ever, or interrupts come for ever (one
\* that comes with each hit brings the program back to the same stop).
GetsPast ==
    \/ []<><<\E a \in Breakable : SetBreakpoint(a)>>_vars
    \/ []<><<Devices /\ frame' # frame>>_vars
    \/ \A a \in Breakable :
         (pc = "monitor" /\ nemu_state = "BREAK" /\ eip = a)
             ~> (pc \in {"quit", "aborted"} \/ (pc = "watch" /\ eip # a))
=============================================================================
