------------------------- MODULE NemuInterruptProofs -------------------------
(***************************************************************************)
(* Proofs about NemuInterrupt, for any assignment of IRQ numbers in which  *)
(* the disk's is the highest, with or without the heartbeat thread.        *)
(***************************************************************************)
EXTENDS NemuInterrupt, TLAPS

\* Line numbers become vectors that are never the empty latch.
LEMMA VectorsAreNumbers ==
    /\ \A l \in Lines : l \in Nat /\ l + IRQ_BASE \in Vectors
    /\ \A v \in Vectors : v \in Nat /\ v # NoIntr /\ v - IRQ_BASE \in Lines
  BY LinesFitAByte DEF Vectors, NoIntr, IRQ_BASE, Lines

\* The arbitration of i8259_raise_intr leaves a vector in the latch: the old
\* one or a higher one, and a full latch never loses the disk's.
LEMMA ArbitrateLatches ==
  ASSUME NEW held \in Vectors \cup {NoIntr}, NEW line \in Lines
  PROVE  /\ Arbitrate(held, line) \in Vectors
         /\ held # NoIntr => Arbitrate(held, line) >= held
         /\ Arbitrate(held, line) # held => Arbitrate(held, line) = line + IRQ_BASE
         /\ held = IDE_IRQ + IRQ_BASE => Arbitrate(held, line) = held
  <1>1. /\ line \in Nat /\ line + IRQ_BASE \in Vectors /\ line <= IDE_IRQ
        /\ IDE_IRQ \in Nat /\ IDE_IRQ + IRQ_BASE # NoIntr
    BY VectorsAreNumbers, DiskIsHighest DEF Lines
  <1>2. CASE held = NoIntr
    BY <1>1, <1>2 DEF Arbitrate
  <1>3. CASE held # NoIntr
    <2>1. held \in Vectors /\ held \in Nat
      BY <1>3, VectorsAreNumbers
    <2>2. QED
      BY <1>1, <1>3, <2>1 DEF Arbitrate, IRQ_BASE
  <1>4. QED
    BY <1>2, <1>3

-----------------------------------------------------------------------------
\* Type correctness.

LEMMA InitTypeOK == Init => TypeOK
  <1> SUFFICES ASSUME Init PROVE TypeOK
    OBVIOUS
  <1>1. call \in [Threads -> {"idle", "lock"} \cup Critical]
    BY DEF Init
  <1>2. irq \in [Threads -> Lines]
    BY DEF Init, Lines
  <1>3. n \in 0..ExecMax
    BY ExecArgument DEF Init
  <1>4. frames \in Seq(Frame)
    BY DEF Init
  <1>5. QED
    BY <1>1, <1>2, <1>3, <1>4 DEF Init, TypeOK, Positions
LEMMA GuestTypeOK == TypeOK /\ Guest => TypeOK'
  <1> SUFFICES ASSUME TypeOK, Guest PROVE TypeOK'
    OBVIOUS
  <1> USE ExecArgument DEF TypeOK, Executes, At, Positions, LoopPositions, pic,
          guest, calls, audio
  <1>1. CASE GuestPlain
    BY <1>1 DEF GuestPlain
  <1>2. CASE GuestCliSti
    BY <1>2 DEF GuestCliSti
  <1>3. CASE GuestHlt
    BY <1>3 DEF GuestHlt
  <1>4. CASE GuestInt
    BY <1>4 DEF GuestInt, EnterGate, GateIF, Frame
  <1>5. CASE GuestIret
    <2>1. Len(frames) \in 1..Len(frames) /\ Innermost \in Frame
      BY <1>5 DEF GuestIret, Innermost
    <2>2. SubSeq(frames, 1, Len(frames) - 1) \in Seq(Frame)
      BY <2>1
    <2>3. QED
      BY <1>5, <2>1, <2>2 DEF GuestIret, Frame
  <1>6. CASE GuestDiskRead
    BY <1>6 DEF GuestDiskRead, StartRaise, Threads, Lines
  <1>7. CASE GuestAudioPlay
    <2>1. audio_active' \in BOOLEAN /\ hb' \in {"none", "loop", "done"}
      BY <1>7 DEF GuestAudioPlay
    <2>2. QED
      BY <1>7, <2>1 DEF GuestAudioPlay
  <1>8. CASE GuestTrap
    BY <1>8 DEF GuestTrap
  <1>9. QED
    BY <1>1, <1>2, <1>3, <1>4, <1>5, <1>6, <1>7, <1>8 DEF Guest

LEMMA LoopTypeOK == IndInv /\ Loop => TypeOK'
  <1> SUFFICES ASSUME IndInv, Loop PROVE TypeOK'
    OBVIOUS
  <1> TypeOK
    BY DEF IndInv
  <1> USE DEF TypeOK, At, Positions, LoopPositions, pic, guest, calls, audio
  <1>1. CASE SkipHalted \/ TimerQuiet \/ NoMoreEvents \/ QuitEvent
    BY <1>1 DEF SkipHalted, TimerQuiet, NoMoreEvents, QuitEvent
  <1>2. CASE TimerDue
    BY <1>2 DEF TimerDue, StartRaise, Threads, Lines
  <1>3. CASE KeyEvent
    BY <1>3 DEF KeyEvent, StartRaise, Threads, Lines, control
  <1>4. CASE CheckIntr
    <2>1. pc' \in {"query", "loop"} /\ is_nemu_hlt' \in BOOLEAN
      BY <1>4 DEF CheckIntr
    <2>2. QED
      BY <1>4, <2>1 DEF CheckIntr
  <1>5. CASE QueryIntr
    BY <1>5 DEF QueryIntr
  <1>6. CASE AckLock
    BY <1>6 DEF AckLock, Threads
  <1>7. CASE AckSlot \/ AckUnlock
    BY <1>7 DEF AckSlot, AckUnlock
  <1>12. CASE AckIntr
    <2>1. intr' \in BOOLEAN
      BY <1>12 DEF AckIntr
    <2>2. QED
      BY <1>12, <2>1 DEF AckIntr
  <1>8. CASE Deliver
    <2>1. taken \in Vectors
      BY <1>8 DEF Deliver, IndInv, TakenIsLatched
    <2>2. QED
      BY <1>8, <2>1 DEF Deliver, EnterGate, GateIF, Frame
  <1>9. CASE LeaveExec
    <2>1. /\ pc' \in {"closing", "monitor"} /\ pic_alive' \in BOOLEAN
          /\ nemu_state' \in {"READY", "RUN", "BREAK", "STOP"}
      BY <1>9 DEF LeaveExec
    <2>2. QED
      BY <1>9, <2>1 DEF LeaveExec
  <1>10. CASE AudioStop
    BY <1>10, ZenonT(40) DEF AudioStop
  <1>11. QED
    BY <1>1, <1>2, <1>3, <1>4, <1>5, <1>6, <1>7, <1>8, <1>9, <1>10, <1>12 DEF Loop

LEMMA RaiseTypeOK == ASSUME NEW t \in Threads PROVE TypeOK /\ Raise(t) => TypeOK'
  <1> SUFFICES ASSUME TypeOK, Raise(t) PROVE TypeOK'
    OBVIOUS
  <1> USE DEF TypeOK, guest, control, audio
  <1>1. CASE RaiseLock(t)
    BY <1>1 DEF RaiseLock, Critical
  <1>2. CASE RaiseSlot(t)
    BY <1>2, ArbitrateLatches, ZenonT(40) DEF RaiseSlot, Critical
  <1>3. CASE RaiseIntr(t)
    BY <1>3 DEF RaiseIntr, Critical
  <1>4. CASE RaiseUnlock(t)
    BY <1>4 DEF RaiseUnlock
  <1>5. QED
    BY <1>1, <1>2, <1>3, <1>4 DEF Raise

LEMMA StepTypeOK == IndInv /\ [Next]_vars => TypeOK'
  <1> SUFFICES ASSUME IndInv, [Next]_vars PROVE TypeOK'
    OBVIOUS
  <1> TypeOK
    BY DEF IndInv
  <1>1. CASE Guest
    BY <1>1, GuestTypeOK
  <1>2. CASE Loop
    BY <1>2, LoopTypeOK
  <1>3. CASE Monitor
    BY <1>3, ExecArgument DEF TypeOK, Monitor, MonitorExec, MonitorQuit, Positions,
          LoopPositions, pic, guest, audio, calls
  <1>4. CASE \E t \in Threads : Raise(t)
    BY <1>4, RaiseTypeOK
  <1>5. CASE RaiseOnDestroyed
    BY <1>5 DEF TypeOK, RaiseOnDestroyed, Threads, Critical, pic, guest, control, audio
  <1>6. CASE Heartbeat
    <2>1. /\ call' \in [Threads -> {"idle", "lock"} \cup Critical]
          /\ irq' \in [Threads -> Lines]
          /\ hb' \in {"none", "loop", "done"}
      BY <1>6 DEF TypeOK, Heartbeat, StartRaise, Threads, Lines, calls
    <2>2. QED
      BY <1>6, <2>1 DEF TypeOK, Heartbeat, pic, guest, control
  <1>7. CASE UNCHANGED vars
    BY <1>7 DEF TypeOK, vars, pic, guest, control, audio, calls
  <1>8. QED
    BY <1>1, <1>2, <1>3, <1>4, <1>5, <1>6, <1>7 DEF Next, Terminated, Threads

-----------------------------------------------------------------------------
\* The mutex excludes the two threads while it exists.
LEMMA StepMutexHeld == IndInv /\ [Next]_vars => MutexHeld'
  <1> SUFFICES ASSUME IndInv, [Next]_vars PROVE MutexHeld'
    OBVIOUS
  <1> USE DEF IndInv, TypeOK, MutexHeld, Threads, Critical, AckCritical, At,
          pic, guest, control, audio, calls
  <1>1. CASE Guest
    BY <1>1 DEF Guest, Executes, GuestPlain, GuestCliSti, GuestHlt, GuestInt,
          GuestIret, GuestDiskRead, GuestAudioPlay, GuestTrap, StartRaise
  <1>2. CASE Loop
    <2>1. CASE SkipHalted \/ TimerQuiet \/ NoMoreEvents \/ QuitEvent \/ CheckIntr
                 \/ QueryIntr \/ AudioStop \/ Deliver
      BY <2>1 DEF SkipHalted, TimerQuiet, NoMoreEvents, QuitEvent, CheckIntr,
            QueryIntr, AudioStop, Deliver
    <2>2. CASE TimerDue \/ KeyEvent
      BY <2>2 DEF TimerDue, KeyEvent, StartRaise
    <2>3. CASE AckLock \/ AckSlot \/ AckIntr \/ AckUnlock
      BY <2>3 DEF AckLock, AckSlot, AckIntr, AckUnlock
    <2>4. CASE LeaveExec
      BY <2>4 DEF LeaveExec
    <2>5. QED
      BY <1>2, <2>1, <2>2, <2>3, <2>4 DEF Loop
  <1>3. CASE Monitor
    BY <1>3 DEF Monitor, MonitorExec, MonitorQuit
  <1>4. ASSUME NEW t \in Threads, Raise(t) PROVE MutexHeld'
    BY <1>4 DEF Raise, RaiseLock, RaiseSlot, RaiseIntr, RaiseUnlock
  <1>5. CASE RaiseOnDestroyed
    BY <1>5 DEF RaiseOnDestroyed
  <1>6. CASE Heartbeat
    BY <1>6 DEF Heartbeat, StartRaise
  <1>7. CASE UNCHANGED vars
    BY <1>7 DEF vars
  <1>8. QED
    BY <1>1, <1>2, <1>3, <1>4, <1>5, <1>6, <1>7 DEF Next, Terminated

LEMMA StepHeartbeatCalls == IndInv /\ [Next]_vars => HeartbeatCalls'
  <1> SUFFICES ASSUME IndInv, [Next]_vars PROVE HeartbeatCalls'
    OBVIOUS
  <1> USE DEF IndInv, TypeOK, HeartbeatCalls, Threads, At,
          pic, guest, control, audio, calls
  <1>1. CASE Guest
    BY <1>1 DEF Guest, Executes, GuestPlain, GuestCliSti, GuestHlt, GuestInt,
          GuestIret, GuestDiskRead, GuestAudioPlay, GuestTrap, StartRaise
  <1>2. CASE Loop
    BY <1>2 DEF Loop, SkipHalted, TimerQuiet, TimerDue, KeyEvent, NoMoreEvents, QuitEvent,
          CheckIntr, QueryIntr, AckLock, AckSlot, AckIntr, AckUnlock, Deliver,
          LeaveExec, AudioStop, StartRaise
  <1>3. CASE Monitor
    BY <1>3 DEF Monitor, MonitorExec, MonitorQuit
  <1>4. ASSUME NEW t \in Threads, Raise(t) PROVE HeartbeatCalls'
    BY <1>4 DEF Raise, RaiseLock, RaiseSlot, RaiseIntr, RaiseUnlock
  <1>5. CASE RaiseOnDestroyed
    BY <1>5 DEF RaiseOnDestroyed
  <1>6. CASE Heartbeat
    BY <1>6 DEF Heartbeat, StartRaise
  <1>7. CASE UNCHANGED vars
    BY <1>7 DEF vars
  <1>8. QED
    BY <1>1, <1>2, <1>3, <1>4, <1>5, <1>6, <1>7 DEF Next, Terminated

-----------------------------------------------------------------------------
\* The signal follows the latch.
LEMMA StepSignal == IndInv /\ [Next]_vars => SignalInStep'
  <1> SUFFICES ASSUME IndInv, [Next]_vars PROVE SignalInStep'
    OBVIOUS
  <1> USE DEF IndInv, TypeOK, MutexHeld, SignalInStep, Threads, Critical, AckCritical,
          At, pic, guest, control, audio, calls
  <1>1. CASE Guest
    BY <1>1 DEF Guest, Executes, GuestPlain, GuestCliSti, GuestHlt, GuestInt,
          GuestIret, GuestDiskRead, GuestAudioPlay, GuestTrap, StartRaise
  <1>2. CASE Loop
    <2>1. CASE SkipHalted \/ TimerQuiet \/ NoMoreEvents \/ QuitEvent \/ AudioStop
                 \/ Deliver \/ LeaveExec
      BY <2>1 DEF SkipHalted, TimerQuiet, NoMoreEvents, QuitEvent, AudioStop,
            Deliver, LeaveExec
    <2>2. CASE TimerDue \/ KeyEvent
      BY <2>2 DEF TimerDue, KeyEvent, StartRaise
    <2>3. CASE CheckIntr \/ QueryIntr \/ AckLock
      BY <2>3 DEF CheckIntr, QueryIntr, AckLock
    <2>4. CASE AckSlot
      BY <2>4 DEF AckSlot
    <2>5. CASE AckIntr
      BY <2>5 DEF AckIntr
    <2>6. CASE AckUnlock
      BY <2>6 DEF AckUnlock
    <2>7. QED
      BY <1>2, <2>1, <2>2, <2>3, <2>4, <2>5, <2>6 DEF Loop
  <1>3. CASE Monitor
    BY <1>3 DEF Monitor, MonitorExec, MonitorQuit
  <1>4. ASSUME NEW t \in Threads, Raise(t) PROVE SignalInStep'
    <2>1. CASE RaiseLock(t) \/ RaiseIntr(t) \/ RaiseUnlock(t)
      BY <2>1 DEF RaiseLock, RaiseIntr, RaiseUnlock
    <2>2. CASE RaiseSlot(t)
      <3>1. intr_no' # NoIntr
        BY <2>2, ArbitrateLatches, VectorsAreNumbers DEF RaiseSlot
      <3>2. QED
        BY <2>2, <3>1 DEF RaiseSlot
    <2>3. QED
      BY <1>4, <2>1, <2>2 DEF Raise
  <1>5. CASE RaiseOnDestroyed
    BY <1>5 DEF RaiseOnDestroyed
  <1>6. CASE Heartbeat
    BY <1>6 DEF Heartbeat, StartRaise
  <1>7. CASE UNCHANGED vars
    BY <1>7 DEF vars
  <1>8. QED
    BY <1>1, <1>2, <1>3, <1>4, <1>5, <1>6, <1>7 DEF Next, Terminated

\* What do_intr queried survives until it is acknowledged, unless the
\* heartbeat puts its higher vector over it.
LEMMA StepTaken == IndInv /\ [Next]_vars => TakenIsLatched'
  <1> SUFFICES ASSUME IndInv, [Next]_vars PROVE TakenIsLatched'
    OBVIOUS
  <1> USE DEF IndInv, TypeOK, MutexHeld, TakenIsLatched, Threads, Critical, At,
          pic, guest, control, audio, calls
  <1>1. CASE Guest
    BY <1>1 DEF Guest, Executes, GuestPlain, GuestCliSti, GuestHlt, GuestInt,
          GuestIret, GuestDiskRead, GuestAudioPlay, GuestTrap, StartRaise
  <1>2. CASE Loop
    <2>1. CASE QueryIntr
      BY <2>1, VectorsAreNumbers DEF QueryIntr
    <2>2. CASE ~QueryIntr
      BY <1>2, <2>2 DEF Loop, SkipHalted, TimerQuiet, TimerDue, KeyEvent, NoMoreEvents,
            QuitEvent, CheckIntr, AckLock, AckSlot, AckIntr, AckUnlock, Deliver,
            LeaveExec, AudioStop, StartRaise
    <2>3. QED
      BY <2>1, <2>2
  <1>3. CASE Monitor
    BY <1>3 DEF Monitor, MonitorExec, MonitorQuit
  <1>4. ASSUME NEW t \in Threads, Raise(t) PROVE TakenIsLatched'
    <2>1. CASE RaiseLock(t) \/ RaiseIntr(t) \/ RaiseUnlock(t)
      BY <2>1 DEF RaiseLock, RaiseIntr, RaiseUnlock
    <2>2. CASE RaiseSlot(t) /\ pc \in {"ackLock", "ackSlot"}
      <3>1. t = "hb" /\ irq[t] = AUDIO_IRQ /\ HasAudio
        BY <2>2 DEF RaiseSlot, HeartbeatCalls
      <3>2. /\ intr_no' \in Vectors /\ intr_no' >= intr_no
            /\ intr_no' # intr_no => intr_no' = AUDIO_IRQ + IRQ_BASE
        BY <2>2, <3>1, ArbitrateLatches, VectorsAreNumbers DEF RaiseSlot
      <3>3. intr_no' \in Nat /\ intr_no \in Nat /\ taken \in Nat
        BY <2>2, <3>2, VectorsAreNumbers
      <3>4. QED
        BY <2>2, <3>1, <3>2, <3>3 DEF RaiseSlot
    <2>3. CASE RaiseSlot(t) /\ pc \notin {"ackLock", "ackSlot"}
      BY <2>3 DEF RaiseSlot
    <2>4. QED
      BY <1>4, <2>1, <2>2, <2>3 DEF Raise
  <1>5. CASE RaiseOnDestroyed
    BY <1>5 DEF RaiseOnDestroyed
  <1>6. CASE Heartbeat
    BY <1>6 DEF Heartbeat, StartRaise
  <1>7. CASE UNCHANGED vars
    BY <1>7 DEF vars
  <1>8. QED
    BY <1>1, <1>2, <1>3, <1>4, <1>5, <1>6, <1>7 DEF Next, Terminated

\* Nothing between the check and the gate touches IF: the loop executes no
\* instruction there.
LEMMA StepEnabled == IndInv /\ [Next]_vars => DeliveryEnabled'
  <1> SUFFICES ASSUME IndInv, [Next]_vars PROVE DeliveryEnabled'
    OBVIOUS
  <1> USE DEF IndInv, TypeOK, DeliveryEnabled, Threads, At, pic, guest, control, audio, calls
  <1>1. CASE Guest
    BY <1>1 DEF Guest, Executes, GuestPlain, GuestCliSti, GuestHlt, GuestInt,
          GuestIret, GuestDiskRead, GuestAudioPlay, GuestTrap
  <1>2. CASE Loop
    BY <1>2 DEF Loop, SkipHalted, TimerQuiet, TimerDue, KeyEvent, NoMoreEvents, QuitEvent,
          CheckIntr, QueryIntr, AckLock, AckSlot, AckIntr, AckUnlock, Deliver,
          LeaveExec, AudioStop
  <1>3. CASE Monitor
    BY <1>3 DEF Monitor, MonitorExec, MonitorQuit
  <1>4. ASSUME NEW t \in Threads, Raise(t) PROVE DeliveryEnabled'
    BY <1>4 DEF Raise, RaiseLock, RaiseSlot, RaiseIntr, RaiseUnlock
  <1>5. CASE RaiseOnDestroyed \/ Heartbeat
    BY <1>5 DEF RaiseOnDestroyed, Heartbeat
  <1>6. CASE UNCHANGED vars
    BY <1>6 DEF vars
  <1>7. QED
    BY <1>1, <1>2, <1>3, <1>4, <1>5, <1>6 DEF Next, Terminated

-----------------------------------------------------------------------------
\* Pushing a frame keeps the stack's shape when IF is set and the vector is
\* a line's, or when the stack is empty; popping restores the flag under it.
LEMMA StepHandlers == IndInv /\ [Next]_vars => HandlersDoNotNest'
  <1> SUFFICES ASSUME IndInv, [Next]_vars PROVE HandlersDoNotNest'
    OBVIOUS
  <1> frames \in Seq(Frame) /\ HandlersDoNotNest
    BY DEF IndInv, TypeOK
  <1>1. CASE UNCHANGED <<frames, eflags_IF>>
    BY <1>1 DEF HandlersDoNotNest
  <1>2. CASE GuestCliSti
    <2>1. \A i \in 1..Len(frames) : frames[i].vector \notin Vectors
      BY <1>2, NoLineIsSyscall DEF GuestCliSti, Mode, Innermost, HandlersDoNotNest
    <2>2. QED
      BY <1>2, <2>1 DEF GuestCliSti, HandlersDoNotNest
  <1>3. CASE GuestInt
    BY <1>3, NoLineIsSyscall DEF GuestInt, Mode, EnterGate, HandlersDoNotNest
  <1>4. CASE GuestIret
    BY <1>4 DEF GuestIret, Innermost, HandlersDoNotNest, Frame
  <1>5. CASE Deliver
    <2>1. pc = "gate" /\ eflags_IF /\ taken \in Vectors
      BY <1>5 DEF Deliver, At, IndInv, DeliveryEnabled, TakenIsLatched
    <2>2. \A i \in 1..Len(frames) : frames[i].vector = SYSCALL
      <3>1. \A i \in 1..Len(frames) : frames[i] \in Frame
        OBVIOUS
      <3>2. QED
        BY <2>1, <3>1 DEF HandlersDoNotNest, Frame
    <2>3. Len(frames) <= 1
      BY <2>2 DEF HandlersDoNotNest
    <2>4. /\ frames' = Append(frames, [vector |-> taken, flag |-> TRUE])
          /\ eflags_IF' = FALSE
      BY <1>5, <2>1 DEF Deliver, EnterGate, GateIF, IndInv, TypeOK
    <2>5. /\ Len(frames') = Len(frames) + 1
          /\ \A i \in 1..Len(frames) : frames'[i] = frames[i]
          /\ frames'[Len(frames) + 1] = [vector |-> taken, flag |-> TRUE]
      BY <2>4
    <2>6. QED
      BY <2>1, <2>2, <2>3, <2>4, <2>5, NoLineIsSyscall DEF HandlersDoNotNest
  <1>6. QED
    BY <1>1, <1>2, <1>3, <1>4, <1>5 DEF Next, Guest, GuestPlain, GuestHlt,
          GuestDiskRead, GuestAudioPlay, GuestTrap, Loop, SkipHalted, TimerQuiet, TimerDue,
          KeyEvent, NoMoreEvents, QuitEvent, CheckIntr, QueryIntr, AckLock, AckSlot, AckIntr,
          AckUnlock, LeaveExec, AudioStop, Monitor, MonitorExec, MonitorQuit,
          Raise, RaiseLock, RaiseSlot, RaiseIntr, RaiseUnlock, RaiseOnDestroyed,
          Heartbeat, Terminated, vars, guest

-----------------------------------------------------------------------------
\* IndInv is inductive and holds in every reachable state.
THEOREM Invariance == Spec => []IndInv
  <1>1. Init => IndInv
    BY InitTypeOK DEF Init, IndInv, MutexHeld, HeartbeatCalls, SignalInStep,
       TakenIsLatched, DeliveryEnabled, HandlersDoNotNest, Threads, Critical, AckCritical
  <1>2. IndInv /\ [Next]_vars => IndInv'
    BY StepTypeOK, StepMutexHeld, StepHeartbeatCalls, StepSignal, StepTaken,
       StepEnabled, StepHandlers DEF IndInv
  <1>3. QED
    BY <1>1, <1>2, PTL DEF Spec

\* The variables keep their types.
THEOREM TypeCorrect == Spec => []TypeOK
  <1>1. IndInv => TypeOK
    BY DEF IndInv
  <1>2. QED
    BY <1>1, Invariance, PTL

\* do_intr's assertion never fails.
THEOREM AssertionHolds == Spec => []SignalHasVector
  <1>1. IndInv => SignalHasVector
    BY DEF IndInv, SignalInStep, SignalHasVector
  <1>2. QED
    BY <1>1, Invariance, PTL

\* Outside the mutex the signal and the latch agree.
THEOREM LatchAgreement == Spec => []LatchAgrees
  <1>1. IndInv => LatchAgrees
    BY DEF IndInv, MutexHeld, SignalInStep, LatchAgrees, Threads, Critical, AckCritical
  <1>2. QED
    BY <1>1, Invariance, PTL

\* Hardware handlers never nest.
THEOREM HandlerNesting == Spec => []HandlersDoNotNest
  <1>1. IndInv => HandlersDoNotNest
    BY DEF IndInv
  <1>2. QED
    BY <1>1, Invariance, PTL

\* A latched disk interrupt is never displaced.
THEOREM DiskIrqNeverDisplaced == Spec => DiskIrqKept
  <1>1. IndInv /\ [Next]_vars =>
          [intr_no = IDE_IRQ + IRQ_BASE /\ intr_no' # intr_no
             => pc = "ackSlot" /\ taken = intr_no]_vars
    <2> SUFFICES ASSUME IndInv, Next, intr_no = IDE_IRQ + IRQ_BASE, intr_no' # intr_no
                 PROVE  pc = "ackSlot" /\ taken = intr_no
      BY DEF vars
    <2>1. CASE \E t \in Threads : RaiseSlot(t)
      BY <2>1, ArbitrateLatches DEF RaiseSlot, IndInv, TypeOK
    <2>2. CASE AckSlot
      BY <2>2, DiskIsNotAudio, LinesFitAByte
         DEF AckSlot, At, IndInv, TakenIsLatched, IRQ_BASE, Lines
    <2>3. QED
      BY <2>1, <2>2 DEF Next, Guest, Executes, GuestPlain, GuestCliSti, GuestHlt, GuestInt,
          GuestIret, GuestDiskRead, GuestAudioPlay, GuestTrap, Loop, SkipHalted, TimerQuiet,
          TimerDue, KeyEvent, NoMoreEvents, QuitEvent, CheckIntr, QueryIntr, AckLock, AckIntr,
          AckUnlock, Deliver, LeaveExec, AudioStop, Monitor, MonitorExec, MonitorQuit,
          Raise, RaiseLock, RaiseIntr, RaiseUnlock, RaiseOnDestroyed,
          Heartbeat, Terminated, vars, pic, Threads
  <1>2. QED
    BY <1>1, Invariance, PTL DEF Spec, DiskIrqKept

-----------------------------------------------------------------------------
\* Every step of the two threads is a step of the one-slot priority latch.
THEOREM LatchRefinement == Spec => ImplementsLatch
  <1>1. Init => Latch!Init
    BY DEF Init, Latch!Init
  <1>2. IndInv /\ [Next]_vars => [Latch!Next]_Latch!vars
    <2> SUFFICES ASSUME IndInv, [Next]_vars PROVE [Latch!Next]_Latch!vars
      OBVIOUS
    <2> USE DEF Latch!vars, At
    <2>1. ASSUME NEW t \in Threads, RaiseSlot(t) PROVE Latch!Next
      <3>1. /\ irq[t] \in Lines /\ irq[t] + IRQ_BASE \in Vectors
            /\ irq[t] \in Int /\ intr_no \in Int /\ NoIntr \in Int
        BY VectorsAreNumbers DEF IndInv, TypeOK, NoIntr
      <3>2. Latch!Raise(irq[t] + IRQ_BASE)
        BY <2>1, <3>1 DEF RaiseSlot, Arbitrate, Latch!Raise, control, IRQ_BASE
      <3>3. QED
        BY <3>1, <3>2 DEF Latch!Next
    <2>2. CASE AckSlot
      <3>1. /\ taken \in Vectors /\ intr_no \in Vectors /\ taken # NoIntr
            /\ intr_no # NoIntr
            /\ taken # intr_no =>
                HasAudio /\ intr_no = AUDIO_IRQ + IRQ_BASE /\ taken < intr_no
        BY <2>2, VectorsAreNumbers DEF AckSlot, IndInv, TakenIsLatched
      <3>2. CASE taken = intr_no
        BY <2>2, <3>1, <3>2 DEF AckSlot, Latch!Next, Latch!Take
      <3>3. CASE taken # intr_no
        BY <2>2, <3>1, <3>3 DEF AckSlot, Latch!Next, Latch!LosingTake
      <3>4. QED
        BY <3>2, <3>3
    <2>3. CASE Deliver
      <3>1. taken # NoIntr
        BY <2>3, VectorsAreNumbers DEF Deliver, IndInv, TakenIsLatched
      <3>2. QED
        BY <2>3, <3>1 DEF Deliver, Latch!Next, Latch!Dispatch, pic
    <2>4. CASE ~AckSlot /\ ~Deliver /\ ~(\E t \in Threads : RaiseSlot(t))
      BY <2>4 DEF Next, Guest, Executes, GuestPlain, GuestCliSti, GuestHlt, GuestInt,
          GuestIret, GuestDiskRead, GuestAudioPlay, GuestTrap, Loop, SkipHalted, TimerQuiet,
          TimerDue, KeyEvent, NoMoreEvents, QuitEvent, CheckIntr, QueryIntr, AckLock, AckIntr,
          AckUnlock, LeaveExec, AudioStop, Monitor, MonitorExec, MonitorQuit,
          Raise, RaiseLock, RaiseIntr, RaiseUnlock, RaiseOnDestroyed,
          Heartbeat, Terminated, vars, pic, control, Threads
    <2>5. QED
      BY <2>1, <2>2, <2>3, <2>4
  <1>3. QED
    BY <1>1, <1>2, Invariance, PTL DEF Spec, ImplementsLatch, Latch!Spec
=============================================================================
