-------------------------------- MODULE Audio --------------------------------
(***************************************************************************)
(* NEMU's sound card, built without PA_ONLINE (device/dev/audio.c), and    *)
(* the player that feeds it (game/src/credits/credits.c).  Two chunks: SDL *)
(* plays one in the thread of fill_audio() while the program, in the       *)
(* emulator's own thread, fills the other; a monitor thread turns a switch *)
(* of the two into an interrupt, and the player answers an interrupt with  *)
(* the next stretch of its file.  Each chunk has a mutex; both indices,    *)
(* switch_buf and the interrupt request are shared without one.            *)
(*                                                                         *)
(* A step is what a thread does between two accesses to what is shared.    *)
(* While the program is inside the out instruction that copies a chunk no  *)
(* interrupt is taken.  A piece is what one call of fill_audio() plays.    *)
(* A chunk is known by the number of the stretch of the file in it: which  *)
(* of its bytes the two copying workers reach is left out, and so is the   *)
(* end of the emulator.                                                    *)
(***************************************************************************)
EXTENDS Integers

CONSTANTS
    PIECES,         \* pieces of a full chunk
    FileChunks      \* chunks in the file; fread() delivers nothing after them

ASSUME Recording == PIECES \in Nat \ {0} /\ FileChunks \in Nat \ {0}

Chunks == {0, 1}
Nobody == "nobody"

VARIABLES
    chunk,          \* per chunk, the number of the stretch in it
    audio_len,      \* per chunk, the pieces left
    audio_chunk_ready,
    play, fill,     \* audio_chunk_play_idx, audio_chunk_fill_idx
    mutex,          \* per chunk, who holds it
    switch_buf,
    started,        \* the monitor exists and the callback is not paused
    cb, mon, prog,  \* where each thread is
    asked,          \* the mutex the program asked for
    irq,            \* the audio interrupt is latched
    audio_reload,   \* credits.c
    read,           \* stretches read from the file
    left,           \* pieces of the stretch in the program's buffer
    due,            \* history: an interrupt no stretch was read for yet
    heard           \* history: the last piece played

cardVars == <<chunk, audio_len, audio_chunk_ready, play, fill, mutex, switch_buf, started>>
progVars == <<prog, asked, audio_reload, read, left>>
auVars == <<cardVars, cb, mon, irq, progVars, due, heard>>

AuInit ==
    /\ chunk = [c \in Chunks |-> 0] /\ audio_len = [c \in Chunks |-> 0]
    /\ audio_chunk_ready = [c \in Chunks |-> FALSE]
    /\ play = 0 /\ fill = 0 /\ mutex = [c \in Chunks |-> Nobody]
    /\ switch_buf = FALSE /\ started = FALSE
    /\ cb = "idle" /\ mon = "look" /\ prog = "start" /\ asked = 0 /\ irq = FALSE
    /\ audio_reload = FALSE /\ read = 0 /\ left = 0
    /\ due = FALSE /\ heard = <<0, PIECES>>

Lock(c, who) == mutex[c] = Nobody /\ mutex' = [mutex EXCEPT ![c] = who]
Unlock(c) == mutex' = [mutex EXCEPT ![c] = Nobody]

-----------------------------------------------------------------------------
\* fill_audio(), which SDL calls again and again.

cbSame == UNCHANGED <<started, mon, irq, progVars, due>>

FillAudio ==
    /\ started /\ cb = "idle"
    /\ cb' = IF play = fill THEN "assert" ELSE "lock"
    /\ UNCHANGED <<chunk, audio_len, audio_chunk_ready, play, fill, mutex, switch_buf, heard>>
    /\ cbSame

LockPlayed ==
    /\ cb = "lock" /\ Lock(play, "callback")
    /\ IF audio_len[play] > 0 /\ audio_chunk_ready[play]
       THEN cb' = "mix" /\ UNCHANGED audio_chunk_ready
       ELSE cb' = "wait" /\ audio_chunk_ready' = [audio_chunk_ready EXCEPT ![play] = FALSE]
    /\ UNCHANGED <<chunk, audio_len, play, fill, switch_buf, heard>> /\ cbSame

\* Faulty variant: the other chunk is taken, ready or not.
LockAny ==
    /\ cb = "wait" /\ Lock(fill, "callback")
    /\ cb' = "swap"
    /\ UNCHANGED <<chunk, audio_len, audio_chunk_ready, play, fill, switch_buf, heard>>
    /\ cbSame

\* The played chunk is empty: the other one is taken as soon as it is ready.
LockFilled ==
    /\ cb = "wait" /\ Lock(fill, "callback")
    /\ cb' = IF audio_chunk_ready[fill] THEN "swap" ELSE "release"
    /\ UNCHANGED <<chunk, audio_len, audio_chunk_ready, play, fill, switch_buf, heard>>
    /\ cbSame

\* Faulty variant: the loop looks again without unlocking.
SpinFilled ==
    /\ cb = "release"
    /\ cb' = IF audio_chunk_ready[fill] THEN "swap" ELSE "release"
    /\ UNCHANGED <<chunk, audio_len, audio_chunk_ready, play, fill, mutex, switch_buf, heard>>
    /\ cbSame

ReleaseFilled ==
    /\ cb = "release" /\ Unlock(fill)
    /\ cb' = "wait"
    /\ UNCHANGED <<chunk, audio_len, audio_chunk_ready, play, fill, switch_buf, heard>>
    /\ cbSame

SwapFill ==
    /\ cb = "swap" /\ cb' = "swapped"
    /\ fill' = play
    /\ UNCHANGED <<chunk, audio_len, audio_chunk_ready, play, mutex, switch_buf, heard>>
    /\ cbSame

SwapPlay ==
    /\ cb = "swapped" /\ cb' = "free"
    /\ play' = (play + 1) % 2
    /\ UNCHANGED <<chunk, audio_len, audio_chunk_ready, fill, mutex, switch_buf, heard>>
    /\ cbSame

\* Faulty variant: the mutex of the chunk that was played stays locked.
KeepOldPlayed ==
    /\ cb = "free" /\ cb' = "tell"
    /\ UNCHANGED <<chunk, audio_len, audio_chunk_ready, play, fill, mutex, switch_buf, heard>>
    /\ cbSame

FreeOldPlayed ==
    /\ cb = "free" /\ cb' = "tell"
    /\ Unlock(fill)
    /\ UNCHANGED <<chunk, audio_len, audio_chunk_ready, play, fill, switch_buf, heard>>
    /\ cbSame

Tell ==
    /\ cb = "tell" /\ cb' = "mix"
    /\ switch_buf' = TRUE
    /\ UNCHANGED <<chunk, audio_len, audio_chunk_ready, play, fill, mutex, heard>>
    /\ cbSame

\* SDL_MixAudio(): a piece is heard unless the chunk is empty.
Mix ==
    /\ cb = "mix" /\ cb' = "unlock"
    /\ IF audio_len[play] = 0 THEN UNCHANGED <<audio_len, heard>>
       ELSE /\ heard' = <<chunk[play], PIECES - audio_len[play] + 1>>
            /\ audio_len' = [audio_len EXCEPT ![play] = @ - 1]
    /\ UNCHANGED <<chunk, audio_chunk_ready, play, fill, mutex, switch_buf>> /\ cbSame

UnlockPlayed ==
    /\ cb = "unlock" /\ cb' = "idle"
    /\ Unlock(play)
    /\ UNCHANGED <<chunk, audio_len, audio_chunk_ready, play, fill, switch_buf, heard>>
    /\ cbSame

Callback == FillAudio \/ LockPlayed \/ LockFilled \/ ReleaseFilled \/ SwapFill
            \/ SwapPlay \/ FreeOldPlayed \/ Tell \/ Mix \/ UnlockPlayed

-----------------------------------------------------------------------------
InOut == prog \in {"asked", "copy", "ready", "length", "unlock"}

\* AUDIO_Monitor_Thread(): between instructions the acknowledgement of a timer
\* interrupt may empty the latch just when the request is in it (cpu.c:156).
Raise ==
    /\ started /\ mon = "look" /\ switch_buf
    /\ irq' = TRUE \/ (~InOut /\ irq' = irq)
    /\ mon' = "clear"
    /\ UNCHANGED <<cardVars, cb, progVars, due, heard>>

\* Faulty variant: the request is raised again and again.
LeaveSwitch ==
    /\ mon = "clear" /\ mon' = "look"
    /\ UNCHANGED <<cardVars, cb, irq, progVars, due, heard>>

ClearSwitch ==
    /\ mon = "clear" /\ mon' = "look"
    /\ switch_buf' = FALSE
    /\ UNCHANGED <<chunk, audio_len, audio_chunk_ready, play, fill, mutex, started, cb, irq,
                   progVars, due, heard>>

Monitor == Raise \/ ClearSwitch

-----------------------------------------------------------------------------
\* The player, and the out instructions it executes.

\* audio_pause(0): the first one asks for the first chunk.
audio_pause ==
    /\ prog = "start" /\ prog' = "hlt"
    /\ fill' = 1 /\ switch_buf' = TRUE /\ started' = TRUE
    /\ UNCHANGED <<chunk, audio_len, audio_chunk_ready, play, mutex, cb, mon, asked, irq,
                   audio_reload, read, left, due, heard>>

\* audio_event(), taken between any two instructions.
audio_event ==
    /\ irq /\ ~InOut /\ prog # "start"
    /\ irq' = FALSE /\ audio_reload' = TRUE /\ due' = TRUE
    /\ prog' = IF prog = "hlt" THEN "look" ELSE prog
    /\ UNCHANGED <<cardVars, cb, mon, asked, read, left, heard>>

\* The timer ends wait_intr() too.
timer_event ==
    /\ prog = "hlt" /\ prog' = "look"
    /\ UNCHANGED <<cardVars, cb, mon, irq, asked, audio_reload, read, left, due, heard>>

Runs == ~irq \/ InOut

progSame == UNCHANGED <<play, fill, switch_buf, started, cb, mon, irq, heard>>

\* fread() of the next stretch, which goes on until Out, or back to sleep.
Look ==
    /\ prog = "look" /\ Runs
    /\ IF audio_reload
       THEN /\ prog' = "out" /\ due' = FALSE
            /\ read' = IF read < FileChunks THEN read + 1 ELSE read
            /\ left' = IF read < FileChunks THEN PIECES ELSE 0
       ELSE prog' = "hlt" /\ UNCHANGED <<read, left, due>>
    /\ UNCHANGED <<chunk, audio_len, audio_chunk_ready, mutex, asked, audio_reload>> /\ progSame

Out ==
    /\ prog = "out" /\ Runs /\ prog' = "asked"
    /\ asked' = fill
    /\ UNCHANGED <<chunk, audio_len, audio_chunk_ready, mutex, audio_reload, read, left, due>>
    /\ progSame

LockChunk ==
    /\ prog = "asked" /\ Lock(asked, "program") /\ prog' = "copy"
    /\ UNCHANGED <<chunk, audio_len, audio_chunk_ready, asked, audio_reload, read, left, due>>
    /\ progSame

\* copy_audio_data(): the two workers have finished.
Copy ==
    /\ prog = "copy" /\ prog' = "ready"
    /\ chunk' = [chunk EXCEPT ![fill] = read]
    /\ UNCHANGED <<audio_len, audio_chunk_ready, mutex, asked, audio_reload, read, left, due>>
    /\ progSame

Ready ==
    /\ prog = "ready" /\ prog' = "length"
    /\ audio_chunk_ready' = [audio_chunk_ready EXCEPT ![fill] = TRUE]
    /\ UNCHANGED <<chunk, audio_len, mutex, asked, audio_reload, read, left, due>> /\ progSame

Length ==
    /\ prog = "length" /\ prog' = "unlock"
    /\ audio_len' = [audio_len EXCEPT ![fill] = left]
    /\ UNCHANGED <<chunk, audio_chunk_ready, mutex, asked, audio_reload, read, left, due>>
    /\ progSame

UnlockChunk ==
    /\ prog = "unlock" /\ prog' = "written"
    /\ Unlock(fill)
    /\ UNCHANGED <<chunk, audio_len, audio_chunk_ready, asked, audio_reload, read, left, due>>
    /\ progSame

ClearReload ==
    /\ prog = "written" /\ Runs /\ prog' = "hlt"
    /\ audio_reload' = FALSE
    /\ UNCHANGED <<chunk, audio_len, audio_chunk_ready, mutex, asked, read, left, due>>
    /\ progSame

Program == audio_pause \/ audio_event \/ Look \/ Out \/ LockChunk \/ Copy \/ Ready
            \/ Length \/ UnlockChunk \/ ClearReload

AuNext == Callback \/ Monitor \/ Program \/ timer_event

\* Every thread is scheduled, the timer goes on, and the callback sleeps
\* outside the mutex of the filled chunk, so that a program waiting for it
\* gets it.
AuSpec == AuInit /\ [][AuNext]_auVars
            /\ WF_auVars(Callback) /\ WF_auVars(Monitor) /\ WF_auVars(Program)
            /\ WF_auVars(timer_event) /\ SF_auVars(LockChunk)

-----------------------------------------------------------------------------
\* The variables have the types of the C declarations.
AuTypeOK ==
    /\ chunk \in [Chunks -> 0..FileChunks] /\ audio_len \in [Chunks -> 0..PIECES]
    /\ audio_chunk_ready \in [Chunks -> BOOLEAN]
    /\ play \in Chunks /\ fill \in Chunks /\ asked \in Chunks
    /\ mutex \in [Chunks -> {Nobody, "callback", "program"}]
    /\ {switch_buf, started, irq, audio_reload, due} \subseteq BOOLEAN
    /\ cb \in {"idle", "lock", "wait", "release", "swap", "swapped", "free", "tell", "mix",
               "unlock", "assert"}
    /\ mon \in {"look", "clear"}
    /\ prog \in {"start", "hlt", "look", "out", "asked", "copy", "ready", "length", "unlock",
                 "written"}
    /\ read \in 0..FileChunks /\ left \in {0, PIECES}
    /\ heard \in (0..FileChunks) \X (1..PIECES)

\* The program fills the chunk whose mutex it holds, although it reads the
\* index again after it got the mutex, and it is not the one that plays.
FillsWhatItLocked == prog \in {"copy", "ready", "length", "unlock"} =>
    mutex[fill] = "program" /\ asked = fill /\ play # fill

\* A mutex is held exactly while its holder is between lock and unlock, through
\* the swap of the two indices that name it; the callback never finds the two
\* indices equal, although it reads them without a mutex.
MutexesAreReturned ==
    /\ mutex[play] = "callback" <=> cb \in {"wait", "release", "swap", "swapped", "free",
                                            "tell", "mix", "unlock"}
    /\ mutex[fill] = "callback" <=> cb \in {"release", "swap", "swapped", "free"}
    /\ \A c \in Chunks : mutex[c] = "program"
            <=> c = fill /\ prog \in {"copy", "ready", "length", "unlock"}
    /\ cb # "assert"

\* No audio interrupt is latched while the player reads its file: the disk's
\* interrupts, which replace it in the one slot of the controller
\* (PriorityLatch), find none to displace.
ReadsUndisturbed == prog = "out" => ~irq

\* What is heard is what was written, piece after piece: nothing is played
\* twice, nothing is overwritten before it has been played.
HeardInOrder == [][heard' = heard
    \/ (heard[2] < PIECES /\ heard' = <<heard[1], heard[2] + 1>>)
    \/ (heard[2] = PIECES /\ heard' = <<heard[1] + 1, 1>>)]_auVars

\* The out instruction ends: the program never waits for a mutex for ever.
WritesEnd == prog = "asked" ~> prog = "written"

\* An audio interrupt makes the player load new data (credits.c:17-18).
EventsAreAnswered == due ~> ~due

-----------------------------------------------------------------------------
(***************************************************************************)
(* The inductive invariant.  A request for data is in one place at a time: *)
(* a swap of the chunks, switch_buf, the latch, the reload flag of a       *)
(* player that will look at it, or the write that answers it; and as long  *)
(* as it is anywhere the chunk to fill is not ready, so that the callback  *)
(* cannot take it and move the index the program has read.                 *)
(***************************************************************************)

Swapping == cb \in {"swapped", "free", "tell"}
Switched == switch_buf /\ mon = "look"
Flagged  == audio_reload /\ prog \in {"hlt", "look"}
Writing  == prog \in {"out", "asked", "copy"}
Holding  == prog \in {"copy", "ready", "length", "unlock"}

OneRequest ==
    /\ Swapping => ~Switched /\ ~irq /\ ~Flagged /\ ~Writing /\ ~Holding
    /\ Switched => ~irq /\ ~Flagged /\ ~Writing /\ ~Holding
    /\ irq => ~Flagged /\ ~Writing /\ ~Holding
    /\ Swapping \/ Switched \/ irq \/ Flagged \/ Writing
        => ~audio_chunk_ready[fill] /\ cb # "swap"

\* The chunk that plays is not the one to fill, but for a moment in a swap.
ChunksApart ==
    /\ prog = "start" => /\ ~started /\ cb = "idle" /\ mon = "look"
                         /\ play = 0 /\ ~switch_buf /\ ~irq /\ ~audio_reload
                         /\ \A c \in Chunks : mutex[c] = Nobody /\ ~audio_chunk_ready[c]
    /\ prog # "start" => (play = fill <=> cb = "swapped")
    /\ cb = "swapped" => \A c \in Chunks : mutex[c] = "callback"
    /\ cb \in {"wait", "release", "swap"} => ~audio_chunk_ready[play]
    /\ cb = "swap" => audio_chunk_ready[fill]

\* What the data looks like: the last piece heard is the one before the first
\* that is left in the playing chunk, and the stretch read last is that
\* chunk's or, once it is on its way to the other chunk, the next one.
Playing   == IF cb = "swapped" THEN (play + 1) % 2 ELSE play
Following == (Playing + 1) % 2
Carrying  == prog \in {"out", "asked", "copy", "ready"}
NextLen   == IF read = chunk[Playing] THEN 0 ELSE PIECES

InOrder ==
    /\ heard = IF audio_len[Playing] = 0 THEN <<chunk[Playing], PIECES>>
               ELSE IF audio_len[Playing] = PIECES THEN <<chunk[Playing] - 1, PIECES>>
               ELSE <<chunk[Playing], PIECES - audio_len[Playing]>>
    /\ audio_len[Playing] > 0 =>
            audio_chunk_ready[Playing] /\ cb \notin {"wait", "release", "swap"}
    /\ read = chunk[Playing]
            \/ (read = chunk[Playing] + 1 /\ (audio_chunk_ready[Following] \/ Carrying))
    /\ audio_chunk_ready[Following] \/ Carrying =>
            read = chunk[Playing] + 1 \/ read = FileChunks
    /\ Carrying \/ prog = "length" => left = NextLen
    /\ prog \in {"ready", "length"} \/ audio_chunk_ready[Following] => chunk[Following] = read
    /\ audio_chunk_ready[Following] /\ prog \notin {"ready", "length"} =>
            audio_len[Following] = NextLen

AuInv ==
    /\ AuTypeOK
    /\ MutexesAreReturned
    /\ ChunksApart
    /\ OneRequest
    /\ prog = "asked" => asked = fill
    /\ FillsWhatItLocked
    /\ InOrder
=============================================================================
