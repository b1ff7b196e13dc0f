------------------------------ MODULE IdeWriters ------------------------------
(***************************************************************************)
(* The IDE driver once something calls ide_write(), on a NEMU with or      *)
(* without the timer: without its periodic writeback the writer keeps to   *)
(* the device's protocol; with it some properties last up to the assertion *)
(* of the device that ends the behaviour.                                  *)
(***************************************************************************)
EXTENDS IdeDriver

\* Without the timer's writeback a dirty slot is refilled only after its content
\* went to the device.
FillsOverSentOnly == [][~timed => FillOverSent]_vars

-----------------------------------------------------------------------------
\* The inductive invariant.

Used(c) == cache[c].used

\* Without the timer the only interrupt is the disk's.
OnlyTheDisk ==
    /\ at["isr"] = "none"
    /\ {pending, taken} \subseteq {IDE_VECTOR, NoVector}

\* The device is ready outside a transfer: waitdisk() never spins.
ReadyBetween == status = "writing" => at["main"] = "wData"

\* A dirty slot is in use, and so is the one that is about to be dirty.
DirtyIsUsed ==
    /\ \A c \in Slots : cache[c].dirty => Used(c)
    /\ at["main"] \in {"clean", "use", "dirty"} => Used(Slot("main"))

\* The words a transfer has sent are the slot's; when the refill begins that is
\* all of them, or the slot was clean.
SentInStep ==
    LET c == cache[Slot("main")] IN
    /\ at["main"] = "wData" => \A w \in Words :
            w < i["main"] => received[c.sector][w] = c.content[w]
    /\ at["main"] \in ReadPositions \ {"rData"} /\ c.dirty =>
            received[c.sector] = c.content

WriterAlone ==
    /\ TypeOK
    /\ at["main"] = "idle" <=> req = NoRequest
    /\ OnlyTheDisk /\ ReadyBetween /\ DirtyIsUsed /\ SentInStep
    /\ DeviceAssertions /\ TransferOwnsDevice

\* With and without the timer the disk's answer comes before the program looks
\* for it; without it the writer has the device for itself.
WriterInv ==
    /\ at \in [Actors -> MainPositions \cup IsrPositions] /\ has_ide_intr \in BOOLEAN
    /\ AnswerComes
    /\ ~timed => WriterAlone
=============================================================================
