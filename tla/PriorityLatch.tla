---------------------------- MODULE PriorityLatch ----------------------------
(***************************************************************************)
(* What NEMU's interrupt path promises to a device and to the processor,   *)
(* with no threads, no mutex and no program counter in it.  One interrupt  *)
(* can be pending.  Raising another replaces it only by a higher number    *)
(* and otherwise does nothing: the lower one is gone, there is no request  *)
(* register behind the latch.  Taking an interrupt empties the latch; the  *)
(* vector that was taken is dispatched before the next one is taken.       *)
(*                                                                         *)
(* A vector in Async is raised by another thread than the processor's.     *)
(* The processor reads the latch and empties it in two steps, so a vector  *)
(* in Async that arrives in between is lost: LosingTake is the one way a   *)
(* pending vector may vanish without being taken.                          *)
(***************************************************************************)
EXTENDS Integers

CONSTANTS
    Vectors,  \* the vectors a device can raise
    Async,    \* those raised by a thread of their own
    NoVector  \* the empty latch

VARIABLES
    pending,  \* the latched vector
    taken     \* the vector being handed to the processor

vars == <<pending, taken>>

Init == pending = NoVector /\ taken = NoVector

Raise(v) ==
    /\ pending' = IF pending = NoVector \/ v > pending THEN v ELSE pending
    /\ UNCHANGED taken

Take ==
    /\ taken = NoVector /\ pending # NoVector
    /\ taken' = pending
    /\ pending' = NoVector

LosingTake ==
    /\ taken = NoVector /\ pending \in Async
    /\ \E v \in Vectors : v < pending /\ taken' = v
    /\ pending' = NoVector

Dispatch ==
    /\ taken # NoVector
    /\ taken' = NoVector
    /\ UNCHANGED pending

Next ==
    \/ \E v \in Vectors : Raise(v)
    \/ Take
    \/ LosingTake
    \/ Dispatch

Spec == Init /\ [][Next]_vars
=============================================================================
