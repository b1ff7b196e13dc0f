----------------------------- MODULE FileStreams -----------------------------
(***************************************************************************)
(* The files the kernel serves, as the programs see them: an open file has *)
(* a position within the file, a read delivers the bytes of that file from *)
(* the position on, in order, and moves the position past what it          *)
(* delivered; a seek moves the position to the place it names and delivers *)
(* nothing; no file affects another one.                                   *)
(*                                                                         *)
(* They deviate from the files of C in three ways, which are part of this  *)
(* specification: a read that reaches the end stops one byte short of it,  *)
(* so that the last byte is never delivered; a seek past the end, or from  *)
(* the start or the position to before the start, goes to the last byte;   *)
(* and one from the end to before the start goes to the end.               *)
(***************************************************************************)
EXTENDS Integers, Sequences

CONSTANTS
    Fds,        \* descriptors of files
    Length,     \* [Fds -> length of the file]
    Lens,       \* lengths a program reads
    Offsets     \* distances it seeks

VARIABLES
    open, pos,  \* per descriptor
    asked,      \* the last operation: which, of what file, for how many bytes
    got         \* the bytes it delivered, a byte being <<file, place>>

Nothing == [op |-> "none", fd |-> 0, len |-> 0]

Asks(op, f, len) == asked' = [op |-> op, fd |-> f, len |-> len]

Init ==
    /\ open = [f \in Fds |-> FALSE] /\ pos = [f \in Fds |-> 0]
    /\ asked = Nothing /\ got = <<>>

Open(f) ==
    /\ open' = [open EXCEPT ![f] = TRUE] /\ pos' = [pos EXCEPT ![f] = 0]
    /\ Asks("open", f, 0) /\ got' = <<>>

AtEnd(f) == pos[f] = Length[f]

\* What is delivered of len bytes from the position on.
Delivered(f, len) ==
    IF pos[f] + len < Length[f] THEN len
    ELSE IF AtEnd(f) THEN 0 ELSE Length[f] - pos[f] - 1

Read(f) ==
    /\ open[f]
    /\ \E len \in Lens : LET n == Delivered(f, len) IN
        /\ Asks("read", f, len)
        /\ got' = [j \in 1..n |-> <<f, pos[f] + j - 1>>]
        /\ pos' = [pos EXCEPT ![f] = @ + n]
    /\ UNCHANGED open

\* The place p of the file, or what is taken instead.
Place(f, p, otherwise) == IF p \in 0..(Length[f] - 1) THEN p ELSE otherwise

\* A seek from the position, which at the end of the file may go anywhere.
Around(f, off) ==
    IF AtEnd(f) THEN 0..(Length[f] - 1) ELSE {Place(f, pos[f] + off, Length[f] - 1)}

Seek(f) ==
    /\ \E off \in Offsets :
        \E p \in {Place(f, off, Length[f] - 1)} \cup Around(f, off)
                    \cup IF off <= 0 THEN {Place(f, Length[f] + off, Length[f])} ELSE {} :
            pos' = [pos EXCEPT ![f] = p]
    /\ Asks("lseek", f, 0) /\ got' = <<>>
    /\ UNCHANGED open

Close(f) ==
    /\ open' = [open EXCEPT ![f] = FALSE]
    /\ Asks("close", f, 0) /\ got' = <<>>
    /\ UNCHANGED pos

\* Anything else a program asks of the kernel, or an operation that stops it.
Other == asked' = Nothing /\ got' = <<>> /\ UNCHANGED <<open, pos>>

Next == (\E f \in Fds : Open(f) \/ Read(f) \/ Seek(f) \/ Close(f)) \/ Other

Spec == Init /\ [][Next]_<<open, pos, asked, got>>
=============================================================================
