------------------------------- MODULE Programs -------------------------------
(***************************************************************************)
(* What programs do on the kernel, each on its own part of the machine:    *)
(* the credits player with the sound card (Audio), nemu-pal with its keys  *)
(* (PalKeys), and a program with its files (FileSystem: two files next to  *)
(* each other on the disk, a word of four bits, seeks that wrap around).  *)
(* NEMU loads one program, chosen at the start; the others' state stays    *)
(* as it is.                                                               *)
(***************************************************************************)
EXTENDS Audio, PalKeys, FileSystem, TLC

Sizes   == 0 :> 4 @@ 1 :> 2
Places  == 0 :> 0 @@ 1 :> 4
Offsets == {-5, -1, 2}

VARIABLE program

allVars == <<auVars, palVars, fsVars, program>>

CreditsStep(A) == program = "credits" /\ A /\ UNCHANGED <<palVars, fsVars, program>>
PalStep(A)     == program = "nemu-pal" /\ A /\ UNCHANGED <<auVars, fsVars, program>>
FilesStep(A)   == program = "files" /\ A /\ UNCHANGED <<auVars, palVars, program>>

Init == program \in {"credits", "nemu-pal", "files"} /\ AuInit /\ PalInit /\ FsInit

Next == CreditsStep(AuNext) \/ PalStep(PalNext) \/ FilesStep(FsNext)

\* The fairness of AuSpec and of PalSpec; nobody has to call the kernel.
Fairness ==
    /\ WF_allVars(CreditsStep(Callback)) /\ WF_allVars(CreditsStep(Monitor))
    /\ WF_allVars(CreditsStep(Program)) /\ WF_allVars(CreditsStep(timer_event))
    /\ SF_allVars(CreditsStep(LockChunk))
    /\ WF_allVars(PalStep(KeyHandler)) /\ WF_allVars(PalStep(PalLoop))

Spec == Init /\ [][Next]_allVars /\ Fairness
=============================================================================
