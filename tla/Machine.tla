------------------------------- MODULE Machine -------------------------------
(***************************************************************************)
(* What an instruction of the guest relies on in NEMU, checked side by     *)
(* side: its way to its bytes through page tables and TLB (Paging), the    *)
(* data cache on that way (MemCache), and what it computes (Alu, Fpu).     *)
(* They are layers that share no state: a behaviour takes the steps of one *)
(* and leaves the others alone.  Paging takes for granted that memory      *)
(* returns what was stored, which is what MemCache is about.               *)
(***************************************************************************)
EXTENDS Paging, MemCache, Alu, Fpu

VARIABLE layer

machineVars == <<pgVars, cacheVars, aluVars, fpuVars, layer>>

\* A program whose data begins on the page on which its code ends.
TwoSegments == <<[vaddr |-> 14, filesz |-> 3, memsz |-> 3],
                 [vaddr |-> 17, filesz |-> 1, memsz |-> 3]>>

\* Floats of both signs, with the fractions that round up, down and to even,
\* from the denormals to the largest.
SomeFloats ==
    {[sign |-> 0, exponent |-> e, fraction |-> f] :
        e \in {0, 1, 3, 6}, f \in {0, 1, 7, 8, 11, 15}}
    \cup {[sign |-> 1, exponent |-> e, fraction |-> f] : e \in {0, 3}, f \in {0, 1}}
    \cup Infs \cup NaNs

Init ==
    /\ layer \in {"paging", "cache", "alu", "fpu"}
    /\ PgInit /\ CacheInit /\ AluInit /\ FpuInit

Next ==
    \/ layer = "paging" /\ PgNext /\ UNCHANGED <<cacheVars, aluVars, fpuVars, layer>>
    \/ layer = "cache" /\ CacheNext /\ UNCHANGED <<pgVars, aluVars, fpuVars, layer>>
    \/ layer = "alu" /\ AluNext /\ UNCHANGED <<pgVars, cacheVars, fpuVars, layer>>
    \/ layer = "fpu" /\ FpuNext /\ UNCHANGED <<pgVars, cacheVars, aluVars, layer>>

Spec == Init /\ [][Next]_machineVars

-----------------------------------------------------------------------------
\* The types, the frames that no two pages share and the translations in the TLB
\* (Paging), and the cache's inductive invariant (MemCache).
MachineInv == PagingInv /\ AluTypeOK /\ FpuTypeOK /\ CacheInv
=============================================================================
